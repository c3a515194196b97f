------------------------------ MODULE Driving ------------------------------
(***************************************************************************)
(* Driving trains from the pages: the two train boxes of a page with their *)
(* speed sliders and the timer that sends the speed while a slider is held *)
(* (train.js), and the messages between the pages and the server           *)
(* (socket.js).                                                            *)
(*                                                                         *)
(* With them goes an abstract server: one that changes a train and tells   *)
(* everybody subscribed to it in one step (AtOnce).  It is what a reader of*)
(* the pages may take the server for, and not what its code does, which is *)
(* in TrainControl.                                                        *)
(*                                                                         *)
(* All trains are linked.  What Train::setSpeed and Train::reverse do with *)
(* the request is TrainSpeed's; here a train takes the speed it is given,  *)
(* and a request to turn it is refused or makes it stop and then turn.     *)
(***************************************************************************)
EXTENDS Integers, Sequences, FiniteSets

CONSTANTS
  Page,         \* the pages
  Driver,       \* the pages whose users touch the sliders
  Train,        \* the trains
  Speed,        \* the speeds of a train, 0 among them
  Fingers,      \* how many fingers a user has on the page at once
  MaxEvents,    \* bound: how often users do anything but lift a finger, and the
                \*   program changes the speed of a train itself
  MaxBacklog,   \* bound: messages under way to or from a page when a timer fires
  None          \* no train

\* What is assumed of them in the theorems about them.
ControlAssumption == 0 \in Speed /\ None \notin Train /\ Fingers \in Nat

Box == {1, 2}

VARIABLES
  train,      \* Train_Control.train of a page: the train in each box
  state,      \* the speed and direction a page has for each train (Train.engines)
  fingers,    \* how many fingers are on the sliders of a page
  handlers,   \* the boxes whose handler is bound to the body of the page
  timers,     \* the boxes whose timeouts wait to send their speed, oldest first
  current,    \* whether Train_Control.timer is the last of them
  toServer, toPage,    \* what is under way
  speed, dir,          \* Train::speed and dir
  turning,             \* trains with SpeedState STOPPING_REVERSE
  subscribed,          \* Client::subscribedTrains of each page
  turned,              \* the trains whose direction button was clicked
  events

slider == <<fingers, handlers>>
timer == <<timers, current>>
view == <<train, state>>
server == <<speed, dir, turning, subscribed>>
bounds == <<turned, events>>
drivingVars == <<view, slider, timer, toServer, toPage, server, bounds>>

DrivingInit ==
  /\ train = [p \in Page |-> [b \in Box |-> None]]
  /\ state = [p \in Page |-> [t \in Train |-> [speed |-> 0, dir |-> 0]]]
  /\ fingers = [p \in Page |-> 0]
  /\ handlers = [p \in Page |-> {}]
  /\ timers = [p \in Page |-> <<>>]
  /\ current = [p \in Page |-> FALSE]
  /\ toServer = [p \in Page |-> <<>>]
  /\ toPage = [p \in Page |-> <<>>]
  /\ speed = [t \in Train |-> 0]
  /\ dir = [t \in Train |-> 0]
  /\ turning = {}
  /\ subscribed = [p \in Page |-> {}]
  /\ turned = {}
  /\ events = 0

----------------------------------------------------------------------------
\* The page

\* A sequence without its last member and without its i-th, as in SequencesExt,
\* whose many other operators the theorems have no use for.
Front(s) == SubSeq(s, 1, Len(s) - 1)
RemoveAt(s, i) == SubSeq(s, 1, i - 1) \o SubSeq(s, i + 1, Len(s))

\* send_speed of a box: the speed of its train, if it has one, as the page has it
\* in st.
Request(st, t) == [op |-> "speed", train |-> t, speed |-> st[t].speed, dir |-> st[t].dir]
Requests(p, st, b) == IF train[p][b] = None THEN <<>> ELSE <<Request(st, train[p][b])>>

\* set_speed of the boxes bs to v.
SetSpeed(p, bs, v) ==
  state' = [state EXCEPT ![p] =
    [t \in Train |-> IF \E b \in bs : train[p][b] = t THEN [@[t] EXCEPT !.speed = v] ELSE @[t]]]

\* A finger comes down on the slider of a box: a timeout, whose number
\* replaces that of the one before, and the handler, bound once more.
Press(p, b, v) ==
  /\ p \in Driver
  /\ fingers[p] < Fingers
  /\ events < MaxEvents
  /\ events' = events + 1
  /\ fingers' = [fingers EXCEPT ![p] = @ + 1]
  /\ handlers' = [handlers EXCEPT ![p] = @ \cup {b}]
  /\ timers' = [timers EXCEPT ![p] = Append(@, b)]
  /\ current' = [current EXCEPT ![p] = TRUE]
  /\ SetSpeed(p, {b}, v)
  /\ UNCHANGED <<train, toServer, toPage, server, turned>>

\* A finger moves: every handler that is bound hears of it.
Move(p, v) ==
  /\ fingers[p] > 0 /\ handlers[p] # {}
  /\ events < MaxEvents
  /\ events' = events + 1
  /\ SetSpeed(p, handlers[p], v)
  /\ UNCHANGED <<train, slider, timer, toServer, toPage, server, turned>>

\* A finger is lifted: every handler that is bound unbinds all of them, sends
\* its speed, clears Train_Control.timer, and sends once more.
Release(p) ==
  /\ fingers[p] > 0
  /\ fingers' = [fingers EXCEPT ![p] = @ - 1]
  /\ handlers' = [handlers EXCEPT ![p] = {}]
  /\ IF handlers[p] # {}
     THEN /\ timers' = [timers EXCEPT ![p] = IF current[p] THEN Front(@) ELSE @]
          /\ current' = [current EXCEPT ![p] = FALSE]
          /\ LET twice(b) == IF b \in handlers[p] THEN Requests(p, state[p], b) \o Requests(p, state[p], b)
                             ELSE <<>>
             IN toServer' = [toServer EXCEPT ![p] = @ \o twice(1) \o twice(2)]
     ELSE UNCHANGED <<timers, current, toServer>>
  /\ UNCHANGED <<view, toPage, server, bounds>>

\* Mutant: Train_Control.timer is not the new timeout.
TimeOutUnstored(p, i) ==
  /\ \A q \in Page : Len(toServer[q]) < MaxBacklog /\ Len(toPage[q]) < MaxBacklog
  /\ LET b == timers[p][i]
     IN timers' = [timers EXCEPT ![p] = Append(RemoveAt(@, i), b)]
  /\ current' = [current EXCEPT ![p] = FALSE]
  /\ UNCHANGED <<view, slider, toServer, toPage, server, bounds>>

\* The i-th timeout sends the speed of its box and starts another, which
\* becomes Train_Control.timer; that of an empty box ends.
TimeOut(p, i) ==
  /\ \A q \in Page : Len(toServer[q]) < MaxBacklog /\ Len(toPage[q]) < MaxBacklog
  /\ LET b == timers[p][i]
         others == RemoveAt(timers[p], i)
     IN IF train[p][b] = None
        THEN /\ timers' = [timers EXCEPT ![p] = others]
             /\ current' = [current EXCEPT ![p] = @ /\ i # Len(timers[p])]
             /\ UNCHANGED toServer
        ELSE /\ timers' = [timers EXCEPT ![p] = Append(others, b)]
             /\ current' = [current EXCEPT ![p] = TRUE]
             /\ toServer' = [toServer EXCEPT ![p] = @ \o Requests(p, state[p], b)]
  /\ UNCHANGED <<view, slider, toPage, server, bounds>>

\* The button Stop: set_stop.
Stop(p, b) ==
  /\ p \in Driver
  /\ train[p][b] # None
  /\ events < MaxEvents
  /\ events' = events + 1
  /\ SetSpeed(p, {b}, 0)
  /\ toServer' = [toServer EXCEPT ![p] = @ \o Requests(p, state'[p], b)]
  /\ UNCHANGED <<train, slider, timer, toPage, server, turned>>

\* A direction button: set_dir and send_speed both send.
SetDir(p, b, d) ==
  /\ p \in Driver
  /\ train[p][b] # None
  /\ train[p][b] \notin turned
  /\ events < MaxEvents
  /\ events' = events + 1
  /\ turned' = turned \cup {train[p][b]}
  /\ state' = [state EXCEPT ![p][train[p][b]].dir = d]
  /\ toServer' = [toServer EXCEPT ![p] = @ \o Requests(p, state'[p], b) \o Requests(p, state'[p], b)]
  /\ UNCHANGED <<train, slider, timer, toPage, server>>

\* select_train: the box shows what the page has of the train, and the page
\* subscribes to the trains of its boxes.
Select(p, b, t) ==
  /\ events < MaxEvents
  /\ events' = events + 1
  /\ train' = [train EXCEPT ![p][b] = t]
  /\ toServer' = [toServer EXCEPT ![p] =
       Append(@, [op |-> "subscribe", trains |-> [train[p] EXCEPT ![b] = t]])]
  /\ UNCHANGED <<state, slider, timer, toPage, server, turned>>

\* The page is told of a train that one of its boxes has.
Update(p) ==
  /\ toPage[p] # <<>>
  /\ toPage' = [toPage EXCEPT ![p] = Tail(@)]
  /\ LET m == Head(toPage[p])
     IN state' = IF \E b \in Box : train[p][b] = m.train
                 THEN [state EXCEPT ![p][m.train] = [speed |-> m.speed, dir |-> m.dir]]
                 ELSE state
  /\ UNCHANGED <<train, slider, timer, toServer, server, bounds>>

----------------------------------------------------------------------------
\* What the server does to trains

\* WS_stc_UpdateTrain builds this of a train.
UpdateOf(t, speeds, dirs) == [train |-> t, speed |-> speeds[t], dir |-> dirs[t]]

\* WS_cts_SetTrainSpeed.  In the other direction, a train that is to stand is
\* stopped and may turn at once; one that is to run is refused, or is to stop
\* and turn first and may run until it does.
Obey(m) ==
  /\ UNCHANGED subscribed
  /\ IF m.dir = dir[m.train]
     THEN /\ speed' = [speed EXCEPT ![m.train] = m.speed]
          /\ UNCHANGED <<dir, turning>>
     ELSE \/ /\ speed' = [speed EXCEPT ![m.train] = 0]
             /\ dir' \in IF m.speed = 0 THEN {dir, [dir EXCEPT ![m.train] = m.dir]} ELSE {dir}
             /\ UNCHANGED turning
          \/ /\ speed' = [speed EXCEPT ![m.train] = m.speed]
             /\ turning' = turning \cup {m.train}
             /\ UNCHANGED dir

\* WS_cts_TrainSubscribe
Subscribe(p, m) ==
  /\ subscribed' = [subscribed EXCEPT ![p] = {m.trains[b] : b \in Box} \ {None}]
  /\ UNCHANGED <<speed, dir, turning>>

\* train_speed_event_tick: the next step of a change of speed.
Step(t, v) ==
  /\ events < MaxEvents
  /\ events' = events + 1
  /\ v # speed[t]
  /\ speed' = [speed EXCEPT ![t] = v]
  /\ UNCHANGED <<dir, turning, subscribed>>

\* The tick that ends STOPPING_REVERSE: nobody is told.
Turn(t) ==
  /\ t \in turning
  /\ turning' = turning \ {t}
  /\ speed' = [speed EXCEPT ![t] = 0]
  /\ dir' = [dir EXCEPT ![t] = 1 - @]
  /\ UNCHANGED <<view, slider, timer, toServer, toPage, subscribed, bounds>>

----------------------------------------------------------------------------
\* The abstract server: all that are subscribed to t, but some, are told of a
\* change in the step that makes it.
Tell(t, subs, but) ==
  [p \in Page |-> IF t \in subs[p] /\ p \notin but THEN Append(toPage[p], UpdateOf(t, speed', dir')) ELSE toPage[p]]

SpeedAtOnce(p, m) ==
  /\ Obey(m)
  /\ toPage' = Tell(m.train, subscribed, {p})

\* What is under way to a page, and then an update of t if it is subscribed to it.
Updated(line, trains, t) ==
  IF t # None /\ t \in trains THEN Append(line, UpdateOf(t, speed', dir')) ELSE line

\* Everybody subscribed to the trains is told of them.
SubscribeAtOnce(p, m) ==
  /\ Subscribe(p, m)
  /\ toPage' = [q \in Page |->
       Updated(Updated(toPage[q], subscribed'[q], m.trains[1]), subscribed'[q], m.trains[2])]

ServeAtOnce(p) ==
  /\ toServer[p] # <<>>
  /\ toServer' = [toServer EXCEPT ![p] = Tail(@)]
  /\ LET m == Head(toServer[p])
     IN IF m.op = "speed" THEN SpeedAtOnce(p, m) ELSE SubscribeAtOnce(p, m)
  /\ UNCHANGED <<view, slider, timer, bounds>>

ChangeAtOnce(t, v) ==
  /\ Step(t, v)
  /\ toPage' = Tell(t, subscribed, {})
  /\ UNCHANGED <<view, slider, timer, toServer, turned>>

----------------------------------------------------------------------------
\* What users and pages do, but for the timeouts.
UserOrPage ==
  \/ \E p \in Page, b \in Box, v \in Speed : Press(p, b, v)
  \/ \E p \in Page, v \in Speed : Move(p, v)
  \/ \E p \in Page : Release(p)
  \/ \E p \in Page, b \in Box : Stop(p, b)
  \/ \E p \in Page, b \in Box, d \in {0, 1} : SetDir(p, b, d)
  \/ \E p \in Page, b \in Box, t \in Train : Select(p, b, t)
  \/ \E p \in Page : Update(p)

Times == \E p \in Page : \E i \in DOMAIN timers[p] : TimeOut(p, i)

DrivingNext ==
  \/ UserOrPage
  \/ Times
  \/ \E p \in Page : ServeAtOnce(p)
  \/ \E t \in Train, v \in Speed : ChangeAtOnce(t, v)
  \/ \E t \in Train : Turn(t)

AtOnce == DrivingInit /\ [][DrivingNext]_drivingVars

----------------------------------------------------------------------------
\* What is under way
ToServer ==
  [op : {"speed"}, train : Train, speed : Speed, dir : {0, 1}]
    \cup [op : {"subscribe"}, trains : [Box -> Train \cup {None}]]
ToPage == [train : Train, speed : Speed, dir : {0, 1}]

DrivingTypeOK ==
  /\ train \in [Page -> [Box -> Train \cup {None}]]
  /\ state \in [Page -> [Train -> [speed : Speed, dir : {0, 1}]]]
  /\ fingers \in [Page -> 0..Fingers]
  /\ handlers \in [Page -> SUBSET Box]
  /\ timers \in [Page -> Seq(Box)]
  /\ current \in [Page -> BOOLEAN] /\ \A p \in Page : current[p] => timers[p] # <<>>
  /\ toServer \in [Page -> Seq(ToServer)]
  /\ toPage \in [Page -> Seq(ToPage)]
  /\ speed \in [Train -> Speed]
  /\ dir \in [Train -> {0, 1}]
  /\ turning \subseteq Train
  /\ subscribed \in [Page -> SUBSET Train]

\* With one finger at a time: a page whose slider nobody holds has no timeout
\* left that goes on sending its speed, and one whose slider is held has at
\* most one (press, the handlers and the timeout of train.js).
HeldSends == \A p \in Page : Len(timers[p]) <= fingers[p]
=============================================================================
