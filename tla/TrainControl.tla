---------------------------- MODULE TrainControl ----------------------------
(***************************************************************************)
(* The server while trains are driven from the pages (cts.cpp, stc.cpp,    *)
(* speed.cpp): a request or a change of speed is carried out first, then   *)
(* WS_stc_UpdateTrain reads the train to build the message, and then sends *)
(* it to one client after the other.  Each client has a thread of its own, *)
(* the changes of speed are ticks of the scheduler's, and no lock is held. *)
(***************************************************************************)
EXTENDS Driving

CONSTANT
  Preempted     \* the other threads of the server run while one tells of a train

VARIABLE
  telling       \* the calls of WS_stc_UpdateTrain to be made, in the order of each thread

vars == <<drivingVars, telling>>

Init == DrivingInit /\ telling = <<>>

----------------------------------------------------------------------------
\* A thread, that of a page or (None) the scheduler's, will tell of t all but
\* some, after what it tells already.
Calling(calls, th, t, but) ==
  IF t = None THEN calls
  ELSE Append(calls, [thread |-> th, train |-> t, msg |-> None, left |-> Page \ but])

\* A thread has told all, and without preemption everybody else has, too.
Free(th) ==
  /\ \A i \in DOMAIN telling : telling[i].thread # th
  /\ ~Preempted => telling = <<>>

\* WS_cts_SetTrainSpeed
SetTrainSpeed(p, m) ==
  /\ Obey(m)
  /\ telling' = Calling(telling, p, m.train, {p})

\* Mutant: all are told but the page that asks, as of a speed.
SubscribeUntold(p, m) ==
  /\ Subscribe(p, m)
  /\ telling' = Calling(Calling(telling, p, m.trains[1], {p}), p, m.trains[2], {p})

\* WS_cts_TrainSubscribe: everybody is told of the trains.
TrainSubscribe(p, m) ==
  /\ Subscribe(p, m)
  /\ telling' = Calling(Calling(telling, p, m.trains[1], {}), p, m.trains[2], {})

\* The thread of a page takes the next message.
Serve(p) ==
  /\ toServer[p] # <<>>
  /\ Free(p)
  /\ toServer' = [toServer EXCEPT ![p] = Tail(@)]
  /\ LET m == Head(toServer[p])
     IN IF m.op = "speed" THEN SetTrainSpeed(p, m) ELSE TrainSubscribe(p, m)
  /\ UNCHANGED <<view, slider, timer, toPage, bounds>>

\* train_speed_event_tick
Change(t, v) ==
  /\ Free(None)
  /\ Step(t, v)
  /\ telling' = Calling(telling, None, t, {})
  /\ UNCHANGED <<view, slider, timer, toServer, toPage, turned>>

----------------------------------------------------------------------------
\* WS_stc_UpdateTrain, the first call of a thread

First(i) == \A j \in 1..(i - 1) : telling[j].thread # telling[i].thread

\* The message is built of what the train does now ...
Build(i) ==
  /\ First(i)
  /\ telling[i].msg = None
  /\ telling' = [telling EXCEPT ![i].msg = UpdateOf(telling[i].train, speed, dir)]
  /\ UNCHANGED drivingVars

\* ... a client gets it if it is subscribed to the train now ...
Send(i, q) ==
  /\ First(i)
  /\ telling[i].msg # None
  /\ q \in telling[i].left
  /\ telling' = [telling EXCEPT ![i].left = @ \ {q}]
  /\ toPage' = IF telling[i].train \in subscribed[q]
               THEN [toPage EXCEPT ![q] = Append(@, telling[i].msg)] ELSE toPage
  /\ UNCHANGED <<view, slider, timer, toServer, server, bounds>>

\* ... and the call returns.
Return(i) ==
  /\ First(i)
  /\ telling[i].msg # None
  /\ telling[i].left = {}
  /\ telling' = RemoveAt(telling, i)
  /\ UNCHANGED drivingVars

----------------------------------------------------------------------------
Next ==
  \/ UserOrPage /\ UNCHANGED telling
  \/ telling = <<>> /\ Times /\ UNCHANGED telling   \* bound: as MaxBacklog
  \/ \E p \in Page : Serve(p)
  \/ \E t \in Train, v \in Speed : Change(t, v)
  \/ \E t \in Train : Free(None) /\ Turn(t) /\ UNCHANGED telling
  \/ \E i \in DOMAIN telling : Build(i)
  \/ \E i \in DOMAIN telling, q \in Page : Send(i, q)
  \/ \E i \in DOMAIN telling : Return(i)

Spec == Init /\ [][Next]_vars

----------------------------------------------------------------------------
\* A call to be made: by whom, of which train, what was built, for whom still.
Call == [thread : Page \cup {None}, train : Train, msg : ToPage \cup {None}, left : SUBSET Page]

TypeOK == DrivingTypeOK /\ telling \in Seq(Call)

\* What a page has been told or is yet to be of the calls under way: without
\* preemption there are two at most, of one thread, and the trains stay as they are.
Heard(line, q, i) ==
  IF i \in DOMAIN telling /\ q \in telling[i].left /\ telling[i].train \in subscribed[q]
  THEN Append(line, UpdateOf(telling[i].train, speed, dir)) ELSE line
told == [q \in Page |-> Heard(Heard(toPage[q], q, 1), q, 2)]

\* Nothing is under way.
Quiet == telling = <<>> /\ \A p \in Page : toServer[p] = <<>> /\ toPage[p] = <<>>

\* The pages that only watch a train show its speed once nothing is under way,
\* in whatever order requests, changes, subscriptions and updates cross on their
\* way, as long as the threads of the server do not preempt each other; if they
\* do, the older of two speeds may be the last a page is told.
WatchersFollow ==
  Quiet => \A p \in Page \ Driver : \A b \in Box :
    train[p][b] \notin turned \cup {None} => state[p][train[p][b]].speed = speed[train[p][b]]

\* The pages that drive do so too (WS_stc_UpdateTrain leaves out the page
\* that asked).
DriversFollow ==
  Quiet => \A p \in Driver : \A b \in Box :
    (train[p][b] # None /\ fingers[p] = 0) => state[p][train[p][b]].speed = speed[train[p][b]]
=============================================================================
