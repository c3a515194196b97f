------------------------------ MODULE TrainSpeed ------------------------------
(***************************************************************************)
(* The speed of one train (src/src/rollingstock/train/speed.cpp): the      *)
(* states of SpeedState, changeSpeed, which the algorithm thread and       *)
(* Train_ContinueCheck call, the speed event the scheduler thread runs,    *)
(* and clients that set a speed (websocket/cts.cpp).                       *)
(*                                                                         *)
(* None of these takes a mutex the others take.  Speeds are a few steps    *)
(* from a stand to MaxSpeed, and distances are only told apart; none is 0, *)
(* since blocks have a length.  The train is assigned, initialized and     *)
(* under automatic control.                                                *)
(***************************************************************************)
EXTENDS Integers

CONSTANTS
  MaxSpeed,    \* Train::MaxSpeed
  Distance,    \* the distances of requests
  Near,        \* the distance Train_ContinueCheck gives (50 cm)
  Steps,       \* bound: the most steps a change of speed is made in
  Clients,     \* whether clients set the speed of the train
  Preempted    \* whether threads run between the steps of another one

ASSUME SpeedAssumption == MaxSpeed \in Nat \ {0} /\ Steps \in Nat \ {0} /\ Near \in Distance

VARIABLES
  T,       \* the Train: the fields below
  signal,  \* the speed the block of the signal allows (getSpeed)
  way,     \* what ContinueCheck answers
  event,   \* where train_speed_event_tick is
  call     \* where each thread is in changeSpeed

vars == <<T, signal, way, event, call>>

Speed == 0..MaxSpeed

\* Who calls changeSpeed: train_control, or Train_ContinueCheck in the thread
\* that also runs the speed event
Caller == {"algorithm", "scheduler"}

\* enum _TrainSpeedStates
StoppedState == {"idle", "stopping", "stopping_reverse", "stopping_wait", "waiting",
                 "waiting_destination"}
MovingState == {"driving", "changing", "update"}
SpeedState == StoppedState \cup MovingState \cup {"resuming"}

Reason == {"none", "signal", "maxspeed", "route"}

\* The states that end by a tick of the speed event
TickedState == {"stopping", "stopping_reverse", "stopping_wait", "changing", "update"}

\* No tick is under way.
Rest == [step |-> "rest", speed |-> 0]

Init ==
  /\ T = [state |-> "idle", stopped |-> TRUE, speed |-> 0, engine |-> 0,
          expected |-> FALSE, parked |-> TRUE, armed |-> FALSE, left |-> 1,
          target |-> 0, distance |-> 0, reason |-> "none"]
  /\ signal = 0
  /\ way = FALSE
  /\ event = Rest
  /\ call = [c \in Caller |-> "rest"]

Undisturbed == Preempted \/ (event = Rest /\ \A c \in Caller : call[c] = "rest")

-----------------------------------------------------------------------------
(* Train::setStopped, _setSpeed, setSpeed *)

\* enableEvent and disableEvent of the speed event
Arm(x) == [x EXCEPT !.armed = TRUE]
Disarm(x) == [x EXCEPT !.armed = FALSE]

\* Mutant: a parked train that starts is expected nowhere.
SetStoppedUnexpected(x, stop) ==
  LET y == [x EXCEPT !.stopped = stop]
  IN CASE x.state = "idle" -> [y EXCEPT !.parked = stop, !.state = IF stop THEN @ ELSE "resuming"]
       [] x.state = "driving" /\ stop -> Arm([y EXCEPT !.state = "stopping"])
       [] OTHER -> y

SetStopped(x, stop) ==
  LET y == [x EXCEPT !.stopped = stop]
  IN CASE x.state = "idle" /\ stop -> [y EXCEPT !.expected = FALSE, !.parked = TRUE]
       [] x.state = "idle" /\ ~stop ->
            [y EXCEPT !.state = "resuming", !.expected = TRUE, !.parked = FALSE]
       [] x.state = "driving" /\ stop -> Arm([y EXCEPT !.state = "stopping"])
       [] OTHER -> y

\* _setSpeed: setStopped, then applySpeed, which gives it to the engine too
ApplySpeed(x, v) == [SetStopped(x, v = 0) EXCEPT !.speed = v, !.engine = v]

\* setSpeed: a standing train is only started when ContinueCheck finds a way.
SetSpeed(x, v, safe) == IF x.stopped /\ v > 0 /\ ~safe THEN x ELSE ApplySpeed(x, v)

\* Train::reverse, whose blocks are turned at once when the train stands
Reverse(x) ==
  IF x.speed # 0 THEN [ApplySpeed(x, 0) EXCEPT !.state = "stopping_reverse"]
  ELSE IF x.state = "stopping" THEN [x EXCEPT !.state = "stopping_reverse"]
  ELSE ApplySpeed(x, 0)

-----------------------------------------------------------------------------
(* changeSpeed *)

\* A request for the speed the train has, or the one already recorded, is
\* dropped.
Dropped(r) ==
  \/ r.target = T.speed
  \/ r = [target |-> T.target, distance |-> T.distance, reason |-> T.reason]

Record(c, r) ==
  /\ Undisturbed /\ call[c] = "rest" /\ ~Dropped(r)
  /\ T' = [T EXCEPT !.target = r.target, !.distance = r.distance, !.reason = r.reason]
  /\ call' = [call EXCEPT ![c] = "recorded"]

\* train_control asks for a lower speed for any reason, and for a higher one
\* when no change is under way.
Control ==
  \E r \in [target : Speed, distance : Distance, reason : Reason \ {"none"}] :
    /\ r.target > T.speed => r.reason = "maxspeed" /\ T.state \notin {"changing", "update"}
    /\ Record("algorithm", r)
    /\ signal' = IF r.reason = "signal" THEN r.target ELSE signal
    /\ UNCHANGED <<way, event>>

\* Train_ContinueCheck: the stopped train has a way, and is to go on slowly.
Continue ==
  /\ event = Rest /\ T.stopped /\ way
  /\ Record("scheduler", [target |-> 1, distance |-> Near, reason |-> "maxspeed"])
  /\ UNCHANGED <<signal, way, event>>

\* The switch over SpeedState: a request made in any other state than these is
\* only recorded.
SwitchState(c) ==
  /\ call[c] = "recorded"
  /\ \/ /\ T.state \in {"idle", "waiting"}
        /\ T' = SetStopped(T, FALSE)
        /\ call' = [call EXCEPT ![c] = "start"]
     \/ /\ T.state = "driving"
        /\ call' = [call EXCEPT ![c] = "start"]
        /\ UNCHANGED T
     \/ /\ T.state = "changing"
        /\ call' = [call EXCEPT ![c] = "update"]
        /\ UNCHANGED T
     \/ /\ T.state \notin {"idle", "waiting", "driving", "changing"}
        /\ call' = [call EXCEPT ![c] = "rest"]
        /\ UNCHANGED T
  /\ UNCHANGED <<signal, way, event>>

\* Mutant: a change may be left with no step at all.
CalcZero(x, n) == [x EXCEPT !.left = n - 1]

\* train_speed_event_calc: how many steps the change takes, unless there is
\* nothing to change.
Calc(x, n) ==
  IF x.target = x.speed THEN [x EXCEPT !.state = "driving"] ELSE [x EXCEPT !.left = n]

\* Mutant: the event is left as it was.
StartChangeUnarmed(c) ==
  /\ call[c] = "start"
  /\ \E n \in 1..Steps : T' = Calc([T EXCEPT !.state = "changing"], n)
  /\ call' = [call EXCEPT ![c] = "rest"]
  /\ UNCHANGED <<signal, way, event>>

\* train_speed_event_init
StartChange(c) ==
  /\ call[c] = "start"
  /\ \E n \in 1..Steps : T' = Arm(Calc([T EXCEPT !.state = "changing"], n))
  /\ call' = [call EXCEPT ![c] = "rest"]
  /\ UNCHANGED <<signal, way, event>>

UpdateChange(c) ==
  /\ call[c] = "update"
  /\ T' = [T EXCEPT !.state = "update"]
  /\ call' = [call EXCEPT ![c] = "rest"]
  /\ UNCHANGED <<signal, way, event>>

-----------------------------------------------------------------------------
(* train_speed_event_tick *)

\* A tick begins when the event is enabled, in the scheduler's thread.
Ticks == Undisturbed /\ T.armed /\ event = Rest /\ call["scheduler"] = "rest"

\* The 1.5 s after the last step are over: the train is parked or waits.
Settle ==
  /\ Ticks
  /\ \/ /\ T.state = "stopping"
        /\ T' = ApplySpeed([T EXCEPT !.state = "idle"], 0)
     \/ /\ T.state = "stopping_reverse"
        /\ T' = Reverse(ApplySpeed([T EXCEPT !.state = "idle"], 0))
     \/ /\ T.state = "stopping_wait"
        /\ \E s \in {"waiting", "waiting_destination"} :
             T' = ApplySpeed([T EXCEPT !.state = s], 0)
     \/ /\ T.state \notin TickedState
        /\ UNCHANGED T
  /\ event' = [step |-> "disable", speed |-> 0]
  /\ UNCHANGED <<signal, way, call>>

\* The speeds between the present one and the target
Between(x) == (x.speed .. x.target) \cup (x.target .. x.speed)

\* The signal the train brakes for shows another speed than it did.
Released == T.reason = "signal" /\ signal # T.target

\* One step of the change, which may be its last
Step ==
  /\ Ticks /\ T.state \in {"changing", "update"}
  /\ \E v \in Between(T) :
       IF T.left > 1 /\ ~Released
       THEN /\ \E n \in 1..Steps :
                 LET y == ApplySpeed([T EXCEPT !.left = @ - 1], v)
                 IN T' = IF y.state = "update"
                         THEN [Calc(y, n) EXCEPT !.state = "changing"] ELSE y
            /\ UNCHANGED event
       ELSE /\ Released \/ v = T.target
            /\ T' = IF v > 0 THEN [T EXCEPT !.state = "driving"]
                    ELSE [T EXCEPT !.state = IF T.reason \in {"signal", "route"}
                                             THEN "stopping_wait" ELSE "stopping"]
            /\ event' = [step |-> IF v > 0 THEN "last" ELSE "finish", speed |-> v]
  /\ UNCHANGED <<signal, way, call>>

\* disableEvent, and for the last step of a change what comes after it
Disable ==
  /\ event.step \in {"disable", "last"}
  /\ T' = Disarm(T)
  /\ event' = IF event.step = "last" THEN [event EXCEPT !.step = "finish"] ELSE Rest
  /\ UNCHANGED <<signal, way, call>>

\* Mutant: the last speed of a change is not applied.
FinishUnapplied ==
  /\ event.step = "finish"
  /\ T' = [T EXCEPT !.reason = "none"]
  /\ event' = Rest
  /\ UNCHANGED <<signal, way, call>>

Finish ==
  /\ event.step = "finish"
  /\ T' = ApplySpeed([T EXCEPT !.reason = "none"], event.speed)
  /\ event' = Rest
  /\ UNCHANGED <<signal, way, call>>

-----------------------------------------------------------------------------
(* The world around *)

SignalChanges ==
  /\ Undisturbed
  /\ signal' \in Speed
  /\ UNCHANGED <<T, way, event, call>>

WayChanges ==
  /\ Undisturbed
  /\ way' = ~way
  /\ UNCHANGED <<T, signal, event, call>>

\* WS_cts_SetTrainSpeed, whose test of SpeedState is always true
ClientSetsSpeed ==
  /\ Clients /\ Undisturbed
  /\ \E v \in Speed, turn \in BOOLEAN :
       LET x == [T EXCEPT !.state = "driving", !.speed = v, !.target = v]
           y == Reverse(x)
       IN T' = IF ~turn THEN SetSpeed(x, v, way)
               ELSE IF y.state = "stopping_reverse" THEN SetSpeed(y, v, way)
               ELSE SetSpeed(y, 0, way)
  /\ UNCHANGED <<signal, way, event, call>>

Next ==
  \/ Control \/ Continue
  \/ \E c \in Caller : SwitchState(c) \/ StartChange(c) \/ UpdateChange(c)
  \/ Settle \/ Step \/ Disable \/ Finish
  \/ SignalChanges \/ WayChanges \/ ClientSetsSpeed

Spec == Init /\ [][Next]_vars

\* The scheduler runs the event for as long as it is enabled and tries stopped
\* trains every two seconds; a thread ends what it has begun.
Fairness ==
  /\ WF_vars(Settle) /\ WF_vars(Step) /\ WF_vars(Disable) /\ WF_vars(Finish)
  /\ WF_vars(Continue)
  /\ \A c \in Caller : WF_vars(SwitchState(c) \/ StartChange(c) \/ UpdateChange(c))

FairSpec == Spec /\ Fairness

-----------------------------------------------------------------------------
(* Properties *)

TrainRecord ==
  [state : SpeedState, stopped : BOOLEAN, speed : Speed, engine : Speed,
   expected : BOOLEAN, parked : BOOLEAN, armed : BOOLEAN, left : 1..Steps,
   target : Speed, distance : Distance \cup {0}, reason : Reason]

\* A speed is never more than MaxSpeed, and a change always has a step left
\* (train_speed_event_calc: "zero steps!!").
TypeOK ==
  /\ T \in TrainRecord
  /\ signal \in Speed /\ way \in BOOLEAN
  /\ event \in [step : {"rest", "disable", "last", "finish"}, speed : Speed]
  /\ call \in [Caller -> {"rest", "recorded", "start", "update"}]

Idle == event = Rest /\ \A c \in Caller : call[c] = "rest"

\* The states train.h:84-91 calls "Stopped ..." and "Train waiting" are those
\* of a train whose engine stands.
StoppedStands == Idle /\ T.state \in StoppedState => T.engine = 0

\* A running train is expected in the block before it and its station does not
\* count as held by a stopped train (station.h:35: "There is a train stopped on
\* the station blocks").
RunsExpected == T.engine > 0 => T.expected /\ ~T.parked

\* Train::speed is the "Real speed" (train.h:122), what the engine was given.
SpeedIsReal == Idle => T.speed = T.engine

\* A change of speed comes to its end when no more is asked for (speed.cpp:121:
\* "Change speed over a given distance").
ChangeEnds ==
  <>[](\A c \in Caller : call[c] = "rest") => []<>(T.state \notin {"changing", "update"})

\* A waiting train goes on once ContinueCheck keeps finding it a way
\* (Train_ContinueCheck: "Check if trains can accelerate when they are
\* stationary").
GoesOn == <>[]way => []<>(T.state # "waiting")
=============================================================================
