--------------------------- MODULE TrainSpeedProofs ---------------------------
(***************************************************************************)
(* Without clients a train in a stopped state stands and a running one is  *)
(* expected ahead of it, for every speed, distance and number of steps,    *)
(* and however the algorithm thread and the scheduler thread run between   *)
(* the steps of one another.                                               *)
(*                                                                         *)
(* Neither is inductive.  That the engine stands in the stopped states     *)
(* needs what the last step of a change has begun: it sets the state       *)
(* before it applies the speed.  That a running train is expected needs    *)
(* that a change never starts for a parked train: a call that is about to  *)
(* start one keeps the train from being parked, since then a target is     *)
(* set that the train does not stop at.  A call that is about to update    *)
(* one does not, but the train it leaves in "update" has no event and      *)
(* never leaves.                                                           *)
(***************************************************************************)
EXTENDS TrainSpeed, TLAPS

USE DEF StoppedState, MovingState, SpeedState

\* The states a train may be in when a change of speed is about to start
Startable == {"resuming", "waiting", "driving", "changing", "update"}

\* Train_ContinueCheck asks a train that stands to go on, and the thread it is in
\* gives the train no speed meanwhile.
Scheduling ==
  call["scheduler"] # "rest" =>
    event.step = "rest" /\ T.speed = 0 /\ T.target > 0 /\ T.reason # "signal"

Starting ==
  \A c \in Caller : call[c] = "start" =>
    /\ T.state \in Startable
    /\ T.state \in {"changing", "update"} => T.target > 0 /\ T.reason # "signal"

\* A train that is parked, or left in "update" after it was, and cannot run
Parked ==
  /\ T.state \in {"idle", "update"} /\ T.engine = 0 /\ T.speed = 0
  /\ \A c \in Caller : call[c] # "start"
  /\ event.step = "disable" \/ (event.step = "rest" /\ ~T.armed)

Expecting == IF T.expected /\ ~T.parked THEN T.state # "idle" ELSE Parked

\* The last step of a change and the state it has set, as far as the algorithm
\* thread leaves it
Ending ==
  /\ event.step = "last" => event.speed > 0
  /\ event.step \in {"last", "finish"} /\ event.speed > 0 => T.state \in MovingState
  /\ event.step = "finish" /\ event.speed = 0 =>
       /\ T.state \in {"stopping", "stopping_wait", "update"}
       /\ \A c \in Caller : call[c] # "start"

Standing ==
  /\ T.state \in StoppedState /\ event.step # "finish" => T.engine = 0
  /\ T.stopped => T.speed = 0

IInv == TypeOK /\ Scheduling /\ Starting /\ Expecting /\ Ending /\ Standing

-----------------------------------------------------------------------------
(* What the operations on a train do to it *)

\* SetStopped leaves the speed and the request alone.  Only an idle or a driving
\* train changes state by it, and only a train that gets idle is not expected.
LEMMA Stopped ==
  ASSUME NEW x \in TrainRecord, NEW stop \in BOOLEAN
  PROVE  LET y == SetStopped(x, stop)
         IN /\ y \in TrainRecord /\ (y.stopped <=> stop)
            /\ y.speed = x.speed /\ y.engine = x.engine
            /\ y.target = x.target /\ y.reason = x.reason
            /\ y.state = IF x.state = "idle" /\ ~stop THEN "resuming"
                         ELSE IF x.state = "driving" /\ stop THEN "stopping" ELSE x.state
            /\ x.state = "idle" => y.expected = ~stop /\ y.parked = stop
            /\ x.state # "idle" => y.expected = x.expected /\ y.parked = x.parked
<1>1. CASE x.state = "idle" /\ stop
  BY <1>1 DEF TrainRecord, SetStopped
<1>2. CASE x.state = "idle" /\ ~stop
  BY <1>2 DEF TrainRecord, SetStopped
<1>3. CASE x.state = "driving" /\ stop
  BY <1>3 DEF TrainRecord, SetStopped, Arm
<1>4. CASE ~(x.state = "idle") /\ ~(x.state = "driving" /\ stop)
  BY <1>4 DEF TrainRecord, SetStopped
<1> QED BY <1>1, <1>2, <1>3, <1>4

\* ApplySpeed does the same and gives the speed to the train and its engine.
LEMMA Applied ==
  ASSUME NEW x \in TrainRecord, NEW v \in Speed
  PROVE  LET y == ApplySpeed(x, v)
         IN /\ y \in TrainRecord /\ (y.stopped <=> v = 0)
            /\ y.speed = v /\ y.engine = v
            /\ y.target = x.target /\ y.reason = x.reason
            /\ y.state = IF x.state = "idle" /\ v # 0 THEN "resuming"
                         ELSE IF x.state = "driving" /\ v = 0 THEN "stopping" ELSE x.state
            /\ x.state = "idle" => (y.expected <=> v # 0) /\ (y.parked <=> v = 0)
            /\ x.state # "idle" => y.expected = x.expected /\ y.parked = x.parked
<1> DEFINE z == SetStopped(x, v = 0)
<1>1. /\ z \in TrainRecord /\ (z.stopped <=> v = 0)
      /\ z.target = x.target /\ z.reason = x.reason
      /\ z.state = IF x.state = "idle" /\ v # 0 THEN "resuming"
                   ELSE IF x.state = "driving" /\ v = 0 THEN "stopping" ELSE x.state
      /\ x.state = "idle" => (z.expected <=> v # 0) /\ (z.parked <=> v = 0)
      /\ x.state # "idle" => z.expected = x.expected /\ z.parked = x.parked
  BY Stopped
<1>2. ApplySpeed(x, v) = [z EXCEPT !.speed = v, !.engine = v]
  BY DEF ApplySpeed
<1> HIDE DEF z
<1>3. LET y == ApplySpeed(x, v)
      IN /\ y \in TrainRecord /\ y.stopped = z.stopped
         /\ y.speed = v /\ y.engine = v
         /\ y.target = z.target /\ y.reason = z.reason
         /\ y.state = z.state /\ y.expected = z.expected /\ y.parked = z.parked
  BY <1>1, <1>2 DEF TrainRecord
<1> QED BY <1>1, <1>3

\* A train that is turned round keeps its type.
LEMMA Reversed ==
  ASSUME NEW x \in TrainRecord
  PROVE  Reverse(x) \in TrainRecord
<1>1. 0 \in Speed
  BY SpeedAssumption DEF Speed
<1>2. ApplySpeed(x, 0) \in TrainRecord
  BY <1>1, Applied
<1>3. [ApplySpeed(x, 0) EXCEPT !.state = "stopping_reverse"] \in TrainRecord
  BY <1>2 DEF TrainRecord
<1>4. [x EXCEPT !.state = "stopping_reverse"] \in TrainRecord
  BY DEF TrainRecord
<1> QED BY <1>2, <1>3, <1>4 DEF Reverse

\* train_speed_event_calc leaves a train that changes speed, or is driving.
LEMMA Calculated ==
  ASSUME NEW x \in TrainRecord, NEW n \in 1..Steps
  PROVE  LET y == Calc(x, n)
         IN /\ y \in TrainRecord /\ y.state \in {x.state, "driving"}
            /\ y.expected = x.expected /\ y.parked = x.parked
            /\ y.stopped = x.stopped /\ y.speed = x.speed /\ y.engine = x.engine
            /\ y.target = x.target /\ y.reason = x.reason
<1>1. CASE x.target = x.speed
  BY <1>1 DEF Calc, TrainRecord
<1>2. CASE x.target # x.speed
  BY <1>2 DEF Calc, TrainRecord
<1> QED BY <1>1, <1>2

-----------------------------------------------------------------------------
(* The types *)

\* The speeds of a step lie between two speeds.
LEMMA Bounded ==
  ASSUME T \in TrainRecord
  PROVE  Between(T) \subseteq Speed
<1>1. T.speed \in 0..MaxSpeed /\ T.target \in 0..MaxSpeed
  BY DEF TrainRecord, Speed
<1> QED BY <1>1, SpeedAssumption DEF Between, Speed

\* One step of a change: it goes on, or it was the last one.
Onward(v) ==
  /\ \E n \in 1..Steps :
       LET y == ApplySpeed([T EXCEPT !.left = @ - 1], v)
       IN T' = IF y.state = "update" THEN [Calc(y, n) EXCEPT !.state = "changing"] ELSE y
  /\ UNCHANGED event

Last(v) ==
  /\ Released \/ v = T.target
  /\ T' = IF v > 0 THEN [T EXCEPT !.state = "driving"]
          ELSE [T EXCEPT !.state = IF T.reason \in {"signal", "route"}
                                   THEN "stopping_wait" ELSE "stopping"]
  /\ event' = [step |-> IF v > 0 THEN "last" ELSE "finish", speed |-> v]

LEMMA StepCases ==
  ASSUME TypeOK, Step
  PROVE  \E v \in Speed : (T.left > 1 /\ Onward(v)) \/ Last(v)
<1>1. PICK v \in Between(T) : IF T.left > 1 /\ ~Released THEN Onward(v) ELSE Last(v)
  BY DEF Step, Onward, Last
<1> QED BY <1>1, Bounded DEF TypeOK

\* A step of a change that goes on changes the speed and nothing else that counts.
LEMMA GoesOnward ==
  ASSUME TypeOK, NEW v \in Speed, T.left > 1, Onward(v), T.state \in {"changing", "update"}
  PROVE  /\ T' \in TrainRecord /\ T'.state \in {"changing", "update"}
         /\ (T'.stopped <=> v = 0) /\ T'.speed = v
         /\ T'.target = T.target /\ T'.reason = T.reason
         /\ T'.expected = T.expected /\ T'.parked = T.parked
<1> DEFINE x == [T EXCEPT !.left = @ - 1]
           y == ApplySpeed(x, v)
<1>1. /\ x \in TrainRecord /\ x.state = T.state /\ x.expected = T.expected
      /\ x.parked = T.parked /\ x.target = T.target /\ x.reason = T.reason
  BY SpeedAssumption DEF TypeOK, TrainRecord
<1>2. PICK n \in 1..Steps :
        T' = IF y.state = "update" THEN [Calc(y, n) EXCEPT !.state = "changing"] ELSE y
  BY DEF Onward
<1> HIDE DEF x
<1>3. /\ y \in TrainRecord /\ y.state = T.state /\ y.expected = T.expected
      /\ y.parked = T.parked /\ y.target = T.target /\ y.reason = T.reason
      /\ (y.stopped <=> v = 0) /\ y.speed = v
  BY <1>1, Applied
<1> HIDE DEF y
<1> DEFINE z == Calc(y, n)
<1>4. /\ z \in TrainRecord /\ z.expected = y.expected /\ z.parked = y.parked
      /\ z.target = y.target /\ z.reason = y.reason
      /\ z.stopped = y.stopped /\ z.speed = y.speed
  BY <1>3, Calculated
<1>5. T' \in {y, [z EXCEPT !.state = "changing"]}
  BY <1>2
<1> HIDE DEF z
<1>6. CASE T' = y
  BY <1>3, <1>6
<1>7. CASE T' = [z EXCEPT !.state = "changing"]
  BY <1>3, <1>4, <1>7 DEF TrainRecord
<1> QED BY <1>5, <1>6, <1>7

LEMMA TypedRecord ==
  ASSUME TypeOK, NEW c \in Caller,
         NEW r \in [target : Speed, distance : Distance, reason : Reason],
         Record(c, r), signal' \in Speed, UNCHANGED <<way, event>>
  PROVE  /\ TypeOK' /\ T'.target = r.target /\ T'.reason = r.reason
         /\ T'.state = T.state /\ T'.stopped = T.stopped /\ T'.speed = T.speed
         /\ T'.engine = T.engine /\ T'.expected = T.expected /\ T'.parked = T.parked
         /\ T'.armed = T.armed
<1>1. /\ T' \in TrainRecord /\ T'.target = r.target /\ T'.reason = r.reason
      /\ T'.state = T.state /\ T'.stopped = T.stopped /\ T'.speed = T.speed
      /\ T'.engine = T.engine /\ T'.expected = T.expected /\ T'.parked = T.parked
      /\ T'.armed = T.armed
  BY DEF TypeOK, TrainRecord, Record
<1>2. call' = [call EXCEPT ![c] = "recorded"]
  BY DEF Record
<1> QED BY <1>1, <1>2 DEF TypeOK

\* The threads' requests
LEMMA TypedControl ==
  ASSUME TypeOK, Control
  PROVE  \E r \in [target : Speed, distance : Distance, reason : Reason] :
           /\ Record("algorithm", r) /\ UNCHANGED <<way, event>> /\ signal' \in Speed
           /\ r.target > T.speed => r.reason = "maxspeed"
<1>1. PICK r \in [target : Speed, distance : Distance, reason : Reason \ {"none"}] :
        /\ Record("algorithm", r) /\ UNCHANGED <<way, event>>
        /\ r.target > T.speed => r.reason = "maxspeed"
        /\ signal' = IF r.reason = "signal" THEN r.target ELSE signal
  BY DEF Control
<1>2. signal' \in Speed
  BY <1>1 DEF TypeOK
<1> QED BY <1>1, <1>2

LEMMA TypedContinue ==
  ASSUME TypeOK, Continue
  PROVE  LET r == [target |-> 1, distance |-> Near, reason |-> "maxspeed"]
         IN /\ r \in [target : Speed, distance : Distance, reason : Reason]
            /\ Record("scheduler", r) /\ signal' \in Speed /\ UNCHANGED <<way, event>>
            /\ event.step = "rest" /\ T.stopped
<1>1. [target |-> 1, distance |-> Near, reason |-> "maxspeed"]
        \in [target : Speed, distance : Distance, reason : Reason]
  BY SpeedAssumption DEF Speed, Reason
<1> QED BY <1>1 DEF Continue, TypeOK, Rest

LEMMA TypedSwitch ==
  ASSUME TypeOK, NEW c \in Caller, SwitchState(c)
  PROVE  /\ TypeOK'
         /\ \/ /\ T.state = "idle" /\ T'.state = "resuming" /\ T'.expected /\ ~T'.parked
               /\ ~T'.stopped /\ call' = [call EXCEPT ![c] = "start"]
            \/ /\ T.state \in {"waiting", "driving"} /\ T'.state = T.state
               /\ T'.expected = T.expected /\ T'.parked = T.parked
               /\ ~T'.stopped \/ T'.stopped = T.stopped
               /\ call' = [call EXCEPT ![c] = "start"]
            \/ /\ T.state = "changing" /\ T' = T /\ call' = [call EXCEPT ![c] = "update"]
            \/ T' = T /\ call' = [call EXCEPT ![c] = "rest"]
         /\ T'.speed = T.speed /\ T'.engine = T.engine
         /\ T'.target = T.target /\ T'.reason = T.reason
<1> DEFINE y == SetStopped(T, FALSE)
<1>1. /\ y \in TrainRecord /\ ~y.stopped
      /\ y.speed = T.speed /\ y.engine = T.engine
      /\ y.target = T.target /\ y.reason = T.reason
      /\ y.state = IF T.state = "idle" THEN "resuming" ELSE T.state
      /\ T.state = "idle" => y.expected /\ ~y.parked
      /\ T.state # "idle" => y.expected = T.expected /\ y.parked = T.parked
  BY Stopped DEF TypeOK
<1> HIDE DEF y
<1>2. CASE T.state \in {"idle", "waiting"} /\ T' = y /\ call' = [call EXCEPT ![c] = "start"]
  BY <1>1, <1>2 DEF SwitchState, TypeOK
<1>3. CASE T.state = "driving" /\ UNCHANGED T /\ call' = [call EXCEPT ![c] = "start"]
  BY <1>3 DEF SwitchState, TypeOK
<1>4. CASE T.state = "changing" /\ UNCHANGED T /\ call' = [call EXCEPT ![c] = "update"]
  BY <1>4 DEF SwitchState, TypeOK
<1>5. CASE UNCHANGED T /\ call' = [call EXCEPT ![c] = "rest"]
  BY <1>5 DEF SwitchState, TypeOK
<1> QED BY <1>2, <1>3, <1>4, <1>5 DEF SwitchState, y

LEMMA TypedStart ==
  ASSUME TypeOK, NEW c \in Caller, StartChange(c)
  PROVE  /\ TypeOK' /\ T'.state \in {"changing", "driving"}
         /\ T'.expected = T.expected /\ T'.parked = T.parked
         /\ T'.stopped = T.stopped /\ T'.speed = T.speed
         /\ T'.target = T.target /\ T'.reason = T.reason
<1> DEFINE x == [T EXCEPT !.state = "changing"]
<1>1. /\ x \in TrainRecord /\ x.state = "changing"
      /\ x.expected = T.expected /\ x.parked = T.parked
      /\ x.stopped = T.stopped /\ x.speed = T.speed
      /\ x.target = T.target /\ x.reason = T.reason
  BY DEF TypeOK, TrainRecord
<1>2. PICK n \in 1..Steps : T' = Arm(Calc(x, n))
  BY DEF StartChange
<1> HIDE DEF x
<1> DEFINE y == Calc(x, n)
<1>3. /\ y \in TrainRecord /\ y.state \in {"changing", "driving"}
      /\ y.expected = T.expected /\ y.parked = T.parked
      /\ y.stopped = T.stopped /\ y.speed = T.speed
      /\ y.target = T.target /\ y.reason = T.reason
  BY <1>1, Calculated
<1>4. T' = [y EXCEPT !.armed = TRUE]
  BY <1>2 DEF Arm
<1> HIDE DEF y
<1>5. /\ T' \in TrainRecord /\ T'.state \in {"changing", "driving"}
      /\ T'.expected = T.expected /\ T'.parked = T.parked
      /\ T'.stopped = T.stopped /\ T'.speed = T.speed
      /\ T'.target = T.target /\ T'.reason = T.reason
  BY <1>3, <1>4 DEF TrainRecord
<1>6. call' = [call EXCEPT ![c] = "rest"] /\ UNCHANGED <<signal, way, event>>
  BY DEF StartChange
<1> QED BY <1>5, <1>6 DEF TypeOK

LEMMA TypedUpdate ==
  ASSUME TypeOK, NEW c \in Caller, UpdateChange(c)
  PROVE  /\ TypeOK' /\ T'.state = "update"
         /\ T'.expected = T.expected /\ T'.parked = T.parked /\ T'.armed = T.armed
         /\ T'.stopped = T.stopped /\ T'.speed = T.speed /\ T'.engine = T.engine
         /\ T'.target = T.target /\ T'.reason = T.reason
<1>1. /\ T' \in TrainRecord /\ T'.state = "update"
      /\ T'.expected = T.expected /\ T'.parked = T.parked /\ T'.armed = T.armed
      /\ T'.stopped = T.stopped /\ T'.speed = T.speed /\ T'.engine = T.engine
      /\ T'.target = T.target /\ T'.reason = T.reason
  BY DEF UpdateChange, TypeOK, TrainRecord
<1> QED BY <1>1 DEF UpdateChange, TypeOK

\* The train stands 1.5 s after the last step: it is parked, or it waits, or
\* its state was none that a tick ends.
LEMMA TypedSettle ==
  ASSUME TypeOK, Settle
  PROVE  /\ TypeOK'
         /\ \/ /\ T.state \in {"stopping", "stopping_reverse"} /\ T'.state = "idle"
               /\ T'.parked /\ T'.engine = 0 /\ T'.speed = 0
            \/ /\ T.state = "stopping_wait" /\ T'.state \in {"waiting", "waiting_destination"}
               /\ T'.engine = 0 /\ T'.speed = 0
               /\ T'.expected = T.expected /\ T'.parked = T.parked
            \/ T' = T
<1>1. 0 \in Speed /\ T \in TrainRecord
  BY SpeedAssumption DEF TypeOK, Speed
<1> DEFINE x(s) == [T EXCEPT !.state = s]
<1>2. ASSUME NEW s \in {"idle", "waiting", "waiting_destination"}
      PROVE  /\ x(s) \in TrainRecord /\ x(s).state = s
             /\ x(s).expected = T.expected /\ x(s).parked = T.parked
  BY <1>1 DEF TrainRecord
<1> HIDE DEF x
<1>3. LET y == ApplySpeed(x("idle"), 0)
      IN /\ y \in TrainRecord /\ y.state = "idle" /\ y.parked /\ y.engine = 0 /\ y.speed = 0
         /\ ApplySpeed(y, 0) \in TrainRecord /\ ApplySpeed(y, 0).state = "idle"
         /\ ApplySpeed(y, 0).parked /\ ApplySpeed(y, 0).engine = 0 /\ ApplySpeed(y, 0).speed = 0
         /\ Reverse(y) = ApplySpeed(y, 0)
  <2> DEFINE y == ApplySpeed(x("idle"), 0)
  <2>1. y \in TrainRecord /\ y.state = "idle" /\ y.parked /\ y.engine = 0 /\ y.speed = 0
    BY <1>1, <1>2, Applied
  <2> HIDE DEF y
  <2>2. /\ ApplySpeed(y, 0) \in TrainRecord /\ ApplySpeed(y, 0).state = "idle"
        /\ ApplySpeed(y, 0).parked /\ ApplySpeed(y, 0).engine = 0 /\ ApplySpeed(y, 0).speed = 0
    BY <1>1, <2>1, Applied
  <2>3. Reverse(y) = ApplySpeed(y, 0)
    BY <2>1 DEF Reverse
  <2> QED BY <2>1, <2>2, <2>3 DEF y
<1>4. ASSUME NEW s \in {"waiting", "waiting_destination"}
      PROVE  LET y == ApplySpeed(x(s), 0)
             IN /\ y \in TrainRecord /\ y.state = s /\ y.engine = 0 /\ y.speed = 0
                /\ y.expected = T.expected /\ y.parked = T.parked
  BY <1>1, <1>2, Applied
<1>5. \/ T.state = "stopping" /\ T' = ApplySpeed(x("idle"), 0)
      \/ T.state = "stopping_reverse" /\ T' = Reverse(ApplySpeed(x("idle"), 0))
      \/ /\ T.state = "stopping_wait"
         /\ \E s \in {"waiting", "waiting_destination"} : T' = ApplySpeed(x(s), 0)
      \/ T' = T
  BY DEF Settle, x
<1>6. /\ T' \in TrainRecord
      /\ \/ /\ T.state \in {"stopping", "stopping_reverse"} /\ T'.state = "idle"
            /\ T'.parked /\ T'.engine = 0 /\ T'.speed = 0
         \/ /\ T.state = "stopping_wait" /\ T'.state \in {"waiting", "waiting_destination"}
            /\ T'.engine = 0 /\ T'.speed = 0
            /\ T'.expected = T.expected /\ T'.parked = T.parked
         \/ T' = T
  BY <1>1, <1>3, <1>4, <1>5
<1>7. event' \in [step : {"rest", "disable", "last", "finish"}, speed : Speed]
  BY <1>1 DEF Settle
<1> QED BY <1>6, <1>7 DEF TypeOK, Settle

LEMMA TypedLast ==
  ASSUME TypeOK, NEW v \in Speed, Last(v), UNCHANGED <<signal, way, call>>
  PROVE  /\ TypeOK'
         /\ T'.state = "driving" \/ (v = 0 /\ T'.state \in {"stopping", "stopping_wait"})
         /\ T'.expected = T.expected /\ T'.parked = T.parked
         /\ T'.stopped = T.stopped /\ T'.speed = T.speed
         /\ T'.target = T.target /\ T'.reason = T.reason
<1>1. /\ T' \in TrainRecord
      /\ T'.state = "driving" \/ (v = 0 /\ T'.state \in {"stopping", "stopping_wait"})
      /\ T'.expected = T.expected /\ T'.parked = T.parked
      /\ T'.stopped = T.stopped /\ T'.speed = T.speed
      /\ T'.target = T.target /\ T'.reason = T.reason
  <2>1. v > 0 \/ v = 0
    BY SpeedAssumption DEF Speed
  <2> QED BY <2>1 DEF Last, TypeOK, TrainRecord
<1> QED BY <1>1 DEF Last, TypeOK

LEMMA TypedDisable ==
  ASSUME TypeOK, Disable
  PROVE  /\ TypeOK' /\ ~T'.armed /\ T'.state = T.state
         /\ T'.expected = T.expected /\ T'.parked = T.parked
         /\ T'.stopped = T.stopped /\ T'.speed = T.speed /\ T'.engine = T.engine
         /\ T'.target = T.target /\ T'.reason = T.reason
         /\ \/ event.step = "last" /\ event'.step = "finish" /\ event'.speed = event.speed
            \/ event.step = "disable" /\ event'.step = "rest"
<1>1. /\ T' \in TrainRecord /\ ~T'.armed /\ T'.state = T.state
      /\ T'.expected = T.expected /\ T'.parked = T.parked
      /\ T'.stopped = T.stopped /\ T'.speed = T.speed /\ T'.engine = T.engine
      /\ T'.target = T.target /\ T'.reason = T.reason
  BY DEF Disable, Disarm, TypeOK, TrainRecord
<1>2. event' \in [step : {"rest", "disable", "last", "finish"}, speed : Speed]
  BY SpeedAssumption DEF Disable, TypeOK, Rest, Speed
<1> QED BY <1>1, <1>2 DEF Disable, TypeOK, Rest

LEMMA TypedFinish ==
  ASSUME TypeOK, Finish
  PROVE  /\ TypeOK' /\ (T'.stopped <=> event.speed = 0)
         /\ T'.speed = event.speed /\ T'.engine = event.speed
         /\ T'.target = T.target /\ T'.reason = "none"
         /\ T.state # "idle" =>
              /\ T'.state = IF T.state = "driving" /\ event.speed = 0 THEN "stopping" ELSE T.state
              /\ T'.expected = T.expected /\ T'.parked = T.parked
<1> DEFINE x == [T EXCEPT !.reason = "none"]
<1>1. /\ x \in TrainRecord /\ x.state = T.state /\ x.target = T.target /\ x.reason = "none"
      /\ x.expected = T.expected /\ x.parked = T.parked
  BY DEF TypeOK, TrainRecord, Reason
<1>2. T' = ApplySpeed(x, event.speed) /\ event' = Rest /\ UNCHANGED <<signal, way, call>>
  BY DEF Finish
<1>3. event.speed \in Speed
  BY DEF TypeOK
<1>4. Rest \in [step : {"rest", "disable", "last", "finish"}, speed : Speed]
  BY SpeedAssumption DEF Rest, Speed
<1> HIDE DEF x
<1>5. /\ T' \in TrainRecord /\ (T'.stopped <=> event.speed = 0)
      /\ T'.speed = event.speed /\ T'.engine = event.speed
      /\ T'.target = T.target /\ T'.reason = "none"
      /\ T.state # "idle" =>
           /\ T'.state = IF T.state = "driving" /\ event.speed = 0 THEN "stopping" ELSE T.state
           /\ T'.expected = T.expected /\ T'.parked = T.parked
  BY <1>1, <1>2, <1>3, Applied
<1> QED BY <1>2, <1>4, <1>5 DEF TypeOK

LEMMA TypedClient ==
  ASSUME TypeOK, ClientSetsSpeed
  PROVE  TypeOK'
<1>1. PICK v \in Speed, turn \in BOOLEAN :
        LET x == [T EXCEPT !.state = "driving", !.speed = v, !.target = v]
            y == Reverse(x)
        IN T' = IF ~turn THEN SetSpeed(x, v, way)
                ELSE IF y.state = "stopping_reverse" THEN SetSpeed(y, v, way)
                ELSE SetSpeed(y, 0, way)
  BY DEF ClientSetsSpeed
<1> DEFINE x == [T EXCEPT !.state = "driving", !.speed = v, !.target = v]
<1>2. x \in TrainRecord
  BY DEF TypeOK, TrainRecord
<1>3. T' \in {SetSpeed(x, v, way), SetSpeed(Reverse(x), v, way), SetSpeed(Reverse(x), 0, way)}
  BY <1>1
<1> HIDE DEF x
<1>4. ASSUME NEW z \in TrainRecord, NEW u \in Speed
      PROVE  SetSpeed(z, u, way) \in TrainRecord
  BY <1>4, Applied DEF SetSpeed
<1>5. Reverse(x) \in TrainRecord /\ 0 \in Speed
  BY <1>2, Reversed, SpeedAssumption DEF Speed
<1>6. T' \in TrainRecord
  BY <1>2, <1>3, <1>4, <1>5
<1> QED BY <1>6 DEF ClientSetsSpeed, TypeOK

LEMMA InitTyped == Init => TypeOK
<1> SUFFICES ASSUME Init PROVE TypeOK
  OBVIOUS
<1>1. 0 \in Speed /\ 1 \in 1..Steps
  BY SpeedAssumption DEF Speed
<1>2. T \in TrainRecord
  BY <1>1 DEF Init, TrainRecord, Reason
<1>3. event \in [step : {"rest", "disable", "last", "finish"}, speed : Speed]
  BY <1>1 DEF Init, Rest
<1> QED BY <1>1, <1>2, <1>3 DEF Init, TypeOK

LEMMA NextTyped == TypeOK /\ [Next]_vars => TypeOK'
<1> SUFFICES ASSUME TypeOK, [Next]_vars PROVE TypeOK'
  OBVIOUS
<1>1. CASE Control \/ Continue
  BY <1>1, TypedControl, TypedContinue, TypedRecord DEF Caller
<1>2. CASE \E c \in Caller : SwitchState(c) \/ StartChange(c) \/ UpdateChange(c)
  BY <1>2, TypedSwitch, TypedStart, TypedUpdate
<1>3. CASE Settle \/ Disable \/ Finish
  BY <1>3, TypedSettle, TypedDisable, TypedFinish
<1>4. CASE Step
  <2>1. T.state \in {"changing", "update"} /\ UNCHANGED <<signal, way, call>>
    BY <1>4 DEF Step
  <2>2. PICK v \in Speed : (T.left > 1 /\ Onward(v)) \/ Last(v)
    BY <1>4, StepCases
  <2>3. CASE T.left > 1 /\ Onward(v)
    <3>1. T' \in TrainRecord
      BY <2>1, <2>3, GoesOnward
    <3> QED BY <2>1, <2>3, <3>1 DEF Onward, TypeOK
  <2>4. CASE Last(v)
    BY <2>1, <2>4, TypedLast
  <2> QED BY <2>2, <2>3, <2>4
<1>5. CASE SignalChanges \/ WayChanges \/ UNCHANGED vars
  BY <1>5 DEF SignalChanges, WayChanges, vars, TypeOK
<1>6. CASE ClientSetsSpeed
  BY <1>6, TypedClient
<1> QED BY <1>1, <1>2, <1>3, <1>4, <1>5, <1>6 DEF Next

\* The types hold, whatever clients and threads do: the speeds stay within
\* MaxSpeed, and a change always has a step left (train_speed_event_calc:
\* "zero steps!!").
THEOREM TypeCorrect == Spec => []TypeOK
BY InitTyped, NextTyped, PTL DEF Spec

-----------------------------------------------------------------------------
(* Every action but a client's preserves IInv. *)

LEMMA Initially == Init => IInv
<1> SUFFICES ASSUME Init PROVE IInv
  OBVIOUS
<1>1. Scheduling /\ Starting
  BY DEF Init, Scheduling, Starting, Caller
<1>2. Expecting
  BY DEF Init, Expecting, Parked, Rest, Caller
<1>3. Ending /\ Standing
  BY DEF Init, Ending, Standing, Rest
<1> QED BY <1>1, <1>2, <1>3, InitTyped DEF IInv

\* A call that records a request.  The algorithm thread asks a standing train for
\* more speed only, and that request is for no signal.
LEMMA Recorded ==
  ASSUME IInv, NEW c \in Caller,
         NEW r \in [target : Speed, distance : Distance, reason : Reason],
         Record(c, r), signal' \in Speed, UNCHANGED <<way, event>>,
         r.target > T.speed => r.reason = "maxspeed",
         c = "scheduler" => event.step = "rest" /\ T.speed = 0
  PROVE  IInv'
<1>1. /\ TypeOK' /\ T'.target = r.target /\ T'.reason = r.reason
      /\ T'.state = T.state /\ T'.stopped = T.stopped /\ T'.speed = T.speed
      /\ T'.engine = T.engine /\ T'.expected = T.expected /\ T'.parked = T.parked
      /\ T'.armed = T.armed
  BY TypedRecord DEF IInv
<1>2. /\ call[c] = "rest" /\ call' = [call EXCEPT ![c] = "recorded"] /\ event' = event
      /\ call \in [Caller -> {"rest", "recorded", "start", "update"}]
  BY DEF Record, IInv, TypeOK
<1>3. call'["scheduler"] # "rest" =>
        event.step = "rest" /\ T.speed = 0 /\ r.target > 0 /\ r.reason # "signal"
  <2>1. call'["scheduler"] # "rest" => event.step = "rest" /\ T.speed = 0
    BY <1>2 DEF IInv, Scheduling, Caller
  <2>2. T.speed = 0 => r.target > 0
    BY DEF Record, Dropped, Speed
  <2> QED BY <2>1, <2>2
<1>4. Scheduling'
  BY <1>1, <1>2, <1>3 DEF Scheduling
<1>5. ASSUME NEW d \in Caller, call'[d] = "start"
      PROVE  call[d] = "start" /\ d # c /\ call'["scheduler"] # "rest"
  BY <1>2, <1>5 DEF Caller
<1>6. Starting'
  BY <1>1, <1>3, <1>5 DEF IInv, Starting
<1>7. Expecting' /\ Ending' /\ Standing'
  BY <1>1, <1>2, <1>5 DEF IInv, Expecting, Parked, Ending, Standing
<1> QED BY <1>1, <1>4, <1>6, <1>7 DEF IInv

LEMMA Switched ==
  ASSUME IInv, NEW c \in Caller, SwitchState(c)
  PROVE  IInv'
<1>1. /\ TypeOK'
      /\ \/ /\ T.state = "idle" /\ T'.state = "resuming" /\ T'.expected /\ ~T'.parked
            /\ ~T'.stopped /\ call' = [call EXCEPT ![c] = "start"]
         \/ /\ T.state \in {"waiting", "driving"} /\ T'.state = T.state
            /\ T'.expected = T.expected /\ T'.parked = T.parked
            /\ ~T'.stopped \/ T'.stopped = T.stopped
            /\ call' = [call EXCEPT ![c] = "start"]
         \/ /\ T.state = "changing" /\ T' = T /\ call' = [call EXCEPT ![c] = "update"]
         \/ T' = T /\ call' = [call EXCEPT ![c] = "rest"]
      /\ T'.speed = T.speed /\ T'.engine = T.engine
      /\ T'.target = T.target /\ T'.reason = T.reason
  BY TypedSwitch DEF IInv
<1>2. /\ call[c] = "recorded" /\ event' = event
      /\ call \in [Caller -> {"rest", "recorded", "start", "update"}]
  BY DEF SwitchState, IInv, TypeOK
<1>3. Scheduling'
  <2>1. call'["scheduler"] # "rest" => call["scheduler"] # "rest"
    BY <1>1, <1>2 DEF Caller
  <2> QED BY <1>1, <1>2, <2>1 DEF IInv, Scheduling
<1>4. Starting'
  BY <1>1, <1>2 DEF IInv, Starting, Startable
<1>5. Expecting' /\ Standing'
  BY <1>1, <1>2 DEF IInv, Expecting, Parked, Standing
<1>6. Ending'
  BY <1>1, <1>2 DEF IInv, Ending
<1> QED BY <1>1, <1>3, <1>4, <1>5, <1>6 DEF IInv

LEMMA Started ==
  ASSUME IInv, NEW c \in Caller, StartChange(c)
  PROVE  IInv'
<1>1. /\ TypeOK' /\ T'.state \in {"changing", "driving"}
      /\ T'.expected = T.expected /\ T'.parked = T.parked
      /\ T'.stopped = T.stopped /\ T'.speed = T.speed
      /\ T'.target = T.target /\ T'.reason = T.reason
  BY TypedStart DEF IInv
<1>2. /\ call[c] = "start" /\ call' = [call EXCEPT ![c] = "rest"] /\ event' = event
      /\ call \in [Caller -> {"rest", "recorded", "start", "update"}]
  BY DEF StartChange, IInv, TypeOK
<1>3. Scheduling'
  BY <1>1, <1>2 DEF IInv, Scheduling
<1>4. ASSUME NEW d \in Caller, call'[d] = "start"
      PROVE  T.target > 0 /\ T.reason # "signal"
  <2>1. call["scheduler"] = "start"
    BY <1>2, <1>4 DEF Caller
  <2> QED BY <2>1 DEF IInv, Scheduling
<1>5. Starting'
  BY <1>1, <1>4 DEF Starting, Startable
<1>6. T.expected /\ ~T.parked
  BY <1>2 DEF IInv, Expecting, Parked
<1>7. Expecting' /\ Ending' /\ Standing'
  BY <1>1, <1>2, <1>6 DEF IInv, Expecting, Ending, Standing
<1> QED BY <1>1, <1>3, <1>5, <1>7 DEF IInv

\* A train that was parked before its call updates the change is in "update"
\* afterwards, and its event is disabled or about to be.
LEMMA Updated ==
  ASSUME IInv, NEW c \in Caller, UpdateChange(c)
  PROVE  IInv'
<1>1. /\ TypeOK' /\ T'.state = "update"
      /\ T'.expected = T.expected /\ T'.parked = T.parked /\ T'.armed = T.armed
      /\ T'.stopped = T.stopped /\ T'.speed = T.speed /\ T'.engine = T.engine
      /\ T'.target = T.target /\ T'.reason = T.reason
  BY TypedUpdate DEF IInv
<1>2. /\ call[c] = "update" /\ call' = [call EXCEPT ![c] = "rest"] /\ event' = event
      /\ call \in [Caller -> {"rest", "recorded", "start", "update"}]
  BY DEF UpdateChange, IInv, TypeOK
<1>3. Scheduling'
  BY <1>1, <1>2 DEF IInv, Scheduling
<1>4. ASSUME NEW d \in Caller, call'[d] = "start"
      PROVE  call[d] = "start" /\ T.target > 0 /\ T.reason # "signal"
  <2>1. call["scheduler"] # "rest" /\ call[d] = "start"
    BY <1>2, <1>4 DEF Caller
  <2> QED BY <2>1 DEF IInv, Scheduling
<1>5. Starting'
  BY <1>1, <1>4 DEF Starting, Startable
<1>6. Expecting' /\ Ending' /\ Standing'
  BY <1>1, <1>2, <1>4 DEF IInv, Expecting, Parked, Ending, Standing
<1> QED BY <1>1, <1>3, <1>5, <1>6 DEF IInv

LEMMA Settled ==
  ASSUME IInv, Settle
  PROVE  IInv'
<1>1. /\ TypeOK'
      /\ \/ /\ T.state \in {"stopping", "stopping_reverse"} /\ T'.state = "idle"
            /\ T'.parked /\ T'.engine = 0 /\ T'.speed = 0
         \/ /\ T.state = "stopping_wait" /\ T'.state \in {"waiting", "waiting_destination"}
            /\ T'.engine = 0 /\ T'.speed = 0
            /\ T'.expected = T.expected /\ T'.parked = T.parked
         \/ T' = T
  BY TypedSettle DEF IInv
<1>2. /\ event.step = "rest" /\ event'.step = "disable" /\ call["scheduler"] = "rest"
      /\ T.armed /\ call' = call
  BY DEF Settle, Ticks, Rest
<1>3. T.expected /\ ~T.parked /\ T.state # "idle"
  BY <1>2 DEF IInv, Expecting, Parked
<1>4. Scheduling' /\ Ending'
  BY <1>2 DEF Scheduling, Ending
<1>5. Starting'
  BY <1>1, <1>2 DEF IInv, Starting, Startable
<1>6. T'.state = "idle" => \A c \in Caller : call[c] # "start"
  BY <1>1, <1>3 DEF IInv, Starting, Startable
<1>7. Expecting'
  BY <1>1, <1>2, <1>3, <1>6 DEF Expecting, Parked
<1>8. Standing'
  BY <1>1, <1>2 DEF IInv, Standing
<1> QED BY <1>1, <1>4, <1>5, <1>7, <1>8 DEF IInv

LEMMA Stepped ==
  ASSUME IInv, Step
  PROVE  IInv'
<1>1. /\ event.step = "rest" /\ call["scheduler"] = "rest" /\ T.armed
      /\ T.state \in {"changing", "update"} /\ UNCHANGED <<signal, way, call>>
  BY DEF Step, Ticks, Rest
<1>2. T.expected /\ ~T.parked
  BY <1>1 DEF IInv, Expecting, Parked
<1>3. ASSUME NEW c \in Caller, call[c] = "start"
      PROVE  T.target > 0 /\ T.reason # "signal"
  BY <1>1, <1>3 DEF IInv, Starting
<1>4. PICK v \in Speed : (T.left > 1 /\ Onward(v)) \/ Last(v)
  BY StepCases DEF IInv
<1>5. TypeOK' /\ Scheduling'
  BY <1>1, NextTyped DEF IInv, Next, Scheduling
<1>6. CASE T.left > 1 /\ Onward(v)
  <2>1. /\ T'.state \in {"changing", "update"} /\ (T'.stopped <=> v = 0) /\ T'.speed = v
        /\ T'.target = T.target /\ T'.reason = T.reason
        /\ T'.expected = T.expected /\ T'.parked = T.parked
    BY <1>1, <1>6, GoesOnward DEF IInv
  <2>2. event' = event
    BY <1>6 DEF Onward
  <2>3. Starting'
    BY <1>1, <1>3, <2>1 DEF Starting, Startable
  <2>4. Expecting' /\ Ending' /\ Standing'
    BY <1>1, <1>2, <2>1, <2>2 DEF Expecting, Ending, Standing
  <2> QED BY <1>5, <2>3, <2>4 DEF IInv
<1>7. CASE Last(v)
  <2>1. /\ T'.state = "driving" \/ (v = 0 /\ T'.state \in {"stopping", "stopping_wait"})
        /\ T'.expected = T.expected /\ T'.parked = T.parked
        /\ T'.stopped = T.stopped /\ T'.speed = T.speed
    BY <1>1, <1>7, TypedLast DEF IInv
  <2>2. /\ event'.speed = v /\ v \in Nat
        /\ IF v > 0 THEN event'.step = "last" /\ T'.state = "driving"
           ELSE event'.step = "finish" /\ T'.state \in {"stopping", "stopping_wait"}
    BY <1>7, SpeedAssumption DEF Last, Speed, IInv, TypeOK, TrainRecord
  <2>3. v = 0 => \A c \in Caller : call[c] # "start"
    BY <1>3, <1>7 DEF Last, Released
  <2>4. Starting'
    BY <1>1, <2>1, <2>2, <2>3 DEF Starting, Startable
  <2>5. Expecting' /\ Standing'
    BY <1>2, <2>1, <2>2 DEF IInv, Expecting, Standing
  <2>6. Ending'
    BY <1>1, <2>2, <2>3 DEF Ending
  <2> QED BY <1>5, <2>4, <2>5, <2>6 DEF IInv
<1> QED BY <1>4, <1>6, <1>7

LEMMA Disabled ==
  ASSUME IInv, Disable
  PROVE  IInv'
<1>1. /\ TypeOK' /\ ~T'.armed /\ T'.state = T.state
      /\ T'.expected = T.expected /\ T'.parked = T.parked
      /\ T'.stopped = T.stopped /\ T'.speed = T.speed /\ T'.engine = T.engine
      /\ T'.target = T.target /\ T'.reason = T.reason
      /\ \/ event.step = "last" /\ event'.step = "finish" /\ event'.speed = event.speed
         \/ event.step = "disable" /\ event'.step = "rest"
  BY TypedDisable DEF IInv
<1>2. call' = call
  BY DEF Disable
<1>3. Scheduling' /\ Starting'
  BY <1>1, <1>2 DEF IInv, Scheduling, Starting
<1>4. Expecting' /\ Standing'
  BY <1>1, <1>2 DEF IInv, Expecting, Parked, Ending, Standing
<1>5. Ending'
  BY <1>1, <1>2 DEF IInv, Ending
<1> QED BY <1>1, <1>3, <1>4, <1>5 DEF IInv

LEMMA Finished ==
  ASSUME IInv, Finish
  PROVE  IInv'
<1>1. event.step = "finish" /\ event'.step = "rest" /\ call' = call /\ event.speed \in Nat
  BY SpeedAssumption DEF Finish, Rest, IInv, TypeOK, Speed
<1>2. T.expected /\ ~T.parked /\ T.state # "idle"
  BY <1>1 DEF IInv, Expecting, Parked
<1>3. /\ TypeOK' /\ (T'.stopped <=> event.speed = 0)
      /\ T'.speed = event.speed /\ T'.engine = event.speed
      /\ T'.target = T.target /\ T'.reason = "none"
      /\ T'.state = IF T.state = "driving" /\ event.speed = 0 THEN "stopping" ELSE T.state
      /\ T'.expected = T.expected /\ T'.parked = T.parked
  BY <1>2, TypedFinish DEF IInv
<1>4. T'.state = T.state
  BY <1>1, <1>3 DEF IInv, Ending
<1>5. Scheduling' /\ Starting'
  BY <1>1, <1>3, <1>4 DEF IInv, Scheduling, Starting
<1>6. Expecting' /\ Ending'
  BY <1>1, <1>2, <1>3, <1>4 DEF Expecting, Ending
<1>7. Standing'
  BY <1>1, <1>3, <1>4 DEF IInv, Ending, Standing
<1> QED BY <1>3, <1>5, <1>6, <1>7 DEF IInv

LEMMA Preserved ==
  ASSUME IInv, ~Clients, [Next]_vars
  PROVE  IInv'
<1>1. CASE Control
  BY <1>1, TypedControl, Recorded DEF IInv, Caller
<1>2. CASE Continue
  <2>1. T.stopped => T.speed = 0
    BY DEF IInv, Standing
  <2> QED BY <1>2, <2>1, TypedContinue, Recorded DEF IInv, Caller
<1>3. CASE \E c \in Caller : SwitchState(c) \/ StartChange(c) \/ UpdateChange(c)
  BY <1>3, Switched, Started, Updated
<1>4. CASE Settle \/ Step \/ Disable \/ Finish
  BY <1>4, Settled, Stepped, Disabled, Finished
<1>5. CASE SignalChanges \/ WayChanges \/ UNCHANGED vars
  <2>1. UNCHANGED <<T, event, call>>
    BY <1>5 DEF SignalChanges, WayChanges, vars
  <2>2. TypeOK'
    BY NextTyped DEF IInv
  <2> QED BY <2>1, <2>2 DEF IInv, Scheduling, Starting, Expecting, Parked, Ending, Standing
<1> QED BY <1>1, <1>2, <1>3, <1>4, <1>5 DEF Next, ClientSetsSpeed

\* IInv holds throughout, with no client.
LEMMA Invariant ==
  ASSUME ~Clients
  PROVE  Spec => []IInv
<1>1. IInv /\ [Next]_vars => IInv'
  BY Preserved
<1> QED BY Initially, <1>1, PTL DEF Spec

\* The states that train.h:84-91 calls stopped are those of a train whose
\* engine stands, whatever the signals, the requests and the steps of a change,
\* and wherever the threads interrupt one another: the speed event never leaves
\* one with the engine driven.
THEOREM Stands ==
  ASSUME ~Clients
  PROVE  Spec => []StoppedStands
<1>1. IInv => StoppedStands
  BY DEF IInv, Standing, StoppedStands, Idle, Rest
<1> QED BY Invariant, <1>1, PTL

\* A train that runs is expected in the blocks ahead of it and leaves its
\* station not held.
THEOREM Expected ==
  ASSUME ~Clients
  PROVE  Spec => []RunsExpected
<1>1. IInv => RunsExpected
  BY DEF IInv, TypeOK, TrainRecord, Speed, Expecting, Parked, RunsExpected
<1> QED BY Invariant, <1>1, PTL
=============================================================================
