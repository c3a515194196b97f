----------------------------- MODULE MCTrainSpeed -----------------------------
(***************************************************************************)
(* The speed of a train in two settings: without clients, and with threads *)
(* that run between the steps of one another (the constants of the .cfg);  *)
(* and with clients, where a thread's call runs to its end (Driven).       *)
(*                                                                         *)
(* Each behaviour is one of the two: the variables of the other stay as    *)
(* they are at first.                                                      *)
(***************************************************************************)
EXTENDS TrainSpeed

VARIABLES
  setting,                                        \* "threads" or "clients"
  driven, shown, free, tick, calls  \* T, signal, way, event and call with clients

drivenVars == <<driven, shown, free, tick, calls>>

Driven == INSTANCE TrainSpeed WITH
  Clients <- TRUE, Preempted <- FALSE,
  T <- driven, signal <- shown, way <- free, event <- tick, call <- calls

BothInit == setting \in {"threads", "clients"} /\ Init /\ Driven!Init

BothNext ==
  \/ /\ setting = "threads" /\ Next
     /\ UNCHANGED <<setting, drivenVars>>
  \/ /\ setting = "clients" /\ Driven!Next
     /\ UNCHANGED <<setting, vars>>

\* The fairness of TrainSpeed, for the setting whose end of changes is checked
BothSpec ==
  /\ BothInit /\ [][BothNext]_<<setting, vars, drivenVars>>
  /\ WF_drivenVars(setting = "clients" /\ Driven!Settle)
  /\ WF_drivenVars(setting = "clients" /\ Driven!Step)
  /\ WF_drivenVars(setting = "clients" /\ Driven!Disable)
  /\ WF_drivenVars(setting = "clients" /\ Driven!Finish)
  /\ WF_drivenVars(setting = "clients" /\ Driven!Continue)
  /\ \A c \in Caller :
       WF_drivenVars(setting = "clients"
                     /\ (Driven!SwitchState(c) \/ Driven!StartChange(c) \/ Driven!UpdateChange(c)))

----------------------------------------------------------------------------
\* With clients: a change of speed comes to its end when no more is asked for
\* (speed.cpp:121).
ClientsEnd == setting = "clients" => Driven!ChangeEnds
=============================================================================
