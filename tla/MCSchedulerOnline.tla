-------------------------- MODULE MCSchedulerOnline --------------------------
(***************************************************************************)
(* The scheduler in two settings: with the two users of MCScheduler, and   *)
(* with the algorithm thread and a client of the websocket server.         *)
(*                                                                         *)
(* Each behaviour is one of the two: the variables of the other stay as    *)
(* they are at first.                                                      *)
(***************************************************************************)
EXTENDS MCScheduler

VARIABLES
  setting,    \* "users" or "clients"
  list, off, next, eventLock, processLock, loop, woken, caller, ending, browser

onlineVars == <<list, off, next, eventLock, processLock, loop, woken, caller, ending, browser>>

OnlineEvent == OwnEvent[algorithm]

Online == INSTANCE Scheduler WITH
  User <- {algorithm}, Own <- [u \in {algorithm} |-> OnlineEvent],
  Interval <- Continue :> 2 @@ Clear :> 3 @@ OnlineEvent :> 1,
  Owners <- {}, Holders <- {algorithm}, Stops <- FALSE, Serves <- TRUE,
  events <- list, disabled <- off, due <- next, EventMutex <- eventLock, processMutex <- processLock,
  thread <- loop, signalled <- woken, user <- caller, stop <- ending, client <- browser

BothInit == setting \in {"users", "clients"} /\ Init /\ Online!Init

BothNext ==
  \/ setting = "users" /\ Next /\ UNCHANGED <<setting, onlineVars>>
  \/ setting = "clients" /\ Online!Next /\ UNCHANGED <<setting, vars>>

\* The fairness of Scheduler, in each setting for what there is in it
BothSpec ==
  /\ BothInit /\ [][BothNext]_<<setting, vars, onlineVars>>
  /\ SF_vars(setting = "users" /\ Thread) /\ SF_vars(setting = "users" /\ Tick)
  /\ SF_vars(setting = "users" /\ Join)
  /\ \A u \in User : WF_vars(setting = "users" /\ Finish(u))
  /\ SF_onlineVars(setting = "clients" /\ Online!Thread)
  /\ SF_onlineVars(setting = "clients" /\ Online!Tick)
  /\ SF_onlineVars(setting = "clients" /\ Online!Throw)
  /\ WF_onlineVars(setting = "clients" /\ Online!End)
  /\ WF_onlineVars(setting = "clients" /\ Online!Finish(algorithm))

-----------------------------------------------------------------------------
\* The trains are checked for ever, until the scheduler is stopped, whatever the
\* events of users and the clearing of clients do (manager.cpp:19: "Do the train
\* continue check every 2 seconds").
TrainsChecked == []<>(IF setting = "users" THEN Checked ELSE Online!Checked)
=============================================================================
