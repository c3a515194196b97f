----------------------------- MODULE MCScheduler -----------------------------
(***************************************************************************)
(* Two users of the scheduler, such as the algorithm thread with the speed *)
(* event of a train and the Z21 thread with its keep-alive event.  The     *)
(* continue event has two ticks; the events of the Z21 and of the server   *)
(* have three.                                                             *)
(***************************************************************************)
EXTENDS Scheduler

CONSTANTS algorithm, z21

OwnEvent == [u \in User |-> <<"event", u>>]
Intervals ==
  [e \in Event |-> CASE e = Continue -> 2 [] e \in {Own[z21], Clear} -> 3 [] OTHER -> 1]
=============================================================================
