\* Clients set speeds at any moment.  RunsExpected and StoppedStands are violated too.
\* With Clients = FALSE, under FairSpec: ChangeEnds with Preempted = TRUE, when a tick
\* disables the event of a change begun within it, and GoesOn.
SPECIFICATION Spec
CONSTANTS
  MaxSpeed = 2
  Distance = {50, 100}
  Near = 50
  Steps = 2
  Clients = TRUE
  Preempted = FALSE
INVARIANT SpeedIsReal
