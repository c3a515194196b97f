\* The two threads wait for each other.  Violated too, with Owners = {} and Stops = TRUE:
\* StopEnds.  Under Spec with Owners = {algorithm, z21}, when two threads remove their
\* events at once: OwnRemoved.  OnTime and NotEarly, also with Owners = {}.  With
\* Owners = {algorithm} and Serves = TRUE: JoinsEnd.
SPECIFICATION FairSpec
CONSTANTS
  algorithm = algorithm
  z21 = z21
  User = {algorithm, z21}
  Continue = Continue
  Own <- OwnEvent
  Interval <- Intervals
  Owners = {algorithm}
  Holders = {algorithm}
  Stops = FALSE
  Serves = FALSE
  Clear = Clear
CHECK_DEADLOCK FALSE
PROPERTY ContinueRuns
