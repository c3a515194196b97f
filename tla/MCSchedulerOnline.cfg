SPECIFICATION BothSpec
CONSTANTS
  algorithm = algorithm
  z21 = z21
  User = {algorithm, z21}
  Continue = Continue
  Own <- OwnEvent
  Interval <- Intervals
  Owners = {z21}
  Holders = {algorithm}
  Stops = TRUE
  Serves = FALSE
  Clear = Clear
\* The scheduler ends when it is stopped, or waits for a mutex for ever.
CHECK_DEADLOCK FALSE
INVARIANT LateByContinue
PROPERTIES OwnRemoved TrainsChecked
