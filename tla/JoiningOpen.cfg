\* A setup is loaded while the algorithm thread ends the joining.  Violated too, with
\* Preempted = FALSE: LoadRestores with Incomplete = TRUE, JoinedAsLaid with
\* Wagon = {v, w}, and with Ports <- MiddlePorts, Rail <- MiddleRail, End <- MiddleEnd
\* and Detection <- MiddleDetection; PortsLinked with End <- PointsEnd.
SPECIFICATION Spec
CONSTANTS
  Unit = {1, 2, 3}
  OnLayout = {1, 2, 3}
  Order <- MCOrder
  Ports <- MCPorts
  Rail <- MCRail
  End <- MCEnd
  Detection <- MCDetection
  Signalled <- MCSignalled
  Laid <- MCLaid
  Wagon = {w}
  Patient = TRUE
  Preempted = TRUE
  Incomplete = FALSE
  None = None
INVARIANT LinksMapped
CHECK_DEADLOCK FALSE
