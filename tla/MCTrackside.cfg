\* Nodes lose their power while the program starts.  InputsKnown is violated with
\* "run" or "finding" in RebootIn, and with "finding" in RestartIn;
\* LayoutShown with Delayed = TRUE or Overlap = TRUE; AnchorsMeet with
\* Module <- CornerModule, Anchors <- CornerAnchors and Placed <- CornerLaid.
SPECIFICATION TracksideFairSpec
CONSTANTS
  Node = {7, 8}
  ListBytes = 2
  Stale = {1, 3}
  Interrupted = TRUE
  RestartIn = {"run"}
  RebootIn = {"start"}
  MaxRestarts = 1
  MaxReboots = 1
  MaxChanges = 2
  MaxLine = 0
  MaxPending = 2
  Unit = {1, 2, 3}
  OnLayout = {1, 2, 3}
  Order <- MCOrder
  Ports <- MCPorts
  Rail <- MCRail
  End <- MCEnd
  Detection <- MCDetection
  Signalled <- MCSignalled
  Laid <- MCLaid
  Wagon = {w}
  Patient = TRUE
  Preempted = FALSE
  Incomplete = FALSE
  None = None
  Module <- RingModule
  Anchors <- RingAnchors
  Placed <- RingLaid
  Delayed = FALSE
  Overlap = FALSE
  MaxDrops = 1
INVARIANTS JoinedAsLaid PortsLinked LoadRestores InputsKnown LayoutShown
PROPERTIES BusSettles AllAreJoined
CHECK_DEADLOCK FALSE
