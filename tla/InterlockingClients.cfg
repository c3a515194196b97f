SPECIFICATION Spec
CONSTANTS
  M1 = M1  X = X  M2 = M2  DE = DE  TA = TA  TB = TB  DW = DW
  SE = SE  SW = SW  PM = PM  PN = PN  PA = PA  PB = PB  SA = SA  SB = SB
  T1 = T1  T2 = T2  T3 = T3  None = None
  Main <- OnePath
  Block <- MCBlock
  Switch = {SE, SW}
  Path <- MCPath
  Train = {T1, T2}
  Type <- MCType
  Length <- MCLength
  SearchLength = 4
  GroupLength = 1
  StationOf <- MCStationOf
  PathOf <- MCPathOf
  Link <- MCLink
  Detection <- MCDetection
  EngineLength <- MCEngineLength
  Braking = {1}
  StartAt <- MCStartAt
  StartDir <- MCStartDir
  MaxThrows = 1
  Prompt = TRUE
  Preempted = FALSE
INVARIANT NeverLost
PROPERTIES PointsHeld ReservedPointsHeld StartsIntoClear
CHECK_DEADLOCK FALSE
