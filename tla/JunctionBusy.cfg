SPECIFICATION Spec
CONSTANTS
  TA = TA  TB = TB  TC = TC  DW = DW  TM = TM  TN = TN 
  SW = SW  SX = SX
  PA = PA  PB = PB  PM = PM  PN = PN  SA = SA  SB = SB
  T1 = T1  T2 = T2  None = None
  Block = {TA, TB, TC, DW, TM, TN}
  Switch = {SW, SX}
  Path = {PA, PB, PM, PN}
  Train = {T1, T2}
  Type <- MCType
  Length <- MCLength
  SearchLength = 4
  GroupLength = 1
  StationOf <- MCStationOf
  PathOf <- MCPathOf
  Link <- MCLink
  Detection <- MCDetection
  EngineLength <- MCEngineLength
  Braking = {1, 3}
  StartAt <- MCStartAt
  StartDir <- MCStartDir
  MaxThrows = 1
  Prompt = FALSE
  Preempted = TRUE
INVARIANTS NoIntrusion PathsAligned
CHECK_DEADLOCK FALSE
