SPECIFICATION Spec
CONSTANTS
  A1 = A1 A2 = A2 DW = DW M1 = M1  M2 = M2  DE = DE B1 = B1 B2 = B2 C1 = C1 C2 = C2
  SE = SE  PA = PA  PM = PM PB = PB PC = PC SA = SA  SB = SB SC = SC
  T1 = T1  T2 = T2  None = None
  Block = {A1, A2, DW, M1, M2, DE, B1, B2, C1, C2}
  Switch = {SE}
  Path = {PA, PM, PB, PC}
  Train = {T1, T2}
  Type <- MCType
  Length <- MCLength
  SearchLength = 4
  GroupLength = 1
  StationOf <- MCStationOf
  PathOf <- MCPathOf
  Link <- MCLink
  Detection <- MCDetection
  EngineLength <- MCEngineLength
  Braking = {1}
  StartAt <- MCStartAt
  StartDir <- MCStartDir
  MaxThrows = 0
  Prompt = TRUE
  Preempted = FALSE
INVARIANT RefusedIsClosed
CHECK_DEADLOCK FALSE
