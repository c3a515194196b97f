SPECIFICATION BothSpec
CONSTANTS
  MaxSpeed = 2
  Distance = {50, 100}
  Near = 50
  Steps = 2
  Clients = FALSE
  Preempted = TRUE
INVARIANTS TypeOK StoppedStands RunsExpected
PROPERTY ClientsEnd
