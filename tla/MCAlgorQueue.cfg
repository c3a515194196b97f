CONSTANTS
  b1 = b1
  b2 = b2
  b3 = b3
  Block <- MCBlock2
  NoBlock = NoBlock
  Caller = {ws, sched}
  Around <- MCAround2
  QueueSize = 2
  TempSize = 1
SPECIFICATION Spec
INVARIANTS
  RingsConsistent
PROPERTIES
  QueueIsFifo
  OnceBeforeWrap
