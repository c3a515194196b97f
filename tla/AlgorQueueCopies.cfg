\* As many blocks as queue can hold: no put of a new block finds it full.
CONSTANTS
  b1 = b1
  b2 = b2
  b3 = b3
  Block <- MCBlock3
  NoBlock = NoBlock
  Caller = {ws}
  Around <- MCAround3
  QueueSize = 3
  TempSize = 2
SPECIFICATION Spec
PROPERTIES
  CpytmpCopies
