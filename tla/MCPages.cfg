SPECIFICATION PagesFairSpec
CONSTANTS
  Preempted = FALSE
  Page = {p1, p2}
  Train = {t1, t2}
  Nobody = Nobody
  Slots = 2
  Engines = {0}
  TrainSets = {}
  MaxTries = 1
  MaxEvents = 2
  MaxBacklog = 2
  MaxEchoes = 6
  Driver = {p1}
  Speed = {0, 1}
  Fingers = 1
  MaxTouches = 3
  Address = {a1, a2}
  Fails = FALSE
  MaxClicks = 2
  MaxRestarts = 1
INVARIANTS
  ShowsOpen
  PagesAgree ShowsPower HeldSends WatchersFollow
  ShownByIds ShownIsKept AddressOwned
PROPERTIES ComesBack EchoEnds
CHECK_DEADLOCK FALSE
