\* A page drives on while an update of its train is under way.  Violated too: HeldSends
\* with Fingers = 2; WatchersFollow with Preempted = TRUE; and, as a PROPERTY of
\* PagesFairSpec, StopCutsPower.
SPECIFICATION PagesSpec
CONSTANTS
  Preempted = FALSE
  Page = {p1, p2}
  Train = {t1, t2}
  Nobody = Nobody
  Slots = 2
  Engines = {0}
  TrainSets = {}
  MaxTries = 1
  MaxEvents = 2
  MaxBacklog = 2
  MaxEchoes = 6
  Driver = {p1}
  Speed = {0, 1}
  Fingers = 1
  MaxTouches = 3
  Address = {a1, a2}
  Fails = FALSE
  MaxClicks = 2
  MaxRestarts = 1
INVARIANT DriversFollow
CHECK_DEADLOCK FALSE
