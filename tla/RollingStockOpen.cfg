\* The Delete button of an empty dialog removes the first item; a list out of date has ids that are others now.
\* Violated too: ServerUp, DrivesComposition, the properties SetsKeepStock and OwnClosed;
\* OneEngineEach with MaxClicks = 3, or with Preempted = TRUE; ShownByIds with
\* Fails = TRUE, or with Preempted = TRUE and Editor = {p1, p2}.
SPECIFICATION Spec
CONSTANTS
  Page = {p1, p2}
  Address = {a1, a2}
  Train = {t1, t2}
  Saved <- MCSaved
  Fails = FALSE
  Preempted = FALSE
  Editor = {p1}
  MaxClicks = 2
  MaxBacklog = 1
  MaxRestarts = 1
  None = None
INVARIANT MeansTheSame
CHECK_DEADLOCK FALSE
