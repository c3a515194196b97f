\* A page connects while a message is made.  LinksKnown and StaysUp are violated too,
\* also with Preempted = FALSE.
SPECIFICATION FairSpec
CONSTANTS
  None = None
  Browser = {pc, phone}
  Train = {t1, t2}
  Engines = {0}
  Sets = {}
  Slots = 2
  MaxClients = 2
  MaxDrops = 1
  MaxBacklog = 1
  Preempted = TRUE
INVARIANT ShowsOpen
\* All trains may be linked and all pages up to date.
CHECK_DEADLOCK FALSE
