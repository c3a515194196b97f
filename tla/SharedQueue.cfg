CONSTANTS
  Item = {b1, b2}
  Producer = {uart, ws}
  Consumer = {algorithm}
  Nobody = Nobody
  NoItem = NoItem
  MAX = 2
  MaxPuts = 4
SPECIFICATION Spec
\* Puts are bounded, so a consumer can be left waiting in Get.
\* The invariant GetReturns is violated.
CHECK_DEADLOCK FALSE
INVARIANTS
  NeverAhead
  InTurn
