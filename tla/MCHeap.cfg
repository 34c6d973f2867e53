SPECIFICATION Spec
CONSTANTS
  MaxAlign = 2
  MarkerSize = 1
  Word = 64
  Page = 12
  MaxPages = 3
  Requests = {0, 5, 11, 63}
  Junk = Junk
INVARIANTS
  Tiled
  Coalesced
  OwnedExact
CHECK_DEADLOCK FALSE
