SPECIFICATION Spec
CONSTANTS
  Tasks = {first, a, b}
  First = first
  first = first
  a = a
  b = b
SYMMETRY Symmetry
INVARIANTS
  ReapedExactly
  IdleFindsLocksFree
  SharesOnlyPagesBelow
  StuckOnlyBelowHandler
CONSTRAINTS
  Explored
  OneContended
