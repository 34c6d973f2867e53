SPECIFICATION Spec
CONSTANTS
  Threads = {t1, t2}
  PageSize = 4
  Maps <- MCMaps
  KernelEnd = 12
  Limit = 63
  TablePages = 2
  KernelPages = 1
  HeapPages = 3
  StackPages = 2
  Slots = 4
  t1 = t1
  t2 = t2
SYMMETRY Symmetry
INVARIANT
  FreeListExact
CHECK_DEADLOCK FALSE
