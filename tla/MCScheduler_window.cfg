SPECIFICATION Spec
CONSTANTS
  Tasks = {first, a, b}
  First = first
  NULL = NULL
  Undef = Undef
  Priorities = {1, 2}
  PRIORITY_NORMAL = 2
  MaxSleep = 1
  TickInWindow = TRUE
  first = first
  a = a
  b = b
INVARIANT
  RingComplete
