SPECIFICATION Spec
CONSTANTS
  Tasks = {1, 2, 3}
  MaxDepth = 2
INVARIANT
  MutualExclusion
CONSTRAINT
  SemaphoreWithoutKeys
