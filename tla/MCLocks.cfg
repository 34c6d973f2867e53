SPECIFICATION FairSpec
CONSTANTS
  Tasks = {1, 2, 3}
  MaxDepth = 2
INVARIANTS
  TypeOK
  LockHasOwner
  ExclusionUntilContended
  LevelUntilContended
PROPERTY
  SomeoneEnters
CONSTRAINT
  MutexUntilContended
