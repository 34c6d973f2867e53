SPECIFICATION FairSpec
CONSTANTS
  Tasks = {1, 2, 3}
  First = 1
  NULL = NULL
  Undef = Undef
  Priorities = {1, 2}
  PRIORITY_NORMAL = 2
  MaxSleep = 4
  TickInWindow = FALSE
INVARIANTS
  TypeOK
  RingComplete
  RunsReadyTask
  SleepListExact
  DoomedListExact
  ContextsSaved
PROPERTIES
  WakesNeverEarly
  SleeperWakes
  DoomedReaped
  ReadyRunsIfSleepEnds
ACTION_CONSTRAINT
  CreatedInOrder
