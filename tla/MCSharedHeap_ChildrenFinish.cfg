\* The children's lock steps are weakly fair; a child asleep in futex_wait
\* has no step until a futex_wake reaches it.  A hung wait() is reported as
\* a violation of ChildrenFinish rather than as a deadlock.
CONSTANTS
  HeaderSize = 1
  FreeListSize = 1
  MutexSize = 1
  PageSize = 12
  HeapSizes = {12}
  NULL = NULL
  NumChildren = 2
  PointersSize = 1
  Sizes <- MCSizes
  Strategies <- MCStrategies

SPECIFICATION ForkSpec

PROPERTY ChildrenFinish

CHECK_DEADLOCK FALSE
