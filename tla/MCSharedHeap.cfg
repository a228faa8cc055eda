\* Once a child sleeps on the private futex nobody wakes it and the parent
\* blocks in wait(): that hang is what run fork_lost_wakeup reports, so this
\* safety run does not also report it as a deadlock.
CONSTANTS
  HeaderSize = 1
  FreeListSize = 1
  MutexSize = 1
  PageSize = 12
  HeapSizes = {12}
  NULL = NULL
  NumChildren = 3
  PointersSize = 1
  Sizes <- MCSizes
  Strategies <- MCStrategies

SPECIFICATION ForkSpec

INVARIANT ForkTypeOK MutualExclusion

CHECK_DEADLOCK FALSE
