\* conductTests with every strategy and a fitting and a failing size typed
\* for each fork, and every order of the children's MyMalloc calls.  A
\* schedule in which a MyFree faults ends there (run fork_test_segfault
\* reports it); the properties are about the schedules that get through.
CONSTANTS
  HeaderSize = 24
  FreeListSize = 16
  MutexSize = 40
  PageSize = 4096
  HeapSizes = {4096}
  Sizes = {}
  Strategies = {}
  NULL = NULL
  ForkSizes <- MCForkSizes
  ForkStrategies <- MCForkStrategies

SPECIFICATION DriverSpec

INVARIANT TestsRestoreHeap
INVARIANT FreeListSorted
PROPERTY RejectedFreesChangeNothing
