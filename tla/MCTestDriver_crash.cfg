\* conductTests as in MCTestDriver.cfg: does any input and schedule make
\* one of the tests' MyFree calls fault?
CONSTANTS
  HeaderSize = 24
  FreeListSize = 16
  MutexSize = 40
  PageSize = 4096
  HeapSizes = {4096}
  Sizes = {}
  Strategies = {}
  NULL = NULL
  ForkSizes <- MCForkSizes
  ForkStrategies <- MCForkStrategies

SPECIFICATION DriverSpec

INVARIANT FreeNeverFaults
