CONSTANTS
  HeaderSize = 1
  FreeListSize = 1
  MutexSize = 1
  PageSize = 12
  NULL = NULL
  HeapSizes <- MCHeapSizes
  Sizes <- MCSizes
  Strategies <- MCStrategies

SPECIFICATION Spec

INVARIANT TypeOK
INVARIANT HeapTiled
INVARIANT CursorValid
INVARIANT DoubleFreeDetectable
INVARIANT DumpTilesArena
PROPERTY Refinement
