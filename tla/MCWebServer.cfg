\* SFF and RFF selection with a three-slot buffer: full and wrapped buffers,
\* requests taken from the middle, descriptors reused.
CONSTANTS
  NBuffer = 3
  Workers = {w1, w2}
  Policies = {"SFF", "RFF"}
  Fds = {1, 2, 3, 4, 5}
  Files <- MCFiles

SPECIFICATION Spec

INVARIANT TypeOK QueueShape SemaphoresMatchQueue ConnectionsAccounted
