\* true | cat, and a stage printing more than the pipe holds piped into cat:
\* the shell's read of an empty pipe blocks for ever, as it holds the write
\* end itself; the large stage blocks in write() while the shell blocks in
\* waitpid() for it.  TLC reports the first of the two it reaches.
SPECIFICATION Spec
CONSTANTS
  PipeCap = 2
  MaxLines = 1
  Lines <- HangLines
PROPERTY LineCompletes
CHECK_DEADLOCK FALSE
