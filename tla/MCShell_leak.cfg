\* echo a ; echo b | cat  and  echo a | echo b ; cat: the output of a ;
\* block, or of the stage before an earlier |, reaches a block's stdin.
SPECIFICATION Spec
CONSTANTS
  PipeCap = 2
  MaxLines = 1
  Lines <- LeakLine
INVARIANT StdinIsPreviousStage
CHECK_DEADLOCK FALSE
