\* shellMode given a line longer than its buffer.
CONSTANTS
  LineMax = 3
  Inputs <- MCInputs
  Modes = {"shell"}

SPECIFICATION Spec

INVARIANT ExecutedAsTyped
\* main returns once the reader has: the program really stops there.
CHECK_DEADLOCK FALSE
