\* Pipelines and ;-lists of every command kind, two lines a session: every
\* forked child's stdin is the output of the stage before its |, and every
\* line whose stages before a | print output that fits the pipe ends.
\* Lines with a silent stage before | hang for real (MCShell_hang.cfg), so
\* deadlock is not checked here; FedLinesComplete covers the lines that end.
SPECIFICATION Spec
CONSTANTS
  PipeCap = 2
  MaxLines = 2
  Lines <- PlainLines
INVARIANT TypeOK StdinIsPreviousStage
PROPERTY FedLinesComplete
CHECK_DEADLOCK FALSE
