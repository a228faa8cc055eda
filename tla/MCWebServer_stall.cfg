\* FIFO serving when a connected client may never send its request.
CONSTANTS
  NBuffer = 2
  Workers = {w1, w2}
  Policies = {"FIFO"}
  Fds = {1, 2, 3, 4}
  Files <- MCFiles

SPECIFICATION SpecStalledClient

PROPERTY RequestsServed
