\* client.c's threads against the FIFO server, each thread slot reused by
\* later clients so that requests keep arriving; a two-slot buffer.
CONSTANTS
  NBuffer = 2
  Workers = {w1, w2}
  Policies = {"FIFO"}
  Fds = {1, 2, 3}
  Files <- MCFiles
  Clients = {1, 2, 3}
  Wants <- MCWants

SPECIFICATION SysSpec

 
PROPERTY RequestsServed ClientsFinish
