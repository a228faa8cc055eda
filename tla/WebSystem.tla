----------------------------- MODULE WebSystem -----------------------------
(***************************************************************************)
(* The web server of WebServer together with the client of               *)
(* src/multiThreadedWebServer/client.c: main creates one thread per file  *)
(* (prefix1.txt ... prefixN.txt, at most MAX_THREADS); each thread opens a *)
(* connection, sends one GET, reads the response until the server closes   *)
(* the connection, closes its descriptor and exits; main joins them all.  *)
(*                                                                         *)
(* The two programs interact only through the kernel: connect() completes *)
(* into the listen backlog before the server accepts, the request bytes   *)
(* wait in the socket until the server reads them, and the client's reads *)
(* end when the server closes its side.  The composition conjoins each    *)
(* server action that touches a connection with what the kernel does to   *)
(* the client's side of it; the other server steps leave the clients      *)
(* alone, and the client steps leave the server alone.                    *)
(***************************************************************************)
EXTENDS WebServer, Sequences, FiniteSets

CONSTANTS
  Clients,  \* the threads client.c's main creates: 1 .. file_count
  Wants     \* Wants[c]: what stat finds for the file thread c requests

ASSUME Clients \subseteq Nat \ {0}
ASSUME Wants \in [Clients -> Files]

NoClient == 0

VARIABLES
  cpc,      \* each client thread: "connect", "send", "read", "done"
  backlog,  \* completed connections not yet accepted, oldest first
  peer,     \* peer[fd]: the client at the other end of server descriptor fd
  eof       \* clients whose connection the server has closed

clientVars == <<cpc, backlog, peer, eof>>
sysVars == <<vars, clientVars>>

(* Both programs started: the server is at Accept with an empty buffer,  *)
(* every client thread is about to call Open_clientfd.                    *)
SysInit ==
  /\ Init
  /\ cpc = [c \in Clients |-> "connect"]
  /\ backlog = <<>>
  /\ peer = [f \in Fds |-> NoClient]
  /\ eof = {}

-----------------------------------------------------------------------------
(* Client threads *)

(* Open_clientfd: connect() returns once the kernel has queued the        *)
(* connection on the server's listening socket.                           *)
Connect(c) ==
  /\ cpc[c] = "connect"
  /\ backlog' = Append(backlog, c)
  /\ cpc' = [cpc EXCEPT ![c] = "send"]
  /\ UNCHANGED <<vars, peer, eof>>

(* clientSend: Rio_writen of the GET line and the host header; the bytes *)
(* sit in the socket whether or not the server has accepted yet.          *)
Send(c) ==
  /\ cpc[c] = "send"
  /\ cpc' = [cpc EXCEPT ![c] = "read"]
  /\ UNCHANGED <<vars, backlog, peer, eof>>

(* clientPrint reads header and body lines until Rio_readlineb returns 0, *)
(* which happens once the server has closed the connection; then         *)
(* Close(clientfd), free(args) and pthread_exit.                          *)
Receive(c) ==
  /\ cpc[c] = "read"
  /\ c \in eof
  /\ cpc' = [cpc EXCEPT ![c] = "done"]
  /\ UNCHANGED <<vars, backlog, peer, eof>>

(* The thread's slot is taken by a thread of a later run of the client, *)
(* or of another client process running beside it: requests keep         *)
(* arriving while earlier ones wait.  Nothing makes anyone start one.    *)
Rerun(c) ==
  /\ cpc[c] = "done"
  /\ cpc' = [cpc EXCEPT ![c] = "connect"]
  /\ eof' = eof \ {c}
  /\ UNCHANGED <<vars, backlog, peer>>

-----------------------------------------------------------------------------
(* Server steps, joined with the client side of the connection *)

(* Accept takes the oldest completed connection; the request it will    *)
(* read names that client's file.                                        *)
SysAccept ==
  /\ backlog # <<>>
  /\ Accept
  /\ pfile' = Wants[Head(backlog)]
  /\ peer' = [peer EXCEPT ![pfd'] = Head(backlog)]
  /\ backlog' = Tail(backlog)
  /\ UNCHANGED <<cpc, eof>>

(* Rio_readlineb in queue_put returns once the client has sent. *)
SysReadRequest ==
  /\ ReadRequest
  /\ cpc[peer[pfd]] \in {"read", "done"}
  /\ UNCHANGED clientVars

(* A worker that never closes the connection it served. *)
SysServeNoClose(w) ==
  /\ ServeNoClose(w)
  /\ UNCHANGED clientVars

SysServe(w) ==
  /\ Serve(w)
  /\ eof' = eof \cup {peer[wfd[w]]}
  /\ peer' = [peer EXCEPT ![wfd[w]] = NoClient]
  /\ UNCHANGED <<cpc, backlog>>

SysMainStep == MainStep /\ UNCHANGED clientVars

SysWorkerStep(w) ==
  \/ /\ TakeWaitFill(w) \/ TakeWaitMutex(w) \/ Take(w) \/ TakePostEmpty(w)
     /\ UNCHANGED clientVars
  \/ SysServe(w)

ClientStep(c) == Connect(c) \/ Send(c) \/ Receive(c)

SysNext ==
  \/ SysAccept \/ SysMainStep \/ SysReadRequest
  \/ \E w \in Workers : SysWorkerStep(w)
  \/ \E c \in Clients : ClientStep(c) \/ Rerun(c)

(* Every runnable thread of either program is eventually scheduled; the *)
(* server's blocking accept and read return once the kernel has what     *)
(* they wait for.  Starting new clients is up to the users.               *)
SysSpec ==
  /\ SysInit /\ [][SysNext]_sysVars
  /\ WF_sysVars(SysAccept) /\ WF_sysVars(SysMainStep) /\ WF_sysVars(SysReadRequest)
  /\ \A w \in Workers : WF_sysVars(SysWorkerStep(w))
  /\ \A c \in Clients : WF_sysVars(ClientStep(c))
-----------------------------------------------------------------------------
(* Where client c's connection is on the server's side: once in the      *)
(* listen backlog for each pending connect, once for each descriptor     *)
(* whose peer it is.                                                      *)
ServerEnds(c) ==
  Len(SelectSeq(backlog, LAMBDA b : b = c)) + Cardinality({f \in Fds : peer[f] = c})

ClientsFinish == \A c \in Clients : cpc[c] = "connect" ~> cpc[c] = "done"
=============================================================================
