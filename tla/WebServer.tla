----------------------------- MODULE WebServer -----------------------------
(***************************************************************************)
(* The multithreaded web server of src/multiThreadedWebServer/server.c:   *)
(* the main thread accepts connections and queue_put's them into a        *)
(* circular buffer of NBuffer request slots; a pool of worker threads     *)
(* takes requests out in FIFO, SFF (smallest file first) or RFF (most     *)
(* recently modified first) order, shifting the buffer left when the      *)
(* request taken is not the head, and serves them.  Three POSIX           *)
(* semaphores guard the buffer: empty (free slots), fill (queued          *)
(* requests) and mutex.                                                    *)
(*                                                                         *)
(* A connection is its file descriptor: Accept hands out the lowest free  *)
(* descriptor and Close frees it, so descriptors are reused.  What a      *)
(* client asks for is abstracted to the file's stat data.  Reading the     *)
(* request, parsing and serving it are not modelled beyond what they do   *)
(* to the queue and to the descriptor.                                    *)
(***************************************************************************)
EXTENDS Integers, FiniteSets

CONSTANTS
  NBuffer,   \* nbuffer, argv[3]
  Workers,   \* the thread pool, argv[2] threads
  Policies,  \* the sched_policy values argv[4] may give
  Fds,       \* descriptors Accept may return, ordered as the kernel does
  Files      \* [size, mtime, exists]: what stat finds for a requested file

ASSUME NBuffer \in Nat \ {0}
ASSUME Policies \subseteq {"FIFO", "SFF", "RFF"}
ASSUME Fds \subseteq Nat /\ Fds # {}

NoConn == -1
Slots == 0 .. NBuffer - 1
Slot == [connfd : Fds \cup {NoConn}, size : Nat, mtime : Nat]

VARIABLES
  policy,   \* sched_policy, fixed at startup
  queue,    \* queue[i]: connfd and the stat buffer sbuf (size, mtime)
  head, tail, count,
  empty, fill, mutex,   \* the semaphores' values
  open,     \* descriptors accepted and not yet closed
  ppc,      \* the main thread: "accept", "empty", "mutex", "read", "fill"
  pfd,      \* the connection the main thread is putting
  pfile,    \* the file that connection's request names
  wpc,      \* each worker: "fill", "mutex", "take", "empty", "serve"
  wfd       \* the connection a worker took

vars == <<policy, queue, head, tail, count, empty, fill, mutex, open, ppc, pfd,
          pfile, wpc, wfd>>

(* main: queue slots empty, malloc'ed sbufs zero (fresh pages), the     *)
(* semaphores at mutex = 1, empty = nbuffer, fill = 0; workers created.   *)
Init ==
  /\ policy \in Policies
  /\ queue = [i \in Slots |-> [connfd |-> NoConn, size |-> 0, mtime |-> 0]]
  /\ head = 0 /\ tail = 0 /\ count = 0
  /\ mutex = 1 /\ empty = NBuffer /\ fill = 0
  /\ open = {}
  /\ ppc = "accept" /\ pfd = NoConn /\ pfile = CHOOSE f \in Files : TRUE
  /\ wpc = [w \in Workers |-> "fill"]
  /\ wfd = [w \in Workers |-> NoConn]

Dec(i) == (i - 1 + NBuffer) % NBuffer
Inc(i) == (i + 1) % NBuffer

-----------------------------------------------------------------------------
(* Main thread *)

(* Accept returns the lowest descriptor not open; the client will ask   *)
(* for one of Files.                                                     *)
Accept ==
  /\ ppc = "accept"
  /\ Fds \ open # {}
  /\ \E f \in Files :
       LET fd == CHOOSE d \in Fds \ open : \A e \in Fds \ open : d <= e
       IN  /\ pfd' = fd /\ pfile' = f
           /\ open' = open \cup {fd}
  /\ ppc' = "empty"
  /\ UNCHANGED <<policy, queue, head, tail, count, empty, fill, mutex, wpc, wfd>>

(* A put that does not block on a full buffer. *)
PutWaitEmptyNoBlock ==
  /\ ppc = "empty"
  /\ empty' = empty - 1 /\ ppc' = "mutex"
  /\ UNCHANGED <<policy, queue, head, tail, count, fill, mutex, open, pfd, pfile, wpc, wfd>>

(* sem_wait(&empty) *)
PutWaitEmpty ==
  /\ ppc = "empty" /\ empty > 0
  /\ empty' = empty - 1 /\ ppc' = "mutex"
  /\ UNCHANGED <<policy, queue, head, tail, count, fill, mutex, open, pfd, pfile, wpc, wfd>>

(* sem_wait(&mutex) *)
PutWaitMutex ==
  /\ ppc = "mutex" /\ mutex > 0
  /\ mutex' = mutex - 1 /\ ppc' = "read"
  /\ UNCHANGED <<policy, queue, head, tail, count, empty, fill, open, pfd, pfile, wpc, wfd>>

(* Under the mutex: Rio_readlineb and requestReadhdrs block until the   *)
(* client has sent its request; stat fills sbuf only when the file      *)
(* exists, otherwise the slot keeps the sbuf it had; the slot gets       *)
(* connfd, tail and count advance, sem_post(&mutex).                     *)
ReadRequest ==
  /\ ppc = "read"
  /\ queue' = [queue EXCEPT ![tail] =
                 IF pfile.exists
                   THEN [connfd |-> pfd, size |-> pfile.size, mtime |-> pfile.mtime]
                   ELSE [@ EXCEPT !.connfd = pfd]]
  /\ tail' = Inc(tail)
  /\ count' = count + 1
  /\ mutex' = mutex + 1
  /\ ppc' = "fill"
  /\ UNCHANGED <<policy, head, empty, fill, open, pfd, pfile, wpc, wfd>>

(* sem_post(&fill); back to Accept. *)
PutPostFill ==
  /\ ppc = "fill"
  /\ fill' = fill + 1 /\ ppc' = "accept" /\ pfd' = NoConn
  /\ UNCHANGED <<policy, queue, head, tail, count, empty, mutex, open, pfile, wpc, wfd>>

-----------------------------------------------------------------------------
(* Worker threads *)

Occupied == {i \in Slots : queue[i].connfd # NoConn}

(* The first slot in index order whose key is strictly best so far, as  *)
(* the loops of thread_handle compare: smallest key, or largest.         *)
FirstExtreme(key, smallest) ==
  CHOOSE i \in Occupied :
    \A j \in Occupied :
      /\ j < i => IF smallest THEN key[i] < key[j] ELSE key[i] > key[j]
      /\ j > i => IF smallest THEN key[i] <= key[j] ELSE key[i] >= key[j]

(* A selection that takes the newest request for FIFO. *)
TargetNewest ==
  CASE policy = "FIFO" -> Dec(tail)
    [] policy = "RFF"  -> FirstExtreme([i \in Slots |-> queue[i].mtime], FALSE)
    [] policy = "SFF"  -> FirstExtreme([i \in Slots |-> queue[i].size], TRUE)

(* The slot thread_handle takes for sched_policy. *)
Target ==
  CASE policy = "FIFO" -> head
    [] policy = "RFF"  -> FirstExtreme([i \in Slots |-> queue[i].mtime], FALSE)
    [] policy = "SFF"  -> FirstExtreme([i \in Slots |-> queue[i].size], TRUE)

(* Slots the loop of shift_queue_left visits: from start up to, not     *)
(* including, the slot before tail.                                      *)
ShiftRange(start) ==
  {(start + k) % NBuffer : k \in 0 .. ((Dec(tail) - start + NBuffer) % NBuffer) - 1}

(* A shift that forgets to step tail back. *)
ShiftKeepTail(q, start) ==
  LET last == Dec(tail)
      moved == [i \in Slots |-> IF i \in ShiftRange(start) THEN q[Inc(i)] ELSE q[i]]
  IN  [queue |-> [moved EXCEPT ![last].connfd = NoConn],
       head |-> IF last = head THEN Inc(head) ELSE head,
       tail |-> tail]

(* shift_queue_left(start): each slot of the range takes the next one's  *)
(* request, the slot before tail is emptied (connfd only), head moves on *)
(* if it was that slot, and tail steps back.                             *)
shift_queue_left(q, start) ==
  LET last == Dec(tail)
      moved == [i \in Slots |-> IF i \in ShiftRange(start) THEN q[Inc(i)] ELSE q[i]]
  IN  [queue |-> [moved EXCEPT ![last].connfd = NoConn],
       head |-> IF last = head THEN Inc(head) ELSE head,
       tail |-> last]

(* sem_wait(&fill) *)
TakeWaitFill(w) ==
  /\ wpc[w] = "fill" /\ fill > 0
  /\ fill' = fill - 1 /\ wpc' = [wpc EXCEPT ![w] = "mutex"]
  /\ UNCHANGED <<policy, queue, head, tail, count, empty, mutex, open, ppc, pfd, pfile, wfd>>

(* sem_wait(&mutex) *)
TakeWaitMutex(w) ==
  /\ wpc[w] = "mutex" /\ mutex > 0
  /\ mutex' = mutex - 1 /\ wpc' = [wpc EXCEPT ![w] = "take"]
  /\ UNCHANGED <<policy, queue, head, tail, count, empty, fill, open, ppc, pfd, pfile, wfd>>

(* A take that returns without sem_post(&mutex). *)
TakeKeepMutex(w) ==
  LET t == Target
      q == [queue EXCEPT ![t].connfd = NoConn]
      s == shift_queue_left(q, t)
  IN  /\ wpc[w] = "take"
      /\ wfd' = [wfd EXCEPT ![w] = queue[t].connfd]
      /\ IF t = head
           THEN /\ queue' = q /\ head' = Inc(head) /\ UNCHANGED tail
           ELSE /\ queue' = s.queue /\ head' = s.head /\ tail' = s.tail
      /\ count' = count - 1
      /\ wpc' = [wpc EXCEPT ![w] = "empty"]
      /\ UNCHANGED <<policy, empty, fill, mutex, open, ppc, pfd, pfile>>

(* Under the mutex: pick the target, copy the request out, empty the    *)
(* slot, advance head or shift the rest left, count--, sem_post(&mutex). *)
Take(w) ==
  LET t == Target
      q == [queue EXCEPT ![t].connfd = NoConn]
      s == shift_queue_left(q, t)
  IN  /\ wpc[w] = "take"
      /\ wfd' = [wfd EXCEPT ![w] = queue[t].connfd]
      /\ IF t = head
           THEN /\ queue' = q /\ head' = Inc(head) /\ UNCHANGED tail
           ELSE /\ queue' = s.queue /\ head' = s.head /\ tail' = s.tail
      /\ count' = count - 1
      /\ mutex' = mutex + 1
      /\ wpc' = [wpc EXCEPT ![w] = "empty"]
      /\ UNCHANGED <<policy, empty, fill, open, ppc, pfd, pfile>>

(* sem_post(&empty) *)
TakePostEmpty(w) ==
  /\ wpc[w] = "empty"
  /\ empty' = empty + 1 /\ wpc' = [wpc EXCEPT ![w] = "serve"]
  /\ UNCHANGED <<policy, queue, head, tail, count, fill, mutex, open, ppc, pfd, pfile, wfd>>

(* A worker that serves the request but never closes the connection. *)
ServeNoClose(w) ==
  /\ wpc[w] = "serve"
  /\ wfd' = [wfd EXCEPT ![w] = NoConn]
  /\ wpc' = [wpc EXCEPT ![w] = "fill"]
  /\ UNCHANGED <<policy, queue, head, tail, count, empty, fill, mutex, open, ppc, pfd, pfile>>

(* requestHandle and Close(connfd): the descriptor is free again. *)
Serve(w) ==
  /\ wpc[w] = "serve"
  /\ open' = open \ {wfd[w]}
  /\ wfd' = [wfd EXCEPT ![w] = NoConn]
  /\ wpc' = [wpc EXCEPT ![w] = "fill"]
  /\ UNCHANGED <<policy, queue, head, tail, count, empty, fill, mutex, ppc, pfd, pfile>>

-----------------------------------------------------------------------------
MainStep == PutWaitEmpty \/ PutWaitMutex \/ PutPostFill
WorkerStep(w) ==
  TakeWaitFill(w) \/ TakeWaitMutex(w) \/ Take(w) \/ TakePostEmpty(w) \/ Serve(w)

Next ==
  \/ Accept \/ MainStep \/ ReadRequest
  \/ \E w \in Workers : WorkerStep(w)

(* Threads that can run are eventually scheduled.  New clients need not *)
(* arrive (Accept is not fair).  A connected client eventually sends its *)
(* request, so the read in queue_put eventually returns.                 *)
Spec ==
  /\ Init /\ [][Next]_vars
  /\ WF_vars(MainStep) /\ WF_vars(ReadRequest)
  /\ \A w \in Workers : WF_vars(WorkerStep(w))

(* The same server when a connected client may never send its request:  *)
(* Rio_readlineb has no timeout.                                        *)
SpecStalledClient ==
  /\ Init /\ [][Next]_vars
  /\ WF_vars(MainStep)
  /\ \A w \in Workers : WF_vars(WorkerStep(w))
-----------------------------------------------------------------------------
(* The slots count requests occupy from head on. *)
Window == {(head + k) % NBuffer : k \in 0 .. count - 1}

Holding(w) == wpc[w] \in {"empty", "serve"}

TypeOK ==
  /\ policy \in Policies
  /\ queue \in [Slots -> Slot]
  /\ {head, tail} \subseteq Slots /\ count \in 0 .. NBuffer
  /\ {empty, fill, mutex} \subseteq Nat
  /\ open \subseteq Fds
  /\ ppc \in {"accept", "empty", "mutex", "read", "fill"}
  /\ pfd \in Fds \cup {NoConn} /\ pfile \in Files
  /\ wpc \in [Workers -> {"fill", "mutex", "take", "empty", "serve"}]
  /\ wfd \in [Workers -> Fds \cup {NoConn}]

(* The circular buffer stays a window (queue_put appending at tail, the  *)
(* head advance and shift_queue_left): the occupied slots are exactly    *)
(* the count slots from head, and tail is the slot after them.           *)
QueueShape ==
  /\ Occupied = Window
  /\ tail = (head + count) % NBuffer

(* The semaphores agree with the buffer at every interleaving of the     *)
(* main thread and the workers: fill counts the queued requests no       *)
(* worker has claimed yet, empty the free slots nobody has claimed, and   *)
(* mutex is 0 exactly while one thread is inside a critical section.      *)
SemaphoresMatchQueue ==
  LET claimed == Cardinality({w \in Workers : wpc[w] \in {"mutex", "take"}})
      released == Cardinality({w \in Workers : wpc[w] = "empty"})
      putting == IF ppc \in {"mutex", "read"} THEN 1 ELSE 0
      posting == IF ppc = "fill" THEN 1 ELSE 0
      inside == Cardinality({w \in Workers : wpc[w] = "take"})
                + IF ppc = "read" THEN 1 ELSE 0
  IN  /\ fill + claimed + posting = count
      /\ empty + putting + count + released = NBuffer
      /\ mutex + inside = 1

(* No connection is lost or duplicated: every open descriptor is held by *)
(* exactly one of the main thread, a queue slot or a worker, and nothing *)
(* holds a closed one.                                                    *)
ConnectionsAccounted ==
  LET inMain == IF ppc \in {"empty", "mutex", "read"} THEN {pfd} ELSE {}
      holders(f) ==
        Cardinality({i \in Slots : queue[i].connfd = f})
        + Cardinality({w \in Workers : Holding(w) /\ wfd[w] = f})
        + IF f \in inMain THEN 1 ELSE 0
  IN  \A f \in Fds : holders(f) = IF f \in open THEN 1 ELSE 0

QueuedFds == {queue[i].connfd : i \in Occupied}

(* Every queued request is eventually taken by a worker (thread_handle's *)
(* selection under the policy, with the threads scheduled fairly).       *)
RequestsServed == \A f \in Fds : f \in QueuedFds ~> f \notin QueuedFds
=============================================================================
