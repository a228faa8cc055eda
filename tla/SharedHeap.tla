----------------------------- MODULE SharedHeap -----------------------------
(***************************************************************************)
(* The heap shared by forked processes, as main.c's forkTest uses it: the *)
(* parent has called InitMyMalloc and MyMalloc'ed the pointers array,     *)
(* then forks children that each make one MyMalloc call on the shared     *)
(* arena and exit; the parent waits for all of them and frees what they   *)
(* got, then the array.                                                   *)
(*                                                                         *)
(* The allocator calls are Allocator's operators; what is new here is the *)
(* pthread mutex around them.  InitMyMalloc calls pthread_mutex_init with  *)
(* NULL attributes, so the mutex is glibc's default, process-private      *)
(* mutex: a lock word 0 (free) / 1 (held) / 2 (held, maybe waiters), and  *)
(* futex waits and wakes keyed by the caller's address space.  Each step  *)
(* of a child below is one atomic instruction or system call of glibc's  *)
(* lll_lock / __lll_lock_wait / lll_unlock.                              *)
(***************************************************************************)
EXTENDS Allocator

CONSTANTS
  NumChildren,     \* children forkTest forks
  PointersSize     \* bytes of the parent's pointers array

ASSUME NumChildren \in Nat \ {0}

Children == 1 .. NumChildren
FreeingArray == NumChildren + 1
ParentDone == NumChildren + 2

(* Allocator's variables are the shared arena and the statics every    *)
(* process inherited from the parent.                                    *)
VARIABLES
  lockword,  \* the mutex's __lock word
  pc,        \* where each child is
  req,       \* each child's [size, strategy], read by the parent before fork
  result,    \* pointers[i]: what child i's MyMalloc returned
  ppc        \* the parent: 0 in wait(), i freeing pointers[i], then the
             \* array at NumChildren + 1, done at NumChildren + 2

arena == <<heap, allocated, issued, crashed, initialized, cap>>
forkVars == <<arena, lockword, pc, req, result, ppc>>

(* The pointers array, the parent's firstFit before fork. *)
PointersArray == firstFit(FreshHeap(PageSize).h, PointersSize).ptr

(* The parent before fork: InitMyMalloc(PageSize) and the pointers array *)
(* from firstFit.                                                        *)
ForkInit ==
  LET fresh == FreshHeap(PageSize)
  IN  /\ heap = firstFit(fresh.h, PointersSize).h
      /\ allocated = fresh.reserved \cup {PointersArray - HeaderSize}
      /\ issued = {PointersArray}
      /\ crashed = FALSE
      /\ initialized = TRUE
      /\ cap = RoundToPage(PageSize)
      /\ lockword = 0
      /\ pc = [c \in Children |-> "call"]
      /\ req \in [Children -> [size : Sizes, strategy : Strategies]]
      /\ result = [c \in Children |-> NULL]
      /\ ppc = 0

Goto(c, l) == pc' = [pc EXCEPT ![c] = l]

(* The futex queue a waiter sleeps on: a private futex is keyed by the   *)
(* address space, and every forked process has its own.                 *)
FutexKey(c) == c

(* MyMalloc: heapBlockHeader is set in the child, so it goes on to lock. *)
Call(c) ==
  /\ pc[c] = "call"
  /\ Goto(c, "cas")
  /\ UNCHANGED <<arena, lockword, req, result, ppc>>

(* A lock that increments the word instead of compare-and-swap.      *)
LockCasIncrement(c) ==
  /\ pc[c] = "cas"
  /\ lockword' = lockword + 1
  /\ Goto(c, IF lockword = 0 THEN "cs" ELSE "load")
  /\ UNCHANGED <<arena, req, result, ppc>>

(* lll_lock: compare-and-swap 0 -> 1; on failure enter __lll_lock_wait. *)
LockCas(c) ==
  /\ pc[c] = "cas"
  /\ lockword' = IF lockword = 0 THEN 1 ELSE lockword
  /\ Goto(c, IF lockword = 0 THEN "cs" ELSE "load")
  /\ UNCHANGED <<arena, req, result, ppc>>

(* __lll_lock_wait: a lock word already 2 goes straight to futex_wait.  *)
LockLoad(c) ==
  /\ pc[c] = "load"
  /\ Goto(c, IF lockword = 2 THEN "wait" ELSE "xchg")
  /\ UNCHANGED <<arena, lockword, req, result, ppc>>

(* The exchange that takes the lock: the old value tells whether it was *)
(* free.                                                                *)
AcquiredUnlessContended(old) == old # 2
Acquired(old) == old = 0

(* while (atomic_exchange_acquire(futex, 2) != 0) futex_wait(futex, 2). *)
LockXchg(c) ==
  /\ pc[c] = "xchg"
  /\ lockword' = 2
  /\ Goto(c, IF Acquired(lockword) THEN "cs" ELSE "wait")
  /\ UNCHANGED <<arena, req, result, ppc>>

(* futex_wait(futex, 2): the kernel sleeps only if the word is still 2; *)
(* otherwise EAGAIN and the loop exchanges again.                       *)
FutexWait(c) ==
  /\ pc[c] = "wait"
  /\ Goto(c, IF lockword = 2 THEN "asleep" ELSE "xchg")
  /\ UNCHANGED <<arena, lockword, req, result, ppc>>

(* The switch of MyMalloc on the shared free list, under the lock.      *)
Allocate(c) ==
  /\ pc[c] = "cs"
  /\ MyMalloc(req[c].size, req[c].strategy)
  /\ result' = [result EXCEPT ![c] =
                  Dispatch(heap, req[c].size, req[c].strategy).ptr]
  /\ Goto(c, "unlock")
  /\ UNCHANGED <<lockword, req, ppc>>

(* lll_unlock: exchange 0; an old value 2 wakes one waiter on the same  *)
(* futex key.  Then the child stores its pointer and _exits.            *)
Unlock(c) ==
  LET sleepers == {d \in Children : pc[d] = "asleep" /\ FutexKey(d) = FutexKey(c)}
  IN  /\ pc[c] = "unlock"
      /\ lockword' = 0
      /\ IF lockword = 2 /\ sleepers # {}
           THEN \E d \in sleepers : pc' = [pc EXCEPT ![c] = "exited", ![d] = "xchg"]
           ELSE Goto(c, "exited")
      /\ UNCHANGED <<arena, req, result, ppc>>

(* wait() returns once every child has exited; the parent then frees    *)
(* pointers[i] for each child in order.  Its calls are uncontended.     *)
ParentWait ==
  /\ ppc = 0
  /\ \A c \in Children : pc[c] = "exited"
  /\ ppc' = 1
  /\ UNCHANGED <<arena, lockword, pc, req, result>>

(* MyFree(p) as one call of the parent: accepted frees release the block *)
(* (and may fault); refused ones change nothing.                         *)
ParentFree(p, next) ==
  /\ ~crashed
  /\ IF FreeAccepted(heap, p)
       THEN MyFree(p)
       ELSE UNCHANGED arena
  /\ ppc' = next
  /\ UNCHANGED <<lockword, pc, req, result>>

FreeChild ==
  /\ ppc \in Children
  /\ ParentFree(result[ppc], ppc + 1)

FreeArray ==
  /\ ppc = FreeingArray
  /\ ParentFree(PointersArray, ParentDone)

(* forkTest has returned, or the parent died of a fault in MyFree.      *)
Finished == (ppc = ParentDone \/ crashed) /\ UNCHANGED forkVars

ChildStep(c) ==
  \/ Call(c) \/ LockCas(c) \/ LockLoad(c) \/ LockXchg(c)
  \/ FutexWait(c) \/ Allocate(c) \/ Unlock(c)

ParentStep == ParentWait \/ FreeChild \/ FreeArray

ForkNext == (\E c \in Children : ChildStep(c)) \/ ParentStep \/ Finished

(* Every process runs its program: a runnable child or parent is       *)
(* eventually scheduled.  A child asleep on the futex has no step.      *)
Fairness ==
  /\ \A c \in Children : WF_forkVars(ChildStep(c))
  /\ WF_forkVars(ParentStep)

ForkSpec == ForkInit /\ [][ForkNext]_forkVars /\ Fairness

-----------------------------------------------------------------------------
Holders == {c \in Children : pc[c] \in {"cs", "unlock"}}

ForkTypeOK ==
  /\ lockword \in 0 .. 2
  /\ pc \in [Children -> {"call", "cas", "load", "xchg", "wait", "asleep",
                          "cs", "unlock", "exited"}]
  /\ req \in [Children -> [size : Sizes, strategy : Strategies]]
  /\ result \in [Children -> Ptr]
  /\ ppc \in 0 .. ParentDone
  /\ crashed \in BOOLEAN

(* Mutual exclusion of the glibc lock word across the children: at most *)
(* one of them is between acquiring the mutex (lll_lock's CAS or        *)
(* exchange) and lll_unlock, and the lock word is non-zero while one is. *)
MutualExclusion ==
  /\ Cardinality(Holders) <= 1
  /\ Holders # {} => lockword # 0

(* forkTest's wait() returns: every child's MyMalloc eventually gets the *)
(* mutex and the child exits, under fair scheduling of processes.       *)
ChildrenFinish == <>(\A c \in Children : pc[c] = "exited")
=============================================================================
