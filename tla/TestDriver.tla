----------------------------- MODULE TestDriver -----------------------------
(***************************************************************************)
(* main.c's conductTests, the program the allocator ships with, run on    *)
(* Allocator's operators: InitMyMalloc(4096), testStrategies,             *)
(* utilizationTest, forkTest, invalidPointerTest, unInitMyMalloc and a    *)
(* last MyMalloc on the uninitialized heap.                               *)
(*                                                                         *)
(* The sequential tests are a fixed list of calls, Program, walked by the *)
(* step counter.  forkTest is where the program depends on its input and  *)
(* on scheduling: the strategy and size typed for each of the four forks, *)
(* and the order in which the children's MyMalloc calls take the shared   *)
(* mutex.  A child's call is one step here; the lock word itself is       *)
(* SharedHeap's subject.  DumpFreeList and printf change no state.        *)
(***************************************************************************)
EXTENDS Allocator

CONSTANTS
  ForkSizes,       \* sizes the user may type at forkTest's prompts
  ForkStrategies   \* strategies the user may type (0..3; others re-prompt)

ASSUME ForkStrategies \subseteq {BEST_FIT, WORST_FIT, FIRST_FIT, NEXT_FIT}

NumForks == 4                   \* for (i = 0; i < 4; i++)
Forks == 0 .. NumForks - 1
PointerBytes == 8               \* sizeof(char*)

(* What a pointers[i] slot holds when child i never stored into it: the  *)
(* bytes earlier tests left in the array's memory, which are not a       *)
(* pointer MyFree's checks accept (they are refused as out of the arena). *)
StaleSlot == -1

VARIABLES
  step,      \* the index in Program of the call being made
  fpc,       \* within forkTest: "fork", "wait", "free" (pointers[fi]), "array"
  fi,        \* forkTest's loop index i of the freeing loop
  local,     \* the tests' pointer variables ptr .. ptr4 and pointers
  req,       \* req[i]: the strategy and size typed for fork number i
  child,     \* child[i]: "running" or "exited"
  slot       \* pointers[0..3] in the shared arena

driverVars == <<vars, step, fpc, fi, local, req, child, slot>>

-----------------------------------------------------------------------------
(* The calls of the sequential tests. *)
Malloc(v, size, st) == [op |-> "malloc", var |-> v, arg |-> size, st |-> st]
Free(v, off) == [op |-> "free", var |-> v, arg |-> off, st |-> 0]
Init4096 == [op |-> "init", var |-> "ptr", arg |-> 4096, st |-> 0]
UnInit == [op |-> "uninit", var |-> "ptr", arg |-> 0, st |-> 0]
ForkTest == [op |-> "fork", var |-> "pointers", arg |-> 0, st |-> 0]

singleStrategyTest(s) ==
  << Malloc("ptr", 10, s), Malloc("ptr2", 10, s), Malloc("ptr3", 10, s),
     Free("ptr2", 0), Malloc("ptr4", 10, s),
     Free("ptr", 0), Free("ptr3", 0), Free("ptr4", 0) >>

testStrategies ==
  singleStrategyTest(FIRST_FIT) \o singleStrategyTest(NEXT_FIT)
    \o singleStrategyTest(BEST_FIT) \o singleStrategyTest(WORST_FIT)

(* request_size = usable_size - i * header_size + j, then MyFree(ptr),   *)
(* for i in 1..2 and j in -1..1.                                          *)
utilizationTest ==
  LET size(i, j) == 3992 - i * HeaderSize + j
      sizes == << size(1, -1), size(1, 0), size(1, 1), size(2, -1), size(2, 0), size(2, 1) >>
  IN  FlattenSeq([k \in 1 .. 6 |-> << Malloc("ptr", sizes[k], FIRST_FIT), Free("ptr", 0) >>])

invalidPointerTest ==
  << Malloc("ptr", 10, FIRST_FIT), Free("ptr", 0), Free("ptr", 0), Free("ptr", 10) >>

BeforeFork == << Init4096 >> \o testStrategies \o utilizationTest
AfterFork == invalidPointerTest \o << UnInit, Malloc("ptr", 1, FIRST_FIT) >>
Program == BeforeFork \o << ForkTest >> \o AfterFork
ForkAt == Len(BeforeFork) + 1
EndAt == Len(Program) + 1

-----------------------------------------------------------------------------
(* A MyFree call as the test makes it: accepted, it releases the block   *)
(* (and may fault); refused (uninitialized heap, NULL, out of the arena, *)
(* bad magic number, already freed) it returns -1 and changes nothing.   *)
CallFree(p) ==
  IF initialized /\ p # NULL /\ FreeAccepted(heap, p)
  THEN MyFree(p)
  ELSE UNCHANGED vars

(* A MyMalloc call: on an uninitialized heap it returns NULL. *)
MallocResult(size, st) == IF initialized THEN Dispatch(heap, size, st).ptr ELSE NULL
CallMalloc(size, st) == IF initialized THEN MyMalloc(size, st) ELSE UNCHANGED vars

DriverInit ==
  /\ Init
  /\ step = 1
  /\ fpc = "fork"
  /\ fi = 0
  /\ local = [v \in {"ptr", "ptr2", "ptr3", "ptr4", "pointers"} |-> NULL]
  /\ req = [i \in Forks |-> [size |-> 0, strategy |-> BEST_FIT]]
  /\ child = [i \in Forks |-> "none"]
  /\ slot = [i \in Forks |-> StaleSlot]

(* One call of the sequential tests. *)
SequentialCall ==
  /\ ~crashed
  /\ step \in 1 .. Len(Program) /\ step # ForkAt
  /\ LET c == Program[step]
     IN  \/ /\ c.op = "init"
            /\ InitMyMalloc(c.arg)
            /\ UNCHANGED local
         \/ /\ c.op = "malloc"
            /\ CallMalloc(c.arg, c.st)
            /\ local' = [local EXCEPT ![c.var] = MallocResult(c.arg, c.st)]
         \/ /\ c.op = "free"
            /\ CallFree(IF local[c.var] = NULL THEN NULL ELSE local[c.var] + c.arg)
            /\ UNCHANGED local
         \/ /\ c.op = "uninit"
            /\ unInitMyMalloc
            /\ UNCHANGED local
  /\ step' = step + 1
  /\ UNCHANGED <<fpc, fi, req, child, slot>>

-----------------------------------------------------------------------------
(* forkTest *)

(* The prompts read a strategy and a size for each fork (an invalid    *)
(* strategy is asked for again); pointers = MyMalloc(4 * sizeof(char* ), *)
(* FIRST_FIT), then the four forks; the parent goes on to wait().        *)
ForkChildren ==
  /\ ~crashed
  /\ step = ForkAt /\ fpc = "fork"
  /\ req' \in [Forks -> [size : ForkSizes, strategy : ForkStrategies]]
  /\ MyMalloc(4 * PointerBytes, FIRST_FIT)
  /\ local' = [local EXCEPT !["pointers"] = MallocResult(4 * PointerBytes, FIRST_FIT)]
  /\ child' = [i \in Forks |-> "running"]
  /\ fpc' = "wait"
  /\ UNCHANGED <<step, fi, slot>>

(* Child i: MyMalloc(allocationSize, currStrategy) under the shared      *)
(* mutex; on success pointers[i] = test, and _exit either way.           *)
ChildMalloc(i) ==
  LET p == Dispatch(heap, req[i].size, req[i].strategy).ptr
  IN  /\ child[i] = "running"
      /\ MyMalloc(req[i].size, req[i].strategy)
      /\ slot' = IF p = NULL THEN slot ELSE [slot EXCEPT ![i] = p]
      /\ child' = [child EXCEPT ![i] = "exited"]
      /\ UNCHANGED <<step, fpc, fi, local, req>>

(* while ((wpid = wait(&status)) > 0); returns once no child is left. *)
Wait ==
  /\ step = ForkAt /\ fpc = "wait"
  /\ \A i \in Forks : child[i] = "exited"
  /\ fpc' = "free"
  /\ UNCHANGED <<vars, step, fi, local, req, child, slot>>

(* Faulty variant: the freeing loop stops before the last slot. *)
FreeSlotSkipLast ==
  /\ ~crashed
  /\ step = ForkAt /\ fpc = "free"
  /\ CallFree(slot[fi])
  /\ fi' = fi + 1
  /\ fpc' = IF fi + 2 = NumForks THEN "array" ELSE "free"
  /\ UNCHANGED <<step, local, req, child, slot>>

(* for (i = 0; i < 4; i++) MyFree(pointers[i]); MyFree(pointers);        *)
FreeSlot ==
  /\ ~crashed
  /\ step = ForkAt /\ fpc = "free"
  /\ CallFree(slot[fi])
  /\ fi' = fi + 1
  /\ fpc' = IF fi + 1 = NumForks THEN "array" ELSE "free"
  /\ UNCHANGED <<step, local, req, child, slot>>

FreePointers ==
  /\ ~crashed
  /\ step = ForkAt /\ fpc = "array"
  /\ CallFree(local["pointers"])
  /\ step' = ForkAt + 1
  /\ UNCHANGED <<fpc, fi, local, req, child, slot>>

(* main returns, or the process died of a segmentation fault. *)
Terminated ==
  /\ step = EndAt \/ crashed
  /\ UNCHANGED driverVars

DriverNext ==
  \/ SequentialCall
  \/ ForkChildren \/ (\E i \in Forks : ChildMalloc(i)) \/ Wait
  \/ FreeSlot \/ FreePointers
  \/ Terminated

DriverSpec == DriverInit /\ [][DriverNext]_driverVars

-----------------------------------------------------------------------------
(* Where InitMyMalloc(4096) leaves the arena's one free node, after the  *)
(* FreeList and mutex blocks.                                            *)
FirstFree == FreshHeap(RoundToPage(4096)).h.head

(* The points where every block the tests allocated has been freed: the  *)
(* end of each singleStrategyTest round and of each utilizationTest      *)
(* round, the start and end of forkTest, and the end of                  *)
(* invalidPointerTest.                                                    *)
AllFreed ==
  \/ step \in {2 + Len(singleStrategyTest(FIRST_FIT)) * r : r \in 1 .. 4}
  \/ step \in {Len(testStrategies) + 2 + 2 * k : k \in 0 .. 5}
  \/ step = ForkAt /\ fpc = "fork"
  \/ step \in {ForkAt + 1, ForkAt + Len(invalidPointerTest) + 1}

(* The spec's coalescing scenario, on the program's own tests: whenever *)
(* the tests have freed everything they allocated, the free list is one *)
(* node spanning all of the arena after the FreeList and mutex blocks,   *)
(* whatever strategies and sizes were typed for the forks and in        *)
(* whatever order the children took the mutex (unless a MyFree faulted). *)
TestsRestoreHeap ==
  AllFreed /\ ~crashed =>
    /\ Chain(heap) = << FirstFree >>
    /\ Span(FirstFree) = cap - FirstFree

(* The calls of invalidPointerTest that must be refused: the second     *)
(* MyFree(ptr) (a double free) and MyFree(ptr + 10) (not a block        *)
(* boundary).                                                            *)
RefusedCalls == {ForkAt + 3, ForkAt + 4}

(* Double-free and boundary rejection: those two calls leave the arena   *)
(* as it was, even though ptr's block was coalesced by the first free.  *)
RejectedFreesChangeNothing ==
  [][(step \in RefusedCalls /\ SequentialCall) => UNCHANGED vars]_driverVars
=============================================================================
