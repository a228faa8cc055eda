----------------------------- MODULE Allocator -----------------------------
(***************************************************************************)
(* The shared-memory heap allocator of src/sharedMalloc and src/src:       *)
(* InitMyMalloc, MyMalloc (with its four placement strategies), MyFree    *)
(* (with coalesceFreeList) and unInitMyMalloc, as seen by one process.     *)
(*                                                                         *)
(* Addresses are byte offsets from the start of the mapping, in units of   *)
(* a small abstract "byte"; HeaderSize is sizeof(Node).  The arena holds   *)
(* the in-band Node headers (mem) and the FreeList control block           *)
(* (head, nfb = nextFreeBlock).  A header is only ever partly written by   *)
(* split (size and next), so mem keeps every header ever written, stale    *)
(* ones included: they are what MyFree reads when it is given a stale      *)
(* pointer.  Payload bytes written by callers are not modelled.            *)
(***************************************************************************)
EXTENDS Integers, Sequences, SequencesExt, FiniteSets, FiniteSetsExt, TLC

CONSTANTS
  HeaderSize,     \* sizeof(Node)
  FreeListSize,   \* sizeof(FreeList), carved out by InitMyMalloc
  MutexSize,      \* sizeof(pthread_mutex_t), carved out by InitMyMalloc
  PageSize,       \* getpagesize()
  HeapSizes,      \* arguments given to InitMyMalloc
  Sizes,          \* request sizes given to MyMalloc
  Strategies,     \* strategy arguments given to MyMalloc (0..3 valid)
  NULL            \* the null pointer

ASSUME HeaderSize \in Nat \ {0}
ASSUME PageSize > FreeListSize + MutexSize + 3 * HeaderSize
ASSUME HeapSizes \subseteq Int /\ Sizes \subseteq Nat /\ Strategies \subseteq Int

(* enum Strategy in freeList.h *)
BEST_FIT == 0
WORST_FIT == 1
FIRST_FIT == 2
NEXT_FIT == 3

MAGIC_NUMBER == 305419896   \* 0x12345678

(* InitMyMalloc rounds the requested size up to a multiple of the page. *)
RoundToPage(hs) ==
  IF hs % PageSize # 0 THEN (1 + hs \div PageSize) * PageSize ELSE hs

MaxCap == IF HeapSizes = {} THEN 0 ELSE Max({RoundToPage(hs) : hs \in HeapSizes})
Addr == 0 .. MaxCap
Ptr == Addr \cup {NULL}
NodeRec == [size : 0 .. MaxCap, next : Ptr, magic : {0, MAGIC_NUMBER}, isFreed : {0, 1}]

(* Bytes of a fresh anonymous mapping are zero. *)
Zero == [size |-> 0, next |-> NULL, magic |-> 0, isFreed |-> 0]

VARIABLES
  initialized,  \* heapBlockHeader != NULL
  cap,          \* heapCapacity
  heap,         \* [mem, head, nfb]: headers and the shared FreeList
  allocated,    \* history: headers of blocks handed out and not freed
  issued,       \* history: payload pointers MyMalloc returned since init
  crashed       \* the process took a segmentation fault

vars == <<initialized, cap, heap, allocated, issued, crashed>>

Unmapped == [mem |-> [a \in {} |-> Zero], head |-> NULL, nfb |-> NULL]

(* Reading the header at address a. *)
Hdr(h, a) == IF a \in DOMAIN h.mem THEN h.mem[a] ELSE Zero

(* The chain of nodes reached from n by next links, cut after k nodes. *)
RECURSIVE Walk(_, _, _)
Walk(h, n, k) ==
  IF n = NULL \/ k = 0 THEN <<>> ELSE <<n>> \o Walk(h, Hdr(h, n).next, k - 1)

(* The free list as the loops of freeList.c traverse it from head; a     *)
(* cyclic list shows up as a chain longer than any list can be.           *)
Chain(h) == Walk(h, h.head, MaxCap + 1)

(* The list of candidate nodes a scan visits, each with the prev the     *)
(* scan holds when it visits it.                                         *)
Pairs(s, firstPrev) ==
  [i \in 1 .. Len(s) |-> <<s[i], IF i = 1 THEN firstPrev ELSE s[i - 1]>>]

(* prev->next = n, or freeList->head = n when there is no prev. *)
Link(h, prev, n) ==
  IF prev = NULL THEN [h EXCEPT !.head = n]
  ELSE [h EXCEPT !.mem[prev].next = n]

(* Faulty variant: the allocated node keeps its whole size. *)
splitKeepSize(h, node, prev, size) ==
  LET nd == h.mem[node]
      nf == node + HeaderSize + size
      splits == nd.size > size + HeaderSize
      m1 == IF splits
            THEN (nf :> [Hdr(h, nf) EXCEPT !.size = nd.size - size - HeaderSize,
                                           !.next = nd.next]) @@ h.mem
            ELSE h.mem
      newFree == IF splits THEN nf ELSE nd.next
      h1 == Link([h EXCEPT !.mem = m1], prev, newFree)
  IN  [h1 EXCEPT !.nfb = IF newFree = NULL THEN h1.head ELSE newFree]

(* split(): carve size bytes out of node; the remainder header gets only *)
(* its size and next written.  The cursor moves to the remainder, or to   *)
(* the (new) head when nothing remains after node.                        *)
split(h, node, prev, size) ==
  LET nd == h.mem[node]
      nf == node + HeaderSize + size
      splits == nd.size > size + HeaderSize
      m1 == IF splits
            THEN (nf :> [Hdr(h, nf) EXCEPT !.size = nd.size - size - HeaderSize,
                                           !.next = nd.next])
                 @@ [h.mem EXCEPT ![node].size = size]
            ELSE h.mem
      newFree == IF splits THEN nf ELSE nd.next
      h1 == Link([h EXCEPT !.mem = m1], prev, newFree)
  IN  [h1 EXCEPT !.nfb = IF newFree = NULL THEN h1.head ELSE newFree]

(* A strategy that picked node: split, stamp the header, return payload. *)
Take(h, node, prev, size) ==
  LET h1 == split(h, node, prev, size)
  IN  [h |-> [h1 EXCEPT !.mem[node].magic = MAGIC_NUMBER, !.mem[node].isFreed = 0],
       ptr |-> node + HeaderSize]

(* Faulty variant: a failed search returns offset 0 instead of NULL. *)
NoFitZero(h) == [h |-> h, ptr |-> 0]

NoFit(h) == [h |-> h, ptr |-> NULL]

(* Take the first candidate whose size is at least size. *)
FirstOf(h, cands, size) ==
  LET i == SelectInSeq(cands, LAMBDA c : Hdr(h, c[1]).size >= size)
  IN  IF i = 0 THEN NoFit(h) ELSE Take(h, cands[i][1], cands[i][2], size)

firstFit(h, size) == FirstOf(h, Pairs(Chain(h), NULL), size)

(* bestFit/worstFit keep the first candidate strictly better than the   *)
(* one held, so ties go to the earliest node of the list.                *)
ExtremeFit(h, size, smallest) ==
  LET c == Chain(h)
      Better(a, b) == IF smallest THEN a < b ELSE a > b
      sz(i) == Hdr(h, c[i]).size
      fits == {i \in 1 .. Len(c) : sz(i) >= size}
      best == CHOOSE i \in fits :
                \A j \in fits : /\ j < i => Better(sz(i), sz(j))
                               /\ j > i => ~Better(sz(j), sz(i))
  IN  IF fits = {} THEN NoFit(h)
      ELSE Take(h, c[best], IF best = 1 THEN NULL ELSE c[best - 1], size)

bestFit(h, size) == ExtremeFit(h, size, TRUE)
worstFit(h, size) == ExtremeFit(h, size, FALSE)

(* findPrevNode(): the node before n in the list, NULL if n is the head *)
(* or is not in the list.                                                *)
findPrevNode(h, n) ==
  LET c == Chain(h)
      i == SelectInSeq(c, LAMBDA x : x = n)
  IN  IF i <= 1 THEN NULL ELSE c[i - 1]

(* nextFit(): scan from the cursor to the end of the list, then from the *)
(* head up to (not including) the cursor.                                *)
nextFit(h, size) ==
  LET c == Chain(h)
      fromCursor == Walk(h, h.nfb, MaxCap + 1)
      j == SelectInSeq(c, LAMBDA x : x = h.nfb)
      beforeCursor == IF j = 0 THEN c ELSE SubSeq(c, 1, j - 1)
  IN  FirstOf(h, Pairs(fromCursor, findPrevNode(h, h.nfb))
                 \o Pairs(beforeCursor, NULL), size)
(* MyMalloc's switch; an unknown strategy returns NULL. *)
Dispatch(h, size, strategy) ==
  CASE strategy = BEST_FIT  -> bestFit(h, size)
    [] strategy = WORST_FIT -> worstFit(h, size)
    [] strategy = FIRST_FIT -> firstFit(h, size)
    [] strategy = NEXT_FIT  -> nextFit(h, size)
    [] OTHER                -> NoFit(h)

(* (char* )a + a->size + sizeof(Node) == (char* )b: block b starts      *)
(* where block a ends.                                                   *)
Adjacent(m, a, b) == a + m[a].size + HeaderSize = b

(* Faulty variant: the three-way merge absorbs freed into prev and      *)
(* leaves next, which touches the merged block, in the list.             *)
MergeThreeDropNext(m, prev, freed, next) ==
  [m EXCEPT ![prev].size = @ + m[freed].size + HeaderSize, ![prev].next = m[freed].next]

(* All three blocks merge into prev. *)
MergeThree(m, prev, freed, next) ==
  [m EXCEPT ![prev].size = @ + m[freed].size + m[next].size + 2 * HeaderSize,
            ![prev].next = m[next].next]

(* coalesceFreeList(): merge freed with its list neighbours when they    *)
(* touch it in memory.  Returns the new headers and the node the code    *)
(* returns, which is NULL when freed has a prev and a next and touches   *)
(* neither.                                                              *)
coalesceFreeList(m, freed, prev, next) ==
  LET F == m[freed]
      touchesNext == next # NULL /\ Adjacent(m, freed, next)
      touchesPrev == prev # NULL /\ Adjacent(m, prev, freed)
      N == IF next = NULL THEN Zero ELSE m[next]
  IN  CASE prev = NULL ->
             [mem |-> IF touchesNext
                      THEN [m EXCEPT ![freed].size = @ + N.size + HeaderSize,
                                     ![freed].next = N.next]
                      ELSE m,
              ret |-> freed]
        [] next = NULL ->
             [mem |-> IF touchesPrev
                      THEN [m EXCEPT ![prev].size = @ + F.size + HeaderSize,
                                     ![prev].next = F.next]
                      ELSE m,
              ret |-> prev]
        [] touchesNext /\ touchesPrev ->
             [mem |-> MergeThree(m, prev, freed, next), ret |-> prev]
        [] touchesNext ->
             [mem |-> [m EXCEPT ![freed].size = @ + N.size + HeaderSize,
                                ![freed].next = N.next],
              ret |-> prev]
        [] touchesPrev ->
             [mem |-> [m EXCEPT ![prev].size = @ + F.size + HeaderSize,
                                ![prev].next = F.next],
              ret |-> freed]
        [] OTHER -> [mem |-> m, ret |-> NULL]

(* Faulty variant: the freed block always goes in front of the head. *)
InsertionPointHead(h, block) == [previous |-> NULL, current |-> h.head]

(* The (previous, current) pair MyFree's search loop stops at: current  *)
(* is the first node above block, or the last node when none is; the    *)
(* loop leaves previous at the node before current.                     *)
InsertionPoint(h, block) ==
  LET c == Chain(h)
      i == SelectInSeq(c, LAMBDA x : x > block)
      k == IF i = 0 THEN Len(c) ELSE i
  IN  [previous |-> IF k = 1 THEN NULL ELSE c[k - 1], current |-> c[k]]

(* Faulty variant: the cursor is never moved to the coalesced node. *)
RepairCursorKeep(h, current, co) ==
  [h |-> h, fault |-> current = h.nfb /\ co = NULL]

(* MyFree's nextFreeBlock repair after coalescing: if current was the   *)
(* cursor and the coalesced node no longer links to it, the cursor moves *)
(* to the coalesced node.  Reading coalescedBlock->next when             *)
(* coalesceFreeList returned NULL is a segmentation fault.                *)
RepairCursor(h, current, co) ==
  IF current # h.nfb THEN [h |-> h, fault |-> FALSE]
  ELSE IF co = NULL THEN [h |-> h, fault |-> TRUE]
  ELSE IF h.mem[co].next # current THEN [h |-> [h EXCEPT !.nfb = co], fault |-> FALSE]
  ELSE [h |-> h, fault |-> FALSE]

(* Faulty variant: the freed flag is never set. *)
MarkFreedSkipped(h, block) == h

(* block->isFreed = 1 *)
MarkFreed(h, block) == [h EXCEPT !.mem[block].isFreed = 1]

(* MyFree() after its checks passed: mark the block, insert it into the *)
(* list and coalesce.  Returns the heap and whether the process faulted. *)
Release(h, block) ==
  LET h0 == MarkFreed(h, block)
      ip == InsertionPoint(h0, block)
      prv == ip.previous
      cur == ip.current
      h1 == IF prv = NULL
            THEN [h0 EXCEPT !.mem[block].next = h0.head, !.head = block]
            ELSE [h0 EXCEPT !.mem[prv].next = block, !.mem[block].next = cur]
      co == coalesceFreeList(h1.mem, block, prv, cur)
  IN  IF h0.head = NULL
      THEN [h |-> [h0 EXCEPT !.head = block, !.mem[block].next = NULL], fault |-> FALSE]
      ELSE RepairCursor([h1 EXCEPT !.mem = co.mem], cur, co.ret)

(* Faulty variant: the isFreed check is dropped. *)
FreeAcceptedNoFreedCheck(h, ptr) ==
  /\ ptr # NULL
  /\ ptr - HeaderSize >= 0
  /\ ptr - HeaderSize <= cap
  /\ Hdr(h, ptr - HeaderSize).magic = MAGIC_NUMBER

(* The checks MyFree makes before touching the list: a NULL pointer, a  *)
(* header outside [heap, heap + heapCapacity], a bad magic number or an *)
(* already freed block are refused with -1.                             *)
FreeAccepted(h, ptr) ==
  /\ ptr # NULL
  /\ ptr - HeaderSize >= 0
  /\ ptr - HeaderSize <= cap
  /\ Hdr(h, ptr - HeaderSize).magic = MAGIC_NUMBER
  /\ Hdr(h, ptr - HeaderSize).isFreed # 1

-----------------------------------------------------------------------------
Init ==
  /\ initialized = FALSE
  /\ cap = 0
  /\ heap = Unmapped
  /\ allocated = {}
  /\ issued = {}
  /\ crashed = FALSE

(* The arena InitMyMalloc builds for size bytes: one free node covering *)
(* the mapping, then the shared FreeList and the mutex carved out of it  *)
(* with firstFit; reserved are the headers of those two blocks.          *)
FreshHeap(size) ==
  LET local == [mem |-> (0 :> [Zero EXCEPT !.size = size - HeaderSize, !.next = NULL]),
                head |-> 0, nfb |-> 0]
      fl == firstFit(local, FreeListSize)
      mx == firstFit(fl.h, MutexSize)
  IN  [h |-> mx.h, reserved |-> {fl.ptr - HeaderSize, mx.ptr - HeaderSize}]

(* InitMyMalloc(heapSize) that returns 0.  The calls that return -1     *)
(* (already initialized, heapSize <= 0, mmap failing) change nothing.    *)
InitMyMalloc(hs) ==
  LET size == RoundToPage(hs)
  IN  /\ ~crashed
      /\ ~initialized
      /\ hs > 0
      /\ initialized' = TRUE
      /\ cap' = size
      /\ heap' = FreshHeap(size).h
      /\ allocated' = FreshHeap(size).reserved
      /\ issued' = {}
      /\ UNCHANGED crashed

(* MyMalloc(size, strategy) on an initialized heap, under the mutex.    *)
(* On an uninitialized heap it returns NULL and changes nothing.         *)
MyMalloc(size, strategy) ==
  LET r == Dispatch(heap, size, strategy)
  IN  /\ ~crashed
      /\ initialized
      /\ heap' = r.h
      /\ allocated' = IF r.ptr = NULL THEN allocated
                      ELSE allocated \cup {r.ptr - HeaderSize}
      /\ issued' = IF r.ptr = NULL THEN issued ELSE issued \cup {r.ptr}
      /\ UNCHANGED <<initialized, cap, crashed>>

(* MyFree(ptr) that passes its checks.  A refused call returns -1 and   *)
(* changes nothing.                                                      *)
MyFree(ptr) ==
  LET r == Release(heap, ptr - HeaderSize)
  IN  /\ ~crashed
      /\ initialized
      /\ FreeAccepted(heap, ptr)
      /\ heap' = r.h
      /\ crashed' = r.fault
      /\ allocated' = allocated \ {ptr - HeaderSize}
      /\ UNCHANGED <<initialized, cap, issued>>

(* MyFree(ptr) whose header would lie past the arena's last byte: the   *)
(* bounds check refuses only block > heapBlockHeader + heapCapacity, so   *)
(* block = heapBlockHeader + heapCapacity passes and magicNumber is read  *)
(* beyond the mapping.  The page after it may be unmapped: the process    *)
(* faults.  (Where it is mapped, the bytes read are not a header and the  *)
(* call returns -1, which changes nothing.)                               *)
StrayFree(ptr) ==
  /\ ~crashed
  /\ initialized
  /\ ptr # NULL
  /\ ptr - HeaderSize >= 0
  /\ ptr - HeaderSize <= cap
  /\ ptr > cap            \* the header's last byte is past the arena
  /\ crashed' = TRUE
  /\ UNCHANGED <<initialized, cap, heap, allocated, issued>>

(* unInitMyMalloc(): destroy the mutex, unmap, forget the heap.  Every  *)
(* pointer handed out is dangling from here on and is dropped.           *)
unInitMyMalloc ==
  /\ ~crashed
  /\ initialized
  /\ initialized' = FALSE
  /\ cap' = 0
  /\ heap' = Unmapped
  /\ allocated' = {}
  /\ issued' = {}
  /\ UNCHANGED crashed

(* The end of free node n, where the used range after it starts; the    *)
(* faulty variant leaves out the node's header.                         *)
BlockEndNoHeader(h, n) == n + Hdr(h, n).size
BlockEnd(h, n) == n + Hdr(h, n).size + HeaderSize

Row(addr, size, free) == [addr |-> addr, size |-> size, free |-> free]

(* DumpFreeList(): the rows it prints, in order.  No free node: the whole *)
(* arena is one Full row.  Otherwise a Full row before the head if the  *)
(* head is not at offset 0, then for each node a Free row and, unless it  *)
(* is the last, a Full row up to the next node, and a Full row after the *)
(* last node if it ends before heapCapacity.                             *)
DumpFreeList(h, capacity) ==
  LET c == Chain(h)
      k == Len(c)
      lead == IF c[1] > 0 THEN <<Row(0, c[1], FALSE)>> ELSE <<>>
      pair(i) == <<Row(c[i], Hdr(h, c[i]).size + HeaderSize, TRUE),
                   Row(BlockEnd(h, c[i]), c[i + 1] - BlockEnd(h, c[i]), FALSE)>>
      last == Row(c[k], Hdr(h, c[k]).size + HeaderSize, TRUE)
      trail == IF BlockEnd(h, c[k]) < capacity
               THEN <<Row(BlockEnd(h, c[k]), capacity - BlockEnd(h, c[k]), FALSE)>>
               ELSE <<>>
  IN  IF h.head = NULL THEN <<Row(0, capacity, FALSE)>>
      ELSE lead \o FlattenSeq([i \in 1 .. k - 1 |-> pair(i)]) \o <<last>> \o trail

(* A process that took a segmentation fault stays dead. *)
Crashed == crashed /\ UNCHANGED vars

Next ==
  \/ \E hs \in HeapSizes : InitMyMalloc(hs)
  \/ \E size \in Sizes, st \in Strategies : MyMalloc(size, st)
  \/ \E p \in issued : MyFree(p)
  \/ unInitMyMalloc
  \/ Crashed

Spec == Init /\ [][Next]_vars

(* The same calls, where MyFree may also be given any address from the   *)
(* arena's start to one header past its end, not only what MyMalloc       *)
(* returned.                                                               *)
AnyPointer == 0 .. MaxCap + HeaderSize
NextAnyPointer == Next \/ \E p \in AnyPointer : MyFree(p) \/ StrayFree(p)
SpecAnyPointer == Init /\ [][NextAnyPointer]_vars

-----------------------------------------------------------------------------
(* The blocks the model knows of: the free list and the handed-out ones. *)
FreeNodes == ToSet(Chain(heap))
Span(b) == Hdr(heap, b).size + HeaderSize

TypeOK ==
  /\ initialized \in BOOLEAN
  /\ cap \in 0 .. MaxCap
  /\ DOMAIN heap.mem \subseteq Addr
  /\ \A a \in DOMAIN heap.mem : heap.mem[a] \in NodeRec
  /\ heap.head \in Ptr /\ heap.nfb \in Ptr
  /\ allocated \subseteq Addr
  /\ issued \subseteq Addr
  /\ crashed \in BOOLEAN

(* Free list and handed-out blocks tile the arena (split, coalesce and  *)
(* the list insertion of MyFree): the list is a finite chain with no    *)
(* repeated node, no node is both free and handed out, no two blocks    *)
(* overlap, and their spans add up to heapCapacity.                     *)
HeapTiled ==
  initialized =>
    LET c == Chain(heap)
        blocks == FreeNodes \cup allocated
    IN  /\ Len(c) <= MaxCap
        /\ Cardinality(FreeNodes) = Len(c)
        /\ FreeNodes \cap allocated = {}
        /\ \A b \in blocks : b + Span(b) <= cap
        /\ \A a, b \in blocks : a < b => a + Span(a) <= b
        /\ MapThenSumSet(Span, blocks) = cap

(* The next-fit cursor is NULL or a node of the free list: nextFit never *)
(* starts from a node that was allocated or merged into a neighbour by  *)
(* MyFree's coalescing.                                                 *)
CursorValid ==
  initialized => heap.nfb = NULL \/ heap.nfb \in FreeNodes

(* Double-free detection of MyFree is sound: any header, current or     *)
(* stale, that MyFree's magic-number and isFreed checks would accept    *)
(* belongs to a block that is handed out.                               *)
DoubleFreeDetectable ==
  \A a \in DOMAIN heap.mem :
    heap.mem[a].magic = MAGIC_NUMBER /\ heap.mem[a].isFreed = 0 => a \in allocated

(* The spec: the free list is kept in ascending address order. *)
FreeListSorted ==
  LET c == Chain(heap) IN \A i \in 1 .. Len(c) - 1 : c[i] < c[i + 1]

(* DumpFreeList reports the arena truthfully while the free list is     *)
(* sorted (out of order, it prints negative sizes): its rows start at 0, *)
(* each starts where the one before ends, the last ends at heapCapacity,  *)
(* and the Free rows are exactly the free nodes with their spans, so the  *)
(* Full rows are exactly the bytes of the blocks handed out.              *)
DumpTilesArena ==
  initialized /\ FreeListSorted =>
    LET r == DumpFreeList(heap, cap)
        n == Len(r)
    IN  /\ r[1].addr = 0
        /\ r[n].addr + r[n].size = cap
        /\ \A i \in 1 .. n - 1 : r[i + 1].addr = r[i].addr + r[i].size
        /\ {<<x.addr, x.size>> : x \in {r[i] : i \in {j \in 1 .. n : r[j].free}}}
             = {<<b, Span(b)>> : b \in FreeNodes}

(* MyFree never faults: it does not dereference the NULL that           *)
(* coalesceFreeList returns, nor read a header outside the arena.        *)
FreeNeverFaults == ~crashed
(* The refinement: the payload ranges of the blocks MyMalloc handed out *)
(* are the ranges of the abstract heap.                                  *)
UserBlocks == {a \in allocated : a + HeaderSize \in issued}

Abs == INSTANCE AbstractHeap
         WITH Capacities <- {RoundToPage(hs) : hs \in {x \in HeapSizes : x > 0}},
              live <- initialized,
              capacity <- cap,
              owned <- {[start |-> a + HeaderSize, len |-> Hdr(heap, a).size] : a \in UserBlocks}

(* The allocator implements the abstract heap: MyMalloc only hands out  *)
(* payloads inside the arena that overlap no payload still held, and no *)
(* split, coalesce or cursor update changes a block that is handed out. *)
Refinement == Abs!ASpec
=============================================================================
