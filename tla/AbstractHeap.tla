---------------------------- MODULE AbstractHeap ----------------------------
(***************************************************************************)
(* What the allocator promises its callers, without free lists: while     *)
(* the heap is initialized, every allocation hands out a payload range     *)
(* inside the arena that overlaps no payload still handed out; a range     *)
(* keeps its extent until it is freed; teardown forgets every range.       *)
(***************************************************************************)
EXTENDS Integers

CONSTANT Capacities   \* the arena sizes an initialization can produce

VARIABLES
  live,      \* an arena is mapped
  capacity,  \* its size in bytes
  owned      \* payload ranges [start, len] handed out and not freed

avars == <<live, capacity, owned>>

(* The non-empty ranges inside an arena of c bytes. *)
Range(c) == UNION {[start : {b}, len : 1 .. c - b] : b \in 0 .. c}

Disjoint(r, s) == r.start + r.len <= s.start \/ s.start + s.len <= r.start

AInit ==
  /\ live = FALSE
  /\ capacity = 0
  /\ owned = {}

Create(c) ==
  /\ ~live
  /\ live' = TRUE
  /\ capacity' = c
  /\ owned' = {}

Allocate(r) ==
  /\ live
  /\ owned' = owned \cup {r}
  /\ \A s \in owned : Disjoint(r, s)
  /\ UNCHANGED <<live, capacity>>

Release(r) ==
  /\ r \in owned
  /\ owned' = owned \ {r}
  /\ UNCHANGED <<live, capacity>>

Destroy ==
  /\ live
  /\ live' = FALSE
  /\ capacity' = 0
  /\ owned' = {}

(* The range an allocation adds is the one that enters owned: naming it *)
(* so lets TLC check a step against ANext without trying every range of *)
(* the arena.  ANext is meant to be checked against, not run on its own. *)
ANext ==
  \/ \E c \in Capacities : Create(c)
  \/ \E r \in owned' \ owned : r \in Range(capacity) /\ Allocate(r)
  \/ \E r \in owned : Release(r)
  \/ Destroy

ASpec == AInit /\ [][ANext]_avars
=============================================================================
