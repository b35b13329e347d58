-------------------------- MODULE RangePlacement ----------------------------
(***************************************************************************)
(* Range claims (internal/netbox/allocate.go placeRange, placement.go):    *)
(* NetBox has no locked view that places an ip-range, so the client lists  *)
(* the ranges of the parent's VRF, computes the first gap, POSTs it, and   *)
(* on an overlap rejection reads and computes again, a bounded number of   *)
(* times.  Addresses are integers, as addrInt makes them; an interval of   *)
(* another address family lies outside every parent, as clip finds.        *)
(***************************************************************************)
EXTENDS Integers, FiniteSets, FiniteSetsExt

CONSTANTS
  Workers,      \* range claims being placed at the same time, in any cluster
  Bottom,       \* the lowest address ...
  Top,          \* ... and the highest
  ParentLo,     \* the parent prefix, from its first address ...
  ParentHi,     \* ... to its last
  Sizes,        \* requested sizes
  MaxAttempts,  \* maxPlacementAttempts
  MaxEdits      \* bound: ranges humans create or delete

Addresses == Bottom..Top
Alignments == {"Any", "PowerOfTwo"}

\* The parent's VRF, which the placement must use, and the global table or any other.
VRFs == {"parent", "other"}

ASSUME ConstantsAssumption ==
  /\ Bottom \in Nat /\ Top \in Nat /\ MaxEdits \in Nat /\ MaxAttempts \in Nat \ {0}
  /\ Sizes \subseteq Nat \ {0}
  /\ ParentLo \in Addresses /\ ParentHi \in ParentLo..Top
  /\ "human" \notin Workers

Interval == [lo: Addresses, hi: Addresses]
Nowhere == [lo |-> -1, hi |-> -1]

VARIABLES
  ranges,  \* the ip-ranges in NetBox, with who made them
  worker,  \* each placement in progress or ended
  edits    \* steps of humans so far

vars == <<ranges, worker, edits>>

-----------------------------------------------------------------------------
(* placement.go. *)

Touches(a, b) == a.lo <= b.hi /\ b.lo <= a.hi

\* blockSize: a one shifted by the length of size - 1 in bits, a power of two.
BlockSize(size) ==
  LET shifted[n \in 0..(size - 1)] == IF n = 0 THEN 1 ELSE 2 * shifted[n \div 2]
  IN  shifted[size - 1]

\* alignUp.
AlignUp(value, block) == value + ((block - (value % block)) % block)

\* fit: size addresses at or after lo, without passing hi.
Fit(lo, hi, size, align) ==
  LET start == IF align = "PowerOfTwo" THEN AlignUp(lo, BlockSize(size)) ELSE lo
      end == start + size - 1
  IN
  IF lo > hi \/ end > hi THEN Nowhere ELSE [lo |-> start, hi |-> end]

\* clip, for the intervals of which anything is left.
Clip(t) ==
  [lo |-> IF t.lo < ParentLo THEN ParentLo ELSE t.lo,
   hi |-> IF t.hi > ParentHi THEN ParentHi ELSE t.hi]
Busy(occupied) ==
  {Clip(t) : t \in {t \in occupied : t.lo <= t.hi /\ t.hi >= ParentLo /\ t.lo <= ParentHi}}

\* Mutant: the intervals are taken to be disjoint.
AdvanceUnmerged(size, align, walk, taken) ==
  LET gap == Fit(walk.cursor, taken.lo - 1, size, align)
      next == taken.hi + 1
  IN
  IF walk.done THEN walk
  ELSE IF taken.lo > walk.cursor /\ gap # Nowhere
  THEN [walk EXCEPT !.done = TRUE, !.placed = gap]
  ELSE [walk EXCEPT !.cursor = next, !.done = next > ParentHi]

\* One turn of FirstGap's loop over the sorted intervals.
Advance(size, align, walk, taken) ==
  LET gap == Fit(walk.cursor, taken.lo - 1, size, align)
      next == IF taken.hi >= walk.cursor THEN taken.hi + 1 ELSE walk.cursor
  IN
  IF walk.done THEN walk
  ELSE IF taken.lo > walk.cursor /\ gap # Nowhere
  THEN [walk EXCEPT !.done = TRUE, !.placed = gap]
  ELSE [walk EXCEPT !.cursor = next, !.done = next > ParentHi]

\* The interval the sort puts first.
Lowest(left) == CHOOSE t \in left : \A u \in left : t.lo <= u.lo

\* FirstGap's loop after i turns: the intervals left to it, in the order of the sort.
Loop(busy, size, align) ==
  LET turn[i \in 0..Cardinality(busy)] ==
        IF i = 0 THEN [left |-> busy, cursor |-> ParentLo, done |-> FALSE, placed |-> Nowhere]
        ELSE LET taken == Lowest(turn[i - 1].left) IN
             [Advance(size, align, turn[i - 1], taken) EXCEPT !.left = @ \ {taken}]
  IN  turn

\* FirstGap; Nowhere where the code returns false.
FirstGap(occupied, size, align) ==
  LET busy == Busy(occupied)
      walk == Loop(busy, size, align)[Cardinality(busy)]
  IN
  IF walk.done THEN walk.placed ELSE Fit(walk.cursor, ParentHi, size, align)

-----------------------------------------------------------------------------
(* allocate.go. *)

IPRange ==
  [lo: Addresses, hi: Addresses, vrf: VRFs, by: Workers \cup {"human"}]

Outcomes == {"placed", "exhausted", "contended", "lost"}

\* One call of placeRange; raced says whether a range came or went since its last read.
Placement ==
  [pc: {"idle", "read", "post"} \cup Outcomes, size: Sizes, align: Alignments,
   attempt: 1..MaxAttempts, placed: Interval \cup {Nowhere}, raced: BOOLEAN]

TypeOK ==
  /\ ranges \in SUBSET IPRange
  /\ worker \in [Workers -> Placement]
  /\ edits \in 0..MaxEdits

Init ==
  /\ ranges = {}
  /\ worker \in [Workers -> {w \in Placement : w.pc = "idle" /\ w.attempt = 1
                                             /\ w.placed = Nowhere /\ ~w.raced}]
  /\ edits = 0

\* Mutant: the list is filtered by ?parent=, which misses a range straddling the boundary.
OccupiedByParent ==
  {t \in ranges : t.vrf = "parent" /\ t.lo >= ParentLo /\ t.hi <= ParentHi}

\* occupiedRanges: every range of the parent's VRF, wherever it lies.
Occupied == {t \in ranges : t.vrf = "parent"}

\* IPRange.clean: NetBox refuses a range that touches another of the same VRF.
Refused(r) == \E t \in ranges : t.vrf = r.vrf /\ Touches(r, t)

Raced(w) == [w EXCEPT !.raced = TRUE]

\* placeRange up to its loop: the request is read and the parent found.
Start(c) ==
  /\ worker[c].pc = "idle"
  /\ worker' = [worker EXCEPT ![c] = [@ EXCEPT !.pc = "read"]]
  /\ UNCHANGED <<ranges, edits>>

\* nextRange.
NextRange(c) ==
  LET w == worker[c]
      gap == FirstGap({[lo |-> t.lo, hi |-> t.hi] : t \in Occupied}, w.size, w.align)
  IN
  /\ w.pc = "read"
  /\ worker' = [worker EXCEPT ![c] =
       [w EXCEPT !.pc = IF gap = Nowhere THEN "exhausted" ELSE "post",
                 !.placed = gap, !.raced = FALSE]]
  /\ UNCHANGED <<ranges, edits>>

\* Mutant: the range is created in the global table.
BodyWithoutVRF(c) ==
  [lo |-> worker[c].placed.lo, hi |-> worker[c].placed.hi, vrf |-> "other", by |-> c]

\* createRange's body.
Body(c) ==
  [lo |-> worker[c].placed.lo, hi |-> worker[c].placed.hi, vrf |-> "parent", by |-> c]

\* placeRange after any failure but an overlap: no retry.
Lost(w) == [w EXCEPT !.pc = "lost"]

\* placeRange after an overlap rejection, which proves that nothing was created.
Overlapped(w) ==
  [w EXCEPT !.pc = IF w.attempt = MaxAttempts THEN "contended" ELSE "read",
            !.attempt = IF w.attempt = MaxAttempts THEN @ ELSE @ + 1]

\* createRange: refused, or created and answered, or created with the answer lost.
CreateRange(c) ==
  LET w == worker[c]
      r == Body(c)
      others == [d \in Workers |-> IF d = c THEN w ELSE Raced(worker[d])]
  IN
  /\ w.pc = "post"
  /\ \/ /\ Refused(r)
        /\ worker' = [worker EXCEPT ![c] = Overlapped(w)]
        /\ UNCHANGED ranges
     \/ /\ ~Refused(r)
        /\ ranges' = ranges \cup {r}
        /\ \/ worker' = [others EXCEPT ![c] = [w EXCEPT !.pc = "placed"]]
           \/ worker' = [others EXCEPT ![c] = Lost(w)]
  /\ UNCHANGED edits

\* A call fails without taking effect.
CallFails(c) ==
  /\ worker[c].pc \in {"read", "post"}
  /\ worker' = [worker EXCEPT ![c] = Lost(@)]
  /\ UNCHANGED <<ranges, edits>>

\* A human creates a range, in the parent or across its boundary, or deletes one.
HumanRange ==
  /\ edits < MaxEdits /\ edits' = edits + 1
  /\ \/ \E lo, hi \in Addresses, v \in VRFs :
          LET r == [lo |-> lo, hi |-> hi, vrf |-> v, by |-> "human"] IN
          lo <= hi /\ ~Refused(r) /\ ranges' = ranges \cup {r}
     \/ \E r \in ranges : ranges' = ranges \ {r}
  /\ worker' = [d \in Workers |-> Raced(worker[d])]

Next ==
  \/ \E c \in Workers : Start(c) \/ NextRange(c) \/ CreateRange(c) \/ CallFails(c)
  \/ HumanRange

Spec == Init /\ [][Next]_vars

-----------------------------------------------------------------------------
(* Properties. *)

Allocator == INSTANCE RangeAllocator WITH
  taken <- ranges,
  request <- [c \in Workers |-> [size |-> worker[c].size, align |-> worker[c].align]],
  outcome <- [c \in Workers |-> IF worker[c].pc \in Outcomes THEN worker[c].pc ELSE "waiting"]

\* Reading, computing and posting without a lock amounts to taking a free range in one step:
\* a range is free, aligned and of the size asked for when it is created, "exhausted" is told
\* when nothing is free, and after any end nothing more is created (allocate.go placeRange).
AllocatesAtomically == Allocator!Spec

\* FirstGap returns the lowest aligned placement inside the parent that touches nothing
\* occupied, and nothing exactly when there is none, for occupied intervals in any order that
\* overlap, straddle the parent or are inverted (placement.go FirstGap).
FirstGapIsLowest(occupied, size, align) ==
  LET free == Allocator!Free(occupied, size, align)
      gap == FirstGap(occupied, size, align)
  IN
  IF free = {} THEN gap = Nowhere
  ELSE gap = [lo |-> Min(free), hi |-> Min(free) + size - 1]

\* No range a claim holds touches another range of the parent's VRF, whoever made it and
\* whatever was read before it was placed (allocate.go placeRange, createRange).
PlacedDisjoint ==
  \A r, t \in ranges :
    r # t /\ r.by \in Workers /\ (t.vrf = "parent" \/ t.by \in Workers) => ~Touches(r, t)

\* One placement makes at most one range, though its answer may be lost: only a rejection,
\* which proves nothing was created, is tried again (allocate.go placeRange).
OneRangeEach == \A c \in Workers : Cardinality({r \in ranges : r.by = c}) <= 1

\* "Contended" is never reported of a parent nobody else is writing: a placement NetBox
\* rejects was free when it was computed (allocate.go placeRange, occupiedRanges).
RejectedWereRaced ==
  [][\A c \in Workers :
       worker[c].pc = "post" /\ worker'[c].pc \in {"read", "contended"} => worker[c].raced]_vars
=============================================================================
