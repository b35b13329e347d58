--------------------------- MODULE RangeAllocator ---------------------------
(***************************************************************************)
(* What a range claim is promised: an allocator that looks for a free      *)
(* range of the parent and takes it in one step, as NetBox's locked views  *)
(* do for addresses and prefixes.  A claim asks once.  It is given one     *)
(* range that is free at that moment, or learns that there is none at some *)
(* moment, or is told that its request came to nothing or to an unknown    *)
(* end.                                                                    *)
(***************************************************************************)
EXTENDS Integers

CONSTANTS Workers, Addresses, ParentLo, ParentHi, VRFs

VARIABLES
  taken,    \* the ranges of NetBox
  request,  \* the size and the alignment each claim asks for
  outcome   \* what each claim was told; "waiting" before that

vars == <<taken, request, outcome>>

Overlap(a, b) == a.lo <= b.hi /\ b.lo <= a.hi

\* A start at the size's power of two, the least that is not smaller than it.
Aligned(s, size) ==
  LET power[k \in 0..size] == IF k = 0 THEN 1 ELSE 2 * power[k - 1]
  IN  \E k \in 0..size :
        /\ power[k] >= size /\ \A j \in 0..(k - 1) : power[j] < size
        /\ s % power[k] = 0

\* The starts from which size addresses inside the parent touch nothing occupied.
Free(occupied, size, align) ==
  {s \in ParentLo..ParentHi :
     /\ s + size - 1 <= ParentHi
     /\ align = "PowerOfTwo" => Aligned(s, size)
     /\ \A t \in occupied : t.lo <= t.hi => ~Overlap([lo |-> s, hi |-> s + size - 1], t)}

FreeFor(c) ==
  Free({[lo |-> t.lo, hi |-> t.hi] : t \in {t \in taken : t.vrf = "parent"}},
       request[c].size, request[c].align)

Init == taken = {} /\ outcome = [c \in Workers |-> "waiting"]

Tell(c, result) == outcome[c] = "waiting" /\ outcome' = [outcome EXCEPT ![c] = result]

\* The claim takes a free range; it may never hear of it.
Allocate(c) ==
  /\ \E result \in {"placed", "lost"} : Tell(c, result)
  /\ \E s \in FreeFor(c) :
       taken' = taken \cup
         {[lo |-> s, hi |-> s + request[c].size - 1, vrf |-> "parent", by |-> c]}
  /\ UNCHANGED request

\* Nothing in the parent is free.
Exhausted(c) ==
  FreeFor(c) = {} /\ Tell(c, "exhausted") /\ UNCHANGED <<taken, request>>

\* The claim gives up, or an error ends it, with nothing taken.
GiveUp(c) ==
  /\ \E result \in {"contended", "lost"} : Tell(c, result)
  /\ UNCHANGED <<taken, request>>

\* Humans create ranges that touch none of the same VRF, and delete ranges.
Human ==
  /\ \/ \E r \in [lo : Addresses, hi : Addresses, vrf : VRFs, by : {"human"}] :
          /\ r.lo <= r.hi /\ \A t \in taken : t.vrf = r.vrf => ~Overlap(r, t)
          /\ taken' = taken \cup {r}
     \/ \E r \in taken : taken' = taken \ {r}
  /\ UNCHANGED <<request, outcome>>

Next == Human \/ \E c \in Workers : Allocate(c) \/ Exhausted(c) \/ GiveUp(c)

Spec == Init /\ [][Next]_vars
=============================================================================
