------------------------- MODULE MCRangePlacement ---------------------------
(***************************************************************************)
(* The placements and, apart from them, FirstGap against its definition    *)
(* on every small call: a behaviour either places ranges or only grows the *)
(* occupied set of one call, a request like the workers'.                  *)
(***************************************************************************)
EXTENDS RangePlacement, TLC

CONSTANT MaxOccupied  \* bound: intervals in the occupied set of a call

VARIABLE call

Symmetry == Permutations(Workers)

NoCall == [on |-> FALSE]

MCInit ==
  /\ Init
  /\ \/ call = NoCall
     \/ /\ call \in [on: {TRUE}, occupied: {{}}, size: Sizes, align: Alignments]
        /\ \A c \in Workers : worker[c].size = call.size /\ worker[c].align = call.align

\* One more interval in the occupied set.
GrowCall ==
  /\ call.on
  /\ Cardinality(call.occupied) < MaxOccupied
  /\ \E t \in Interval \ call.occupied : call' = [call EXCEPT !.occupied = @ \cup {t}]
  /\ UNCHANGED vars

MCNext == GrowCall \/ (~call.on /\ Next /\ UNCHANGED call)

MCSpec == MCInit /\ [][MCNext]_<<vars, call>>

\* FirstGap agrees with its definition on the call at hand, whose occupied intervals may
\* overlap, straddle the parent or be inverted (placement.go FirstGap).
GapCorrect == call.on => FirstGapIsLowest(call.occupied, call.size, call.align)
=============================================================================
