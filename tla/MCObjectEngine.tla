--------------------------- MODULE MCObjectEngine ---------------------------
(* Model values and symmetry for model-checking ObjectEngine. *)
EXTENDS ObjectEngine, TLC

\* Resources are interchangeable, and so are the model values for keys and values.
Symmetry == Permutations(CRs) \cup Permutations(Keys) \cup Permutations(Vals)
=============================================================================
