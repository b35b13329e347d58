--------------------------- MODULE MCClaimEngine ----------------------------
(* Symmetry for model-checking ClaimEngine. *)
EXTENDS ClaimEngine, TLC

\* Names, addresses, clusters and given identities are each interchangeable as long as no
\* given identity is a name.
Symmetry ==
  Permutations(Names) \cup Permutations(Addrs)
    \cup Permutations(Clusters) \cup Permutations(Explicit)
=============================================================================
