----------------------------- MODULE MCIdentity -----------------------------
(* Identity over every Kind the operator ships, and the children their inline lists yield. *)
EXTENDS Identity, InlineKinds
=============================================================================
