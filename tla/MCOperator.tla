----------------------------- MODULE MCOperator -----------------------------
(***************************************************************************)
(* The endpoints of two operators on one NetBox, and a sweep.  A behaviour *)
(* is about the endpoints, with the sweep suspended, or about the sweep,   *)
(* with no endpoint of its own: the sweep knows the client cache only by   *)
(* the refusal it leads to.                                                *)
(***************************************************************************)
EXTENDS Endpoint, Sweep

AllOps == {"a", "b"}

OwnTypes == [o \in AllOps |-> {o}]

SpecOf(mode, drift, managed, bootstrap) ==
  [mode |-> mode, drift |-> drift, managed |-> managed, bootstrap |-> bootstrap]

Full == SpecOf("Apply", "Correct", TRUE, TRUE)

Unprovisioned == SpecOf("Apply", "Correct", TRUE, FALSE)

AllSpecs == {Full, Unprovisioned, SpecOf("Apply", "Report", TRUE, TRUE),
             SpecOf("DryRun", "Correct", FALSE, FALSE)}

Case(a, b, edits, faults) ==
  [spec |-> [o \in AllOps |-> IF o = "a" THEN a ELSE b], tag |-> FALSE, field |-> None,
   edits |-> edits, faults |-> faults]

\* The same, in a NetBox where a third operator has defined the field for types of its own.
Shared(c) == [c EXCEPT !.tag = TRUE, !.field = {"other"}]

\* An endpoint edited twice, one that fails, one that may not create its definitions, two that
\* provision at once, two that widen one definition, perhaps from one read, and none.
Cases == {Case(Full, None, 2, 0), Case(Full, None, 1, 1), Case(Unprovisioned, None, 1, 0),
          Case(Full, Full, 0, 0), Shared(Case(Full, Full, 0, 0)), Case(None, None, 0, 0)}

\* A resource, and the one that follows it under its natural key.
Keys == <<"x", "x">>

Row(key, owner) == [key |-> key, uid |-> 0, owner |-> owner]

\* What earlier resources, other namespaces and unknown hands left in NetBox.
Left == {<<>>, <<Row("x", "ours")>>, <<Row("x", "none"), Row("y", "ours")>>,
         <<Row("y", "ours"), Row("z", "foreign")>>}

vars == <<endpointVars, sweepVars>>

Init ==
  /\ EndpointInit /\ SweepInit
  /\ churn > 0 <=> \A o \in Ops : ~cr[o].live

Next == (EndpointNext /\ UNCHANGED sweepVars) \/ (SweepNext /\ UNCHANGED endpointVars)

FairSpec == Init /\ [][Next]_vars /\ EndpointFairness /\ SweepFairness
=============================================================================
