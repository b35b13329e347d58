------------------------------ MODULE Teardown ------------------------------
(***************************************************************************)
(* Deleting many resources that reference each other                       *)
(* (internal/reconciler/finalizer.go, cascade.go): NetBox refuses what is  *)
(* still referenced, a refusal is retried after a growing interval, a      *)
(* parent waits for the children it materialised, and an annotation        *)
(* deletes the resources that reference a refused one.                     *)
(*                                                                         *)
(* Every resource starts created, with its id recorded; how a single one   *)
(* gets there, and how its own object is found again, is ObjectEngine's.   *)
(* An interval is a clock: once recorded it runs out some time later.      *)
(***************************************************************************)
EXTENDS Naturals, FiniteSets

CONSTANTS
  CRs,          \* the resources
  Cases,        \* the situations to consider, see Case
  MaxAttempts,  \* bound: refusals counted
  MaxEdits      \* bound: edits by users

EnvEvents == {"Annotate", "AllowLoss", "Retain", "Clear"}

\* One situation.  refs: <<c, d>> where c's row references d's, on_delete=PROTECT; contains:
\* the same with on_delete=CASCADE, where d's CR owns c's; inline: the pairs of contains that d
\* materialised, which are in d's status.children; lossy: resources of a DataLossOnDelete kind;
\* human: resources whose row a row made by a human references; targets: the resources users
\* delete, and foreground with which propagation; env: what else users do, to which resources.
Case ==
  [refs: SUBSET (CRs \X CRs), contains: SUBSET (CRs \X CRs), inline: SUBSET (CRs \X CRs),
   lossy: SUBSET CRs, human: SUBSET CRs, targets: SUBSET CRs, foreground: SUBSET BOOLEAN,
   env: SUBSET (EnvEvents \X CRs)]

\* No Kind whose deletion destroys data elsewhere is contained in another (Catalogue,
\* LossIsNeverContained), so such a row goes only by a DELETE of its own.
ASSUME ConstantsAssumption ==
  /\ \A w \in Cases : w \in Case /\ w.inline \subseteq w.contains
  /\ \A w \in Cases, c, d \in CRs : <<c, d>> \in w.contains => c \notin w.lossy
  /\ MaxAttempts \in Nat \ {0} /\ MaxEdits \in Nat

VARIABLES
  world,    \* the situation, which never changes
  api,      \* the API server's copy of each resource
  cache,    \* the informer's copy, which the reverse index is built on
  pass,     \* the deletion pass in progress
  due,      \* whether the interval last recorded has run out
  nb,       \* the rows in NetBox, with the rows they reference
  human,    \* world.human, less what humans have cleared
  edits,    \* edits by users so far
  victims   \* history: <<c, d>> where c's cascade deleted d's CR

vars == <<world, api, cache, pass, due, nb, human, edits, victims>>

\* A resource: refs is what its spec references with PROTECT, cascade and loss its
\* annotations, attempts status.deletionAttempts.
Resource ==
  [there: BOOLEAN, deleting: BOOLEAN, fin: BOOLEAN, foreground: BOOLEAN, retain: BOOLEAN,
   cascade: BOOLEAN, loss: BOOLEAN, refs: SUBSET CRs, attempts: 0..MaxAttempts]

Row == [there: BOOLEAN, refs: SUBSET CRs]

Idle == [pc |-> "idle"]

\* The copy being worked on, whether its resourceVersion is still the latest, and the
\* referrers left to delete.
Pass ==
  [pc: {"dependents", "delete", "referring", "cascade", "finish", "release"},
   obj: Resource, latest: BOOLEAN, todo: SUBSET CRs]

RefsOf(c) == {d \in CRs : <<c, d>> \in world.refs}
Children(c) == {d \in CRs : <<d, c>> \in world.inline}

Init ==
  /\ world \in Cases
  /\ api = [c \in CRs |->
       [there |-> TRUE, deleting |-> FALSE, fin |-> TRUE, foreground |-> FALSE,
        retain |-> FALSE, cascade |-> FALSE, loss |-> FALSE, refs |-> RefsOf(c),
        attempts |-> 0]]
  /\ cache = api
  /\ pass = [c \in CRs |-> Idle]
  /\ due = [c \in CRs |-> TRUE]
  /\ nb = [c \in CRs |-> [there |-> TRUE, refs |-> RefsOf(c)]]
  /\ human = world.human
  /\ edits = 0
  /\ victims = {}

-----------------------------------------------------------------------------
(* Kubernetes, users, humans in NetBox. *)

\* A write to c by somebody other than c's own pass.
Stale(c) == IF pass[c].pc = "idle" THEN pass[c] ELSE [pass[c] EXCEPT !.latest = FALSE]
WriteOutside(c, obj) ==
  /\ api' = [api EXCEPT ![c] = obj]
  /\ pass' = [pass EXCEPT ![c] = Stale(c)]

Edit == edits < MaxEdits /\ edits' = edits + 1

UserDelete(c) ==
  /\ c \in world.targets /\ api[c].there /\ ~api[c].deleting
  /\ \E f \in world.foreground :
       WriteOutside(c, [api[c] EXCEPT !.deleting = TRUE, !.foreground = f])
  /\ UNCHANGED <<world, cache, due, nb, human, edits, victims>>

\* Annotations, deletionPolicy: Retain, or a reference taken out of the spec.
UserEdit(c) ==
  /\ Edit /\ api[c].there
  /\ \/ /\ <<"Annotate", c>> \in world.env /\ ~api[c].cascade
        /\ WriteOutside(c, [api[c] EXCEPT !.cascade = TRUE])
     \/ /\ <<"AllowLoss", c>> \in world.env /\ ~api[c].loss
        /\ WriteOutside(c, [api[c] EXCEPT !.loss = TRUE])
     \/ /\ <<"Retain", c>> \in world.env /\ ~api[c].retain
        /\ WriteOutside(c, [api[c] EXCEPT !.retain = TRUE])
     \/ /\ <<"Clear", c>> \in world.env /\ ~api[c].deleting
        /\ \E d \in api[c].refs : WriteOutside(c, [api[c] EXCEPT !.refs = @ \ {d}])
  /\ UNCHANGED <<world, cache, due, nb, human, victims>>

\* A human removes the row that was in the way.
HumanClears(c) ==
  /\ c \in human
  /\ human' = human \ {c}
  /\ UNCHANGED <<world, api, cache, pass, due, nb, edits, victims>>

\* The garbage collector: in the background once the owner is gone, in the foreground once
\* the owner is being deleted.
Owned(c) == {d \in CRs : <<c, d>> \in world.contains}
Collect(c) ==
  /\ api[c].there /\ ~api[c].deleting
  /\ \E d \in Owned(c) : ~api[d].there \/ (api[d].deleting /\ api[d].foreground)
  /\ WriteOutside(c, [api[c] EXCEPT !.deleting = TRUE])
  /\ UNCHANGED <<world, cache, due, nb, human, edits, victims>>

\* The API server removes a resource without finalizers; foreground deletion has one of its
\* own, until the dependents are gone.
Vanish(c) ==
  /\ api[c].there /\ api[c].deleting /\ ~api[c].fin
  /\ api[c].foreground => \A d \in CRs : <<d, c>> \in world.contains => ~api[d].there
  /\ WriteOutside(c, [api[c] EXCEPT !.there = FALSE])
  /\ UNCHANGED <<world, cache, due, nb, human, edits, victims>>

CacheSync(c) ==
  /\ cache[c] # api[c]
  /\ cache' = [cache EXCEPT ![c] = api[c]]
  /\ UNCHANGED <<world, api, pass, due, nb, human, edits, victims>>

ClockRuns(c) ==
  /\ ~due[c]
  /\ due' = [due EXCEPT ![c] = TRUE]
  /\ UNCHANGED <<world, api, cache, pass, nb, human, edits, victims>>

\* The write pass of a resource nobody is deleting: its row follows its spec.
Apply(c) ==
  /\ pass[c].pc = "idle"
  /\ cache[c].there /\ ~cache[c].deleting
  /\ nb[c].there /\ nb[c].refs # cache[c].refs
  /\ nb' = [nb EXCEPT ![c] = [@ EXCEPT !.refs = cache[c].refs]]
  /\ UNCHANGED <<world, api, cache, pass, due, human, edits, victims>>

\* The rows that go with c's, and whether NetBox refuses because one of them is referenced.
Going(c) ==
  {d \in CRs : nb[d].there /\ \/ d = c
                              \/ <<d, c>> \in world.contains
                              \/ \E e \in CRs : <<d, e>> \in world.contains /\ <<e, c>> \in world.contains}
Protected(c) ==
  \E d \in Going(c) : d \in human \/ \E e \in CRs : nb[e].there /\ d \in nb[e].refs

-----------------------------------------------------------------------------
(* The deletion pass. *)

At(c, pc) == pass[c].pc = pc
Go(c, p) == pass' = [pass EXCEPT ![c] = p]
To(p, pc) == [p EXCEPT !.pc = pc]

\* pass.releaseWithoutDeleting, the id being recorded.
ReleasesAtOnce(obj) == obj.retain

\* Mutant: delete whatever the annotation says.
DataLossNeverBlocked(c, obj) == c \in world.lossy /\ ~obj.there

\* pass.dataLossBlocked; the block it reports changes nothing the passes read.
DataLossBlocked(c, obj) == c \in world.lossy /\ ~obj.loss

\* pass.deleting up to its first call.
Deleting(c) ==
  LET o == cache[c] IN
  /\ At(c, "idle")
  /\ o.there /\ o.deleting /\ o.fin
  /\ ~DataLossBlocked(c, o) \/ ReleasesAtOnce(o)
  /\ Go(c, [pc |-> IF ReleasesAtOnce(o) THEN "release" ELSE "dependents",
            obj |-> o, latest |-> o = api[c], todo |-> {}])
  /\ UNCHANGED <<world, api, cache, due, nb, human, edits, victims>>

\* deletionHold: the copy's last attempt is the latest one, and its interval has not run out.
Holding(c, obj) == obj.attempts > 0 /\ obj.attempts = api[c].attempts /\ ~due[c]

\* Mutant: the children are not waited for.
DependentsIgnored(c) ==
  LET p == pass[c] IN
  /\ At(c, "dependents")
  /\ Go(c, IF Holding(c, p.obj) THEN Idle ELSE To(p, "delete"))
  /\ UNCHANGED <<world, api, cache, due, nb, human, edits, victims>>

\* pass.pendingDependents and the hold: a live read of every child.
Dependents(c) ==
  LET p == pass[c] IN
  /\ At(c, "dependents")
  /\ Go(c, IF (\E d \in Children(c) : api[d].there) \/ Holding(c, p.obj) THEN Idle
           ELSE To(p, "delete"))
  /\ UNCHANGED <<world, api, cache, due, nb, human, edits, victims>>

\* Mutant: the annotation is read only before the deletion.
CascadesEarly(obj) == obj.cascade /\ ~obj.deleting

\* pass.cascades.
Cascades(obj) == obj.cascade

\* status.deletionAttempts after a refusal; past MaxAttempts the interval is the same.
Counted(n) == IF n = MaxAttempts THEN n ELSE n + 1

\* The copy a refusal is counted in.
Refused(obj) == [obj EXCEPT !.attempts = Counted(@)]

\* The DELETE that NetBox accepts, and the one it refuses: counted, and retried later.
Accepted(c) ==
  /\ nb[c].there /\ ~Protected(c)
  /\ nb' = [d \in CRs |-> IF d \in Going(c) THEN [nb[d] EXCEPT !.there = FALSE] ELSE nb[d]]
  /\ Go(c, To(pass[c], "release"))

RefusedDelete(c) ==
  /\ nb[c].there /\ Protected(c)
  /\ Go(c, [pass[c] EXCEPT !.pc = IF Cascades(pass[c].obj) THEN "referring" ELSE "finish",
                           !.obj = Refused(@)])
  /\ UNCHANGED nb

\* Mutant: a row that is gone already is an error.
DeleteObjectStrict(c) ==
  /\ At(c, "delete")
  /\ Accepted(c) \/ RefusedDelete(c)
  /\ UNCHANGED <<world, api, cache, due, human, edits, victims>>

\* pass.deleteObject and protected; a 404 is the end that was asked for.
DeleteObject(c) ==
  /\ At(c, "delete")
  /\ \/ ~nb[c].there /\ Go(c, To(pass[c], "release")) /\ UNCHANGED nb
     \/ Accepted(c)
     \/ RefusedDelete(c)
  /\ UNCHANGED <<world, api, cache, due, human, edits, victims>>

\* referrers.Referring: the reverse index, over the informer's copies.
Referrers(c) ==
  {d \in CRs \ {c} : cache[d].there /\ (c \in cache[d].refs \/ <<d, c>> \in world.contains)}

Referring(c) ==
  LET p == pass[c]
      todo == {d \in Referrers(c) : ~cache[d].deleting}
  IN
  /\ At(c, "referring")
  /\ Go(c, [p EXCEPT !.pc = IF todo = {} THEN "finish" ELSE "cascade", !.todo = todo])
  /\ UNCHANGED <<world, api, cache, due, nb, human, edits, victims>>

\* pass.cascade: one DELETE per referrer, with no precondition on what it references now.
Cascade(c) ==
  LET p == pass[c] IN
  /\ At(c, "cascade")
  /\ \E d \in p.todo :
       LET rest == p.todo \ {d}
           mine == [p EXCEPT !.todo = rest, !.pc = IF rest = {} THEN "finish" ELSE @]
       IN
       /\ pass' = [pass EXCEPT ![d] = IF api[d].there /\ ~api[d].deleting THEN Stale(d) ELSE @,
                               ![c] = mine]
       /\ IF api[d].there /\ ~api[d].deleting
          THEN /\ api' = [api EXCEPT ![d] = [@ EXCEPT !.deleting = TRUE]]
               /\ victims' = victims \cup {<<c, d>>}
          ELSE UNCHANGED <<api, victims>>
  /\ UNCHANGED <<world, cache, due, nb, human, edits>>

\* pass.blocked and finish: the count and the time of the refusal, unless the write is
\* refused for a stale resourceVersion.
Finish(c) ==
  LET p == pass[c] IN
  /\ At(c, "finish")
  /\ IF p.latest
     THEN /\ api' = [api EXCEPT ![c] = [@ EXCEPT !.attempts = p.obj.attempts]]
          /\ due' = [due EXCEPT ![c] = FALSE]
     ELSE UNCHANGED <<api, due>>
  /\ Go(c, Idle)
  /\ UNCHANGED <<world, cache, nb, human, edits, victims>>

\* pass.release.
Release(c) ==
  LET p == pass[c] IN
  /\ At(c, "release")
  /\ api' = IF p.latest THEN [api EXCEPT ![c] = [@ EXCEPT !.fin = FALSE]] ELSE api
  /\ Go(c, Idle)
  /\ UNCHANGED <<world, cache, due, nb, human, edits, victims>>

-----------------------------------------------------------------------------
Step(c) ==
  \/ Deleting(c) \/ Dependents(c) \/ DeleteObject(c) \/ Referring(c) \/ Cascade(c)
  \/ Finish(c) \/ Release(c)

World(c) == Collect(c) \/ Vanish(c) \/ CacheSync(c) \/ ClockRuns(c) \/ HumanClears(c)

Next == \E c \in CRs : Step(c) \/ Apply(c) \/ World(c) \/ UserDelete(c) \/ UserEdit(c)

Spec == Init /\ [][Next]_vars

\* Reconciles run and are repeated, the informer, the API server and the garbage collector keep
\* up, and intervals run out.  Users and humans owe nothing.
Fairness ==
  \A c \in CRs :
    /\ WF_vars(Step(c)) /\ WF_vars(Collect(c)) /\ WF_vars(Vanish(c)) /\ WF_vars(CacheSync(c))
    /\ WF_vars(ClockRuns(c)) /\ WF_vars(Apply(c))

FairSpec == Spec /\ Fairness

-----------------------------------------------------------------------------
(* Properties. *)

\* Neither c's spec, its kind nor a human stands in the way of deleting c's row.
Unhindered(c) == ~api[c].retain /\ (c \in world.lossy => api[c].loss) /\ c \notin human

\* Once everything is being deleted and nothing but NetBox's references stands in the way, all
\* of it goes, in whatever order it was asked for: refusal and retry sort it (finalizer.go
\* protected, deletionHold, pendingDependents).
TeardownCompletes ==
  <>[](\A c \in CRs : api[c].deleting /\ Unhindered(c))
    => <>[](\A c \in CRs : ~api[c].there /\ ~nb[c].there)

\* A parent's row goes only after the CRs of the children it materialised
\* (finalizer.go pendingDependents).
ParentLast ==
  [][\A c, d \in CRs : <<d, c>> \in world.inline /\ nb[c].there /\ ~nb'[c].there /\ At(c, "delete")
       => ~api[d].there]_vars

\* An annotated resource that is refused only over resources of this cluster goes, though
\* nobody deletes those (cascade.go cascade).
CascadeCompletes ==
  \A c \in CRs :
    <>[](api[c].deleting /\ api[c].cascade /\ \A d \in CRs : Unhindered(d)) => <>~api[c].there

\* Nothing is destroyed that nobody agreed to: only a cascade its owner asked for deletes a
\* resource nobody meant to delete, one level and no further, and a row whose deletion destroys
\* data elsewhere goes only once its CR allows it (cascade.go cascade, finalizer.go
\* dataLossBlocked).
Consented ==
  /\ \A v \in victims : api[v[1]].cascade /\ api[v[1]].deleting
  /\ \A c \in world.lossy : nb[c].there \/ api[c].loss

\* Deleting a parent removes it, its children and their rows (finalizer.go pendingDependents).
ParentGoes == \A c \in CRs : (api[c].there /\ api[c].deleting) ~> ~api[c].there
=============================================================================
