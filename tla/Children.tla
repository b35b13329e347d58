------------------------------ MODULE Children ------------------------------
(***************************************************************************)
(* Inline children: the entries of a list in a parent's spec, each turned  *)
(* into a resource of its own (internal/reconciler/children.go).  At the   *)
(* end of every pass over the parent the materialiser applies one child    *)
(* per entry, lists the children it made, deletes those whose entry is     *)
(* gone, and records in the parent's status what it made.                  *)
(*                                                                         *)
(* The parent is read from the informer cache and its status written back  *)
(* under the version that was read; children are read from the API server. *)
(* Every request is a step of its own, and may fail.  Nothing watches the  *)
(* children or the endpoint: after a pass that settled the next one comes  *)
(* with an event of the parent, or with the resync, which driftMode Off    *)
(* leaves out.                                                             *)
(***************************************************************************)
EXTENDS FiniteSets, Functions, Naturals

CONSTANTS
  Entries,      \* the inline entries a user may write
  Starts,       \* the list a parent is created with and its endpoint's driftMode
  KindAt,       \* the Kind of each entry's child
  NameAt,       \* its derived name; two entries may derive the same
  pruneMargin,  \* how many more children than are declared a pass may delete
  MaxUid,       \* bound: parents under this name, one after the other
  MaxEdits,     \* bound: changes users make
  MaxFaults     \* bound: failed requests and crashes

None == "None"

ASSUME ConstantsAssumption ==
  None \notin Entries /\ \A c \in Starts : c.declared \subseteq Entries

\* A resource is known by its Kind and name.
Slot(e) == <<KindAt[e], NameAt[e]>>

Slots == {Slot(e) : e \in Entries}

VARIABLES
  endpoint, \* its driftMode, and whether it sends writes
  parent,   \* the parent: its uid, whether it has an id, its entries and status
  cache,    \* the parent as the informer last saw it
  current,  \* whether that is its newest version
  crs,      \* the resources under the children's names
  pass,     \* the running pass
  owed,     \* another pass is sure to come: an event or a requeue waits in the workqueue
  removed,  \* the entries that were ever taken out of the list
  edits,    \* changes so far
  faults    \* failures so far

vars == <<endpoint, parent, cache, current, crs, pass, owed, removed, edits, faults>>

Absent == [state |-> "absent", label |-> 0, controller |-> 0, path |-> None,
           spec |-> None]

Idle == [at |-> "idle", of |-> [uid |-> 0], fresh |-> FALSE, todo |-> {}, kinds |-> {},
         stale |-> {}, children |-> {}, trouble |-> {}, verdict |-> None, there |-> {}]

-----------------------------------------------------------------------------
\* A child of the parent with this uid: its label and its controller reference both say so.
ours(s, uid) == crs[s].state # "absent" /\ crs[s].label = uid /\ crs[s].controller = uid

\* Nobody's child: written by hand, whatever labels were copied onto it.
ByHand(s) == crs[s].state # "absent" /\ crs[s].controller = 0

\* collision: two entries that derive one name.
collision(declared) == Cardinality({Slot(e) : e \in declared}) # Cardinality(declared)

\* skipsChildren: nothing is to be written, or the parent has no id yet.
skipsChildren(p) == ~endpoint.writes \/ ~p.id

\* candidateKinds: the Kinds declared now, and the ones the last pass recorded.
candidateKinds(p) == {KindAt[e] : e \in p.declared \cup p.recorded}

\* Mutant: every marked child of ours is stale.
prunableAny(s, p) == crs[s].path # None /\ ours(s, p.uid)

\* Mutant: a child somebody edited is left alone.
prunableUnedited(s, p) ==
  crs[s].path \notin p.declared \cup {None} /\ ours(s, p.uid) /\ crs[s].spec = "declared"

\* prunable: marked, ours, and its entry is gone.
prunable(s, p) ==
  /\ crs[s].path # None
  /\ ours(s, p.uid)
  /\ crs[s].path \notin p.declared

verdict(trouble) ==
  CASE "conflict" \in trouble -> "Conflict"
    [] "conflict" \notin trouble /\ "blocked" \in trouble -> "PruneBlocked"
    [] trouble \cap {"conflict", "blocked"} = {} /\ "failure" \in trouble -> "APIError"
    [] trouble = {"pending"} -> "PendingChildren"
    [] trouble = {} -> "AllReady"

-----------------------------------------------------------------------------
NewParent(uid, declared) ==
  [uid |-> uid, id |-> FALSE, declared |-> declared, recorded |-> {},
   verdict |-> None]

Init ==
  /\ \E c \in Starts : /\ endpoint = [drift |-> c.drift, writes |-> TRUE]
                      /\ parent = NewParent(1, c.declared)
  /\ cache = parent /\ current = TRUE
  /\ crs = [s \in Slots |-> Absent]
  /\ pass = Idle /\ owed = TRUE /\ removed = {} /\ edits = 0 /\ faults = 0

-----------------------------------------------------------------------------
(* The pass. *)

\* A request that fails; the pass goes on and reports it.
Fails == faults < MaxFaults /\ faults' = faults + 1

\* driftResync: a pass that settled is repeated, unless driftMode is Off.
Resyncs == endpoint.drift # "Off"

\* materialise, from the parent the cache holds.
Begin ==
  /\ pass.at = "idle"
  /\ LET p == [Idle EXCEPT !.of = cache, !.fresh = current, !.there = {s \in Slots : ByHand(s)}]
         stop(v) == [p EXCEPT !.at = "write", !.children = cache.recorded, !.verdict = v]
     IN  \/ /\ skipsChildren(cache)
            /\ pass' = stop(IF endpoint.writes THEN "PendingChildren" ELSE "DryRunPending")
         \/ ~skipsChildren(cache) /\ collision(cache.declared) /\ pass' = stop("Conflict")
         \/ /\ ~skipsChildren(cache) /\ ~collision(cache.declared)
            /\ pass' = [p EXCEPT !.at = "get", !.todo = cache.declared,
                                 !.kinds = candidateKinds(cache)]
  /\ owed' = Resyncs
  /\ UNCHANGED <<endpoint, parent, cache, current, crs, removed, edits, faults>>

Entry == CHOOSE e \in pass.todo : TRUE

\* The pass after an entry is dealt with.
NextEntry(p) == [p EXCEPT !.at = "get", !.todo = @ \ {Entry}]

\* Mutant: any resource under the name will do.
OccupantAny ==
  /\ pass.at = "get" /\ pass.todo # {} /\ pass' = [pass EXCEPT !.at = "apply"]
  /\ UNCHANGED <<endpoint, parent, cache, current, owed, crs, removed, edits, faults>>

\* Mutant: a child that exists is not applied again.
OccupantOnce ==
  /\ pass.at = "get" /\ pass.todo # {}
  /\ pass' = IF crs[Slot(Entry)].state = "absent" THEN [pass EXCEPT !.at = "apply"]
             ELSE NextEntry([pass EXCEPT !.children = @ \cup {Entry}])
  /\ UNCHANGED <<endpoint, parent, cache, current, owed, crs, removed, edits, faults>>

\* occupant: who has the name now.
Occupant ==
  /\ pass.at = "get" /\ pass.todo # {}
  /\ \/ /\ crs[Slot(Entry)].state = "absent" \/ ours(Slot(Entry), pass.of.uid)
        /\ pass' = [pass EXCEPT !.at = "apply"] /\ UNCHANGED faults
     \/ /\ crs[Slot(Entry)].state # "absent" /\ ~ours(Slot(Entry), pass.of.uid)
        /\ pass' = NextEntry([pass EXCEPT !.trouble = @ \cup {"conflict"}]) /\ UNCHANGED faults
     \/ Fails /\ pass' = NextEntry([pass EXCEPT !.trouble = @ \cup {"failure"}])
  /\ UNCHANGED <<endpoint, parent, cache, current, owed, crs, removed, edits>>

\* decorate and write: a forced server-side apply of the declared fields and of the markers.
\* The API server refuses a second controller.
ApplyChild ==
  /\ pass.at = "apply"
  /\ LET s == Slot(Entry)
         refused == crs[s].controller \notin {0, pass.of.uid}
         child == [crs[s] EXCEPT !.state = IF @ = "absent" THEN "live" ELSE @,
                                 !.label = pass.of.uid, !.controller = pass.of.uid,
                                 !.path = Entry, !.spec = "declared"]
         failed == NextEntry([pass EXCEPT !.trouble = @ \cup {"failure"}])
     IN  \/ /\ ~refused /\ crs' = [crs EXCEPT ![s] = child]
            /\ pass' = NextEntry([pass EXCEPT !.children = @ \cup {Entry}])
            /\ UNCHANGED faults
         \/ refused /\ pass' = failed /\ UNCHANGED <<crs, faults>>
         \/ ~refused /\ Fails /\ pass' = failed /\ UNCHANGED crs
  /\ UNCHANGED <<endpoint, parent, cache, current, owed, removed, edits>>

\* stale: list one Kind's children, and after the last decide whether to delete.
ListKind ==
  /\ pass.at = "get" /\ pass.todo = {} /\ pass.kinds # {}
  /\ LET k == CHOOSE k \in pass.kinds : TRUE
         found == {s \in Slots : s[1] = k /\ prunable(s, pass.of)}
     IN  \/ /\ pass' = [pass EXCEPT !.kinds = @ \ {k}, !.stale = @ \cup found]
            /\ UNCHANGED faults
         \/ Fails /\ pass' = [pass EXCEPT !.kinds = @ \ {k}, !.trouble = @ \cup {"failure"}]
  /\ UNCHANGED <<endpoint, parent, cache, current, owed, crs, removed, edits>>

\* prune: nothing at all is deleted past the margin.
Prune ==
  /\ pass.at = "get" /\ pass.todo = {} /\ pass.kinds = {}
  /\ pass' = IF Cardinality(pass.stale) > Cardinality(pass.of.declared) + pruneMargin
             THEN [pass EXCEPT !.at = "delete", !.stale = {}, !.trouble = @ \cup {"blocked"}]
             ELSE [pass EXCEPT !.at = "delete"]
  /\ UNCHANGED <<endpoint, parent, cache, current, owed, crs, removed, edits, faults>>

\* delete: an ordinary DELETE of the name, which leaves the rest to the child's finalizer.
DeleteChild ==
  /\ pass.at = "delete" /\ pass.stale # {}
  /\ LET s == CHOOSE s \in pass.stale : TRUE
         next(t) == [pass EXCEPT !.stale = @ \ {s}, !.trouble = @ \cup {t}]
     IN  \/ /\ crs' = [crs EXCEPT ![s].state = IF @ = "live" THEN "terminating" ELSE @]
            /\ pass' = next("pending") /\ UNCHANGED faults
         \/ Fails /\ pass' = next("failure") /\ UNCHANGED crs
  /\ UNCHANGED <<endpoint, parent, cache, current, owed, removed, edits>>

\* report: status.children is what this pass applied.
Report ==
  /\ pass.at = "delete" /\ pass.stale = {}
  /\ pass' = [pass EXCEPT !.at = "write", !.verdict = verdict(pass.trouble)]
  /\ UNCHANGED <<endpoint, parent, cache, current, owed, crs, removed, edits, faults>>

\* Nothing is left to come back for.
Settled(v) == v \in {"AllReady", "DryRunPending"}

\* finish: the status lands if the parent is still the one that was read.  Whatever has not
\* settled, or did not land, is tried again.
Write ==
  /\ pass.at = "write"
  /\ pass' = Idle
  /\ \/ /\ pass.fresh
        /\ parent' = [parent EXCEPT !.recorded = pass.children, !.verdict = pass.verdict]
        /\ current' = (current /\ parent' = parent)
        /\ owed' = (owed \/ ~Settled(pass.verdict)) /\ UNCHANGED faults
     \/ ~pass.fresh /\ owed' = TRUE /\ UNCHANGED <<parent, current, faults>>
     \/ Fails /\ owed' = TRUE /\ UNCHANGED <<parent, current>>
  /\ UNCHANGED <<endpoint, cache, crs, removed, edits>>

\* A new process lists every parent.
Crash ==
  /\ Fails /\ pass.at # "idle" /\ pass' = Idle
  /\ cache' = parent /\ current' = TRUE /\ owed' = TRUE
  /\ UNCHANGED <<endpoint, parent, crs, removed, edits>>

Step ==
  \/ Begin \/ Occupant \/ ApplyChild \/ ListKind \/ Prune \/ DeleteChild \/ Report \/ Write

-----------------------------------------------------------------------------
(* The cluster and its users. *)

\* Any write of the parent makes the cache, and the running pass, out of date.
Changed(p) ==
  /\ parent' = p /\ current' = FALSE /\ pass' = [pass EXCEPT !.fresh = FALSE]
  /\ UNCHANGED <<endpoint, cache, owed, faults>>

\* The informer sees the parent, which queues it: For has no predicate.
Sync ==
  /\ ~current /\ cache' = parent /\ current' = TRUE /\ owed' = TRUE
  /\ UNCHANGED <<endpoint, parent, crs, pass, removed, edits, faults>>

\* The parent's own object is created in NetBox.
Identify == ~parent.id /\ Changed([parent EXCEPT !.id = TRUE]) /\ UNCHANGED <<crs, removed, edits>>

Edit == edits < MaxEdits /\ edits' = edits + 1

EditEntries ==
  /\ Edit
  /\ \E e \in Entries :
       /\ Changed([parent EXCEPT !.declared = (@ \ {e}) \cup ({e} \ @)])
       /\ removed' = removed \cup ({e} \cap parent.declared)
  /\ UNCHANGED crs

\* The endpoint is set to DryRun, and back.  No parent hears of it.
Suspend ==
  /\ Edit /\ endpoint' = [endpoint EXCEPT !.writes = ~@]
  /\ UNCHANGED <<parent, cache, current, crs, pass, owed, removed, faults>>

\* The parent is deleted without its children and created again under its name.
Reborn ==
  /\ Edit /\ parent.uid < MaxUid
  /\ Changed(NewParent(parent.uid + 1, parent.declared)) /\ UNCHANGED <<crs, removed>>

\* The garbage collector deletes what belonged to a parent that is gone.
Collect ==
  /\ \E s \in Slots : /\ crs[s].state = "live" /\ crs[s].controller \notin {0, parent.uid}
                      /\ crs' = [crs EXCEPT ![s].state = "terminating"]
  /\ UNCHANGED <<endpoint, parent, cache, current, owed, pass, removed, edits, faults>>

\* Somebody writes a resource under a child's name, perhaps from a child's manifest.
HandCreate ==
  /\ Edit
  /\ \E s \in Slots, label \in {0, parent.uid} :
       /\ crs[s].state = "absent"
       /\ crs' = [crs EXCEPT ![s] = [Absent EXCEPT !.state = "live", !.label = label, !.spec = "edited"]]
  /\ UNCHANGED <<endpoint, parent, cache, current, owed, pass, removed, faults>>

\* Somebody edits a child, or deletes it.
HandEdit ==
  /\ Edit
  /\ \E s \in Slots : /\ crs[s].state = "live" /\ crs[s].spec = "declared"
                      /\ crs' = [crs EXCEPT ![s].spec = "edited"]
  /\ UNCHANGED <<endpoint, parent, cache, current, owed, pass, removed, faults>>

HandDelete ==
  /\ Edit
  /\ \E s \in Slots : crs[s].state = "live" /\ crs' = [crs EXCEPT ![s].state = "terminating"]
  /\ UNCHANGED <<endpoint, parent, cache, current, owed, pass, removed, faults>>

\* A child's finalizer lets it go; with it goes what the pass began with under that name.
Finalize ==
  /\ \E s \in Slots : /\ crs[s].state = "terminating" /\ crs' = [crs EXCEPT ![s] = Absent]
                      /\ pass' = [pass EXCEPT !.there = @ \ {s}]
  /\ UNCHANGED <<endpoint, parent, cache, current, owed, removed, edits, faults>>

Users == EditEntries \/ Suspend \/ Reborn \/ HandCreate \/ HandEdit \/ HandDelete

Cluster == Sync \/ Identify \/ Collect \/ Finalize

Next == Step \/ Crash \/ Users \/ Cluster

Spec == Init /\ [][Next]_vars

\* A pass that began goes on, and one that is owed begins; the informer catches up, the collector
\* runs, and finalizers finish.
FairSpec ==
  /\ Spec /\ WF_vars((pass.at # "idle" \/ owed) /\ Step) /\ WF_vars(Sync) /\ WF_vars(Identify)
  /\ WF_vars(Collect) /\ WF_vars(Finalize)

-----------------------------------------------------------------------------
(* Properties. *)

\* A resource somebody else wrote is never touched: what has been under a child's name since
\* the pass began is neither applied over nor deleted (children.go occupant, prunable).
HandsOff == [][\A s \in pass.there : Step => crs'[s] = crs[s]]_vars

\* The same of what is there by hand when a step is taken: it is never adopted and never
\* overwritten, as applyChild and the documentation of inline children say.
NeverOverwritten == [][\A s \in Slots : ByHand(s) /\ Step => crs'[s] = crs[s]]_vars

\* A child is deleted only if its entry was once taken out of the list, however old the parent
\* the pass works from, and whatever keys derive its name (children.go stale, prunable).
PrunedWereDropped ==
  [][\A s \in Slots :
       DeleteChild /\ crs'[s] # crs[s] /\ ours(s, parent.uid) => crs[s].path \in removed]_vars

Active == endpoint.writes /\ ~collision(parent.declared)

\* The last pass met an endpoint in DryRun; nobody tells the parent that it writes again, and
\* driftMode Off means that nobody asks.
Rehearsed == ~Resyncs /\ parent.verdict = "DryRunPending"

\* The last pass found e's child as declared, and driftMode Off means that nobody looks again.
Unwatched(e) == ~Resyncs /\ parent.verdict = "AllReady" /\ e \in parent.recorded

\* Every declared entry gets its child, with the declared fields, unless somebody else has its
\* name; where settled parents are looked at again, a child deleted or edited by hand comes back
\* (children.go materialise, report; status.go finish, driftResync).
Materialises ==
  <>[](Active /\ ~Rehearsed => \A e \in parent.declared :
         \/ ByHand(Slot(e)) \/ Unwatched(e)
         \/ ours(Slot(e), parent.uid) /\ crs[Slot(e)].spec = "declared")

\* No entry of the Kind is declared and none is recorded: nothing lists the Kind any more.
Forgotten(s) == s[1] \notin candidateKinds(parent)

Leftover == {s \in Slots : ours(s, parent.uid) /\ crs[s].path \notin parent.declared}

\* A child whose entry is gone goes too, in every driftMode, unless its Kind was forgotten or the
\* margin is exceeded and said to be.
Prunes ==
  <>[](Active /\ ~Rehearsed => \A s \in Leftover : Forgotten(s) \/ parent.verdict = "PruneBlocked")

\* The same without the first exception: removing every entry removes every child.
PrunesAll == <>[](Active => Leftover = {} \/ parent.verdict = "PruneBlocked")
=============================================================================
