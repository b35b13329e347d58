----------------------------- MODULE References -----------------------------
(***************************************************************************)
(* References between resources: what a pass makes of them                 *)
(* (internal/resolver), which of them withhold the write                   *)
(* (internal/reconciler/refs.go, deferred.go), and who is reconciled again *)
(* when a target changes (internal/controller/refwatch.go, predicates.go). *)
(*                                                                         *)
(* A resource names its targets; a name crosses namespaces only under a    *)
(* grant of the target's namespace.  A pass resolves a name to the id in   *)
(* the target's status.  Nothing polls: a resource that waits is woken by  *)
(* the watch on its target, and otherwise only by the resync, which an     *)
(* endpoint with driftMode Off does not give what has settled.             *)
(***************************************************************************)
EXTENDS Descriptors, Naturals

CONSTANTS
  KindOf,        \* the registered descriptors, by Kind
  Cases,         \* the worlds to start from, each with a bound on the changes made in it
  Env,           \* what may happen around the passes
  MaxRefDepth,   \* the walk for a cycle gives up below this depth
  MaxRefVisits,  \* and after this many resources
  MaxId          \* bound: ids NetBox hands out

\* The Kinds whose objects one of Kind k is withheld for: the targets of what is not deferred.
Awaits(k) ==
  LET d == KindOf[k]
  IN  DOMAIN KindOf \cap
        UNION {Targets(d, f) : f \in (RefFields(d) \cup DOMAIN d.unions) \ DOMAIN d.deferred}

\* Kind k and the Kinds it can wait for in any number of steps.
Upstream(k) ==
  LET closed == {S \in SUBSET DOMAIN KindOf : k \in S /\ \A j \in S : Awaits(j) \subseteq S}
  IN  {j \in DOMAIN KindOf : \A S \in closed : j \in S}

\* The walk for a cycle follows no union (refsOf reads the reference fields alone), so no ring of
\* Kinds may pass through one.
ASSUME UnionsCloseNoRing ==
  /\ IsFiniteSet(DOMAIN KindOf)
  /\ \A k \in DOMAIN KindOf : \A u \in DOMAIN KindOf[k].unions \ DOMAIN KindOf[k].deferred :
       \A t \in Targets(KindOf[k], u) \cap DOMAIN KindOf : k \notin Upstream(t)

\* A world gives every resource a Kind, a namespace, the driftMode of its endpoint and the
\* references its users may write; it names only resources it has, of a Kind the field takes.  No
\* Kind is found by a field it defers, or its object would wait for its natural key as well.
ASSUME ReferencesAssumption ==
  /\ MaxId \in Nat /\ MaxRefDepth \in Nat \ {0} /\ MaxRefVisits \in Nat
  /\ \A kind \in DOMAIN KindOf :
       \A f \in DOMAIN KindOf[kind].deferred, k \in Range(KindOf[kind].keys) : f \notin Range(k.match)
  /\ \A c \in Cases :
       /\ \A n \in DOMAIN c.world : c.world[n].kind \in DOMAIN KindOf
       /\ \A n \in DOMAIN c.world : LET names == c.world[n].names IN
            /\ \A f \in DOMAIN names :
                 /\ names[f] \in DOMAIN c.world
                 /\ c.world[names[f]].kind \in Targets(KindOf[c.world[n].kind], f)
            /\ c.begins[n] \subseteq DOMAIN names
       /\ c.edits \in Nat

VARIABLES
  world,    \* the Kind, namespace, driftMode and possible references of each resource
  refs,     \* the references each spec makes, by field
  st,       \* each resource: whether it is there, its id, and what its status says
  mood,     \* what NetBox and the endpoint make of a write of it
  granted,  \* namespaces whose resources the others may name
  queue,    \* resources about to be reconciled
  timer,    \* resources whose pass asked for a short retry
  edits     \* changes left

vars == <<world, refs, st, mood, granted, queue, timer, edits>>

Nodes == DOMAIN world

desc(n) == KindOf[world[n].kind]

Deferred(n) == DOMAIN desc(n).deferred

\* refState and readyStatus: all a watch compares of a target.
ReadyStatus(s) == CASE s.reason = "Unknown" -> "" [] s.reason = "Synced" -> "True" [] OTHER -> "False"

\* Mutant: a watch compares the id alone.
refStateId(s) == [id |-> s.id]

refState(s) == [id |-> s.id, ready |-> ReadyStatus(s)]

\* The reasons a target with an id is nevertheless not to be used for.
targetFailures == {"Conflict", "AdoptOnly", "Invalid"}

Unborn == [live |-> "absent", id |-> 0, reason |-> "Unknown", report |-> {}, carried |-> {}]

Present == {n \in Nodes : st[n].live = "present"}

\* permits: a name in another namespace needs that namespace's grant.
permits(from, t) == world[t].ns = world[from].ns \/ world[t].ns \in granted

-----------------------------------------------------------------------------
(* The walk for a cycle: breadth first along the references that block. *)

\* A deferred field blocks nothing, unless the object is found by it.
blocking(n, f) ==
  \/ f \in RefFields(desc(n)) \ Deferred(n)
  \/ /\ f \in Deferred(n) /\ desc(n).deferred[f] = "IfUnresolved"
     /\ \E k \in Range(desc(n).keys) : f \in Range(k.match)

\* The targets reached from a resource; one that is not there leads nowhere, and only what
\* the walk's first resource may name is followed.
blockingHops(start, n) ==
  {t \in {refs[n][f] : f \in {f \in DOMAIN refs[n] : blocking(n, f)}} :
     st[n].live # "absent" /\ permits(start, t)}

\* The resources first met at each depth.
Levels(n) ==
  LET level[d \in 1..MaxRefDepth] ==
        IF d = 1 THEN blockingHops(n, n)
        ELSE (UNION {blockingHops(n, m) : m \in level[d - 1] \ {n}})
               \ (UNION {level[e] : e \in 1..(d - 1)})
  IN  level

\* Mutant: the walk only gives up, it never meets its start.
checkDepth(n) ==
  IF \E m \in Levels(n)[MaxRefDepth] : m # n /\ blockingHops(n, m) # {} THEN "RefDepthExceeded"
  ELSE "AllResolved"

\* The walk meets its start, or first runs into a bound.  Where both happen at one depth the code
\* goes by the order of the references there; here the ring is told.
checkFrom(n) ==
  LET level == Levels(n)
      met == UNION {level[d] : d \in 1..MaxRefDepth}
      above(d) == UNION {level[e] : e \in 1..(d - 1)}
  IN  IF \E d \in 1..MaxRefDepth : n \in level[d] /\ Cardinality(above(d)) <= MaxRefVisits
      THEN "RefCycle"
      ELSE IF \/ n \in met \/ Cardinality(met) > MaxRefVisits
              \/ \E m \in level[MaxRefDepth] : blockingHops(n, m) # {}
      THEN "RefDepthExceeded"
      ELSE "AllResolved"

-----------------------------------------------------------------------------
(* What a pass would write to a resource's status now. *)

\* byName.
Resolve(n, f) ==
  LET t == refs[n][f]
  IN  IF t = n THEN "RefCycle"
      ELSE IF ~permits(n, t) THEN "RefDenied"
      ELSE IF st[t].live = "absent" THEN "RefNotFound"
      ELSE IF st[t].live = "deleting" \/ st[t].id = 0 THEN "RefNotReady"
      ELSE IF st[t].reason \in targetFailures THEN "RefTargetFailed"
      ELSE "AllResolved"

Missing(n) == {f \in DOMAIN refs[n] : Resolve(n, f) # "AllResolved"}

\* Mutant: a deferred field withholds the write like any other.
blockedAll(n) == Missing(n)

blockedRefs(n) == Missing(n) \ Deferred(n)

\* What a create leaves for a later PATCH.
strip(n) == {f \in Deferred(n) : desc(n).deferred[f] = "Always"}

\* The id of an object that is created now: above every id in use.
NewId == CHOOSE i \in 1..(MaxId + 1) : \A m \in Nodes : st[m].id < i

Waits(n, report) == [st[n] EXCEPT !.reason = "WaitingForRef", !.report = report]

\* A write NetBox accepts, and settle.
Written(n) ==
  LET created == st[n].id = 0
      resolved == DOMAIN refs[n] \ Missing(n)
      carried == IF created THEN resolved \ strip(n) ELSE resolved
  IN  [st[n] EXCEPT
         !.id = IF created THEN NewId ELSE @,
         !.carried = carried,
         !.report = {Resolve(n, f) : f \in Missing(n)},
         !.reason = IF Missing(n) # {} THEN "WaitingForRef"
                    ELSE IF carried # resolved THEN "DeferredFieldPending"
                    ELSE "Synced"]

Passed(n) ==
  LET walk == checkFrom(n) IN
  IF walk # "AllResolved" THEN Waits(n, {walk})
  ELSE IF blockedRefs(n) # {} THEN Waits(n, {Resolve(n, f) : f \in Missing(n)})
  ELSE CASE mood[n] = "refused" -> [st[n] EXCEPT !.reason = "Invalid", !.report = {}]
         [] mood[n] = "report"  -> [st[n] EXCEPT !.reason = "ReportPending", !.report = {}]
         [] mood[n] = "ok"      -> Written(n)

-----------------------------------------------------------------------------
Init ==
  \E c \in Cases :
    /\ world = c.world
    /\ refs = [n \in Nodes |-> Restrict(world[n].names, c.begins[n])]
    /\ st = [n \in Nodes |-> Unborn]
    /\ mood = [n \in Nodes |-> "ok"]
    /\ granted = c.granted /\ queue = {} /\ timer = {} /\ edits = c.edits

\* EnqueueReferrers: everyone whose spec names n, by any kind of reference.
Referrers(n) == {m \in Present : n \in Range(refs[m])}

\* TargetUsable: an update wakes the referrers when it changed what they can see.
Woken(n, s) ==
  IF s.live # st[n].live \/ refState(s) # refState(st[n]) THEN Referrers(n) ELSE {}

\* One pass of the engine.
Reconcile(n) ==
  /\ n \in queue \cap Present
  /\ \E s \in {Passed(n)} :
       /\ s.id <= MaxId
       /\ st' = [st EXCEPT ![n] = s]
       /\ queue' = (queue \ {n}) \cup (Woken(n, s) \ {n})
       /\ timer' = IF s.reason = "DeferredFieldPending" THEN timer \cup {n} ELSE timer \ {n}
  /\ UNCHANGED <<world, refs, mood, granted, edits>>

\* A resource that is not there, or is going, has no pass of this kind.
Forget(n) ==
  /\ n \in queue \ Present /\ queue' = queue \ {n}
  /\ UNCHANGED <<world, refs, st, mood, granted, timer, edits>>

\* deferredRequeue.
Retry(n) ==
  /\ n \in timer /\ timer' = timer \ {n} /\ queue' = queue \cup {n}
  /\ UNCHANGED <<world, refs, st, mood, granted, edits>>

\* What ready and pending end with, once no reference is missing; every other end of a pass
\* asks to be looked at again whatever the driftMode.
Settled(n) == st[n].reason \in {"Synced", "ReportPending"}


\* resync and driftResync: the next look at a resource that is neither queued nor about to be
\* retried.  Under driftMode Off what has settled gets none.
Resync(n) ==
  /\ n \in Present \ (queue \cup timer)
  /\ world[n].drift = "Off" => ~Settled(n)
  /\ queue' = queue \cup {n}
  /\ UNCHANGED <<world, refs, st, mood, granted, timer, edits>>

\* Any other reason for a pass: an event of the resource itself, a requeue left over from an
\* earlier pass, the list a restarted operator begins with.  None of them has to come.
Touch(n) ==
  /\ n \in Present \ queue /\ queue' = queue \cup {n}
  /\ UNCHANGED <<world, refs, st, mood, granted, timer, edits>>

-----------------------------------------------------------------------------
(* What users, NetBox and the cluster do. *)

\* A change to a resource's spec or metadata, which reconciles it.
Edit(n) ==
  /\ edits > 0 /\ edits' = edits - 1
  /\ queue' = queue \cup {n}

Apply(n) ==
  /\ st[n].live = "absent" /\ queue' = queue \cup {n} \cup Referrers(n)
  /\ st' = [st EXCEPT ![n] = [Unborn EXCEPT !.live = "present"]]
  /\ UNCHANGED <<world, refs, mood, granted, timer, edits>>

\* The spec takes references in or drops them.
Reref(n) ==
  /\ "Reref" \in Env /\ n \in Present /\ Edit(n)
  /\ \E F \in SUBSET DOMAIN world[n].names :
       F # DOMAIN refs[n] /\ refs' = [refs EXCEPT ![n] = Restrict(world[n].names, F)]
  /\ st' = [st EXCEPT ![n].carried = @ \cap DOMAIN refs'[n]]
  /\ UNCHANGED <<world, mood, granted, timer>>

\* NetBox refuses the spec, or the endpoint stops writing, or it goes back to normal.
Turn(n) ==
  /\ n \in Present /\ Edit(n)
  /\ \E m \in ({"ok", "refused", "report"} \cap Env) \cup {"ok"} :
       m # mood[n] /\ mood' = [mood EXCEPT ![n] = m]
  /\ UNCHANGED <<world, refs, st, granted, timer>>

\* kubectl delete: the deletion timestamp, then the object.
Delete(n) ==
  /\ "Delete" \in Env /\ n \in Present
  /\ edits > 0 /\ edits' = edits - 1
  /\ st' = [st EXCEPT ![n].live = "deleting"] /\ queue' = queue \cup Referrers(n)
  /\ UNCHANGED <<world, refs, mood, granted, timer>>

Gone(n) ==
  /\ st[n].live = "deleting" /\ st' = [st EXCEPT ![n] = Unborn]
  /\ queue' = queue \cup Referrers(n) /\ timer' = timer \ {n}
  /\ UNCHANGED <<world, refs, mood, granted, edits>>

\* A grant comes or goes; EnqueueGrantedReferrers wakes whoever names that namespace.
Grant ==
  /\ "Grant" \in Env /\ edits > 0 /\ edits' = edits - 1
  /\ \E ns \in {world[n].ns : n \in Nodes} :
       /\ granted' = IF ns \in granted THEN granted \ {ns} ELSE granted \cup {ns}
       /\ queue' = queue \cup {n \in Present : \E t \in Range(refs[n]) :
                                 world[t].ns = ns /\ world[n].ns # ns}
  /\ UNCHANGED <<world, refs, st, mood, timer>>

Step(n) == Reconcile(n) \/ Forget(n) \/ Retry(n)

Next ==
  \/ \E n \in Nodes : \/ Step(n) \/ Resync(n) \/ Touch(n)
                     \/ Apply(n) \/ Reref(n) \/ Turn(n) \/ Delete(n) \/ Gone(n)
  \/ Grant

Spec == Init /\ [][Next]_vars

\* The workqueue serves every resource in it, retries and resyncs fire, users apply what they
\* wrote, and a deletion finishes.  A resource that settled under driftMode Off is owed nothing.
FairSpec ==
  /\ Spec
  /\ \A n \in UNION {DOMAIN c.world : c \in Cases} :
       WF_vars(n \in Nodes /\ (Step(n) \/ Resync(n) \/ Apply(n) \/ Gone(n)))

-----------------------------------------------------------------------------
(* Properties. *)

Quiet == queue = {} /\ timer = {}

\* A target that has an id and is not Ready: its referrers see its reason but are woken only
\* by its id and its Ready status.
Behind(n) ==
  \E f \in DOMAIN refs[n] : st[refs[n][f]].id # 0 /\ ReadyStatus(st[refs[n][f]]) = "False"

\* Another pass would write NetBox or turn Ready over.
Stale(n) ==
  \E s \in {Passed(n)} : refState(s) # refState(st[n]) \/ s.carried # st[n].carried

\* The references ring or run too deep, now or at the last pass.  The walk reads resources
\* further along than the watch does, and an edit there need not change any id or Ready status.
Looped(n) ==
  checkFrom(n) # "AllResolved" \/ st[n].report \cap {"RefCycle", "RefDepthExceeded"} # {}

\* The create left out a field whose value is in hand while another reference is missing: the
\* missing one has the say in settle, and the pass asks for no short retry.
Withheld(n) ==
  /\ st[n].id # 0 /\ Missing(n) # {}
  /\ (strip(n) \cap DOMAIN refs[n]) \ (Missing(n) \cup st[n].carried) # {}

\* No wake-up is lost: once nothing is queued, no resource is left with something another
\* pass would write, wherever the changes around it happened (refwatch.go, predicates.go).
NoLostWakeup == Quiet => \A n \in Present : Stale(n) => Behind(n) \/ Looped(n) \/ Withheld(n)

\* A value in hand does not wait for the resync, as deferred.go says of deferredRetry.
InHandIsRetried == Quiet => \A n \in Present : ~Withheld(n)

\* The same as NoLostWakeup without the exceptions: a target's id and Ready status are everything a reference's
\* outcome depends on, as predicates.go says of refState.
StateIsAll == Quiet => \A n \in Present : ~Stale(n)

\* The resources that can be created: they are there, NetBox takes them, and whatever they
\* name in a field that is not deferred can be created too and may be named.  The least set
\* that holds every resource it enables.
Enabled(S) ==
  {n \in Present : /\ mood[n] = "ok"
                   /\ \A f \in DOMAIN refs[n] \ Deferred(n) :
                        refs[n][f] \in S /\ permits(n, refs[n][f])}

Creatable ==
  LET closed == {S \in SUBSET Nodes : Enabled(S) \subseteq S}
  IN  {n \in Nodes : \A S \in closed : n \in S}

\* A resource and all it depends on: the least set that holds it and what its members name.
Closure(n) ==
  LET closed == {S \in SUBSET Nodes : n \in S /\ \A m \in S : Range(refs[m]) \subseteq S}
  IN  {m \in Nodes : \A S \in closed : m \in S}

\* Deferral breaks every ring it can: once nothing is queued, everything that can be created
\* has an id, rings through a deferred field included (deferred.go, cycle.go blocking).
RingsAreBroken ==
  Quiet => \A n \in Creatable :
    st[n].id # 0 \/ \E m \in Closure(n) : Behind(m) \/ Looped(m)

\* Nobody waits on everybody: behind every resource that waits there is one whose status names
\* a cause a user can remove.
Roots == {"RefCycle", "RefDepthExceeded", "RefDenied", "RefNotFound", "RefTargetFailed"}

WaitIsExplained ==
  Quiet => \A n \in Present : st[n].reason = "WaitingForRef" =>
    \E m \in Closure(n) : \/ st[m].live # "present" \/ mood[m] # "ok"
                          \/ st[m].report \cap Roots # {}

\* What driftMode Off leaves to a user's next edit: the resource settled, and what has changed
\* since is a failed target's reason or something further along than the watch sees.
Unattended(n) == world[n].drift = "Off" /\ Settled(n) /\ (Behind(n) \/ Looped(n))

=============================================================================
