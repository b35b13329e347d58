-------------------------- MODULE ReferencesProofs --------------------------
(***************************************************************************)
(* Machine-checked facts about References, for every registry, every graph *)
(* of references and any number of edits, refusals, grants and deletions:  *)
(* no resource is left asleep that another pass would move, deferral       *)
(* breaks every ring it can, every wait ends at a cause, and the walk for  *)
(* a cycle is right.                                                       *)
(***************************************************************************)
EXTENDS References, FiniteSetTheorems, WellFoundedInduction, TLAPS

\* Every field the worlds may make a reference by.
Named == UNION {UNION {DOMAIN c.world[n].names : n \in DOMAIN c.world} : c \in Cases}

Walks == {"RefCycle", "RefDepthExceeded", "AllResolved"}

Outcomes == Walks \cup {"RefDenied", "RefNotFound", "RefNotReady", "RefTargetFailed"}

Status ==
  [live : {"absent", "present", "deleting"}, id : 0..MaxId,
   reason : {"Unknown", "WaitingForRef", "Invalid", "ReportPending", "DeferredFieldPending",
             "Synced"},
   report : SUBSET Outcomes, carried : SUBSET Named]

\* Every reference names a resource of a Kind its field takes.
KindsFit ==
  \A n \in Nodes :
    /\ world[n].kind \in DOMAIN KindOf
    /\ \A f \in DOMAIN refs[n] : world[refs[n][f]].kind \in Targets(desc(n), f)

\* So does every reference a user may write.
NamesFit ==
  \A n \in Nodes : \A f \in DOMAIN world[n].names :
    /\ f \in Named /\ world[n].names[f] \in Nodes
    /\ world[world[n].names[f]].kind \in Targets(desc(n), f)

TypeOK ==
  /\ st \in [Nodes -> Status]
  /\ mood \in [Nodes -> {"ok", "refused", "report"}]
  /\ DOMAIN refs = Nodes
  /\ \A n \in Nodes : \A f \in DOMAIN refs[n] : f \in Named /\ refs[n][f] \in Nodes
  /\ KindsFit /\ NamesFit
  /\ \A n \in Nodes : st[n].live = "absent" => st[n].id = 0

\* What the last pass left is what another one would leave, were the walk to find nothing.
Done(n) ==
  IF blockedRefs(n) = {} /\ mood[n] = "ok"
  THEN /\ st[n].id # 0 /\ st[n].carried = DOMAIN refs[n] \ Missing(n)
       /\ ReadyStatus(st[n]) = IF Missing(n) = {} THEN "True" ELSE "False"
  ELSE ReadyStatus(st[n]) = "False"

ReportsLoop(n) == st[n].report \cap {"RefCycle", "RefDepthExceeded"} # {}

AtRest(n) == Done(n) \/ Behind(n) \/ Withheld(n) \/ ReportsLoop(n)

WInv == TypeOK /\ \A n \in Present \ (queue \cup timer) : AtRest(n)

-----------------------------------------------------------------------------
(* What a pass writes. *)

LEMMA WalkIs == ASSUME NEW n PROVE checkFrom(n) \in Walks
  BY DEF checkFrom, Walks

LEMMA OutcomeIs ==
  ASSUME NEW n \in Nodes, TypeOK, NEW f \in DOMAIN refs[n]
  PROVE  Resolve(n, f) \in Outcomes
<1>1. refs[n][f] \in Nodes
  BY DEF TypeOK
<1>2. st[refs[n][f]] \in Status
  BY <1>1 DEF TypeOK
<1> QED
  BY <1>1, <1>2 DEF Resolve, Outcomes, Walks, Status

LEMMA MissingIs ==
  ASSUME NEW n \in Nodes, TypeOK
  PROVE  /\ Missing(n) \subseteq DOMAIN refs[n]
         /\ {Resolve(n, f) : f \in Missing(n)} \subseteq Outcomes
  BY OutcomeIs DEF Missing

\* There is an id above all those in use.
LEMMA NewIdIs ==
  ASSUME TypeOK
  PROVE  NewId \in 1..(MaxId + 1)
<1>1. MaxId + 1 \in 1..(MaxId + 1)
  BY ReferencesAssumption
<1>2. ASSUME NEW m \in Nodes PROVE st[m].id < MaxId + 1
  BY ReferencesAssumption DEF TypeOK, Status
<1> QED
  BY <1>1, <1>2 DEF NewId

\* The ways a pass ends, by what it leaves in the status.
LEMMA PassedIs ==
  ASSUME NEW n \in Nodes, TypeOK, Passed(n).id <= MaxId
  PROVE  /\ Passed(n) \in Status
         /\ Passed(n).live = st[n].live
         /\ \/ checkFrom(n) # "AllResolved" /\ Passed(n).report = {checkFrom(n)}
            \/ /\ checkFrom(n) = "AllResolved"
               /\ blockedRefs(n) # {} \/ mood[n] # "ok"
               /\ ReadyStatus(Passed(n)) = "False"
               /\ Passed(n).id = st[n].id /\ Passed(n).carried = st[n].carried
            \/ /\ checkFrom(n) = "AllResolved"
               /\ blockedRefs(n) = {} /\ mood[n] = "ok"
               /\ Passed(n) = Written(n)
<1>1. st[n] \in Status /\ mood[n] \in {"ok", "refused", "report"}
  BY DEF TypeOK
<1>2. CASE checkFrom(n) # "AllResolved"
  <2>1. Passed(n) = Waits(n, {checkFrom(n)})
    BY <1>2 DEF Passed
  <2>2. {checkFrom(n)} \in SUBSET Outcomes
    BY WalkIs DEF Outcomes
  <2> QED
    BY <1>1, <1>2, <2>1, <2>2 DEF Waits, Status
<1>3. CASE checkFrom(n) = "AllResolved" /\ blockedRefs(n) # {}
  <2>1. Passed(n) = Waits(n, {Resolve(n, f) : f \in Missing(n)})
    BY <1>3 DEF Passed
  <2> QED
    BY <1>1, <1>3, <2>1, MissingIs DEF Waits, Status, ReadyStatus
<1>4. CASE checkFrom(n) = "AllResolved" /\ blockedRefs(n) = {} /\ mood[n] # "ok"
  <2>1. \/ Passed(n) = [st[n] EXCEPT !.reason = "Invalid", !.report = {}]
        \/ Passed(n) = [st[n] EXCEPT !.reason = "ReportPending", !.report = {}]
    BY <1>1, <1>4 DEF Passed
  <2> QED
    BY <1>1, <1>4, <2>1 DEF Status, ReadyStatus
<1>5. CASE checkFrom(n) = "AllResolved" /\ blockedRefs(n) = {} /\ mood[n] = "ok"
  <2>1. Passed(n) = Written(n)
    BY <1>5 DEF Passed
  <2>2. DOMAIN refs[n] \subseteq Named
    BY DEF TypeOK
  <2>3. {Resolve(n, f) : f \in Missing(n)} \in SUBSET Outcomes
    BY MissingIs
  <2>4. Written(n).id \in 0..MaxId
    <3>1. Written(n).id = IF st[n].id = 0 THEN NewId ELSE st[n].id
      BY <1>1 DEF Written, Status
    <3> QED
      BY <1>1, <2>1, <3>1, NewIdIs, ReferencesAssumption DEF Status
  <2>5. /\ Written(n) \in Status /\ Written(n).live = st[n].live
    BY <1>1, <2>2, <2>3, <2>4 DEF Written, Status
  <2> QED
    BY <1>5, <2>1, <2>5
<1> QED
  BY <1>2, <1>3, <1>4, <1>5

LEMMA WrittenIs ==
  ASSUME NEW n \in Nodes, TypeOK
  PROVE  /\ Written(n).id # 0
         /\ Written(n).carried = IF st[n].id = 0 THEN (DOMAIN refs[n] \ Missing(n)) \ strip(n)
                                 ELSE DOMAIN refs[n] \ Missing(n)
         /\ Written(n).reason = IF Missing(n) # {} THEN "WaitingForRef"
                                ELSE IF Written(n).carried # DOMAIN refs[n] \ Missing(n)
                                THEN "DeferredFieldPending"
                                ELSE "Synced"
<1>1. st[n] \in Status
  BY DEF TypeOK
<1>2. Written(n).id = IF st[n].id = 0 THEN NewId ELSE st[n].id
  BY <1>1 DEF Written, Status
<1>3. Written(n).id # 0
  BY <1>1, <1>2, NewIdIs, ReferencesAssumption DEF Status
<1> QED
  BY <1>1, <1>3 DEF Written, Status

\* A resource at rest is not stale, but for the exceptions.
LEMMA RestIsCurrent ==
  ASSUME NEW n \in Nodes, TypeOK, AtRest(n), Stale(n)
  PROVE  Behind(n) \/ Looped(n) \/ Withheld(n)
<1> SUFFICES ASSUME Done(n), checkFrom(n) = "AllResolved" PROVE FALSE
  BY DEF AtRest, Looped, ReportsLoop
<1>1. st[n] \in Status /\ mood[n] \in {"ok", "refused", "report"}
  BY DEF TypeOK
<1>2. CASE blockedRefs(n) # {}
  <2>1. Passed(n) = Waits(n, {Resolve(n, f) : f \in Missing(n)})
    BY <1>2 DEF Passed
  <2> QED
    BY <1>1, <1>2, <2>1 DEF Done, Waits, Stale, refState, ReadyStatus, Status
<1>3. CASE blockedRefs(n) = {} /\ mood[n] # "ok"
  <2>1. \/ Passed(n) = [st[n] EXCEPT !.reason = "Invalid", !.report = {}]
        \/ Passed(n) = [st[n] EXCEPT !.reason = "ReportPending", !.report = {}]
    BY <1>1, <1>3 DEF Passed
  <2> QED
    BY <1>1, <1>3, <2>1 DEF Done, Stale, refState, ReadyStatus, Status
<1>4. CASE blockedRefs(n) = {} /\ mood[n] = "ok"
  <2>1. Passed(n) = Written(n)
    BY <1>4 DEF Passed
  <2>2. Written(n).id = st[n].id
    BY <1>1, <1>4 DEF Written, Done, Status
  <2>3. /\ Written(n).carried = st[n].carried
        /\ ReadyStatus(Written(n)) = ReadyStatus(st[n])
    BY <1>4, WrittenIs DEF Done, ReadyStatus
  <2> QED
    BY <2>1, <2>2, <2>3 DEF Stale, refState
<1> QED
  BY <1>2, <1>3, <1>4

-----------------------------------------------------------------------------
(* What keeps a resource at rest. *)

\* Nothing a watch compares of the targets of n has changed, and neither has n.
Unseen(n) ==
  /\ world' = world /\ refs'[n] = refs[n] /\ mood'[n] = mood[n] /\ st'[n] = st[n]
  /\ \A f \in DOMAIN refs[n] : refs[n][f] # n =>
       /\ permits(n, refs[n][f])' = permits(n, refs[n][f])
       /\ st'[refs[n][f]].live = st[refs[n][f]].live
       /\ refState(st'[refs[n][f]]) = refState(st[refs[n][f]])

LEMMA StaysAtRest ==
  ASSUME NEW n \in Nodes, TypeOK, TypeOK', Unseen(n), AtRest(n)
  PROVE  AtRest(n)'
<1>1. ASSUME NEW f \in DOMAIN refs[n]
      PROVE  /\ st'[refs[n][f]].id = st[refs[n][f]].id
             /\ ReadyStatus(st'[refs[n][f]]) = ReadyStatus(st[refs[n][f]])
  <2>1. refState(st'[refs[n][f]]) = refState(st[refs[n][f]])
    BY DEF Unseen
  <2> QED
    BY <2>1 DEF refState
<1>2. CASE Behind(n)
  BY <1>1, <1>2 DEF Behind, AtRest, Unseen
<1>3. CASE ~Behind(n)
  <2>1. ASSUME NEW f \in DOMAIN refs[n]
        PROVE  Resolve(n, f)' = "AllResolved" <=> Resolve(n, f) = "AllResolved"
    <3> DEFINE t == refs[n][f]
    <3>1. CASE t = n
      BY <3>1 DEF Resolve, Unseen
    <3>2. CASE t # n
      <4>1. /\ permits(n, t)' = permits(n, t) /\ st'[t].live = st[t].live
            /\ st'[t].id = st[t].id /\ ReadyStatus(st'[t]) = ReadyStatus(st[t])
            /\ refs'[n][f] = t
        BY <1>1, <3>2 DEF Unseen
      <4>2. st[t] \in Status /\ st'[t] \in Status
        <5>1. t \in Nodes /\ t \in Nodes'
          BY DEF TypeOK, Unseen, Nodes
        <5> QED
          BY <5>1 DEF TypeOK, Status
      <4>3. st[t].id # 0 => ReadyStatus(st[t]) # "False"
        BY <1>3 DEF Behind
      <4>4. st[t].id # 0 => /\ st[t].reason \notin targetFailures
                            /\ st'[t].reason \notin targetFailures
        BY <4>1, <4>2, <4>3 DEF ReadyStatus, targetFailures
      <4> QED
        BY <3>2, <4>1, <4>2, <4>4 DEF Resolve, Status
    <3> QED
      BY <3>1, <3>2
  <2>2. Missing(n)' = Missing(n)
    BY <2>1 DEF Missing, Unseen
  <2>3. blockedRefs(n)' = blockedRefs(n) /\ strip(n)' = strip(n)
    BY <2>2 DEF blockedRefs, strip, Deferred, desc, Unseen
  <2>4. Done(n)' = Done(n) /\ Withheld(n)' = Withheld(n) /\ ReportsLoop(n)' = ReportsLoop(n)
    BY <2>2, <2>3 DEF Done, Withheld, ReportsLoop, Unseen
  <2> QED
    BY <1>3, <2>4 DEF AtRest
<1> QED
  BY <1>2, <1>3

\* A pass that asks for no short retry leaves its resource at rest.
LEMMA PassLeavesRest ==
  ASSUME NEW n \in Nodes, TypeOK, TypeOK', Reconcile(n), n \notin timer'
  PROVE  AtRest(n)'
<1>1. /\ st' = [st EXCEPT ![n] = Passed(n)] /\ Passed(n).id <= MaxId
      /\ Passed(n).reason # "DeferredFieldPending"
      /\ world' = world /\ refs' = refs /\ mood' = mood /\ granted' = granted
  BY DEF Reconcile
<1>2. st'[n] = Passed(n) /\ \A m \in Nodes \ {n} : st'[m] = st[m]
  BY <1>1 DEF TypeOK
<1>3. ASSUME NEW f \in DOMAIN refs[n] PROVE Resolve(n, f)' = Resolve(n, f)
  <2>1. refs[n][f] \in Nodes /\ refs'[n][f] = refs[n][f]
    BY <1>1 DEF TypeOK
  <2>2. CASE refs[n][f] = n
    BY <2>1, <2>2 DEF Resolve
  <2>3. CASE refs[n][f] # n
    <3>1. permits(n, refs[n][f])' = permits(n, refs[n][f]) /\ st'[refs[n][f]] = st[refs[n][f]]
      BY <1>1, <1>2, <2>1, <2>3 DEF permits
    <3> QED
      BY <2>1, <2>3, <3>1 DEF Resolve
  <2> QED
    BY <2>2, <2>3
<1>4. Missing(n)' = Missing(n)
  BY <1>1, <1>3 DEF Missing
<1>5. blockedRefs(n)' = blockedRefs(n) /\ strip(n)' = strip(n)
  BY <1>1, <1>4 DEF blockedRefs, strip, Deferred, desc
<1>6. CASE checkFrom(n) # "AllResolved" /\ Passed(n).report = {checkFrom(n)}
  <2>1. checkFrom(n) \in {"RefCycle", "RefDepthExceeded"}
    BY <1>6, WalkIs DEF Walks
  <2> QED
    BY <1>2, <1>6, <2>1 DEF AtRest, ReportsLoop
<1>7. CASE /\ blockedRefs(n) # {} \/ mood[n] # "ok"
           /\ ReadyStatus(Passed(n)) = "False"
  BY <1>1, <1>2, <1>5, <1>7 DEF AtRest, Done
<1>8. CASE blockedRefs(n) = {} /\ mood[n] = "ok" /\ Passed(n) = Written(n)
  <2>1. CASE Written(n).carried = DOMAIN refs[n] \ Missing(n)
    BY <1>1, <1>2, <1>4, <1>5, <1>8, <2>1, WrittenIs DEF AtRest, Done, ReadyStatus
  <2>2. CASE Written(n).carried # DOMAIN refs[n] \ Missing(n)
    <3>1. /\ Missing(n) # {} /\ Written(n).id # 0
          /\ Written(n).carried = (DOMAIN refs[n] \ Missing(n)) \ strip(n)
      BY <1>1, <1>8, <2>2, WrittenIs
    <3>2. (strip(n) \cap DOMAIN refs[n]) \ (Missing(n) \cup Written(n).carried) # {}
      BY <2>2, <3>1
    <3> QED
      BY <1>1, <1>2, <1>4, <1>5, <1>8, <3>1, <3>2 DEF AtRest, Withheld
  <2> QED
    BY <2>1, <2>2
<1> QED
  BY <1>1, <1>6, <1>7, <1>8, PassedIs

-----------------------------------------------------------------------------
(* The kinds of step. *)

\* One resource's status becomes s, and whoever names it is woken unless s shows a watch
\* nothing new.
Changes(n, s) ==
  /\ s \in Status /\ (s.live = "absent" => s.id = 0)
  /\ st' = [st EXCEPT ![n] = s]
  /\ \/ s.live = st[n].live /\ refState(s) = refState(st[n])
     \/ Referrers(n) \ {n} \subseteq queue'
  /\ UNCHANGED <<world, refs, mood, granted>>

LEMMA ChangesType ==
  ASSUME NEW n \in Nodes, NEW s, TypeOK, Changes(n, s)
  PROVE  TypeOK'
  BY DEF TypeOK, KindsFit, NamesFit, desc, Changes, Nodes

\* Whoever nothing is about to look at, S apart, has not moved and has seen nothing move.
Watched(S) ==
  \A m \in Present' \ (queue' \cup timer' \cup S) :
    m \in Present \ (queue \cup timer) /\ Unseen(m)

\* A step that changes one status is seen by the others, or they are queued.
LEMMA ChangesWatched ==
  ASSUME NEW n \in Nodes, NEW s, TypeOK, Changes(n, s),
         queue \ {n} \subseteq queue', timer \ {n} \subseteq timer'
  PROVE  TypeOK' /\ Watched({n})
<1>1. TypeOK' /\ Nodes' = Nodes
  BY ChangesType DEF Changes, Nodes
<1> SUFFICES ASSUME NEW m \in Nodes \ {n}, m \in Present', m \notin queue' \cup timer'
             PROVE  m \in Present \ (queue \cup timer) /\ Unseen(m)
  BY <1>1 DEF Watched, Present
<1>2. st'[m] = st[m] /\ st'[n] = s
  BY DEF Changes, TypeOK
<1>3. m \in Present
  BY <1>2 DEF Present
<1>4. ASSUME NEW f \in DOMAIN refs[m], refs[m][f] # m
      PROVE  /\ permits(m, refs[m][f])' = permits(m, refs[m][f])
             /\ st'[refs[m][f]].live = st[refs[m][f]].live
             /\ refState(st'[refs[m][f]]) = refState(st[refs[m][f]])
  <2>1. permits(m, refs[m][f])' = permits(m, refs[m][f])
    BY DEF permits, Changes
  <2>2. refs[m][f] \in Nodes
    BY DEF TypeOK
  <2>3. CASE refs[m][f] = n
    <3>1. m \in Referrers(n)
      BY <1>3, <2>3 DEF Referrers, Range
    <3>2. s.live = st[n].live /\ refState(s) = refState(st[n])
      BY <3>1 DEF Changes
    <3> QED
      BY <1>2, <2>1, <2>3, <3>2
  <2>4. CASE refs[m][f] # n
    <3>1. st'[refs[m][f]] = st[refs[m][f]]
      BY <2>2, <2>4 DEF Changes, TypeOK
    <3> QED
      BY <2>1, <3>1
  <2> QED
    BY <2>3, <2>4
<1>5. Unseen(m)
  BY <1>2, <1>4 DEF Unseen, Changes
<1> QED
  BY <1>3, <1>5

-----------------------------------------------------------------------------
LEMMA UnbornIs == Unborn \in Status /\ Unborn.live = "absent" /\ Unborn.id = 0
  BY ReferencesAssumption DEF Unborn, Status

LEMMA InitWInv == Init => WInv
<1> SUFFICES ASSUME Init PROVE WInv
  OBVIOUS
<1>1. PICK c \in Cases :
        /\ world = c.world
        /\ refs = [n \in Nodes |-> Restrict(world[n].names, c.begins[n])]
        /\ st = [n \in Nodes |-> Unborn] /\ mood = [n \in Nodes |-> "ok"]
  BY DEF Init
<1>2. TypeOK
  <2>1. \A n \in Nodes : \A f \in DOMAIN world[n].names : f \in Named
    BY <1>1 DEF Nodes, Named
  <2>2. NamesFit
    BY <1>1, <2>1, ReferencesAssumption DEF NamesFit, Nodes, desc
  <2>3. /\ DOMAIN refs = Nodes
        /\ \A n \in Nodes : /\ DOMAIN refs[n] \subseteq DOMAIN world[n].names
                            /\ \A f \in DOMAIN refs[n] : refs[n][f] = world[n].names[f]
    BY <1>1, ReferencesAssumption DEF Nodes, Restrict
  <2>4. KindsFit
    <3>1. \A n \in Nodes : world[n].kind \in DOMAIN KindOf
      BY <1>1, ReferencesAssumption DEF Nodes
    <3> QED
      BY <2>2, <2>3, <3>1 DEF KindsFit, NamesFit
  <2> QED
    BY <1>1, <2>2, <2>3, <2>4, UnbornIs DEF TypeOK, NamesFit
<1>3. Present = {}
  BY <1>1, UnbornIs DEF Present
<1> QED
  BY <1>2, <1>3 DEF WInv

LEMMA ReconcileKeeps ==
  ASSUME NEW n \in Nodes, TypeOK, Reconcile(n)
  PROVE  TypeOK' /\ Watched({n})
<1> DEFINE s == Passed(n)
<1>1. /\ n \in Present /\ s.id <= MaxId
      /\ st' = [st EXCEPT ![n] = s]
      /\ queue' = (queue \ {n}) \cup (Woken(n, s) \ {n})
      /\ timer \ {n} \subseteq timer'
      /\ UNCHANGED <<world, refs, mood, granted>>
  BY DEF Reconcile
<1>2. s \in Status /\ s.live = "present"
  BY <1>1, PassedIs DEF Present
<1>3. \/ s.live = st[n].live /\ refState(s) = refState(st[n])
      \/ Referrers(n) \ {n} \subseteq queue'
  BY <1>1 DEF Woken
<1>4. Changes(n, s)
  BY <1>1, <1>2, <1>3 DEF Changes
<1> HIDE DEF s
<1> QED
  BY <1>1, <1>4, ChangesWatched

LEMMA QueueKeeps ==
  ASSUME NEW n \in Nodes, TypeOK, Forget(n) \/ Retry(n) \/ Resync(n) \/ Touch(n)
  PROVE  TypeOK' /\ Watched({})
<1>1. UNCHANGED <<world, refs, st, mood, granted>>
  BY DEF Forget, Retry, Resync, Touch
<1>2. TypeOK' /\ Present' = Present
  BY <1>1 DEF TypeOK, KindsFit, NamesFit, desc, Nodes, Present
<1>3. ASSUME NEW m \in Present, m \notin queue' \cup timer' PROVE m \notin queue \cup timer
  BY <1>3 DEF Forget, Retry, Resync, Touch
<1>4. \A m \in Present : Unseen(m)
  BY <1>1 DEF Unseen, permits
<1> QED
  BY <1>2, <1>3, <1>4 DEF Watched

LEMMA ApplyKeeps ==
  ASSUME NEW n \in Nodes, TypeOK, Apply(n)
  PROVE  TypeOK' /\ Watched({})
<1>1. PICK s : s = [Unborn EXCEPT !.live = "present"]
  OBVIOUS
<1>2. s \in Status /\ s.live = "present"
  BY <1>1, UnbornIs DEF Status
<1>3. Changes(n, s)
  BY <1>1, <1>2 DEF Apply, Changes
<1> QED
  BY <1>3, ChangesWatched DEF Apply, Watched

LEMMA DeleteKeeps ==
  ASSUME NEW n \in Nodes, TypeOK, Delete(n)
  PROVE  TypeOK' /\ Watched({})
<1>1. PICK s : s = [st[n] EXCEPT !.live = "deleting"]
  OBVIOUS
<1>2. st[n] \in Status
  BY DEF TypeOK
<1>3. s \in Status /\ s.live = "deleting"
  BY <1>1, <1>2 DEF Status
<1>4. st' = [st EXCEPT ![n] = s]
  BY <1>1 DEF Delete
<1>5. Changes(n, s)
  BY <1>3, <1>4 DEF Delete, Changes
<1>6. n \notin Present'
  BY <1>3, <1>4 DEF TypeOK, Present
<1> QED
  BY <1>5, <1>6, ChangesWatched DEF Delete, Watched

LEMMA GoneKeeps ==
  ASSUME NEW n \in Nodes, TypeOK, Gone(n)
  PROVE  TypeOK' /\ Watched({})
<1>1. Changes(n, Unborn)
  BY UnbornIs DEF Gone, Changes
<1>2. n \notin Present'
  BY UnbornIs DEF Gone, TypeOK, Present
<1> QED
  BY <1>1, <1>2, ChangesWatched DEF Gone, Watched

LEMMA RerefKeeps ==
  ASSUME NEW n \in Nodes, TypeOK, Reref(n)
  PROVE  TypeOK' /\ Watched({})
<1>1. PICK F \in SUBSET DOMAIN world[n].names :
        refs' = [refs EXCEPT ![n] = Restrict(world[n].names, F)]
  BY DEF Reref
<1>3. /\ UNCHANGED <<world, mood, granted, timer>> /\ queue' = queue \cup {n} /\ n \in Present
      /\ st' = [st EXCEPT ![n].carried = @ \cap DOMAIN refs'[n]]
  BY DEF Reref, Edit
<1>4. st[n] \in Status
  BY DEF TypeOK
<1>5. PICK s : s = [st[n] EXCEPT !.carried = @ \cap DOMAIN refs'[n]]
  OBVIOUS
<1>6. st' = [st EXCEPT ![n] = s]
  BY <1>3, <1>5
<1>7. s \in Status /\ s.live = st[n].live /\ s.id = st[n].id /\ s.reason = st[n].reason
  BY <1>4, <1>5 DEF Status
<1>8. /\ DOMAIN refs' = Nodes /\ \A m \in Nodes \ {n} : refs'[m] = refs[m]
      /\ DOMAIN refs'[n] = F /\ \A f \in F : refs'[n][f] = world[n].names[f]
  BY <1>1 DEF TypeOK, Restrict
<1>9. Nodes' = Nodes
  BY <1>3 DEF Nodes
<1>10. TypeOK'
  <2>1. st' \in [Nodes -> Status] /\ \A m \in Nodes : st'[m].live = "absent" => st'[m].id = 0
    BY <1>6, <1>7 DEF TypeOK
  <2>2. \A m \in Nodes : \A f \in DOMAIN refs'[m] : f \in Named /\ refs'[m][f] \in Nodes
    BY <1>8 DEF TypeOK, NamesFit
  <2>3. KindsFit' /\ NamesFit'
    BY <1>3, <1>8, <1>9 DEF TypeOK, KindsFit, NamesFit, desc
  <2> QED
    BY <1>3, <1>8, <1>9, <2>1, <2>2, <2>3 DEF TypeOK
<1>11. \A m \in Nodes : st'[m].live = st[m].live /\ refState(st'[m]) = refState(st[m])
  BY <1>6, <1>7 DEF TypeOK, refState, ReadyStatus
<1>12. ASSUME NEW m \in Nodes \ {n} PROVE Unseen(m)
  <2>1. st'[m] = st[m]
    BY <1>6 DEF TypeOK
  <2>2. ASSUME NEW f \in DOMAIN refs[m]
        PROVE  /\ permits(m, refs[m][f])' = permits(m, refs[m][f])
               /\ refs[m][f] \in Nodes
    BY <1>3, <1>8 DEF TypeOK, permits
  <2> QED
    BY <1>3, <1>8, <1>11, <2>1, <2>2 DEF Unseen
<1>13. ASSUME NEW m \in Present', m \notin queue' \cup timer'
       PROVE  m \in Present \ (queue \cup timer) /\ m \in Nodes \ {n}
  BY <1>3, <1>9, <1>11, <1>13 DEF Present
<1> QED
  BY <1>10, <1>12, <1>13 DEF Watched

LEMMA TurnKeeps ==
  ASSUME NEW n \in Nodes, TypeOK, Turn(n)
  PROVE  TypeOK' /\ Watched({})
<1>1. PICK m \in {"ok", "refused", "report"} : mood' = [mood EXCEPT ![n] = m]
  BY DEF Turn
<1>2. UNCHANGED <<world, refs, st, granted, timer>> /\ queue' = queue \cup {n}
  BY DEF Turn, Edit
<1>3. TypeOK' /\ Present' = Present
  BY <1>1, <1>2 DEF TypeOK, KindsFit, NamesFit, desc, Nodes, Present
<1>4. ASSUME NEW k \in Present \ {n} PROVE Unseen(k)
  BY <1>1, <1>2 DEF Unseen, permits, TypeOK, Present
<1> QED
  BY <1>2, <1>3, <1>4 DEF Watched

LEMMA GrantKeeps ==
  ASSUME TypeOK, Grant
  PROVE  TypeOK' /\ Watched({})
<1>1. PICK ns \in {world[n].ns : n \in Nodes} :
        /\ granted' = IF ns \in granted THEN granted \ {ns} ELSE granted \cup {ns}
        /\ queue' = queue \cup {n \in Present : \E t \in Range(refs[n]) :
                                  world[t].ns = ns /\ world[n].ns # ns}
  BY DEF Grant
<1>2. UNCHANGED <<world, refs, st, mood, timer>>
  BY DEF Grant
<1>3. TypeOK' /\ Present' = Present
  BY <1>2 DEF TypeOK, KindsFit, NamesFit, desc, Nodes, Present
<1>4. ASSUME NEW m \in Present, m \notin queue' PROVE Unseen(m)
  <2>1. ASSUME NEW f \in DOMAIN refs[m]
        PROVE  permits(m, refs[m][f])' = permits(m, refs[m][f])
    <3>1. refs[m][f] \in Range(refs[m])
      BY DEF Range
    <3>2. world[refs[m][f]].ns = ns => world[m].ns = ns
      BY <1>1, <1>4, <3>1
    <3> QED
      BY <1>1, <1>2, <3>2 DEF permits
  <2> QED
    BY <1>2, <2>1 DEF Unseen
<1> QED
  BY <1>1, <1>2, <1>3, <1>4 DEF Watched

\* Every step is a pass that the others watch, or one that everybody does.
LEMMA NextWatched ==
  ASSUME TypeOK, [Next]_vars
  PROVE  /\ TypeOK'
         /\ Watched({}) \/ \E n \in Nodes : Reconcile(n) /\ Watched({n})
<1>1. ASSUME NEW n \in Nodes,
             Step(n) \/ Resync(n) \/ Touch(n) \/ Apply(n) \/ Reref(n) \/ Turn(n) \/ Delete(n) \/ Gone(n)
      PROVE  TypeOK' /\ (Watched({}) \/ (Reconcile(n) /\ Watched({n})))
  BY <1>1, ReconcileKeeps, QueueKeeps, ApplyKeeps, RerefKeeps, TurnKeeps, DeleteKeeps, GoneKeeps
     DEF Step
<1>2. CASE UNCHANGED vars
  <2>1. TypeOK' /\ Present' = Present
    BY <1>2 DEF TypeOK, KindsFit, NamesFit, desc, Nodes, Present, vars
  <2>2. \A m \in Present : Unseen(m)
    BY <1>2 DEF Unseen, permits, vars
  <2> QED
    BY <1>2, <2>1, <2>2 DEF vars, Watched
<1> QED
  BY <1>1, <1>2, GrantKeeps DEF Next

LEMMA NextWInv == WInv /\ [Next]_vars => WInv'
<1> SUFFICES ASSUME WInv, [Next]_vars PROVE WInv'
  OBVIOUS
<1>1. TypeOK /\ TypeOK'
  BY NextWatched DEF WInv
<1>2. ASSUME NEW m \in Present', m \notin queue' \cup timer',
             m \in Present \ (queue \cup timer) /\ Unseen(m)
      PROVE  AtRest(m)'
  BY <1>1, <1>2, StaysAtRest DEF WInv, Present
<1>3. CASE Watched({})
  BY <1>1, <1>2, <1>3 DEF WInv, Watched
<1>4. ASSUME NEW n \in Nodes, Reconcile(n), Watched({n}) PROVE WInv'
  <2>1. n \notin timer' => AtRest(n)'
    BY <1>1, <1>4, PassLeavesRest
  <2> QED
    BY <1>1, <1>2, <1>4, <2>1 DEF WInv, Watched
<1> QED
  BY <1>1, <1>3, <1>4, NextWatched

LEMMA Resting == Spec => []WInv
  BY InitWInv, NextWInv, PTL DEF Spec

LEMMA RestIsAwake == WInv => NoLostWakeup
<1> SUFFICES ASSUME WInv, Quiet, NEW n \in Present, Stale(n)
             PROVE  Behind(n) \/ Looped(n) \/ Withheld(n)
  BY DEF NoLostWakeup
<1>1. n \in Nodes /\ AtRest(n)
  BY DEF WInv, Quiet, Present
<1> QED
  BY <1>1, RestIsCurrent DEF WInv

\* No wake-up is lost: whatever the graph of references and whatever happens around it, a
\* resource that nothing has queued is one another pass would leave alone, unless a target has
\* failed, the references ring, or a missing reference holds up another's value
\* (refwatch.go EnqueueReferrers, predicates.go TargetUsable, deferred.go settle).
THEOREM NobodyIsForgotten == Spec => []NoLostWakeup
  BY Resting, RestIsAwake, PTL

-----------------------------------------------------------------------------
(* Rings. *)

\* What a resource names depends on no more than the resource does.
LEMMA ClosureGrows ==
  ASSUME TypeOK, NEW n \in Nodes, NEW f \in DOMAIN refs[n]
  PROVE  Closure(refs[n][f]) \subseteq Closure(n) /\ n \in Closure(n)
<1>1. ASSUME NEW S \in SUBSET Nodes, n \in S, \A m \in S : Range(refs[m]) \subseteq S
      PROVE  refs[n][f] \in S
  BY <1>1 DEF Range
<1> QED
  BY <1>1 DEF Closure

LEMMA SelfInClosure == ASSUME NEW n \in Nodes PROVE n \in Closure(n)
  BY DEF Closure

\* The resources that are created, or that depend on one whose failure or ring is the reason.
Accounted ==
  {n \in Present : st[n].id # 0 \/ \E m \in Closure(n) : Behind(m) \/ Looped(m)}

\* A resource that can be created, once all it needs is, is created too.
LEMMA AccountedIsClosed ==
  ASSUME WInv, Quiet
  PROVE  Enabled(Accounted) \subseteq Accounted
<1> SUFFICES ASSUME NEW n \in Enabled(Accounted), n \notin Accounted
             PROVE  FALSE
  OBVIOUS
<1>1. /\ n \in Present /\ n \in Nodes /\ mood[n] = "ok"
      /\ \A f \in DOMAIN refs[n] \ Deferred(n) :
           refs[n][f] \in Accounted /\ permits(n, refs[n][f])
  BY DEF Enabled, Present
<1>2. TypeOK /\ st[n] \in Status
  BY <1>1 DEF WInv, TypeOK
<1>3. st[n].id = 0 /\ \A m \in Closure(n) : ~Behind(m) /\ ~Looped(m)
  BY <1>1 DEF Accounted
<1>4. ~Behind(n) /\ ~Looped(n) /\ ~Withheld(n)
  BY <1>1, <1>3, SelfInClosure DEF Withheld
<1>5. ASSUME NEW f \in DOMAIN refs[n] \ Deferred(n) PROVE Resolve(n, f) = "AllResolved"
  <2>1. refs[n][f] \in Accounted /\ permits(n, refs[n][f]) /\ refs[n][f] # n
    BY <1>1
  <2>2. st[refs[n][f]].id # 0
    BY <1>1, <1>2, <1>3, <2>1, ClosureGrows DEF Accounted
  <2>3. st[refs[n][f]].live = "present" /\ refs[n][f] \in Nodes
    BY <2>1 DEF Accounted, Present
  <2>4. st[refs[n][f]].reason \notin targetFailures
    BY <1>4, <2>2, <2>3 DEF Behind, ReadyStatus, targetFailures
  <2> QED
    BY <2>1, <2>2, <2>3, <2>4 DEF Resolve
<1>6. blockedRefs(n) = {}
  BY <1>5 DEF blockedRefs, Missing
<1>7. AtRest(n)
  BY <1>1 DEF WInv, Quiet
<1>8. Done(n)
  BY <1>4, <1>7 DEF AtRest, Looped, ReportsLoop
<1> QED
  BY <1>1, <1>3, <1>6, <1>8 DEF Done

\* Deferral breaks every ring it can: once nothing is queued, whatever can be created has an
\* id, unless something it depends on has failed or rings through fields that are not deferred
\* (deferred.go, refs.go blockedRefs).
THEOREM RingsBreak == Spec => []RingsAreBroken
<1>1. WInv => RingsAreBroken
  <2> SUFFICES ASSUME WInv, Quiet, NEW n \in Creatable
               PROVE  st[n].id # 0 \/ \E m \in Closure(n) : Behind(m) \/ Looped(m)
    BY DEF RingsAreBroken
  <2>1. Accounted \in SUBSET Nodes
    BY DEF Accounted, Present
  <2>2. n \in Accounted
    BY <2>1, AccountedIsClosed DEF Creatable
  <2> QED
    BY <2>2 DEF Accounted
<1> QED
  BY <1>1, Resting, PTL

-----------------------------------------------------------------------------
(* The walk for a cycle. *)

\* A set of natural numbers that is not empty has a least element.
LEMMA HasLeast ==
  ASSUME NEW S \in SUBSET Nat, S # {}
  PROVE  \E x \in S : \A y \in S : x <= y
<1> DEFINE Less == {ss \in Nat \X Nat : ss[1] < ss[2]}
<1>1. OpToRel(<, Nat) = Less
  BY DEF OpToRel
<1>2. PICK x \in S : \A y \in S : ~(<<y, x>> \in OpToRel(<, Nat))
  BY NatLessThanWellFounded, WFMin
<1>3. ASSUME NEW y \in S, y < x PROVE FALSE
  <2>1. <<y, x>> \in Less
    BY <1>3
  <2> QED
    BY <1>1, <1>2, <2>1
<1> QED
  BY <1>3

\* What level[d] is made of, given the levels g before it.
LevelOf(n, g, d) ==
  IF d = 1 THEN blockingHops(n, n)
  ELSE (UNION {blockingHops(n, m) : m \in g[d - 1] \ {n}}) \ (UNION {g[e] : e \in 1..(d - 1)})

\* Levels can be built up one by one, so the recursion defines them.
LEMMA LevelsExist ==
  ASSUME NEW n, NEW D \in Nat \ {0}
  PROVE  \E g : g = [d \in 1..D |-> LevelOf(n, g, d)]
<1> DEFINE Ok(g, k) == g = [d \in 1..k |-> LevelOf(n, g, d)]
           Bad == {k \in Nat \ {0} : \A g : ~Ok(g, k)}
<1> SUFFICES ASSUME Bad # {} PROVE FALSE
  OBVIOUS
<1>1. PICK k \in Bad : \A j \in Bad : k <= j
  BY HasLeast
<1>2. k # 1
  <2> DEFINE g == [d \in 1..1 |-> blockingHops(n, n)]
  <2>1. Ok(g, 1)
    BY DEF LevelOf
  <2> QED
    BY <1>1, <2>1
<1>3. k - 1 \in Nat \ {0} /\ k - 1 \notin Bad
  BY <1>1, <1>2
<1>4. PICK g : Ok(g, k - 1)
  BY <1>3
<1> DEFINE h == [d \in 1..k |-> IF d = k THEN LevelOf(n, g, k) ELSE g[d]]
<1>5. ASSUME NEW d \in 1..k PROVE h[d] = LevelOf(n, h, d)
  <2>1. \A e \in 1..(d - 1) : h[e] = g[e]
    BY <1>1, <1>5
  <2>2. d # 1 => h[d - 1] = g[d - 1]
    BY <1>1, <1>5
  <2>3. {h[e] : e \in 1..(d - 1)} = {g[e] : e \in 1..(d - 1)}
    BY <2>1
  <2> HIDE DEF h
  <2>4. LevelOf(n, h, d) = LevelOf(n, g, d)
    BY <2>2, <2>3 DEF LevelOf
  <2> USE DEF h
  <2>5. d # k => g[d] = LevelOf(n, g, d)
    <3> DEFINE gg == [e \in 1..(k - 1) |-> LevelOf(n, g, e)]
    <3>1. d # k => gg[d] = LevelOf(n, g, d)
      BY <1>1, <1>5
    <3> QED
      BY <1>4, <3>1, Zenon
  <2>6. h[d] = LevelOf(n, g, d)
    BY <1>1, <1>5, <2>5
  <2> QED
    BY <2>4, <2>6
<1>6. Ok(h, k)
  BY <1>5
<1> QED
  BY <1>1, <1>6

LEMMA LevelsAre ==
  ASSUME NEW n, NEW d \in 1..MaxRefDepth
  PROVE  Levels(n)[d] = LevelOf(n, Levels(n), d)
<1> DEFINE L == CHOOSE g : g = [k \in 1..MaxRefDepth |-> LevelOf(n, g, k)]
<1>1. Levels(n) = L
  BY DEF Levels, LevelOf
<1>2. L = [k \in 1..MaxRefDepth |-> LevelOf(n, L, k)]
  BY LevelsExist, ReferencesAssumption
<1> QED
  BY <1>1, <1>2

\* A walk that finds nothing has seen everything the references lead to from n, and not n
\* itself (cycle.go run).
LEMMA WalkSeesAll ==
  ASSUME NEW n, checkFrom(n) = "AllResolved"
  PROVE  \E S : /\ n \notin S /\ blockingHops(n, n) \subseteq S
                /\ \A m \in S : blockingHops(n, m) \subseteq S
<1> DEFINE level == Levels(n)
           met == UNION {level[d] : d \in 1..MaxRefDepth}
<1>1. /\ n \notin met
      /\ \A m \in level[MaxRefDepth] : blockingHops(n, m) = {}
  BY DEF checkFrom
<1>2. MaxRefDepth \in Nat /\ 1 \in 1..MaxRefDepth
  BY ReferencesAssumption
<1>3. blockingHops(n, n) \subseteq met
  <2>1. level[1] = blockingHops(n, n)
    BY <1>2, LevelsAre DEF LevelOf
  <2> HIDE DEF level
  <2> QED
    BY <1>2, <2>1
<1>4. ASSUME NEW m \in met PROVE blockingHops(n, m) \subseteq met
  <2>1. PICK d \in 1..MaxRefDepth : m \in level[d]
    OBVIOUS
  <2>2. CASE d = MaxRefDepth
    BY <1>1, <2>1, <2>2
  <2>3. CASE d # MaxRefDepth
    <3>1. d + 1 \in 1..MaxRefDepth /\ d + 1 # 1 /\ (d + 1) - 1 = d
      BY <1>2, <2>1, <2>3
    <3>2. level[d + 1] = LevelOf(n, level, d + 1)
      BY <3>1, LevelsAre
    <3>3. m \in level[d] \ {n}
      BY <1>1, <2>1
    <3> HIDE DEF level
    <3>4. level[d + 1] = (UNION {blockingHops(n, k) : k \in level[d] \ {n}})
                           \ (UNION {level[e] : e \in 1..d})
      BY <3>1, <3>2 DEF LevelOf
    <3>5. UNION {level[e] : e \in 1..d} \subseteq met
      BY <1>2, <2>1
    <3>6. ASSUME NEW t \in blockingHops(n, m), t \notin level[d + 1] PROVE t \in met
      <4>1. t \in UNION {blockingHops(n, k) : k \in level[d] \ {n}}
        BY <3>3
      <4>2. t \in UNION {level[e] : e \in 1..d}
        BY <3>4, <3>6, <4>1
      <4>3. PICK e \in 1..d : t \in level[e]
        BY <4>2
      <4> QED
        BY <3>5, <4>3
    <3> QED
      BY <3>1, <3>6
  <2> QED
    BY <2>2, <2>3
<1> HIDE DEF met
<1> QED
  BY <1>1, <1>3, <1>4

-----------------------------------------------------------------------------
(* Why a resource waits. *)

Rooted(n) == st[n].report \cap Roots # {}

\* A reference of n, by one of the fields F, to a resource that is not created yet or is going.
Held(n, F) == \E f \in F : Resolve(n, f) = "RefNotReady"

\* What waits names a cause, or a target not ready now; a resource that has no object and that
\* NetBox takes has such a target in a field that is not deferred.
Caused(n) ==
  /\ st[n].reason = "WaitingForRef" => Rooted(n) \/ Held(n, DOMAIN refs[n])
  /\ st[n].id = 0 /\ mood[n] = "ok" => Rooted(n) \/ Held(n, DOMAIN refs[n] \ Deferred(n))

\* Resources each of which waits for another of them, by a reference the walk follows.
Trap(U) == U # {} /\ U \subseteq Present /\ \A m \in U : U \cap blockingHops(m, m) # {}

\* One of them says so, or is about to be looked at.
RingsTold ==
  \A U \in SUBSET Nodes : Trap(U) => \E m \in U : m \in queue \cup timer \/ ReportsLoop(m)

CInv == TypeOK /\ RingsTold /\ \A n \in Present \ (queue \cup timer) : Caused(n)

LEMMA StaysCaused ==
  ASSUME NEW n \in Nodes, TypeOK, TypeOK', Unseen(n), Caused(n)
  PROVE  Caused(n)'
<1>1. ASSUME NEW f \in DOMAIN refs[n], Resolve(n, f) = "RefNotReady"
      PROVE  Resolve(n, f)' = "RefNotReady"
  <2> DEFINE t == refs[n][f]
  <2>1. t # n /\ permits(n, t) /\ st[t].live # "absent" /\ (st[t].live = "deleting" \/ st[t].id = 0)
    BY <1>1 DEF Resolve
  <2>2. /\ permits(n, t)' /\ st'[t].live = st[t].live /\ refs'[n][f] = t
        /\ refState(st'[t]) = refState(st[t])
    BY <2>1 DEF Unseen
  <2>3. st'[t].id = st[t].id
    BY <2>2 DEF refState
  <2> QED
    BY <2>1, <2>2, <2>3 DEF Resolve
<1>2. /\ st'[n] = st[n] /\ mood'[n] = mood[n] /\ DOMAIN refs'[n] = DOMAIN refs[n]
      /\ Deferred(n)' = Deferred(n)
  BY DEF Unseen, Deferred, desc
<1> QED
  BY <1>1, <1>2 DEF Caused, Rooted, Held

\* A pass that leaves its resource without an object, or waiting, says what for.
LEMMA PassLeavesCaused ==
  ASSUME NEW n \in Nodes, TypeOK, TypeOK', Reconcile(n)
  PROVE  Caused(n)'
<1>1. /\ st' = [st EXCEPT ![n] = Passed(n)] /\ Passed(n).id <= MaxId
      /\ world' = world /\ refs' = refs /\ mood' = mood /\ granted' = granted
  BY DEF Reconcile
<1>2. st'[n] = Passed(n) /\ \A m \in Nodes \ {n} : st'[m] = st[m]
  BY <1>1 DEF TypeOK
<1>3. st[n] \in Status /\ mood[n] \in {"ok", "refused", "report"}
  BY DEF TypeOK
<1>4. ASSUME NEW f \in DOMAIN refs[n] PROVE Resolve(n, f)' = Resolve(n, f)
  <2>1. refs[n][f] \in Nodes /\ refs'[n][f] = refs[n][f]
    BY <1>1 DEF TypeOK
  <2>2. permits(n, refs[n][f])' = permits(n, refs[n][f])
    BY <1>1 DEF permits
  <2> QED
    BY <1>2, <2>1, <2>2 DEF Resolve
<1>5. ASSUME NEW F \in SUBSET DOMAIN refs[n], F \cap Missing(n) # {},
             st'[n].report = {Resolve(n, f) : f \in Missing(n)}
      PROVE  Rooted(n)' \/ Held(n, F)'
  <2>1. PICK f \in F : f \in DOMAIN refs[n] /\ f \in Missing(n) /\ Resolve(n, f) # "AllResolved"
    BY <1>5 DEF Missing
  <2>2. Resolve(n, f) \in st'[n].report /\ Resolve(n, f)' = Resolve(n, f)
    BY <1>4, <1>5, <2>1
  <2>3. Resolve(n, f) \in Roots \/ Resolve(n, f) = "RefNotReady"
    BY <2>1, OutcomeIs DEF Outcomes, Walks, Roots
  <2> QED
    BY <2>1, <2>2, <2>3 DEF Rooted, Held
<1>6. DOMAIN refs'[n] = DOMAIN refs[n] /\ Deferred(n)' = Deferred(n) /\ mood'[n] = mood[n]
  BY <1>1 DEF Deferred, desc
<1>7. CASE checkFrom(n) # "AllResolved"
  <2>1. st'[n].report = {checkFrom(n)}
    BY <1>2, <1>3, <1>7 DEF Passed, Waits, Status
  <2>2. checkFrom(n) \in Roots
    BY <1>7, WalkIs DEF Walks, Roots
  <2> QED
    BY <2>1, <2>2 DEF Caused, Rooted
<1>8. CASE checkFrom(n) = "AllResolved" /\ blockedRefs(n) # {}
  <2>1. st'[n].report = {Resolve(n, f) : f \in Missing(n)}
    BY <1>2, <1>3, <1>8 DEF Passed, Waits, Status
  <2>2. (DOMAIN refs[n] \ Deferred(n)) \cap Missing(n) # {} /\ DOMAIN refs[n] \cap Missing(n) # {}
    BY <1>8 DEF blockedRefs, Missing
  <2>3. /\ Rooted(n)' \/ Held(n, DOMAIN refs[n] \ Deferred(n))'
        /\ Rooted(n)' \/ Held(n, DOMAIN refs[n])'
    BY <1>5, <1>6, <2>1, <2>2 DEF Held
  <2> QED
    BY <2>3 DEF Caused
<1>9. CASE checkFrom(n) = "AllResolved" /\ blockedRefs(n) = {} /\ mood[n] # "ok"
  <2>1. \/ Passed(n) = [st[n] EXCEPT !.reason = "Invalid", !.report = {}]
        \/ Passed(n) = [st[n] EXCEPT !.reason = "ReportPending", !.report = {}]
    BY <1>3, <1>9 DEF Passed
  <2>2. st'[n].reason # "WaitingForRef"
    BY <1>2, <1>3, <2>1 DEF Status
  <2> QED
    BY <1>6, <1>9, <2>2 DEF Caused
<1>10. CASE checkFrom(n) = "AllResolved" /\ blockedRefs(n) = {} /\ mood[n] = "ok"
  <2>1. st'[n] = Written(n)
    BY <1>2, <1>10 DEF Passed
  <2>2. st'[n].id # 0 /\ (st'[n].reason = "WaitingForRef" => Missing(n) # {})
    BY <2>1, WrittenIs
  <2>3. st'[n].report = {Resolve(n, f) : f \in Missing(n)}
    BY <1>3, <2>1 DEF Written, Status
  <2>4. Missing(n) # {} => DOMAIN refs[n] \cap Missing(n) # {}
    BY DEF Missing
  <2>5. Missing(n) # {} => Rooted(n)' \/ Held(n, DOMAIN refs[n])'
    BY <1>5, <1>6, <2>3, <2>4 DEF Held
  <2> QED
    BY <2>2, <2>5 DEF Caused
<1> QED
  BY <1>7, <1>8, <1>9, <1>10

\* What nobody has seen move leads where it led.
LEMMA UnseenHops ==
  ASSUME NEW m \in Nodes, TypeOK, Unseen(m)
  PROVE  blockingHops(m, m)' = blockingHops(m, m)
<1>1. /\ refs'[m] = refs[m] /\ st'[m] = st[m]
      /\ \A f : blocking(m, f)' = blocking(m, f)
  BY DEF Unseen, blocking, Deferred, desc
<1>2. ASSUME NEW f \in DOMAIN refs[m]
      PROVE  permits(m, refs[m][f])' = permits(m, refs[m][f])
  <2>1. CASE refs[m][f] = m
    BY <2>1 DEF permits, Unseen
  <2>2. CASE refs[m][f] # m
    BY <2>2 DEF Unseen
  <2> QED
    BY <2>1, <2>2
<1> QED
  BY <1>1, <1>2 DEF blockingHops

\* Whatever a step leaves as it was, and the pass of one of them, cannot hide a ring
\* (cycle.go checkFrom, follow).
LEMMA TrapsAreTold ==
  ASSUME CInv, TypeOK',
         Watched({}) \/ \E n \in Nodes : Reconcile(n) /\ Watched({n}),
         NEW U \in SUBSET Nodes, Trap(U)', \A m \in U : m \notin queue' \cup timer'
  PROVE  \E m \in U : ReportsLoop(m)'
<1> SUFFICES ASSUME \A m \in U : ~ReportsLoop(m)' PROVE FALSE
  OBVIOUS
<1>1. TypeOK /\ U # {} /\ U \subseteq Present' /\ \A m \in U : U \cap blockingHops(m, m)' # {}
  BY DEF CInv, Trap
<1>2. ASSUME NEW V \in SUBSET U, Trap(V), \A m \in V : m \in Present \ (queue \cup timer) /\ Unseen(m)
      PROVE  FALSE
  <2>1. PICK m \in V : m \in queue \cup timer \/ ReportsLoop(m)
    BY <1>2 DEF CInv, RingsTold
  <2>2. ReportsLoop(m) /\ st'[m] = st[m]
    BY <1>2, <2>1 DEF Unseen
  <2> QED
    BY <2>2 DEF ReportsLoop
<1>3. ASSUME \A m \in U : m \in Present \ (queue \cup timer) /\ Unseen(m) PROVE FALSE
  <2>1. \A m \in U : blockingHops(m, m)' = blockingHops(m, m)
    BY <1>1, <1>3, UnseenHops
  <2>2. Trap(U)
    BY <1>1, <1>3, <2>1 DEF Trap
  <2> QED
    BY <1>2, <1>3, <2>2
<1>4. CASE Watched({})
  BY <1>1, <1>3, <1>4 DEF Watched
<1>5. ASSUME NEW n \in Nodes, Reconcile(n), Watched({n}) PROVE FALSE
  <2>1. \A m \in U \ {n} : m \in Present \ (queue \cup timer) /\ Unseen(m)
    BY <1>1, <1>5 DEF Watched
  <2>2. CASE n \notin U
    BY <1>3, <2>1, <2>2
  <2>3. CASE n \in U
    <3>1. /\ st' = [st EXCEPT ![n] = Passed(n)] /\ n \in Present
          /\ world' = world /\ refs' = refs /\ granted' = granted
      BY <1>5 DEF Reconcile
    <3>2. checkFrom(n) = "AllResolved"
      <4> SUFFICES ASSUME checkFrom(n) # "AllResolved" PROVE FALSE
        OBVIOUS
      <4>1. st[n] \in Status /\ st'[n] = Passed(n)
        BY <1>1, <3>1 DEF TypeOK
      <4>2. st'[n].report = {checkFrom(n)}
        BY <4>1 DEF Passed, Waits, Status
      <4>3. checkFrom(n) \in {"RefCycle", "RefDepthExceeded"}
        BY WalkIs DEF Walks
      <4> QED
        BY <2>3, <4>2, <4>3 DEF ReportsLoop
    <3>3. PICK S : /\ n \notin S /\ blockingHops(n, n) \subseteq S
                   /\ \A m \in S : blockingHops(n, m) \subseteq S
      BY <3>2, WalkSeesAll
    <3>4. \A m \in U \ {n} : blockingHops(m, m)' = blockingHops(m, m)
      BY <1>1, <2>1, UnseenHops
    <3>5. blockingHops(n, n)' \subseteq blockingHops(n, n)
      <4>1. st[n].live = "present"
        BY <3>1 DEF Present
      <4>2. \A f : blocking(n, f)' = blocking(n, f)
        BY <3>1 DEF blocking, Deferred, desc
      <4>3. \A t : permits(n, t)' = permits(n, t)
        BY <3>1 DEF permits
      <4> QED
        BY <3>1, <4>1, <4>2, <4>3 DEF blockingHops
    <3> DEFINE V == {m \in U : m \in S /\ permits(n, m)}
    <3>6. V \subseteq U \ {n}
      BY <3>3
    <3>7. V # {}
      <4>1. PICK t \in U : t \in blockingHops(n, n)
        BY <1>1, <2>3, <3>5
      <4>2. permits(n, t)
        BY <4>1 DEF blockingHops
      <4> QED
        BY <3>3, <4>1, <4>2
    <3>8. ASSUME NEW m \in V PROVE V \cap blockingHops(m, m) # {}
      <4>1. PICK t \in U : t \in blockingHops(m, m)
        BY <1>1, <3>4, <3>6
      <4>2. permits(m, t) /\ permits(n, m)
        BY <4>1 DEF blockingHops
      <4>3. permits(n, t)
        BY <4>2 DEF permits
      <4>4. t \in blockingHops(n, m)
        BY <4>1, <4>3 DEF blockingHops
      <4>5. t \in V
        BY <3>3, <4>3, <4>4
      <4> QED
        BY <4>1, <4>5
    <3>9. Trap(V)
      BY <2>1, <3>6, <3>7, <3>8 DEF Trap
    <3> HIDE DEF V
    <3> QED
      BY <1>2, <2>1, <3>6, <3>9
  <2> QED
    BY <2>2, <2>3
<1> QED
  BY <1>4, <1>5

LEMMA InitCInv == Init => CInv
<1> SUFFICES ASSUME Init PROVE CInv
  OBVIOUS
<1>1. TypeOK
  BY InitWInv DEF WInv
<1>2. Present = {}
  BY UnbornIs DEF Init, Present
<1> QED
  BY <1>1, <1>2 DEF CInv, RingsTold, Trap

LEMMA NextCInv == CInv /\ [Next]_vars => CInv'
<1> SUFFICES ASSUME CInv, [Next]_vars PROVE CInv'
  OBVIOUS
<1>1. TypeOK /\ TypeOK'
  BY NextWatched DEF CInv
<1>2. Watched({}) \/ \E n \in Nodes : Reconcile(n) /\ Watched({n})
  BY <1>1, NextWatched
<1>3. world' = world /\ Nodes' = Nodes
  BY DEF Next, Step, Reconcile, Forget, Retry, Resync, Touch, Apply, Reref, Turn, Delete, Gone, Grant, vars, Nodes
<1>4. RingsTold'
  BY <1>1, <1>2, <1>3, TrapsAreTold DEF RingsTold
<1>5. ASSUME NEW m \in Present', m \notin queue' \cup timer',
             m \in Present \ (queue \cup timer) /\ Unseen(m)
      PROVE  Caused(m)'
  BY <1>1, <1>5, StaysCaused DEF CInv, Present
<1>6. CASE Watched({})
  BY <1>1, <1>4, <1>5, <1>6 DEF CInv, Watched
<1>7. ASSUME NEW n \in Nodes, Reconcile(n), Watched({n}) PROVE CInv'
  <2>1. Caused(n)'
    BY <1>1, <1>7, PassLeavesCaused
  <2> QED
    BY <1>1, <1>4, <1>5, <1>7, <2>1 DEF CInv, Watched
<1> QED
  BY <1>2, <1>6, <1>7

-----------------------------------------------------------------------------
(* Unions are on no ring of Kinds. *)

Height(k) == Cardinality(Upstream(k))

LEMMA UpstreamIs ==
  ASSUME NEW k \in DOMAIN KindOf
  PROVE  /\ Upstream(k) \subseteq DOMAIN KindOf /\ k \in Upstream(k)
         /\ Height(k) \in Nat
         /\ \A j \in Awaits(k) :
              /\ j \in DOMAIN KindOf /\ Upstream(j) \subseteq Upstream(k)
              /\ Height(j) <= Height(k)
              /\ k \notin Upstream(j) => Height(j) < Height(k)
<1>1. Upstream(k) \subseteq DOMAIN KindOf /\ k \in Upstream(k)
  BY DEF Upstream
<1>2. IsFiniteSet(Upstream(k)) /\ Height(k) \in Nat
  BY <1>1, UnionsCloseNoRing, FS_Subset, FS_CardinalityType DEF Height
<1>3. ASSUME NEW j \in Awaits(k)
      PROVE  j \in DOMAIN KindOf /\ Upstream(j) \subseteq Upstream(k)
  <2>1. j \in DOMAIN KindOf
    BY DEF Awaits
  <2>2. ASSUME NEW S \in SUBSET DOMAIN KindOf, k \in S, \A i \in S : Awaits(i) \subseteq S
        PROVE  Upstream(j) \subseteq S
    BY <2>2 DEF Upstream
  <2> QED
    BY <2>1, <2>2 DEF Upstream
<1>4. ASSUME NEW j \in Awaits(k)
      PROVE  Height(j) <= Height(k) /\ (k \notin Upstream(j) => Height(j) < Height(k))
  <2>1. Height(j) <= Height(k) /\ (Height(j) = Height(k) => Upstream(j) = Upstream(k))
    BY <1>2, <1>3, FS_Subset DEF Height
  <2>2. Height(j) \in Nat
    BY <1>2, <1>3, FS_Subset, FS_CardinalityType DEF Height
  <2> QED
    BY <1>1, <1>2, <2>1, <2>2
<1> QED
  BY <1>1, <1>2, <1>3, <1>4

\* A reference that withholds the write leads to a Kind no higher, and by a union to a lower one.
LEMMA RefsDescend ==
  ASSUME TypeOK, NEW m \in Nodes, NEW f \in DOMAIN refs[m] \ Deferred(m)
  PROVE  LET t == refs[m][f] IN
         /\ t \in Nodes /\ Height(world[m].kind) \in Nat /\ Height(world[t].kind) \in Nat
         /\ Height(world[t].kind) <= Height(world[m].kind)
         /\ ~blocking(m, f) => Height(world[t].kind) < Height(world[m].kind)
<1> DEFINE t == refs[m][f]
           k == world[m].kind
           j == world[t].kind
<1>1. t \in Nodes /\ k \in DOMAIN KindOf /\ j \in DOMAIN KindOf /\ j \in Targets(KindOf[k], f)
  BY DEF TypeOK, KindsFit, NamesFit, desc
<1>2. f \in RefFields(KindOf[k]) \/ f \in DOMAIN KindOf[k].unions
  BY <1>1 DEF Targets, RefFields
<1>3. f \notin DOMAIN KindOf[k].deferred
  BY DEF Deferred, desc
<1>4. j \in Awaits(k)
  BY <1>1, <1>2, <1>3 DEF Awaits
<1>5. f \in DOMAIN KindOf[k].unions => k \notin Upstream(j)
  BY <1>1, <1>3, UnionsCloseNoRing
<1>6. ~blocking(m, f) => f \notin RefFields(KindOf[k])
  BY DEF blocking, desc
<1> QED
  BY <1>1, <1>2, <1>4, <1>5, <1>6, UpstreamIs

\* Resources that each wait for another of them hold some that do so by followed references.
LEMMA TrapBelow ==
  ASSUME TypeOK, NEW U \in SUBSET Present, U # {},
         \A m \in U : \E f \in DOMAIN refs[m] \ Deferred(m) :
                        refs[m][f] \in U /\ permits(m, refs[m][f])
  PROVE  \E V \in SUBSET U : Trap(V)
<1> DEFINE h(m) == Height(world[m].kind)
           H == {h(m) : m \in U}
<1>1. U \subseteq Nodes /\ \A m \in U : st[m].live = "present"
  BY DEF Present
<1>2. ASSUME NEW m \in U PROVE h(m) \in Nat
  BY <1>1, UpstreamIs DEF TypeOK, KindsFit
<1>3. H \in SUBSET Nat /\ H # {}
  BY <1>2
<1>4. PICK x \in H : \A y \in H : x <= y
  BY <1>3, HasLeast
<1> DEFINE V == {m \in U : h(m) = x}
<1>5. V # {} /\ V \subseteq U
  BY <1>4
<1>6. ASSUME NEW m \in V PROVE V \cap blockingHops(m, m) # {}
  <2>1. PICK f \in DOMAIN refs[m] \ Deferred(m) : refs[m][f] \in U /\ permits(m, refs[m][f])
    OBVIOUS
  <2> DEFINE t == refs[m][f]
  <2>2. h(t) <= h(m) /\ (~blocking(m, f) => h(t) < h(m)) /\ h(t) \in Nat /\ h(m) \in Nat
    BY <1>1, <2>1, RefsDescend
  <2>3. x <= h(t) /\ h(m) = x
    BY <1>4, <2>1
  <2> HIDE DEF h
  <2>4. h(t) = x /\ blocking(m, f)
    BY <2>2, <2>3
  <2>5. t \in blockingHops(m, m)
    BY <1>1, <2>1, <2>4 DEF blockingHops
  <2> QED
    BY <2>1, <2>4, <2>5
<1> HIDE DEF V
<1> QED
  BY <1>5, <1>6 DEF Trap

\* What a member of a closure names is a member.
LEMMA ClosureIsClosed ==
  ASSUME TypeOK, NEW n \in Nodes, NEW m \in Closure(n), NEW f \in DOMAIN refs[m]
  PROVE  m \in Nodes /\ refs[m][f] \in Closure(n)
<1>1. m \in Nodes /\ refs[m][f] \in Nodes
  BY DEF Closure, TypeOK
<1>2. ASSUME NEW S \in SUBSET Nodes, n \in S, \A k \in S : Range(refs[k]) \subseteq S
      PROVE  refs[m][f] \in S
  <2>1. m \in S
    BY <1>2 DEF Closure
  <2> QED
    BY <1>2, <2>1 DEF Range
<1> QED
  BY <1>1, <1>2 DEF Closure

LEMMA CausedIsExplained == CInv => WaitIsExplained
<1> SUFFICES ASSUME CInv, Quiet, NEW n \in Present, st[n].reason = "WaitingForRef",
                    \A m \in Closure(n) : /\ st[m].live = "present" /\ mood[m] = "ok"
                                          /\ st[m].report \cap Roots = {}
             PROVE  FALSE
  BY DEF WaitIsExplained
<1>1. TypeOK /\ n \in Nodes /\ RingsTold
  BY DEF CInv, Present
<1>2. Closure(n) \subseteq Present
  BY DEF Closure, Present
<1>3. \A m \in Closure(n) : Caused(m) /\ ~Rooted(m)
  BY <1>2 DEF CInv, Quiet, Rooted
<1>4. ASSUME NEW m \in Closure(n), NEW f \in DOMAIN refs[m], Resolve(m, f) = "RefNotReady"
      PROVE  LET t == refs[m][f] IN t \in Closure(n) /\ permits(m, t) /\ st[t].id = 0
  <2>1. refs[m][f] \in Closure(n)
    BY <1>1, ClosureIsClosed
  <2>2. st[refs[m][f]].live = "present"
    BY <2>1
  <2> QED
    BY <1>4, <2>1, <2>2 DEF Resolve
<1> DEFINE U == {m \in Closure(n) : st[m].id = 0}
<1>5. U # {}
  <2>1. n \in Closure(n)
    BY <1>1, SelfInClosure
  <2>2. PICK f \in DOMAIN refs[n] : Resolve(n, f) = "RefNotReady"
    BY <1>3, <2>1 DEF Caused, Held
  <2> QED
    BY <1>4, <2>1, <2>2
<1>6. ASSUME NEW m \in U
      PROVE  \E f \in DOMAIN refs[m] \ Deferred(m) : refs[m][f] \in U /\ permits(m, refs[m][f])
  <2>1. PICK f \in DOMAIN refs[m] \ Deferred(m) : Resolve(m, f) = "RefNotReady"
    BY <1>3 DEF Caused, Held
  <2> QED
    BY <1>4, <2>1
<1>7. U \in SUBSET Present
  BY <1>2
<1> HIDE DEF U
<1>8. PICK V \in SUBSET U : Trap(V)
  BY <1>1, <1>5, <1>6, <1>7, TrapBelow
<1>9. PICK m \in V : m \in queue \cup timer \/ ReportsLoop(m)
  BY <1>1, <1>7, <1>8 DEF RingsTold, Present
<1>10. m \in Closure(n) /\ ReportsLoop(m)
  BY <1>8, <1>9 DEF U, Quiet
<1> QED
  BY <1>10 DEF ReportsLoop, Roots

\* Nobody waits on everybody: once nothing is queued, behind every resource that waits for a
\* reference is one that is not there, that NetBox or the endpoint does not take, or whose status
\* names a cause a user can remove (resolver/cycle.go checkFrom, refs.go blockedRefs).
THEOREM WaitsEndSomewhere == Spec => []WaitIsExplained
  BY InitCInv, NextCInv, CausedIsExplained, PTL DEF Spec

-----------------------------------------------------------------------------
(* The walk's verdict. *)

\* All that the references lead to from n, by fields that block and names n may use: the least set
\* that holds n's targets and the targets of its members.
Ahead(n) ==
  LET closed == {S \in SUBSET Nodes : /\ blockingHops(n, n) \subseteq S
                                      /\ \A m \in S : blockingHops(n, m) \subseteq S}
  IN  {m \in Nodes : \A S \in closed : m \in S}

VerdictIsRight ==
  \A n \in Nodes : /\ checkFrom(n) = "RefCycle" => n \in Ahead(n)
                   /\ checkFrom(n) = "AllResolved" => n \notin Ahead(n)

LEMMA HopsAreNodes ==
  ASSUME TypeOK, NEW n, NEW m \in Nodes
  PROVE  blockingHops(n, m) \subseteq Nodes
  BY DEF blockingHops, TypeOK

LEMMA WalkIsRight == TypeOK => VerdictIsRight
<1> SUFFICES ASSUME TypeOK, NEW n \in Nodes
             PROVE  /\ checkFrom(n) = "RefCycle" => n \in Ahead(n)
                    /\ checkFrom(n) = "AllResolved" => n \notin Ahead(n)
  BY DEF VerdictIsRight
<1>1. ASSUME checkFrom(n) = "AllResolved" PROVE n \notin Ahead(n)
  <2>1. PICK S : /\ n \notin S /\ blockingHops(n, n) \subseteq S
                 /\ \A m \in S : blockingHops(n, m) \subseteq S
    BY <1>1, WalkSeesAll
  <2> DEFINE R == S \cap Nodes
  <2>2. blockingHops(n, n) \subseteq R /\ \A m \in R : blockingHops(n, m) \subseteq R
    BY <2>1, HopsAreNodes
  <2>3. R \in SUBSET Nodes /\ n \notin R
    BY <2>1
  <2> HIDE DEF R
  <2> QED
    BY <2>2, <2>3 DEF Ahead
<1>2. ASSUME checkFrom(n) = "RefCycle" PROVE n \in Ahead(n)
  <2> DEFINE level == Levels(n)
  <2>1. PICK d \in 1..MaxRefDepth : n \in level[d]
    BY <1>2 DEF checkFrom
  <2>2. ASSUME NEW S \in SUBSET Nodes, blockingHops(n, n) \subseteq S,
               \A m \in S : blockingHops(n, m) \subseteq S
        PROVE  n \in S
    <3> DEFINE Bad == {e \in 1..MaxRefDepth : ~(level[e] \subseteq S)}
    <3>1. Bad = {}
      <4> SUFFICES ASSUME Bad # {} PROVE FALSE
        OBVIOUS
      <4>1. Bad \in SUBSET Nat
        BY ReferencesAssumption
      <4>2. PICK e \in Bad : \A j \in Bad : e <= j
        <5> HIDE DEF Bad
        <5> QED
          BY <4>1, HasLeast
      <4>3. e \in 1..MaxRefDepth /\ ~(level[e] \subseteq S) /\ MaxRefDepth \in Nat
        BY <4>2, ReferencesAssumption
      <4>4. level[e] = LevelOf(n, level, e)
        BY <4>3, LevelsAre
      <4>5. e # 1 => e - 1 \in 1..MaxRefDepth /\ level[e - 1] \subseteq S
        <5>1. e # 1 => e - 1 \in 1..MaxRefDepth /\ ~(e <= e - 1)
          BY <4>3
        <5> QED
          BY <4>2, <5>1
      <4> HIDE DEF level
      <4>6. e # 1 => level[e] \subseteq UNION {blockingHops(n, m) : m \in level[e - 1] \ {n}}
        BY <4>4 DEF LevelOf
      <4>7. e = 1 => level[e] = blockingHops(n, n)
        BY <4>4 DEF LevelOf
      <4> QED
        BY <2>2, <4>3, <4>5, <4>6, <4>7
    <3> QED
      BY <2>1, <3>1
  <2> QED
    BY <2>2 DEF Ahead
<1> QED
  BY <1>1, <1>2

\* The walk for a cycle is right in every graph, whatever its bounds: RefCycle is told only of a
\* resource the references really lead back to, and a resource that is let through is on no ring
\* (resolver/cycle.go Check, run, expand, follow).
THEOREM WalkTellsTheTruth == Spec => []VerdictIsRight
<1>1. CInv => TypeOK
  BY DEF CInv
<1> QED
  BY <1>1, InitCInv, NextCInv, WalkIsRight, PTL DEF Spec
=============================================================================
