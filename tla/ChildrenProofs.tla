--------------------------- MODULE ChildrenProofs ---------------------------
(***************************************************************************)
(* Machine-checked facts about Children, for every list of entries, every  *)
(* way names are derived from them, and any number of edits, recreations   *)
(* of the parent, failures and crashes.                                    *)
(***************************************************************************)
EXTENDS Children, TLAPS

Verdicts ==
  {None, "Conflict", "PruneBlocked", "APIError", "PendingChildren", "DryRunPending", "AllReady"}

Troubles == {"conflict", "blocked", "failure", "pending"}

Parent ==
  [uid : Nat \ {0}, id : BOOLEAN, declared : SUBSET Entries,
   recorded : SUBSET Entries, verdict : Verdicts]

Child ==
  [state : {"absent", "live", "terminating"}, label : Nat, controller : Nat,
   path : Entries \cup {None}, spec : {None, "declared", "edited"}]

KindsOf(entries) == {KindAt[e] : e \in entries}

Pass ==
  [at : {"idle", "get", "apply", "delete", "write"}, of : Parent \cup {[uid |-> 0]},
   fresh : BOOLEAN, todo : SUBSET Entries, kinds : SUBSET KindsOf(Entries), stale : SUBSET Slots,
   children : SUBSET Entries, trouble : SUBSET Troubles, verdict : Verdicts,
   there : SUBSET Slots]

TypeOK ==
  /\ parent \in Parent /\ cache \in Parent /\ current \in BOOLEAN
  /\ crs \in [Slots -> Child] /\ pass \in Pass /\ removed \in SUBSET Entries

\* A child comes from an entry that is in list d or was taken out of the list.
Sprung(c, d, r) == \A s \in Slots : c[s].path # None => c[s].path \in d \cup r

\* What a pass q has established, with the resources c, the cached parent k and the entries r
\* that were taken out: it keeps its hands off what was there by hand, and what it is about to
\* delete is nobody else's and comes from no entry it has read.
Careful(q, c, k, r) ==
  /\ \A s \in q.there : c[s].state # "absent" /\ c[s].controller = 0
  /\ q.stale \cap q.there = {}
  /\ q.at = "apply" => q.todo # {} /\ Slot(CHOOSE e \in q.todo : TRUE) \notin q.there
  /\ q.todo # {} => q.stale = {}
  /\ q.at # "idle" =>
       /\ q.of \in Parent /\ q.todo \subseteq q.of.declared
       /\ q.of.declared \subseteq k.declared \cup r
       /\ Sprung(c, q.of.declared, r)
       /\ \A s \in q.stale : c[s].controller # 0 =>
            c[s].path # None /\ c[s].path \notin q.of.declared

CInv ==
  /\ TypeOK
  /\ cache.declared \subseteq parent.declared \cup removed
  /\ Sprung(crs, cache.declared, removed)
  /\ Careful(pass, crs, cache, removed)

-----------------------------------------------------------------------------
(* The kinds of step. *)

LEMMA IdleIs ==
  Idle \in Pass /\ Idle.at = "idle" /\ Idle.there = {} /\ Idle.stale = {} /\ Idle.todo = {}
  BY DEF Idle, Pass, Verdicts

LEMMA IdleCareful == ASSUME NEW c, NEW k, NEW r PROVE Careful(Idle, c, k, r)
  BY IdleIs DEF Careful

LEMMA AbsentIs == Absent \in Child /\ Absent.path = None /\ Absent.controller = 0
  BY DEF Absent, Child

\* A step of the pass that touches no resource.
LEMMA PassStep ==
  ASSUME CInv, NEW q \in Pass, pass' = q, UNCHANGED <<parent, cache, current, crs, removed>>,
         Careful(q, crs, cache, removed)
  PROVE  CInv'
  BY DEF CInv, TypeOK

\* One resource is replaced by child.
LEMMA ChildStep ==
  ASSUME CInv, NEW s \in Slots, NEW child \in Child, crs' = [crs EXCEPT ![s] = child],
         UNCHANGED <<parent, cache, current, removed>>, NEW q \in Pass, pass' = q,
         child.path # None => child.path \in cache.declared \cup removed,
         Careful(q, crs', cache, removed)
  PROVE  CInv'
<1>1. TypeOK'
  BY DEF CInv, TypeOK
<1>2. Sprung(crs', cache.declared, removed)
  BY DEF CInv, TypeOK, Sprung
<1> QED
  BY <1>1, <1>2 DEF CInv

\* The same, by somebody other than the pass, which keeps who controls it and what it is from,
\* or after which nobody does.
LEMMA OutsideStep ==
  ASSUME CInv, NEW s \in Slots, NEW child \in Child, crs' = [crs EXCEPT ![s] = child],
         UNCHANGED <<parent, cache, current, removed>>,
         NEW q \in Pass, pass' = q, q.at = pass.at, q.of = pass.of, q.todo = pass.todo,
         q.stale = pass.stale, q.there \subseteq pass.there,
         \/ child.path = crs[s].path /\ child.controller = crs[s].controller
         \/ child.path = None /\ child.controller = 0,
         s \in q.there => child.state # "absent" /\ child.controller = 0
  PROVE  CInv'
<1>1. crs \in [Slots -> Child] /\ crs'[s] = child /\ \A t \in Slots : t # s => crs'[t] = crs[t]
  BY DEF CInv, TypeOK
<1>2. \A t \in Slots : \/ crs'[t].path = crs[t].path /\ crs'[t].controller = crs[t].controller
                       \/ crs'[t].path = None /\ crs'[t].controller = 0
  BY <1>1
<1>3. Careful(pass, crs, cache, removed) /\ Sprung(crs, cache.declared, removed)
  BY DEF CInv
<1>4. \A t \in q.there : crs'[t].state # "absent" /\ crs'[t].controller = 0
  BY <1>1, <1>3 DEF Careful, Pass
<1>5. Careful(q, crs', cache, removed)
  BY <1>2, <1>3, <1>4 DEF Careful, Sprung, Pass
<1>6. child.path # None => child.path \in cache.declared \cup removed
  BY <1>3 DEF Sprung
<1> QED
  BY <1>5, <1>6, ChildStep

\* A write of the parent: whatever leaves its list is counted as removed.
LEMMA ParentStep ==
  ASSUME CInv, NEW p \in Parent, Changed(p), UNCHANGED crs,
         removed' \in SUBSET Entries, removed \subseteq removed',
         parent.declared \subseteq p.declared \cup removed'
  PROVE  CInv'
<1>1. pass \in Pass /\ pass' = [pass EXCEPT !.fresh = FALSE] /\ cache' = cache /\ parent' = p
      /\ current' = FALSE
  BY DEF CInv, TypeOK, Changed
<1>2. /\ pass' \in Pass /\ pass'.at = pass.at /\ pass'.of = pass.of /\ pass'.todo = pass.todo
      /\ pass'.stale = pass.stale /\ pass'.there = pass.there
  BY <1>1 DEF Pass
<1>3. Careful(pass', crs, cache, removed')
  BY <1>2 DEF CInv, Careful, Sprung
<1>4. TypeOK'
  BY <1>1, <1>2 DEF CInv, TypeOK
<1>5. cache.declared \subseteq p.declared \cup removed' /\ Sprung(crs, cache.declared, removed')
  BY DEF CInv, Sprung
<1> QED
  BY <1>1, <1>3, <1>4, <1>5 DEF CInv

\* The informer, or a new process, reads the parent.
LEMMA ReadStep ==
  ASSUME CInv, cache' = parent, current' \in BOOLEAN, UNCHANGED <<parent, crs, removed>>,
         pass' \in {pass, Idle}
  PROVE  CInv'
<1>1. /\ cache.declared \subseteq parent.declared \cup removed
      /\ Sprung(crs, cache.declared, removed) /\ Careful(pass, crs, cache, removed)
  BY DEF CInv
<1>2. Careful(pass, crs, parent, removed) /\ Careful(Idle, crs, parent, removed)
  BY <1>1, IdleCareful DEF Careful
<1>3. Sprung(crs, parent.declared, removed)
  BY <1>1 DEF Sprung
<1>4. TypeOK'
  BY IdleIs DEF CInv, TypeOK
<1> QED
  BY <1>2, <1>3, <1>4 DEF CInv

-----------------------------------------------------------------------------
(* The steps of a pass. *)

LEMMA InitCInv == Init => CInv
<1> SUFFICES ASSUME Init PROVE CInv
  OBVIOUS
<1> PICK c \in Starts : parent = NewParent(1, c.declared)
  BY DEF Init
<1>1. parent \in Parent
  BY ConstantsAssumption DEF NewParent, Parent, Verdicts
<1>2. crs \in [Slots -> Child] /\ \A s \in Slots : crs[s] = Absent
  BY AbsentIs DEF Init
<1>3. TypeOK
  BY <1>1, <1>2, IdleIs DEF Init, TypeOK
<1>4. Sprung(crs, cache.declared, removed)
  BY <1>2, AbsentIs DEF Sprung
<1>5. Careful(pass, crs, cache, removed)
  BY IdleCareful DEF Init
<1> QED
  BY <1>3, <1>4, <1>5 DEF CInv, Init

\* What the invariant says of a running pass.
LEMMA Running ==
  ASSUME CInv, pass.at # "idle"
  PROVE  /\ pass \in Pass /\ pass.of \in Parent /\ pass.of.uid # 0
         /\ pass.todo \subseteq pass.of.declared
         /\ pass.of.declared \subseteq cache.declared \cup removed
         /\ Sprung(crs, pass.of.declared, removed)
         /\ crs \in [Slots -> Child]
  BY DEF CInv, TypeOK, Careful, Parent

LEMMA BeginCInv == ASSUME CInv, Begin PROVE CInv'
<1> DEFINE p == [Idle EXCEPT !.of = cache, !.fresh = current, !.there = {s \in Slots : ByHand(s)}]
           Stop(v) == [p EXCEPT !.at = "write", !.children = cache.recorded, !.verdict = v]
           go == [p EXCEPT !.at = "get", !.todo = cache.declared, !.kinds = candidateKinds(cache)]
<1>1. cache \in Parent /\ current \in BOOLEAN
  BY DEF CInv, TypeOK
<1>2. p \in Pass /\ p.of = cache /\ p.stale = {} /\ p.todo = {}
      /\ p.there = {s \in Slots : ByHand(s)}
  BY <1>1, IdleIs DEF Pass, Idle
<1>3. candidateKinds(cache) \in SUBSET KindsOf(Entries)
  BY <1>1 DEF candidateKinds, KindsOf, Parent
<1>4. ASSUME NEW q \in Pass, q.of = cache, q.stale = {}, q.there = p.there,
             q.todo \in {{}, cache.declared}, q.at \in {"get", "write"}
      PROVE  Careful(q, crs, cache, removed)
  BY <1>1, <1>2, <1>4 DEF Careful, CInv, ByHand
<1>5. ASSUME NEW v \in {"PendingChildren", "DryRunPending", "Conflict"}, pass' = Stop(v) PROVE CInv'
  <2>1. Stop(v) \in Pass /\ Stop(v).of = cache /\ Stop(v).stale = {} /\ Stop(v).todo = {}
        /\ Stop(v).there = p.there /\ Stop(v).at = "write"
    BY <1>1, <1>2 DEF Pass, Parent, Verdicts
  <2> HIDE DEF p, Stop
  <2> QED
    BY <1>4, <1>5, <2>1, PassStep DEF Begin
<1>6. ASSUME pass' = go PROVE CInv'
  <2>1. go \in Pass /\ go.of = cache /\ go.stale = {} /\ go.todo = cache.declared
        /\ go.there = p.there /\ go.at = "get"
    BY <1>1, <1>2, <1>3 DEF Pass, Parent
  <2> HIDE DEF p, go
  <2> QED
    BY <1>4, <1>6, <2>1, PassStep DEF Begin
<1> QED
  BY <1>5, <1>6 DEF Begin

\* An entry is dealt with, or kept back, without touching a resource.
LEMMA EntryStep ==
  ASSUME CInv, pass.at \in {"get", "apply"}, pass.todo # {}, NEW q \in Pass, pass' = q,
         q.of = pass.of, q.stale = pass.stale, q.there = pass.there, q.at = "get",
         q.todo \subseteq pass.todo, UNCHANGED <<parent, cache, current, crs, removed>>
  PROVE  CInv'
<1>1. Careful(q, crs, cache, removed)
  BY DEF CInv, Careful
<1> QED
  BY <1>1, PassStep

LEMMA NextEntryIs ==
  ASSUME NEW p \in Pass
  PROVE  /\ NextEntry(p) \in Pass /\ NextEntry(p).of = p.of /\ NextEntry(p).stale = p.stale
         /\ NextEntry(p).there = p.there /\ NextEntry(p).at = "get"
         /\ NextEntry(p).todo = p.todo \ {Entry}
  BY DEF NextEntry, Pass

LEMMA TroubleIs ==
  ASSUME NEW p \in Pass, NEW t \in Troubles, NEW q, q = [p EXCEPT !.trouble = @ \cup {t}]
  PROVE  /\ q \in Pass /\ q.of = p.of /\ q.stale = p.stale /\ q.there = p.there
         /\ q.at = p.at /\ q.todo = p.todo
  BY DEF Pass

LEMMA OccupantCInv == ASSUME CInv, Occupant PROVE CInv'
<1> DEFINE s == Slot(Entry)
           Troubled(t) == [pass EXCEPT !.trouble = @ \cup {t}]
<1>0. pass \in Pass /\ pass.of.uid # 0 /\ pass.at = "get" /\ pass.todo # {} /\ Entry \in pass.todo
      /\ UNCHANGED <<parent, cache, current, crs, removed>>
  BY Running DEF Occupant, Entry
<1>1. ASSUME NEW t \in Troubles, pass' = NextEntry(Troubled(t)) PROVE CInv'
  <2>1. /\ Troubled(t) \in Pass /\ Troubled(t).of = pass.of /\ Troubled(t).stale = pass.stale
        /\ Troubled(t).there = pass.there /\ Troubled(t).todo = pass.todo
    BY <1>0, TroubleIs
  <2> HIDE DEF Troubled
  <2>2. /\ NextEntry(Troubled(t)) \in Pass /\ NextEntry(Troubled(t)).of = pass.of
        /\ NextEntry(Troubled(t)).stale = pass.stale
        /\ NextEntry(Troubled(t)).there = pass.there /\ NextEntry(Troubled(t)).at = "get"
        /\ NextEntry(Troubled(t)).todo \subseteq pass.todo
    BY <2>1, NextEntryIs
  <2> QED
    BY <1>0, <1>1, <2>2, EntryStep
<1>2. ASSUME crs[s].state = "absent" \/ ours(s, pass.of.uid), pass' = [pass EXCEPT !.at = "apply"]
      PROVE  CInv'
  <2> DEFINE q == [pass EXCEPT !.at = "apply"]
  <2>1. /\ q \in Pass /\ q.of = pass.of /\ q.stale = pass.stale /\ q.there = pass.there
        /\ q.at = "apply" /\ q.todo = pass.todo
    BY <1>0 DEF Pass
  <2>2. s \notin pass.there
    BY <1>0, <1>2 DEF CInv, Careful, ours
  <2> HIDE DEF q
  <2>3. Careful(q, crs, cache, removed)
    BY <1>0, <2>1, <2>2 DEF CInv, Careful, Entry
  <2> QED
    BY <1>0, <1>2, <2>1, <2>3, PassStep DEF q
<1> QED
  BY <1>1, <1>2 DEF Occupant, Troubles

LEMMA ApplyChildCInv == ASSUME CInv, ApplyChild PROVE CInv'
<1> DEFINE s == Slot(Entry)
           child == [crs[s] EXCEPT !.state = IF @ = "absent" THEN "live" ELSE @,
                                   !.label = pass.of.uid, !.controller = pass.of.uid,
                                   !.path = Entry, !.spec = "declared"]
           failing == [pass EXCEPT !.trouble = @ \cup {"failure"}]
           applied == [pass EXCEPT !.children = @ \cup {Entry}]
<1>0. /\ pass \in Pass /\ pass.of \in Parent /\ pass.of.uid \in Nat \ {0} /\ pass.at = "apply"
      /\ pass.todo # {} /\ Entry \in pass.todo /\ Entry \in Entries /\ s \in Slots
      /\ s \notin pass.there /\ crs[s] \in Child /\ crs \in [Slots -> Child]
      /\ pass.stale = {}
  <2>1. /\ pass \in Pass /\ pass.of \in Parent /\ pass.at = "apply"
        /\ crs \in [Slots -> Child]
    BY Running DEF ApplyChild
  <2>2. pass.todo # {} /\ s \notin pass.there /\ pass.stale = {}
    BY <2>1 DEF CInv, Careful, Entry
  <2>3. Entry \in pass.todo /\ Entry \in Entries /\ s \in Slots
    BY <2>1, <2>2 DEF Entry, Pass, Slots
  <2> QED
    BY <2>1, <2>2, <2>3 DEF Parent
<1>1. ASSUME pass' = NextEntry(failing), crs' = crs PROVE CInv'
  <2>1. /\ failing \in Pass /\ failing.of = pass.of /\ failing.stale = pass.stale
        /\ failing.there = pass.there /\ failing.todo = pass.todo
    BY <1>0, TroubleIs DEF Troubles
  <2> HIDE DEF failing
  <2>2. /\ NextEntry(failing) \in Pass /\ NextEntry(failing).of = pass.of
        /\ NextEntry(failing).stale = pass.stale
        /\ NextEntry(failing).there = pass.there /\ NextEntry(failing).at = "get"
        /\ NextEntry(failing).todo \subseteq pass.todo
    BY <2>1, NextEntryIs
  <2>3. UNCHANGED <<parent, cache, current, crs, removed>>
    BY <1>1 DEF ApplyChild
  <2> QED
    BY <1>0, <1>1, <2>2, <2>3, EntryStep
<1>2. ASSUME pass' = NextEntry(applied), crs' = [crs EXCEPT ![s] = child] PROVE CInv'
  <2>1. /\ applied \in Pass /\ applied.of = pass.of /\ applied.stale = pass.stale
        /\ applied.there = pass.there /\ applied.todo = pass.todo
    BY <1>0 DEF Pass
  <2>2. child \in Child /\ child.path = Entry
    BY <1>0 DEF Child
  <2> HIDE DEF applied, child
  <2>3. /\ NextEntry(applied) \in Pass /\ NextEntry(applied).of = pass.of
        /\ NextEntry(applied).stale = {} /\ NextEntry(applied).there = pass.there
        /\ NextEntry(applied).at = "get" /\ NextEntry(applied).todo \subseteq pass.todo
    BY <1>0, <2>1, NextEntryIs
  <2>4. /\ crs'[s] = child /\ \A t \in Slots : t # s => crs'[t] = crs[t]
    BY <1>0, <1>2
  <2>5. Entry \in pass.of.declared /\ pass.of.declared \subseteq cache.declared \cup removed
        /\ Sprung(crs, pass.of.declared, removed)
    BY <1>0, Running
  <2>6. Sprung(crs', pass.of.declared, removed)
    BY <2>2, <2>4, <2>5 DEF Sprung
  <2>7. \A t \in pass.there : crs'[t].state # "absent" /\ crs'[t].controller = 0
    BY <1>0, <2>4 DEF CInv, Careful, Pass
  <2>8. Careful(pass', crs', cache, removed)
    <3> HIDE DEF s
    <3> QED
      BY <1>0, <1>2, <2>3, <2>5, <2>6, <2>7 DEF Careful, CInv
  <2> QED
    BY <1>0, <1>2, <2>2, <2>3, <2>5, <2>8, ChildStep DEF ApplyChild
<1> QED
  BY <1>1, <1>2 DEF ApplyChild

LEMMA ListKindCInv == ASSUME CInv, ListKind PROVE CInv'
<1> DEFINE k == CHOOSE k \in pass.kinds : TRUE
           found == {s \in Slots : s[1] = k /\ prunable(s, pass.of)}
           listed == [pass EXCEPT !.kinds = @ \ {k}, !.stale = @ \cup found]
           failed == [pass EXCEPT !.kinds = @ \ {k}, !.trouble = @ \cup {"failure"}]
<1>0. /\ pass \in Pass /\ pass.of \in Parent /\ pass.of.uid # 0 /\ pass.at = "get"
      /\ pass.todo = {} /\ UNCHANGED <<parent, cache, current, crs, removed>>
  BY Running DEF ListKind
<1>1. ASSUME pass' = listed PROVE CInv'
  <2>1. found \subseteq Slots /\ \A s \in found : /\ crs[s].controller # 0 /\ crs[s].path # None
                                                  /\ crs[s].path \notin pass.of.declared
    BY <1>0 DEF prunable, ours
  <2> HIDE DEF k, found
  <2>2. /\ listed \in Pass /\ listed.of = pass.of /\ listed.stale = pass.stale \cup found
        /\ listed.there = pass.there /\ listed.at = "get" /\ listed.todo = {}
    BY <1>0, <2>1 DEF Pass
  <2> HIDE DEF listed
  <2>3. Careful(listed, crs, cache, removed)
    BY <1>0, <2>1, <2>2 DEF Careful, CInv
  <2> QED
    BY <1>0, <1>1, <2>2, <2>3, PassStep
<1>2. ASSUME pass' = failed PROVE CInv'
  <2> HIDE DEF k
  <2>2. /\ failed \in Pass /\ failed.of = pass.of /\ failed.stale = pass.stale
        /\ failed.there = pass.there /\ failed.at = "get" /\ failed.todo = {}
    BY <1>0 DEF Pass, Troubles
  <2> HIDE DEF failed
  <2>3. Careful(failed, crs, cache, removed)
    BY <1>0, <2>2 DEF Careful, CInv
  <2> QED
    BY <1>0, <1>2, <2>2, <2>3, PassStep
<1> QED
  BY <1>1, <1>2 DEF ListKind

LEMMA PruneCInv == ASSUME CInv, Prune PROVE CInv'
<1> DEFINE blocked == [pass EXCEPT !.at = "delete", !.stale = {}, !.trouble = @ \cup {"blocked"}]
           going == [pass EXCEPT !.at = "delete"]
<1>0. /\ pass \in Pass /\ pass.of \in Parent /\ pass.at = "get" /\ pass.todo = {}
      /\ UNCHANGED <<parent, cache, current, crs, removed>> /\ pass' \in {blocked, going}
  BY Running DEF Prune
<1>1. ASSUME NEW q \in {blocked, going}
      PROVE  /\ q \in Pass /\ q.of = pass.of /\ q.stale \subseteq pass.stale
             /\ q.there = pass.there /\ q.at = "delete" /\ q.todo = {}
  <2>1. CASE q = blocked
    BY <1>0, <2>1 DEF Pass, Troubles
  <2>2. CASE q = going
    BY <1>0, <2>2 DEF Pass
  <2> QED
    BY <1>1, <2>1, <2>2
<1> HIDE DEF blocked, going
<1>2. Careful(pass', crs, cache, removed)
  BY <1>0, <1>1 DEF Careful, CInv
<1> QED
  BY <1>0, <1>1, <1>2, PassStep

LEMMA DeleteChildCInv == ASSUME CInv, DeleteChild PROVE CInv'
<1> DEFINE s == CHOOSE s \in pass.stale : TRUE
           Then(t) == [pass EXCEPT !.stale = @ \ {s}, !.trouble = @ \cup {t}]
           child == [crs[s] EXCEPT !.state = IF @ = "live" THEN "terminating" ELSE @]
<1>0. /\ pass \in Pass /\ pass.of \in Parent /\ pass.at = "delete" /\ s \in pass.stale
      /\ s \in Slots /\ crs \in [Slots -> Child]
      /\ UNCHANGED <<parent, cache, current, removed>>
  BY Running DEF DeleteChild, Pass
<1>1. s \notin pass.there
  BY <1>0 DEF CInv, Careful
<1> HIDE DEF s
<1>2. ASSUME NEW t \in Troubles
      PROVE  /\ Then(t) \in Pass /\ Then(t).of = pass.of /\ Then(t).stale = pass.stale \ {s}
             /\ Then(t).there = pass.there /\ Then(t).at = pass.at /\ Then(t).todo = pass.todo
  BY <1>0 DEF Pass
<1>3. child \in Child /\ child.path = crs[s].path /\ child.controller = crs[s].controller
  BY <1>0 DEF Child
<1> HIDE DEF Then, child
<1>4. ASSUME NEW t \in Troubles, pass' = Then(t), crs' = crs PROVE CInv'
  <2>1. Careful(Then(t), crs, cache, removed)
    BY <1>0, <1>2 DEF Careful, CInv
  <2> QED
    BY <1>0, <1>2, <1>4, <2>1, PassStep
<1>5. ASSUME NEW t \in Troubles, pass' = Then(t), crs' = [crs EXCEPT ![s] = child] PROVE CInv'
  <2>1. crs'[s] = child /\ \A u \in Slots : u # s => crs'[u] = crs[u]
    BY <1>0, <1>5
  <2>2. Careful(pass, crs, cache, removed)
    BY DEF CInv
  <2>3. \A u \in pass.there : crs'[u].state # "absent" /\ crs'[u].controller = 0
    BY <1>0, <1>1, <2>1, <2>2 DEF Careful, Pass
  <2>4. \A u \in Slots : crs'[u].path = crs[u].path /\ crs'[u].controller = crs[u].controller
    BY <1>3, <2>1
  <2>5. Careful(Then(t), crs', cache, removed)
    BY <1>0, <1>2, <2>2, <2>3, <2>4 DEF Careful, Sprung, Pass
  <2>6. child.path # None => child.path \in cache.declared \cup removed
    BY <1>0, <1>3 DEF CInv, Sprung
  <2> QED
    BY <1>0, <1>2, <1>3, <1>5, <2>5, <2>6, ChildStep
<1> QED
  <2>1. crs' = crs \/ crs' = [crs EXCEPT ![s] = child]
    BY <1>0 DEF DeleteChild, s, child
  <2>2. pass' = Then("pending") \/ pass' = Then("failure")
    BY DEF DeleteChild, s, Then
  <2> QED
    BY <1>4, <1>5, <2>1, <2>2 DEF Troubles

LEMMA ReportCInv == ASSUME CInv, Report PROVE CInv'
<1> DEFINE q == [pass EXCEPT !.at = "write", !.verdict = verdict(pass.trouble)]
<1>0. /\ pass \in Pass /\ pass.of \in Parent /\ pass.at = "delete" /\ pass' = q
      /\ UNCHANGED <<parent, cache, current, crs, removed>>
  BY Running DEF Report
<1>1. verdict(pass.trouble) \in Verdicts
  <2> DEFINE t == pass.trouble
  <2>1. t \subseteq Troubles
    BY <1>0 DEF Pass
  <2> HIDE DEF t
  <2>2. \/ "conflict" \in t
        \/ "conflict" \notin t /\ "blocked" \in t
        \/ t \cap {"conflict", "blocked"} = {} /\ "failure" \in t
        \/ t = {"pending"}
        \/ t = {}
    BY <2>1 DEF Troubles
  <2>3. verdict(t) \in Verdicts
    BY <2>2 DEF verdict, Verdicts
  <2> QED
    BY <2>3 DEF t
<1>2. /\ q \in Pass /\ q.of = pass.of /\ q.stale = pass.stale /\ q.there = pass.there
      /\ q.at = "write" /\ q.todo = pass.todo
  BY <1>0, <1>1 DEF Pass
<1> HIDE DEF q
<1>3. Careful(q, crs, cache, removed)
  BY <1>0, <1>2 DEF Careful, CInv
<1> QED
  BY <1>0, <1>2, <1>3, PassStep

LEMMA WriteCInv == ASSUME CInv, Write PROVE CInv'
<1> DEFINE p == [parent EXCEPT !.recorded = pass.children, !.verdict = pass.verdict]
<1>0. pass' = Idle /\ UNCHANGED <<cache, crs, removed>> /\ pass \in Pass /\ parent \in Parent
  BY DEF Write, CInv, TypeOK
<1>1. p \in Parent /\ p.declared = parent.declared
  BY <1>0 DEF Parent, Pass
<1>2. parent' \in {parent, p} /\ current' \in BOOLEAN
  BY DEF Write, CInv, TypeOK
<1> HIDE DEF p
<1>3. parent' \in Parent /\ parent'.declared = parent.declared
  BY <1>0, <1>1, <1>2
<1>4. TypeOK'
  BY <1>0, <1>2, <1>3, IdleIs DEF CInv, TypeOK
<1> QED
  BY <1>0, <1>3, <1>4, IdleCareful DEF CInv

LEMMA CrashCInv == ASSUME CInv, Crash PROVE CInv'
  BY ReadStep DEF Crash

-----------------------------------------------------------------------------
(* The cluster and its users. *)

LEMMA ClusterCInv == ASSUME CInv, Cluster PROVE CInv'
<1>0. parent \in Parent /\ pass \in Pass /\ crs \in [Slots -> Child]
  BY DEF CInv, TypeOK
<1>1. CASE Sync
  BY <1>1, ReadStep DEF Sync
<1>2. CASE Identify
  <2> DEFINE p == [parent EXCEPT !.id = TRUE]
  <2>1. p \in Parent /\ p.declared = parent.declared
    BY <1>0 DEF Parent
  <2>2. Changed(p) /\ UNCHANGED <<crs, removed>> /\ removed \in SUBSET Entries
    BY <1>2 DEF Identify, CInv, TypeOK
  <2> HIDE DEF p
  <2> QED
    BY <2>1, <2>2, ParentStep
<1>3. CASE Collect
  <2> PICK s \in Slots : crs' = [crs EXCEPT ![s].state = "terminating"]
    BY <1>3 DEF Collect
  <2>1. PICK child : child = [crs[s] EXCEPT !.state = "terminating"]
    OBVIOUS
  <2>2. /\ child \in Child /\ child.path = crs[s].path /\ child.controller = crs[s].controller
        /\ child.state = "terminating"
    BY <1>0, <2>1 DEF Child
  <2>3. s \in pass.there => child.controller = 0
    BY <2>2 DEF CInv, Careful
  <2>4. crs' = [crs EXCEPT ![s] = child]
    BY <1>0, <2>1
  <2> QED
    BY <1>0, <1>3, <2>2, <2>3, <2>4, OutsideStep DEF Collect
<1>4. CASE Finalize
  <2> PICK s \in Slots : crs' = [crs EXCEPT ![s] = Absent] /\ pass' = [pass EXCEPT !.there = @ \ {s}]
    BY <1>4 DEF Finalize
  <2>1. PICK q : q = [pass EXCEPT !.there = @ \ {s}]
    OBVIOUS
  <2>2. /\ q \in Pass /\ q.at = pass.at /\ q.of = pass.of /\ q.todo = pass.todo
        /\ q.stale = pass.stale /\ q.there = pass.there \ {s}
    BY <1>0, <2>1 DEF Pass
  <2> QED
    BY <1>4, <2>1, <2>2, AbsentIs, OutsideStep DEF Finalize
<1> QED
  BY <1>1, <1>2, <1>3, <1>4 DEF Cluster

LEMMA UsersCInv == ASSUME CInv, Users PROVE CInv'
<1>0. parent \in Parent /\ pass \in Pass /\ crs \in [Slots -> Child] /\ removed \in SUBSET Entries
  BY DEF CInv, TypeOK
<1>1. CASE EditEntries
  <2> PICK e \in Entries :
        /\ Changed([parent EXCEPT !.declared = (@ \ {e}) \cup ({e} \ @)])
        /\ removed' = removed \cup ({e} \cap parent.declared)
    BY <1>1 DEF EditEntries
  <2>1. PICK p : p = [parent EXCEPT !.declared = (@ \ {e}) \cup ({e} \ @)]
    OBVIOUS
  <2>2. p \in Parent /\ p.declared = (parent.declared \ {e}) \cup ({e} \ parent.declared)
    BY <1>0, <2>1 DEF Parent
  <2>3. removed' \in SUBSET Entries /\ parent.declared \subseteq p.declared \cup removed'
    BY <1>0, <2>2
  <2> QED
    BY <1>1, <2>1, <2>2, <2>3, ParentStep DEF EditEntries
<1>2. CASE Suspend
  BY <1>0, <1>2, PassStep DEF Suspend, CInv
<1>3. CASE Reborn
  <2>1. PICK p : p = NewParent(parent.uid + 1, parent.declared)
    OBVIOUS
  <2>2. p \in Parent /\ p.declared = parent.declared
    BY <1>0, <2>1 DEF NewParent, Parent, Verdicts
  <2> QED
    BY <1>0, <1>3, <2>1, <2>2, ParentStep DEF Reborn
<1>4. CASE HandCreate
  <2> PICK s \in Slots, label \in {0, parent.uid} :
        /\ crs[s].state = "absent"
        /\ crs' = [crs EXCEPT ![s] = [Absent EXCEPT !.state = "live", !.label = label, !.spec = "edited"]]
    BY <1>4 DEF HandCreate
  <2>1. PICK child : child = [Absent EXCEPT !.state = "live", !.label = label, !.spec = "edited"]
    OBVIOUS
  <2>2. child \in Child /\ child.path = None /\ child.controller = 0 /\ child.state = "live"
    BY <1>0, <2>1, AbsentIs DEF Child, Absent, Parent
  <2> QED
    BY <1>0, <1>4, <2>1, <2>2, OutsideStep DEF HandCreate
<1>5. CASE HandEdit
  <2> PICK s \in Slots : crs[s].state = "live" /\ crs' = [crs EXCEPT ![s].spec = "edited"]
    BY <1>5 DEF HandEdit
  <2>1. PICK child : child = [crs[s] EXCEPT !.spec = "edited"]
    OBVIOUS
  <2>2. /\ child \in Child /\ child.path = crs[s].path /\ child.controller = crs[s].controller
        /\ child.state = "live"
    BY <1>0, <2>1 DEF Child
  <2>3. s \in pass.there => child.controller = 0
    BY <2>2 DEF CInv, Careful
  <2>4. crs' = [crs EXCEPT ![s] = child]
    BY <1>0, <2>1
  <2> QED
    BY <1>0, <1>5, <2>2, <2>3, <2>4, OutsideStep DEF HandEdit
<1>6. CASE HandDelete
  <2> PICK s \in Slots : crs[s].state = "live" /\ crs' = [crs EXCEPT ![s].state = "terminating"]
    BY <1>6 DEF HandDelete
  <2>1. PICK child : child = [crs[s] EXCEPT !.state = "terminating"]
    OBVIOUS
  <2>2. /\ child \in Child /\ child.path = crs[s].path /\ child.controller = crs[s].controller
        /\ child.state = "terminating"
    BY <1>0, <2>1 DEF Child
  <2>3. s \in pass.there => child.controller = 0
    BY <2>2 DEF CInv, Careful
  <2>4. crs' = [crs EXCEPT ![s] = child]
    BY <1>0, <2>1
  <2> QED
    BY <1>0, <1>6, <2>2, <2>3, <2>4, OutsideStep DEF HandDelete
<1> QED
  BY <1>1, <1>2, <1>3, <1>4, <1>5, <1>6 DEF Users

LEMMA NextCInv == ASSUME CInv, [Next]_vars PROVE CInv'
<1>1. CASE Step
  BY <1>1, BeginCInv, OccupantCInv, ApplyChildCInv, ListKindCInv, PruneCInv, DeleteChildCInv,
     ReportCInv, WriteCInv DEF Step
<1>2. CASE UNCHANGED vars
  BY <1>2 DEF vars, CInv, TypeOK
<1> QED
  BY <1>1, <1>2, CrashCInv, UsersCInv, ClusterCInv DEF Next

LEMMA AlwaysCInv == Spec => []CInv
  BY InitCInv, NextCInv, PTL DEF Spec

-----------------------------------------------------------------------------
(* What a pass does to the resources under the children's names. *)

\* Only an apply and a delete change a resource, and neither changes one that was there by hand.
LEMMA StepHandsOff ==
  ASSUME CInv, NEW s \in pass.there, Step PROVE crs'[s] = crs[s]
<1>0. pass \in Pass /\ crs \in [Slots -> Child] /\ Careful(pass, crs, cache, removed)
  BY DEF CInv, TypeOK
<1>1. CASE ApplyChild
  <2>1. s # Slot(Entry)
    BY <1>0, <1>1 DEF ApplyChild, Careful, Entry
  <2>2. crs' = crs \/ \E child : crs' = [crs EXCEPT ![Slot(Entry)] = child]
    BY <1>1 DEF ApplyChild
  <2> QED
    BY <1>0, <2>1, <2>2 DEF Pass
<1>2. CASE DeleteChild
  <2> DEFINE t == CHOOSE t \in pass.stale : TRUE
  <2>1. t \in pass.stale
    BY <1>2 DEF DeleteChild
  <2>2. crs' = crs \/ \E child : crs' = [crs EXCEPT ![t] = child]
    BY <1>2 DEF DeleteChild
  <2> HIDE DEF t
  <2>3. s # t
    BY <1>0, <2>1 DEF Careful
  <2> QED
    BY <1>0, <2>2, <2>3 DEF Pass
<1> QED
  BY <1>1, <1>2 DEF Step, Begin, Occupant, ListKind, Prune, Report, Write

\* What has been under a child's name since the pass began and is nobody's child is neither
\* applied over nor deleted, whoever creates, edits, deletes or relabels resources meanwhile
\* and whichever parent the pass works from (children.go occupant, prunable).
THEOREM HandWrittenIsKept == Spec => HandsOff
<1>1. CInv /\ [Next]_vars => [\A s \in pass.there : Step => crs'[s] = crs[s]]_vars
  BY StepHandsOff
<1> QED
  BY <1>1, AlwaysCInv, PTL DEF Spec, HandsOff

\* A delete of a child of ours is of one whose entry had been taken out of the list: the parent
\* a pass has read may be any number of edits old, but what it does not declare was declared
\* before and removed since, or is declared no longer (children.go stale, prunable).
THEOREM DeletedWereDropped == Spec => PrunedWereDropped
<1>1. ASSUME CInv, NEW s \in Slots, DeleteChild, crs'[s] # crs[s], ours(s, parent.uid)
      PROVE  crs[s].path \in removed
  <2> DEFINE t == CHOOSE t \in pass.stale : TRUE
  <2>0. pass.at # "idle" /\ pass.stale # {}
    BY <1>1 DEF DeleteChild
  <2>1. t \in pass.stale
    BY <2>0
  <2>2. crs' = crs \/ \E child : crs' = [crs EXCEPT ![t] = child]
    BY <1>1 DEF DeleteChild
  <2> HIDE DEF t
  <2>3. crs \in [Slots -> Child] /\ parent.uid # 0
    BY <1>1 DEF CInv, TypeOK, Parent
  <2>4. s = t
    BY <1>1, <2>2, <2>3
  <2>5. crs[s].controller # 0
    BY <1>1, <2>3 DEF ours
  <2>6. crs[s].path # None /\ crs[s].path \notin pass.of.declared
    BY <1>1, <2>0, <2>1, <2>4, <2>5 DEF CInv, Careful
  <2>7. Sprung(crs, pass.of.declared, removed)
    BY <1>1, <2>0, Running
  <2> QED
    BY <2>6, <2>7 DEF Sprung
<1>2. CInv /\ [Next]_vars =>
        [\A s \in Slots : DeleteChild /\ crs'[s] # crs[s] /\ ours(s, parent.uid)
                            => crs[s].path \in removed]_vars
  BY <1>1
<1> QED
  BY <1>2, AlwaysCInv, PTL DEF Spec, PrunedWereDropped
=============================================================================
