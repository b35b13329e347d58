--------------------------- MODULE TeardownProofs ---------------------------
(***************************************************************************)
(* Machine-checked facts about Teardown, for any number of resources and   *)
(* every shape of references and containment between them, every order of  *)
(* deletions, retries, edits and informer delays.                          *)
(***************************************************************************)
EXTENDS Teardown, TLAPS

TypeOK ==
  /\ world \in Cases
  /\ api \in [CRs -> Resource] /\ cache \in [CRs -> Resource]
  /\ pass \in [CRs -> Pass \cup {Idle}]
  /\ nb \in [CRs -> Row]
  /\ victims \in SUBSET (CRs \X CRs)

\* What a copy o says was asked for is still asked for in a, and what is gone stays gone: the
\* annotations are only ever added, and a deletion is never taken back.
Behind(o, a) ==
  /\ o.cascade => a.cascade
  /\ o.deleting => a.deleting
  /\ o.loss => a.loss
  /\ a.there => o.there

\* What a pass p over c, now a, has established when it gets where it is.
Agreed(c, a, p) ==
  p.pc # "idle" =>
    /\ Behind(p.obj, a) /\ p.obj.deleting
    /\ p.pc # "release" /\ c \in world.lossy => p.obj.loss
    /\ p.pc \in {"referring", "cascade"} => p.obj.cascade
    /\ p.pc = "delete" => \A d \in Children(c) : ~api[d].there

TInv ==
  /\ TypeOK
  /\ \A c \in CRs : Behind(cache[c], api[c]) /\ Agreed(c, api[c], pass[c])
  /\ Consented

-----------------------------------------------------------------------------
(* The shape of records, and the kinds of step. *)

LEMMA BusyIsPass ==
  ASSUME NEW p \in Pass \cup {Idle}, p.pc # "idle"
  PROVE  p \in Pass
  BY DEF Idle

LEMMA StaleIs ==
  ASSUME TypeOK, NEW c \in CRs
  PROVE  /\ Stale(c) \in Pass \cup {Idle} /\ Stale(c).pc = pass[c].pc
         /\ pass[c].pc # "idle" => Stale(c).obj = pass[c].obj
<1>1. CASE pass[c].pc = "idle"
  BY <1>1 DEF Stale, TypeOK
<1>2. CASE pass[c].pc # "idle"
  <2>1. pass[c] \in Pass
    BY <1>2, BusyIsPass DEF TypeOK
  <2> QED
    BY <1>2, <2>1 DEF Stale, Pass
<1> QED
  BY <1>1, <1>2

\* A step that takes back nothing that was asked for, under which every pass stays where it is
\* or goes where it may be, destroys no data that is not given up, and deletes for a cascade
\* only on behalf of a resource that asked for it.
LEMMA StepKeeps ==
  ASSUME TInv, TypeOK', world' = world,
         \A c \in CRs : Behind(api[c], api'[c]),
         \A c \in CRs : cache'[c] \in {cache[c], api[c]},
         \A c \in CRs : pass'[c] \in {pass[c], Stale(c), Idle} \/ Agreed(c, api[c], pass'[c]),
         \A c \in world.lossy : nb[c].there /\ ~nb'[c].there => api[c].loss,
         \A v \in victims' : v \in victims \/ (api[v[1]].cascade /\ api[v[1]].deleting)
  PROVE  TInv'
<1>1. \A c \in CRs : api[c] \in Resource /\ api'[c] \in Resource
  BY DEF TInv, TypeOK
<1>2. \A c \in CRs : Behind(cache'[c], api'[c])
  BY <1>1 DEF TInv, Behind
<1>3. ASSUME NEW c \in CRs PROVE Agreed(c, api[c], pass[c])'
  <2>1. Agreed(c, api[c], pass'[c])
    <3>1. Agreed(c, api[c], pass[c])
      BY DEF TInv
    <3>2. Agreed(c, api[c], Stale(c))
      BY <3>1, StaleIs DEF TInv, Agreed
    <3>3. Agreed(c, api[c], Idle)
      BY DEF Agreed, Idle
    <3> QED
      BY <3>1, <3>2, <3>3
  <2>2. Children(c)' = Children(c) /\ Children(c) \subseteq CRs
    BY DEF Children
  <2>3. \A d \in CRs : ~api[d].there => ~api'[d].there
    BY DEF Behind
  <2> QED
    BY <1>1, <2>1, <2>2, <2>3 DEF Agreed, Behind
<1>4. Consented'
  <2>1. \A v \in victims' : api'[v[1]].cascade /\ api'[v[1]].deleting
    <3> SUFFICES ASSUME NEW v \in victims' PROVE api'[v[1]].cascade /\ api'[v[1]].deleting
      OBVIOUS
    <3>1. v[1] \in CRs
      BY DEF TypeOK
    <3>2. api[v[1]].cascade /\ api[v[1]].deleting
      BY DEF TInv, Consented
    <3> QED
      BY <3>1, <3>2 DEF Behind
  <2>2. \A c \in world.lossy : nb'[c].there \/ api'[c].loss
    <3>1. world.lossy \subseteq CRs
      BY ConstantsAssumption DEF TInv, TypeOK, Case
    <3> QED
      BY <3>1 DEF TInv, Consented, Behind
  <2> QED
    BY <2>1, <2>2 DEF Consented
<1> QED
  BY <1>2, <1>3, <1>4 DEF TInv

LEMMA BehindItself == ASSUME NEW o PROVE Behind(o, o)
  BY DEF Behind

\* A write to c by somebody else than its own pass.
LEMMA OutsideKeeps ==
  ASSUME TInv, NEW c \in CRs, NEW o \in Resource, WriteOutside(c, o), Behind(api[c], o),
         UNCHANGED <<world, cache, nb, victims>>
  PROVE  TInv'
<1>1. TypeOK'
  BY StaleIs DEF WriteOutside, TInv, TypeOK
<1>2. \A d \in CRs : Behind(api[d], api'[d])
  BY BehindItself DEF WriteOutside, TInv, TypeOK
<1>3. \A d \in CRs : pass'[d] \in {pass[d], Stale(d), Idle}
  BY DEF WriteOutside, TInv, TypeOK
<1> QED
  BY <1>1, <1>2, <1>3, StepKeeps

\* A step of c's pass that writes neither the API server nor NetBox.
LEMMA PassKeeps ==
  ASSUME TInv, NEW c \in CRs, NEW q \in Pass \cup {Idle}, Go(c, q),
         q = Idle \/ Agreed(c, api[c], q), UNCHANGED <<world, api, cache, nb, victims>>
  PROVE  TInv'
<1>1. TypeOK'
  BY DEF Go, TInv, TypeOK
<1>2. \A d \in CRs : pass'[d] \in {pass[d], Stale(d), Idle} \/ Agreed(d, api[d], pass'[d])
  BY DEF Go, TInv, TypeOK
<1> QED
  BY <1>1, <1>2, BehindItself, StepKeeps

-----------------------------------------------------------------------------
(* Kubernetes, users, humans in NetBox. *)

LEMMA UserDeleteKeeps == ASSUME TInv, NEW c \in CRs, UserDelete(c) PROVE TInv'
<1>1. api[c] \in Resource
  BY DEF TInv, TypeOK
<1>2. PICK f \in BOOLEAN : WriteOutside(c, [api[c] EXCEPT !.deleting = TRUE, !.foreground = f])
  BY ConstantsAssumption DEF UserDelete, TInv, TypeOK, Case
<1> DEFINE o == [api[c] EXCEPT !.deleting = TRUE, !.foreground = f]
<1>3. o \in Resource /\ Behind(api[c], o)
  BY <1>1 DEF Resource, Behind
<1> HIDE DEF o
<1> QED
  BY <1>2, <1>3, OutsideKeeps DEF UserDelete, o

LEMMA UserEditKeeps == ASSUME TInv, NEW c \in CRs, UserEdit(c) PROVE TInv'
<1>1. api[c] \in Resource
  BY DEF TInv, TypeOK
<1>2. PICK o : /\ WriteOutside(c, o)
               /\ \/ o = [api[c] EXCEPT !.cascade = TRUE]
                  \/ o = [api[c] EXCEPT !.loss = TRUE]
                  \/ o = [api[c] EXCEPT !.retain = TRUE]
                  \/ \E d \in api[c].refs : o = [api[c] EXCEPT !.refs = @ \ {d}]
  BY DEF UserEdit
<1>3. o \in Resource /\ Behind(api[c], o)
  <2>1. CASE \E d \in api[c].refs : o = [api[c] EXCEPT !.refs = @ \ {d}]
    <3>1. PICK d \in api[c].refs : o = [api[c] EXCEPT !.refs = @ \ {d}]
      BY <2>1
    <3>2. api[c].refs \ {d} \in SUBSET CRs
      BY <1>1 DEF Resource
    <3> QED
      BY <1>1, <3>1, <3>2 DEF Resource, Behind
  <2>2. CASE o = [api[c] EXCEPT !.cascade = TRUE]
    BY <1>1, <2>2 DEF Resource, Behind
  <2>3. CASE o = [api[c] EXCEPT !.loss = TRUE] \/ o = [api[c] EXCEPT !.retain = TRUE]
    BY <1>1, <2>3 DEF Resource, Behind
  <2> QED
    BY <1>2, <2>1, <2>2, <2>3
<1> QED
  BY <1>2, <1>3, OutsideKeeps DEF UserEdit

LEMMA WorldKeeps == ASSUME TInv, NEW c \in CRs, World(c) PROVE TInv'
<1>1. api[c] \in Resource
  BY DEF TInv, TypeOK
<1>2. CASE Collect(c)
  <2> DEFINE o == [api[c] EXCEPT !.deleting = TRUE]
  <2>1. o \in Resource /\ Behind(api[c], o)
    BY <1>1 DEF Resource, Behind
  <2>2. WriteOutside(c, o) /\ UNCHANGED <<world, cache, nb, victims>>
    BY <1>2 DEF Collect
  <2> HIDE DEF o
  <2> QED
    BY <2>1, <2>2, OutsideKeeps
<1>3. CASE Vanish(c)
  <2> DEFINE o == [api[c] EXCEPT !.there = FALSE]
  <2>1. o \in Resource /\ Behind(api[c], o)
    BY <1>1 DEF Resource, Behind
  <2>2. WriteOutside(c, o) /\ UNCHANGED <<world, cache, nb, victims>>
    BY <1>3 DEF Vanish
  <2> HIDE DEF o
  <2> QED
    BY <2>1, <2>2, OutsideKeeps
<1>4. CASE CacheSync(c)
  <2>1. TypeOK' /\ \A d \in CRs : cache'[d] \in {cache[d], api[d]}
    BY <1>1, <1>4 DEF CacheSync, TInv, TypeOK
  <2> QED
    BY <1>4, <2>1, BehindItself, StepKeeps DEF CacheSync
<1>5. CASE ClockRuns(c) \/ HumanClears(c)
  <2>1. TypeOK'
    BY <1>5 DEF ClockRuns, HumanClears, TInv, TypeOK
  <2> QED
    BY <1>5, <2>1, BehindItself, StepKeeps DEF ClockRuns, HumanClears
<1> QED
  BY <1>2, <1>3, <1>4, <1>5 DEF World

LEMMA ApplyKeeps == ASSUME TInv, NEW c \in CRs, Apply(c) PROVE TInv'
<1> DEFINE r == [nb[c] EXCEPT !.refs = cache[c].refs]
<1>1. /\ r \in Row /\ r.there = nb[c].there /\ nb' = [nb EXCEPT ![c] = r] /\ nb \in [CRs -> Row]
  BY DEF Apply, TInv, TypeOK, Row, Resource
<1> HIDE DEF r
<1>2. TypeOK' /\ \A d \in CRs : nb'[d].there = nb[d].there
  BY <1>1 DEF Apply, TInv, TypeOK
<1>3. world.lossy \subseteq CRs
  BY ConstantsAssumption DEF TInv, TypeOK, Case
<1> QED
  BY <1>2, <1>3, BehindItself, StepKeeps DEF Apply

-----------------------------------------------------------------------------
(* The deletion pass. *)

LEMMA DeletingKeeps == ASSUME TInv, NEW c \in CRs, Deleting(c) PROVE TInv'
<1> DEFINE o == cache[c]
           pc == IF ReleasesAtOnce(o) THEN "release" ELSE "dependents"
           l == (o = api[c])
           q == [pc |-> pc, obj |-> o, latest |-> l, todo |-> {}]
<1>1. o \in Resource /\ Behind(o, api[c]) /\ o.deleting
  BY DEF Deleting, TInv, TypeOK
<1>2. pc = "release" \/ (pc = "dependents" /\ (c \in world.lossy => o.loss))
  BY <1>1 DEF Deleting, ReleasesAtOnce, DataLossBlocked, Resource
<1>3. l \in BOOLEAN /\ Go(c, q) /\ UNCHANGED <<world, api, cache, nb, victims>>
  BY DEF Deleting
<1> HIDE DEF o, pc, l
<1>4. q \in Pass /\ q.pc = pc /\ q.obj = o
  BY <1>1, <1>2, <1>3 DEF Pass
<1> HIDE DEF q
<1>5. Agreed(c, api[c], q)
  BY <1>1, <1>2, <1>4 DEF Agreed
<1> QED
  BY <1>3, <1>4, <1>5, PassKeeps

LEMMA DependentsKeep == ASSUME TInv, NEW c \in CRs, Dependents(c) PROVE TInv'
<1> DEFINE p == pass[c]
           q == To(p, "delete")
<1>1. p.pc = "dependents" /\ UNCHANGED <<world, api, cache, nb, victims>>
  BY DEF Dependents, At
<1>2. p \in Pass /\ Agreed(c, api[c], p)
  BY <1>1, BusyIsPass DEF TInv, TypeOK
<1>3. q \in Pass /\ q.pc = "delete" /\ q.obj = p.obj
  BY <1>2 DEF To, Pass
<1>4. CASE Go(c, Idle)
  BY <1>1, <1>4, PassKeeps
<1>5. CASE Go(c, q) /\ ~(\E d \in Children(c) : api[d].there)
  <2> HIDE DEF q
  <2>1. Agreed(c, api[c], q)
    BY <1>1, <1>2, <1>3, <1>5 DEF Agreed
  <2> QED
    BY <1>1, <1>3, <1>5, <2>1, PassKeeps
<1> QED
  BY <1>4, <1>5 DEF Dependents

LEMMA DeleteObjectKeeps == ASSUME TInv, NEW c \in CRs, DeleteObject(c) PROVE TInv'
<1> DEFINE p == pass[c]
           q == To(p, "release")
<1>1. p.pc = "delete" /\ UNCHANGED <<world, api, cache, victims>>
  BY DEF DeleteObject, At
<1>2. p \in Pass /\ Agreed(c, api[c], p) /\ p.obj \in Resource
  BY <1>1, BusyIsPass DEF TInv, TypeOK, Pass
<1>3. q \in Pass /\ q.pc = "release" /\ q.obj = p.obj
  BY <1>2 DEF To, Pass
<1>4. Agreed(c, api[c], q)
  BY <1>1, <1>2, <1>3 DEF Agreed
<1>5. CASE Go(c, q) /\ UNCHANGED nb
  BY <1>1, <1>3, <1>4, <1>5, PassKeeps
<1>6. CASE Accepted(c)
  <2>1. Go(c, q) /\ nb' = [d \in CRs |-> IF d \in Going(c) THEN [nb[d] EXCEPT !.there = FALSE] ELSE nb[d]]
    BY <1>6 DEF Accepted
  <2> HIDE DEF q
  <2>2. nb' \in [CRs -> Row]
    <3>1. \A d \in CRs : nb[d] \in Row /\ [nb[d] EXCEPT !.there = FALSE] \in Row
      <4> SUFFICES ASSUME NEW d \in CRs PROVE nb[d] \in Row /\ [nb[d] EXCEPT !.there = FALSE] \in Row
        OBVIOUS
      <4>1. nb[d] \in Row
        BY DEF TInv, TypeOK
      <4> QED
        BY <4>1 DEF Row
    <3> QED
      BY <2>1, <3>1
  <2>3. TypeOK'
    BY <1>1, <1>3, <2>1, <2>2 DEF Go, TInv, TypeOK
  <2>4. \A d \in CRs : pass'[d] = pass[d] \/ Agreed(d, api[d], pass'[d])
    BY <1>4, <2>1 DEF Go, TInv, TypeOK
  <2>5. \A d \in world.lossy : nb[d].there /\ ~nb'[d].there => api[d].loss
    <3> SUFFICES ASSUME NEW d \in world.lossy, nb[d].there, ~nb'[d].there PROVE api[d].loss
      OBVIOUS
    <3>1. d \in CRs /\ world \in Cases
      BY ConstantsAssumption DEF TInv, TypeOK, Case
    <3>2. d \in Going(c)
      BY <2>1, <3>1
    <3>3. d = c
      BY <3>1, <3>2, ConstantsAssumption DEF Going
    <3> QED
      BY <1>1, <1>2, <3>3 DEF Agreed, Behind
  <2> QED
    BY <1>1, <2>3, <2>4, <2>5, BehindItself, StepKeeps
<1>7. CASE RefusedDelete(c)
  <2> DEFINE o == Refused(p.obj)
             pc == IF Cascades(p.obj) THEN "referring" ELSE "finish"
             r == [p EXCEPT !.pc = pc, !.obj = o]
  <2>1. Counted(p.obj.attempts) \in 0..MaxAttempts
    BY <1>2, ConstantsAssumption DEF Counted, Resource
  <2>2. /\ o \in Resource /\ o.cascade = p.obj.cascade /\ o.deleting = p.obj.deleting
        /\ o.loss = p.obj.loss /\ o.there = p.obj.there
    BY <1>2, <2>1 DEF Resource, Refused
  <2>3. pc \in {"referring", "finish"} /\ (pc = "referring" => p.obj.cascade)
    BY DEF Cascades
  <2>4. Go(c, r) /\ UNCHANGED nb
    BY <1>7 DEF RefusedDelete
  <2> HIDE DEF o, pc
  <2>5. r \in Pass /\ r.pc = pc /\ r.obj = o
    BY <1>2, <2>2, <2>3 DEF Pass
  <2> HIDE DEF r
  <2>6. Agreed(c, api[c], r)
    BY <1>1, <1>2, <2>2, <2>3, <2>5 DEF Agreed, Behind
  <2> QED
    BY <1>1, <2>4, <2>5, <2>6, PassKeeps
<1> QED
  BY <1>5, <1>6, <1>7 DEF DeleteObject

LEMMA ReferringKeeps == ASSUME TInv, NEW c \in CRs, Referring(c) PROVE TInv'
<1> DEFINE p == pass[c]
           todo == {d \in Referrers(c) : ~cache[d].deleting}
           pc == IF todo = {} THEN "finish" ELSE "cascade"
           q == [p EXCEPT !.pc = pc, !.todo = todo]
<1>1. p.pc = "referring" /\ Go(c, q) /\ UNCHANGED <<world, api, cache, nb, victims>>
  BY DEF Referring, At
<1>2. p \in Pass /\ Agreed(c, api[c], p)
  BY <1>1, BusyIsPass DEF TInv, TypeOK
<1>3. todo \in SUBSET CRs /\ pc \in {"finish", "cascade"}
  BY DEF Referrers
<1> HIDE DEF todo, pc
<1>4. q \in Pass /\ q.pc = pc /\ q.obj = p.obj
  BY <1>2, <1>3 DEF Pass
<1> HIDE DEF q
<1>5. Agreed(c, api[c], q)
  BY <1>1, <1>2, <1>3, <1>4 DEF Agreed
<1> QED
  BY <1>1, <1>4, <1>5, PassKeeps

LEMMA CascadeKeeps == ASSUME TInv, NEW c \in CRs, Cascade(c) PROVE TInv'
<1> DEFINE p == pass[c]
<1>1. p.pc = "cascade" /\ UNCHANGED <<world, cache, nb>>
  BY DEF Cascade, At
<1>2. p \in Pass /\ Agreed(c, api[c], p)
  BY <1>1, BusyIsPass DEF TInv, TypeOK
<1>3. PICK d \in p.todo :
        LET rest == p.todo \ {d}
            mine == [p EXCEPT !.todo = rest, !.pc = IF rest = {} THEN "finish" ELSE @]
        IN
        /\ pass' = [pass EXCEPT ![d] = IF api[d].there /\ ~api[d].deleting THEN Stale(d) ELSE @,
                                ![c] = mine]
        /\ IF api[d].there /\ ~api[d].deleting
           THEN /\ api' = [api EXCEPT ![d] = [@ EXCEPT !.deleting = TRUE]]
                /\ victims' = victims \cup {<<c, d>>}
           ELSE UNCHANGED <<api, victims>>
  BY DEF Cascade
<1> DEFINE rest == p.todo \ {d}
           pc == IF rest = {} THEN "finish" ELSE p.pc
           mine == [p EXCEPT !.todo = rest, !.pc = pc]
<1>4. d \in CRs /\ rest \in SUBSET CRs /\ pc \in {"finish", "cascade"}
  BY <1>1, <1>2 DEF Pass
<1>5. /\ pass' = [pass EXCEPT ![d] = IF api[d].there /\ ~api[d].deleting THEN Stale(d) ELSE @,
                              ![c] = mine]
      /\ \/ /\ api' = [api EXCEPT ![d] = [@ EXCEPT !.deleting = TRUE]]
            /\ victims' = victims \cup {<<c, d>>}
         \/ UNCHANGED <<api, victims>>
  BY <1>3
<1> HIDE DEF rest, pc
<1>6. mine \in Pass /\ mine.pc = pc /\ mine.obj = p.obj
  BY <1>2, <1>4 DEF Pass
<1> HIDE DEF mine
<1>7. Agreed(c, api[c], mine)
  BY <1>1, <1>2, <1>4, <1>6 DEF Agreed
<1>8. pass' \in [CRs -> Pass \cup {Idle}]
      /\ \A e \in CRs : pass'[e] \in {pass[e], Stale(e)} \/ (e = c /\ pass'[e] = mine)
  BY <1>4, <1>5, <1>6, StaleIs DEF TInv, TypeOK
<1>9. api' \in [CRs -> Resource] /\ \A e \in CRs : Behind(api[e], api'[e])
  <2> DEFINE o == [api[d] EXCEPT !.deleting = TRUE]
  <2>1. o \in Resource /\ Behind(api[d], o)
    BY <1>4 DEF TInv, TypeOK, Resource, Behind
  <2>2. api' = [api EXCEPT ![d] = o] \/ api' = api
    BY <1>5
  <2> HIDE DEF o
  <2> QED
    BY <1>4, <2>1, <2>2, BehindItself DEF TInv, TypeOK
<1>10. victims' \in SUBSET (CRs \X CRs)
       /\ \A v \in victims' : v \in victims \/ v = <<c, d>>
  BY <1>4, <1>5 DEF TInv, TypeOK
<1>11. api[c].cascade /\ api[c].deleting
  BY <1>1, <1>2 DEF Agreed, Behind
<1>12. TypeOK'
  BY <1>1, <1>8, <1>9, <1>10 DEF TInv, TypeOK
<1> QED
  BY <1>1, <1>7, <1>8, <1>9, <1>10, <1>11, <1>12, StepKeeps

\* The end of a pass: c's resource is written if the pass still has its latest version.
LEMMA EndKeeps ==
  ASSUME TInv, NEW c \in CRs, Go(c, Idle), UNCHANGED <<world, cache, nb, victims>>,
         NEW o \in Resource, Behind(api[c], o), api' = [api EXCEPT ![c] = o]
  PROVE  TInv'
<1>1. TypeOK'
  BY DEF Go, TInv, TypeOK
<1>2. \A d \in CRs : Behind(api[d], api'[d]) /\ pass'[d] \in {pass[d], Idle}
  BY BehindItself DEF Go, TInv, TypeOK
<1> QED
  BY <1>1, <1>2, StepKeeps

LEMMA FinishKeeps == ASSUME TInv, NEW c \in CRs, Finish(c) PROVE TInv'
<1> DEFINE p == pass[c]
           o == [api[c] EXCEPT !.attempts = p.obj.attempts]
<1>1. p.pc = "finish" /\ Go(c, Idle) /\ UNCHANGED <<world, cache, nb, victims>>
  BY DEF Finish, At
<1>2. p \in Pass /\ p.obj \in Resource /\ api[c] \in Resource
  BY <1>1, BusyIsPass DEF TInv, TypeOK, Pass
<1>3. o \in Resource /\ Behind(api[c], o)
  BY <1>2 DEF Resource, Behind
<1>4. api' = [api EXCEPT ![c] = o] \/ api' = [api EXCEPT ![c] = api[c]]
  BY DEF Finish, TInv, TypeOK
<1> HIDE DEF o
<1> QED
  BY <1>1, <1>2, <1>3, <1>4, BehindItself, EndKeeps

LEMMA ReleaseKeeps == ASSUME TInv, NEW c \in CRs, Release(c) PROVE TInv'
<1> DEFINE o == [api[c] EXCEPT !.fin = FALSE]
<1>1. Go(c, Idle) /\ UNCHANGED <<world, cache, nb, victims>>
  BY DEF Release
<1>2. api[c] \in Resource /\ o \in Resource /\ Behind(api[c], o)
  BY DEF TInv, TypeOK, Resource, Behind
<1>3. api' = [api EXCEPT ![c] = o] \/ api' = [api EXCEPT ![c] = api[c]]
  BY DEF Release, TInv, TypeOK
<1> HIDE DEF o
<1> QED
  BY <1>1, <1>2, <1>3, BehindItself, EndKeeps

-----------------------------------------------------------------------------
(* The theorems. *)

LEMMA InitTInv == Init => TInv
<1> SUFFICES ASSUME Init PROVE TInv
  OBVIOUS
<1>1. \A c \in CRs : RefsOf(c) \in SUBSET CRs
  BY DEF RefsOf
<1>2. TypeOK
  BY <1>1, ConstantsAssumption DEF Init, TypeOK, Resource, Row
<1>3. \A c \in CRs : Behind(cache[c], api[c]) /\ Agreed(c, api[c], pass[c])
  BY BehindItself DEF Init, Agreed, Idle
<1>4. world.lossy \subseteq CRs
  BY <1>2, ConstantsAssumption DEF TypeOK, Case
<1>5. Consented
  BY <1>4 DEF Init, Consented
<1> QED
  BY <1>2, <1>3, <1>5 DEF TInv

LEMMA NextTInv == TInv /\ [Next]_vars => TInv'
<1>1. ASSUME TInv, NEW c \in CRs, Step(c) PROVE TInv'
  BY <1>1, DeletingKeeps, DependentsKeep, DeleteObjectKeeps, ReferringKeeps, CascadeKeeps,
     FinishKeeps, ReleaseKeeps DEF Step
<1>2. ASSUME TInv, UNCHANGED vars PROVE TInv'
  <2>1. TypeOK'
    BY <1>2 DEF TInv, TypeOK, vars
  <2> QED
    BY <1>2, <2>1, BehindItself, StepKeeps DEF vars
<1> QED
  BY <1>1, <1>2, ApplyKeeps, WorldKeeps, UserDeleteKeeps, UserEditKeeps DEF Next

\* However many resources are torn down, in whatever order and shape: what a cascade deletes
\* was asked for by the annotation of a resource that is itself being deleted, and no row whose
\* loss destroys data goes before its CR allows it (cascade.go, finalizer.go dataLossBlocked).
THEOREM NothingWithoutConsent == Spec => []Consented
<1>1. TInv => Consented
  BY DEF TInv
<1> QED
  BY <1>1, InitTInv, NextTInv, PTL DEF Spec

\* A parent's row outlives the CR of every child it materialised, though the children are read
\* in one step and the row is deleted in a later one (finalizer.go pendingDependents).
THEOREM ParentsGoLast == Spec => ParentLast
<1>1. ASSUME TInv, NEW c \in CRs, NEW d \in CRs, <<d, c>> \in world.inline, At(c, "delete")
      PROVE  ~api[d].there
  <2>1. d \in Children(c)
    BY <1>1 DEF Children
  <2> QED
    BY <1>1, <2>1 DEF TInv, Agreed, At
<1>2. TInv /\ [Next]_vars =>
        [\A c, d \in CRs : <<d, c>> \in world.inline /\ nb[c].there /\ ~nb'[c].there /\ At(c, "delete")
           => ~api[d].there]_vars
  BY <1>1
<1> QED
  BY <1>2, InitTInv, NextTInv, PTL DEF Spec, ParentLast
=============================================================================
