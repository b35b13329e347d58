------------------------- MODULE ObjectEngineProofs -------------------------
(***************************************************************************)
(* Machine-checked facts about ObjectEngine, for every value of its        *)
(* constants: any number of resources, of NetBox objects, of faults and    *)
(* edits, every policy, and every environment.                             *)
(***************************************************************************)
EXTENDS ObjectEngine, FiniteSetTheorems, TLAPS

\* What the optimistic lock of the API server is worth to a pass: the informer's copy is
\* the API server's whenever it carries the latest resourceVersion, and a pass whose copy
\* does works on a resource that is still there.
Fresh ==
  /\ \A c \in CRs : current[c] => cache[c] = api[c]
  /\ \A c \in CRs : pass[c].pc # "idle" /\ pass[c].latest => api[c].there

\* The engine may write object i for resource c.
Own(c, i) == maker[i] = c \/ (c \in asked /\ Minted(i))

\* A copy of c, wherever it is kept, names only an object c may write.
OwnedCopy(c, obj) ==
  /\ obj.policy # "Fail" => c \in asked
  /\ obj.id # 0 => Own(c, obj.id)

\* So does a pass, and what it matched by natural key carries c's stamp only if c may.
OwnedPass(c, p) ==
  /\ OwnedCopy(c, p.obj)
  /\ p.newID # 0 => Own(c, p.newID)
  /\ p.pc \in {"update", "delete"} => p.obj.id # 0
  /\ p.pc = "record" => p.newID # 0
  /\ p.pc = "owns" => /\ p.match # 0 /\ Minted(p.match)
                      /\ p.live.uid = c => Own(c, p.match)

Owned ==
  /\ \A c \in CRs : api[c].there => OwnedCopy(c, api[c])
  /\ \A c \in CRs : cache[c].there => OwnedCopy(c, cache[c])
  /\ \A c \in CRs : pass[c].pc # "idle" => OwnedPass(c, pass[c])
  /\ \A i \in Ids : nb[i].there => Minted(i)
  /\ \A i \in Ids, c \in CRs : nb[i].there /\ nb[i].uid = c => Own(c, i)
  /\ \A i \in Ids, c \in CRs : c \in touched[i] => Own(c, i)

IInv == TypeOK /\ Fresh /\ Owned

-----------------------------------------------------------------------------
(* The shape of records. *)

LEMMA ThereIsResource ==
  ASSUME NEW r \in Resource \cup {Absent}, r.there
  PROVE  r \in Resource
  BY DEF Absent, Resource

LEMMA ThereIsObject ==
  ASSUME NEW o \in Object \cup {Absent}, o.there
  PROVE  o \in Object
  BY DEF Absent, Object

LEMMA BusyIsPass ==
  ASSUME NEW p \in Pass \cup {Idle}, p.pc # "idle"
  PROVE  p \in Pass
  BY DEF Idle, Pass

LEMMA IdRange ==
  /\ 0 \in 0..MaxId
  /\ \A i \in 0..MaxId : i # 0 <=> i \in Ids
  BY ConstantsAssumption DEF Ids

\* What c's next pass q may be when nothing else changes.
Follows(c, q) ==
  /\ q \in Pass \cup {Idle}
  /\ q.pc # "idle" => OwnedPass(c, q) /\ (q.latest => api[c].there)

LEMMA IdleFollows == ASSUME NEW c \in CRs PROVE Follows(c, Idle)
  BY DEF Follows, Idle

LEMMA MoveIs ==
  ASSUME NEW p \in Pass, NEW pc \in Steps \ {"idle"}
  PROVE  LET q == [p EXCEPT !.pc = pc] IN
         /\ q \in Pass /\ q.pc = pc /\ q.latest = p.latest /\ q.newID = p.newID
         /\ q.obj = p.obj /\ q.match = p.match /\ q.live = p.live
  BY DEF Pass

LEMMA StopIs ==
  ASSUME NEW p \in Pass, NEW reason \in Reasons
  PROVE  LET q == Stop(p, reason) IN
         /\ q \in Pass /\ q.pc = "finish" /\ q.latest = p.latest /\ q.newID = p.newID
         /\ q.obj.id = p.obj.id /\ q.obj.policy = p.obj.policy
  BY DEF Pass, Stop, Steps, Resource

LEMMA GiveUpIs ==
  ASSUME NEW r \in Resource
  PROVE  LET q == GiveUpID(r) IN q \in Resource /\ q.id = 0 /\ q.policy = r.policy
  BY IdRange DEF GiveUpID, Resource

LEMMA StopGoneIs ==
  ASSUME NEW p \in Pass
  PROVE  LET q == StopGone(p) IN
         /\ q \in Pass /\ q.pc = "finish" /\ q.latest = p.latest /\ q.newID = p.newID
         /\ q.obj.id = 0 /\ q.obj.policy = p.obj.policy
  <1> DEFINE g == [p EXCEPT !.obj = GiveUpID(@)]
  <1>1. p.obj \in Resource
    BY DEF Pass
  <1>2. /\ g \in Pass /\ g.latest = p.latest /\ g.newID = p.newID
        /\ g.obj.id = 0 /\ g.obj.policy = p.obj.policy
    BY <1>1, GiveUpIs DEF Pass
  <1> HIDE DEF g
  <1>3. "APIError" \in Reasons
    BY DEF Reasons
  <1>4. StopGone(p) = Stop(g, "APIError")
    BY DEF StopGone, g
  <1> QED
    BY <1>2, <1>3, <1>4, StopIs

LEMMA TakesIs ==
  ASSUME NEW p \in Pass, NEW a \in BOOLEAN
  PROVE  LET q == Takes(p, a) IN
         /\ q \in Pass /\ q.pc = "update" /\ q.latest = p.latest /\ q.newID = p.newID
         /\ q.obj.id = p.match /\ q.obj.policy = p.obj.policy
  BY DEF Pass, Takes, Steps, Resource

LEMMA WrittenIs ==
  ASSUME NEW p \in Pass, NEW i \in Ids
  PROVE  LET q == Written(p, i) IN
         /\ q \in Pass /\ q.pc = "finish" /\ q.latest = p.latest /\ q.newID \in {0, i}
         /\ q.obj.id = i /\ q.obj.policy = p.obj.policy
  <1> DEFINE s == Stop(p, "Synced")
  <1>1. /\ s \in Pass /\ s.pc = "finish" /\ s.latest = p.latest
        /\ s.obj.policy = p.obj.policy
    BY StopIs DEF Reasons
  <1>2. i \in 0..MaxId /\ 0 \in 0..MaxId
    BY IdRange, ConstantsAssumption DEF Ids
  <1>4. s.obj \in Resource
    BY <1>1 DEF Pass
  <1> DEFINE r == [s.obj EXCEPT !.id = i]
  <1>5. r \in Resource /\ r.id = i /\ r.policy = p.obj.policy
    BY <1>1, <1>2, <1>4 DEF Resource
  <1> DEFINE n == IF i = p.was.id THEN 0 ELSE i
  <1>6. n \in 0..MaxId /\ n \in {0, i}
    BY <1>2
  <1> HIDE DEF s
  <1>3. Written(p, i) = [s EXCEPT !.obj = r, !.wrote = TRUE, !.newID = n]
    BY DEF Written, s
  <1> HIDE DEF r, n
  <1> QED
    BY <1>1, <1>3, <1>5, <1>6 DEF Pass

-----------------------------------------------------------------------------
(* Steps that change the pass alone. *)

LEMMA GoIs ==
  ASSUME pass \in [CRs -> Pass \cup {Idle}], NEW c \in CRs,
         NEW q \in Pass \cup {Idle}, Go(c, q)
  PROVE  /\ pass' \in [CRs -> Pass \cup {Idle}]
         /\ pass'[c] = q
         /\ \A d \in CRs \ {c} : pass'[d] = pass[d]
  BY DEF Go

LEMMA PassOnly ==
  ASSUME IInv, NEW c \in CRs, NEW q, Go(c, q), Follows(c, q),
         UNCHANGED <<api, cache, current, nb, edits, history>>,
         faults' \in 0..MaxFaults
  PROVE  IInv'
  <1>1. /\ pass' \in [CRs -> Pass \cup {Idle}]
        /\ pass'[c] = q
        /\ \A d \in CRs \ {c} : pass'[d] = pass[d]
    BY GoIs DEF Follows, IInv, TypeOK
  <1>2. TypeOK'
    BY <1>1 DEF IInv, TypeOK, history
  <1>3. Fresh'
    BY <1>1 DEF IInv, Fresh, Follows
  <1>4. Owned'
    BY <1>1 DEF IInv, Owned, Follows, history, OwnedPass, OwnedCopy, Own, Minted
  <1> QED
    BY <1>2, <1>3, <1>4 DEF IInv

LEMMA AtPass ==
  ASSUME IInv, NEW c \in CRs, pass[c].pc # "idle"
  PROVE  /\ pass[c] \in Pass
         /\ pass[c].obj \in Resource
         /\ OwnedPass(c, pass[c])
         /\ pass[c].latest => api[c].there
         /\ pass[c].match \in 0..MaxId
         /\ pass[c].newID \in 0..MaxId
         /\ pass[c].obj.id \in 0..MaxId
  <1>1. pass[c] \in Pass
    BY BusyIsPass DEF IInv, TypeOK
  <1> QED
    BY <1>1 DEF IInv, Owned, Fresh, Pass, Resource

LEMMA StopFollows ==
  ASSUME IInv, NEW c \in CRs, pass[c].pc # "idle", NEW reason \in Reasons
  PROVE  /\ Follows(c, Stop(pass[c], reason))
         /\ Follows(c, StopGone(pass[c]))
  BY AtPass, StopIs, StopGoneIs DEF Follows, OwnedPass, OwnedCopy

LEMMA MoveFollows ==
  ASSUME IInv, NEW c \in CRs, pass[c].pc # "idle",
         NEW pc \in Steps \ {"idle", "owns"},
         pc \in {"update", "delete"} => pass[c].obj.id # 0,
         pc = "record" => pass[c].newID # 0
  PROVE  Follows(c, [pass[c] EXCEPT !.pc = pc])
  BY AtPass, MoveIs DEF Follows, OwnedPass, OwnedCopy

LEMMA LocateStep ==
  ASSUME IInv, NEW c \in CRs, Locate(c)
  PROVE  IInv'
  <1> DEFINE p == pass[c]
  <1>0. p.pc # "idle" /\ p \in Pass /\ OwnedPass(c, p) /\ p.obj.id \in 0..MaxId
        /\ (p.latest => api[c].there)
    BY AtPass DEF Locate, At
  <1>1. CASE p.obj.id = 0
    <2>1. Follows(c, [p EXCEPT !.pc = "lookup"])
      BY <1>0, MoveFollows DEF Steps
    <2> QED
      BY <1>1, <2>1, PassOnly DEF Locate, IInv, TypeOK
  <1>2. CASE p.obj.id # 0 /\ nb[p.obj.id].there
    <2> DEFINE q == [p EXCEPT !.pc = "update", !.match = p.obj.id, !.live = nb[p.obj.id]]
    <2>1. nb[p.obj.id] \in Object \cup {Absent}
      BY <1>0, <1>2, IdRange DEF IInv, TypeOK
    <2>2. /\ q \in Pass /\ q.pc = "update" /\ q.obj = p.obj /\ q.newID = p.newID
          /\ q.latest = p.latest
      BY <1>0, <2>1 DEF Pass, Steps
    <2>3. Follows(c, q)
      BY <1>0, <1>2, <2>2 DEF Follows, OwnedPass
    <2> QED
      BY <1>2, <2>3, PassOnly DEF Locate, IInv, TypeOK
  <1>3. CASE p.obj.id # 0 /\ ~nb[p.obj.id].there
    <2> DEFINE q == [p EXCEPT !.pc = "lookup", !.obj = GiveUpID(@)]
    <2>1. p.obj \in Resource
      BY <1>0 DEF Pass
    <2>2. /\ q \in Pass /\ q.pc = "lookup" /\ q.newID = p.newID /\ q.latest = p.latest
          /\ q.obj.id = 0 /\ q.obj.policy = p.obj.policy
      BY <1>0, <2>1, GiveUpIs DEF Pass, Steps
    <2>3. Follows(c, q)
      BY <1>0, <2>2 DEF Follows, OwnedPass, OwnedCopy
    <2> QED
      BY <1>3, <2>3, PassOnly DEF Locate, IInv, TypeOK
  <1> QED
    BY <1>1, <1>2, <1>3

LEMMA BeginStep ==
  ASSUME IInv, NEW c \in CRs, Begin(c)
  PROVE  IInv'
  <1>1. PICK m \in Modes :
          Go(c, [pc |-> IF cache[c].deleting THEN "deleting"
                        ELSE IF cache[c].fin THEN "locate" ELSE "finalizer",
                 obj |-> cache[c], was |-> StatusOf(cache[c]), latest |-> current[c],
                 mode |-> m, match |-> 0, live |-> Absent, newID |-> 0, wrote |-> FALSE])
    BY DEF Begin
  <1> DEFINE q == [pc |-> IF cache[c].deleting THEN "deleting"
                          ELSE IF cache[c].fin THEN "locate" ELSE "finalizer",
                   obj |-> cache[c], was |-> StatusOf(cache[c]), latest |-> current[c],
                   mode |-> m, match |-> 0, live |-> Absent, newID |-> 0, wrote |-> FALSE]
  <1>2. cache[c] \in Resource /\ current[c] \in BOOLEAN
    BY ThereIsResource DEF Begin, IInv, TypeOK
  <1>3. StatusOf(cache[c]) \in Status
    BY <1>2 DEF StatusOf, Status, Resource
  <1>4. q \in Pass
    BY <1>2, <1>3, IdRange DEF Pass, Steps
  <1>5. OwnedPass(c, q)
    BY DEF OwnedPass, Begin, IInv, Owned
  <1>6. q.latest => api[c].there
    BY DEF Begin, IInv, Fresh
  <1>7. Follows(c, q)
    BY <1>4, <1>5, <1>6 DEF Follows
  <1> QED
    BY <1>1, <1>7, PassOnly DEF Begin, IInv, TypeOK

LEMMA LookupStep ==
  ASSUME IInv, NEW c \in CRs, Lookup(c)
  PROVE  IInv'
  <1> DEFINE p == pass[c]
             found == Matching(p.obj.key)
  <1>0. /\ p.pc # "idle" /\ p \in Pass /\ OwnedPass(c, p)
        /\ p.latest => api[c].there
    BY AtPass DEF Lookup, At
  <1>1. CASE Go(c, [p EXCEPT !.pc = "create"])
    <2>1. Follows(c, [p EXCEPT !.pc = "create"])
      BY <1>0, MoveFollows DEF Steps
    <2> QED
      BY <1>1, <2>1, PassOnly DEF Lookup, IInv, TypeOK
  <1>2. ASSUME NEW i \in found, Go(c, [p EXCEPT !.pc = "owns", !.match = i, !.live = nb[i]])
        PROVE  IInv'
    <2> DEFINE q == [p EXCEPT !.pc = "owns", !.match = i, !.live = nb[i]]
    <2>1. i \in Ids /\ nb[i].there
      BY DEF Matching
    <2>2. i \in 0..MaxId /\ i # 0 /\ nb[i] \in Object \cup {Absent}
      BY <2>1, ConstantsAssumption DEF IInv, TypeOK, Ids
    <2>3. /\ q \in Pass /\ q.pc = "owns" /\ q.obj = p.obj /\ q.newID = p.newID
          /\ q.latest = p.latest /\ q.match = i /\ q.live = nb[i]
      BY <1>0, <2>2 DEF Pass, Steps
    <2>4. Minted(i) /\ (nb[i].uid = c => Own(c, i))
      BY <2>1 DEF IInv, Owned
    <2>5. Follows(c, q)
      BY <1>0, <2>2, <2>3, <2>4 DEF Follows, OwnedPass
    <2> QED
      BY <1>2, <2>5, PassOnly DEF Lookup, IInv, TypeOK
  <1>3. CASE Go(c, Stop(p, "Conflict"))
    <2>1. Follows(c, Stop(p, "Conflict"))
      BY <1>0, StopFollows DEF Reasons
    <2> QED
      BY <1>3, <2>1, PassOnly DEF Lookup, IInv, TypeOK
  <1> QED
    BY <1>1, <1>2, <1>3 DEF Lookup

LEMMA ClaimStep ==
  ASSUME IInv, NEW c \in CRs, Claim(c)
  PROVE  IInv'
  <1> DEFINE p == pass[c]
  <1>0. /\ p.pc = "owns" /\ p \in Pass /\ OwnedPass(c, p)
        /\ p.latest => api[c].there
    BY AtPass DEF Claim, At
  <1>1. p.match # 0 /\ Minted(p.match) /\ (p.live.uid = c => Own(c, p.match))
    BY <1>0 DEF OwnedPass
  <1>2. ASSUME NEW a \in BOOLEAN, Own(c, p.match) PROVE Follows(c, Takes(p, a))
    BY <1>0, <1>1, <1>2, TakesIs DEF Follows, OwnedPass, OwnedCopy
  <1>3. CASE StampedMine(c, p)
    <2>1. Own(c, p.match) /\ p.obj.adopted \in BOOLEAN
      BY <1>0, <1>1, <1>3 DEF StampedMine, Pass, Resource
    <2> QED
      BY <1>2, <1>3, <2>1, PassOnly DEF Claim, IInv, TypeOK
  <1>4. CASE ~StampedMine(c, p) /\ ~api[c].there
    BY <1>4, IdleFollows, PassOnly DEF Claim, IInv, TypeOK
  <1>5. CASE ~StampedMine(c, p) /\ api[c].there /\ api[c].id = p.match
    <2>1. Own(c, p.match)
      BY <1>1, <1>5 DEF IInv, Owned, OwnedCopy
    <2>2. api[c].adopted \in BOOLEAN
      BY <1>5, ThereIsResource DEF IInv, TypeOK, Resource
    <2> QED
      BY <1>2, <1>5, <2>1, <2>2, PassOnly DEF Claim, IInv, TypeOK
  <1>6. CASE ~StampedMine(c, p) /\ api[c].there /\ api[c].id # p.match /\ Adopts(p)
    <2>1. Own(c, p.match)
      BY <1>0, <1>1, <1>6 DEF Adopts, OwnedPass, OwnedCopy, Own
    <2> QED
      BY <1>2, <1>6, <2>1, PassOnly DEF Claim, IInv, TypeOK
  <1>7. CASE ~StampedMine(c, p) /\ api[c].there /\ api[c].id # p.match /\ ~Adopts(p)
    <2>1. Follows(c, Stop(p, "Conflict"))
      BY <1>0, StopFollows DEF Reasons
    <2> QED
      BY <1>7, <2>1, PassOnly DEF Claim, IInv, TypeOK
  <1> QED
    BY <1>3, <1>4, <1>5, <1>6, <1>7

LEMMA DeletingStep ==
  ASSUME IInv, NEW c \in CRs, Deleting(c)
  PROVE  IInv'
  <1>0. pass[c].pc # "idle"
    BY DEF Deleting, At
  <1>1. PICK q \in {Idle, [pass[c] EXCEPT !.pc = "release"]} \cup
                   {[pass[c] EXCEPT !.pc = IF pass[c].obj.id = 0 THEN "stamp" ELSE "delete"]} :
          Go(c, q)
    BY DEF Deleting
  <1>2. Follows(c, [pass[c] EXCEPT !.pc = "release"])
    BY <1>0, MoveFollows DEF Steps
  <1>3. Follows(c, [pass[c] EXCEPT !.pc = IF pass[c].obj.id = 0 THEN "stamp" ELSE "delete"])
    BY <1>0, MoveFollows DEF Steps
  <1> QED
    BY <1>1, <1>2, <1>3, IdleFollows, PassOnly DEF Deleting, IInv, TypeOK

LEMMA FaultIs ==
  ASSUME IInv, Fault
  PROVE  faults' \in 0..MaxFaults
  BY ConstantsAssumption DEF IInv, TypeOK, Fault

LEMMA EndpointNotReadyStep ==
  ASSUME IInv, NEW c \in CRs, EndpointNotReady(c)
  PROVE  IInv'
  <1>0. pass[c].pc # "idle"
    BY DEF EndpointNotReady, At
  <1>1. PICK q \in {[pass[c] EXCEPT !.pc = "release"], Stop(pass[c], "Waiting")} : Go(c, q)
    BY DEF EndpointNotReady
  <1>2. Follows(c, q)
    BY <1>0, <1>1, MoveFollows, StopFollows DEF Steps, Reasons
  <1> QED
    BY <1>1, <1>2, FaultIs, PassOnly DEF EndpointNotReady

LEMMA DeleteByStampStep ==
  ASSUME IInv, NEW c \in CRs, DeleteByStamp(c)
  PROVE  IInv'
  <1> DEFINE p == pass[c]
  <1>0. /\ p.pc # "idle" /\ p \in Pass /\ OwnedPass(c, p)
        /\ p.latest => api[c].there
    BY AtPass DEF DeleteByStamp, At
  <1>1. ASSUME NEW i \in Stamped(c), Go(c, [p EXCEPT !.pc = "delete", !.obj = [@ EXCEPT !.id = i]])
        PROVE  IInv'
    <2> DEFINE q == [p EXCEPT !.pc = "delete", !.obj = [@ EXCEPT !.id = i]]
    <2>1. i \in Ids /\ Own(c, i)
      BY DEF Stamped, IInv, Owned
    <2>2. i \in 0..MaxId /\ i # 0
      BY <2>1, ConstantsAssumption DEF Ids
    <2>3. /\ q \in Pass /\ q.pc = "delete" /\ q.newID = p.newID /\ q.latest = p.latest
          /\ q.obj.id = i /\ q.obj.policy = p.obj.policy
      BY <1>0, <2>2 DEF Pass, Steps, Resource
    <2>4. Follows(c, q)
      BY <1>0, <2>1, <2>2, <2>3 DEF Follows, OwnedPass, OwnedCopy
    <2> QED
      BY <1>1, <2>4, PassOnly DEF DeleteByStamp, IInv, TypeOK
  <1>2. CASE Go(c, [p EXCEPT !.pc = "release"]) \/ Go(c, Stop(p, "Conflict"))
    <2>1. Follows(c, [p EXCEPT !.pc = "release"]) /\ Follows(c, Stop(p, "Conflict"))
      BY <1>0, MoveFollows, StopFollows DEF Steps, Reasons
    <2> QED
      BY <1>2, <2>1, PassOnly DEF DeleteByStamp, IInv, TypeOK
  <1> QED
    BY <1>1, <1>2 DEF DeleteByStamp

LEMMA CallFailsStep ==
  ASSUME IInv, NEW c \in CRs, CallFails(c)
  PROVE  IInv'
  <1> DEFINE p == pass[c]
  <1>0. p.pc # "idle"
    BY DEF CallFails
  <1>1. CASE Go(c, Idle)
    BY <1>1, IdleFollows, FaultIs, PassOnly DEF CallFails
  <1>2. CASE Go(c, Stop(p, "APIError")) \/ Go(c, Stop(p, "Blocked"))
    <2>1. Follows(c, Stop(p, "APIError")) /\ Follows(c, Stop(p, "Blocked"))
      BY <1>0, StopFollows DEF Reasons
    <2> QED
      BY <1>2, <2>1, FaultIs, PassOnly DEF CallFails
  <1>3. CASE p.newID # 0 /\ Go(c, [p EXCEPT !.pc = "record"])
    <2>1. Follows(c, [p EXCEPT !.pc = "record"])
      BY <1>0, <1>3, MoveFollows DEF Steps
    <2> QED
      BY <1>3, <2>1, FaultIs, PassOnly DEF CallFails
  <1> QED
    BY <1>1, <1>2, <1>3 DEF CallFails

-----------------------------------------------------------------------------
(* Steps of a pass that write the API server. *)

\* The pass goes idle, or on with the same claim, after its own write of the resource.
LEMMA OwnWrite ==
  ASSUME IInv, NEW c \in CRs, NEW obj \in Resource \cup {Absent},
         api' = [api EXCEPT ![c] = obj],
         current' = [current EXCEPT ![c] = FALSE],
         obj.there => OwnedCopy(c, obj),
         NEW q, Go(c, q),
         q \in Pass \cup {Idle},
         q.pc # "idle" => OwnedPass(c, q) /\ obj.there,
         UNCHANGED <<cache, nb, edits, faults, history>>
  PROVE  IInv'
  <1>1. /\ pass' \in [CRs -> Pass \cup {Idle}]
        /\ pass'[c] = q
        /\ \A d \in CRs \ {c} : pass'[d] = pass[d]
    BY GoIs DEF IInv, TypeOK
  <1>2. /\ api' \in [CRs -> Resource \cup {Absent}]
        /\ api'[c] = obj
        /\ \A d \in CRs \ {c} : api'[d] = api[d]
    BY DEF IInv, TypeOK
  <1>3. TypeOK'
    BY <1>1, <1>2 DEF IInv, TypeOK, history
  <1>4. Fresh'
    BY <1>1, <1>2 DEF IInv, Fresh, TypeOK
  <1>5. Owned'
    BY <1>1, <1>2 DEF IInv, Owned, history, OwnedPass, OwnedCopy, Own, Minted
  <1> QED
    BY <1>3, <1>4, <1>5 DEF IInv

LEMMA TakeFinalizerStep ==
  ASSUME IInv, NEW c \in CRs, TakeFinalizer(c)
  PROVE  IInv'
  <1> DEFINE p == pass[c]
             obj == [api[c] EXCEPT !.fin = TRUE]
             q == [p EXCEPT !.pc = "locate", !.obj = [@ EXCEPT !.fin = TRUE]]
  <1>0. /\ p.pc # "idle" /\ p \in Pass /\ p.obj \in Resource /\ OwnedPass(c, p)
        /\ p.latest => api[c].there
    BY AtPass DEF TakeFinalizer, At
  <1>1. CASE p.latest
    <2>1. api[c] \in Resource
      BY <1>0, <1>1, ThereIsResource DEF IInv, TypeOK
    <2>2. obj \in Resource /\ obj.there /\ obj.policy = api[c].policy /\ obj.id = api[c].id
      BY <1>0, <1>1, <2>1 DEF Resource
    <2>3. OwnedCopy(c, obj)
      BY <1>0, <1>1, <2>2 DEF IInv, Owned, OwnedCopy
    <2>4. /\ q \in Pass /\ q.pc = "locate" /\ q.newID = p.newID
          /\ q.obj.id = p.obj.id /\ q.obj.policy = p.obj.policy
      BY <1>0 DEF Pass, Steps, Resource
    <2>5. OwnedPass(c, q)
      BY <1>0, <2>4 DEF OwnedPass, OwnedCopy
    <2>6. api' = [api EXCEPT ![c] = obj] /\ current' = [current EXCEPT ![c] = FALSE] /\ Go(c, q)
      BY <1>1 DEF TakeFinalizer
    <2> HIDE DEF obj, q
    <2> QED
      BY <2>2, <2>3, <2>4, <2>5, <2>6, OwnWrite DEF TakeFinalizer
  <1>2. CASE ~p.latest
    BY <1>2, IdleFollows, PassOnly DEF TakeFinalizer, IInv, TypeOK
  <1> QED
    BY <1>1, <1>2

LEMMA FinishStep ==
  ASSUME IInv, NEW c \in CRs, Finish(c)
  PROVE  IInv'
  <1> DEFINE p == pass[c]
             changed == p.wrote \/ StatusOf(p.obj) # p.was
             obj == [api[c] EXCEPT !.id = p.obj.id, !.adopted = p.obj.adopted,
                                   !.reason = p.obj.reason]
  <1>0. /\ p.pc # "idle" /\ p \in Pass /\ p.obj \in Resource /\ OwnedPass(c, p)
        /\ p.latest => api[c].there
    BY AtPass DEF Finish, At
  <1>1. CASE changed /\ p.latest
    <2>1. api[c] \in Resource
      BY <1>0, <1>1, ThereIsResource DEF IInv, TypeOK
    <2>2. obj \in Resource /\ obj.there /\ obj.policy = api[c].policy /\ obj.id = p.obj.id
      BY <1>0, <1>1, <2>1 DEF Resource
    <2>3. OwnedCopy(c, obj)
      BY <1>0, <1>1, <2>2 DEF IInv, Owned, OwnedPass, OwnedCopy
    <2>4. /\ api' = [api EXCEPT ![c] = obj] /\ current' = [current EXCEPT ![c] = FALSE]
          /\ Go(c, Idle)
      BY <1>1 DEF Finish
    <2> HIDE DEF obj
    <2> QED
      BY <2>2, <2>3, <2>4, OwnWrite DEF Finish, Idle
  <1>2. CASE changed /\ ~p.latest /\ p.newID # 0
    <2>1. Follows(c, [p EXCEPT !.pc = "record"])
      BY <1>0, <1>2, MoveFollows DEF Steps
    <2> QED
      BY <1>2, <2>1, PassOnly DEF Finish, IInv, TypeOK
  <1>3. CASE ~changed \/ (~p.latest /\ p.newID = 0)
    BY <1>3, IdleFollows, PassOnly DEF Finish, IInv, TypeOK
  <1> QED
    BY <1>1, <1>2, <1>3

LEMMA RecordIDStep ==
  ASSUME IInv, NEW c \in CRs, RecordID(c)
  PROVE  IInv'
  <1> DEFINE p == pass[c]
             obj == [api[c] EXCEPT !.id = p.newID]
  <1>0. p.pc = "record" /\ p \in Pass /\ OwnedPass(c, p) /\ p.newID \in 0..MaxId
    BY AtPass DEF RecordID, At
  <1>1. CASE api[c].there
    <2>1. api[c] \in Resource
      BY <1>1, ThereIsResource DEF IInv, TypeOK
    <2>2. obj \in Resource /\ obj.there /\ obj.policy = api[c].policy /\ obj.id = p.newID
      BY <1>0, <1>1, <2>1 DEF Resource
    <2>3. OwnedCopy(c, obj)
      BY <1>0, <1>1, <2>2 DEF IInv, Owned, OwnedPass, OwnedCopy
    <2>4. /\ api' = [api EXCEPT ![c] = obj] /\ current' = [current EXCEPT ![c] = FALSE]
          /\ Go(c, Idle)
      BY <1>1 DEF RecordID
    <2> HIDE DEF obj
    <2> QED
      BY <2>2, <2>3, <2>4, OwnWrite DEF RecordID, Idle
  <1>2. CASE ~api[c].there
    BY <1>2, IdleFollows, PassOnly DEF RecordID, IInv, TypeOK
  <1> QED
    BY <1>1, <1>2

LEMMA ReleaseStep ==
  ASSUME IInv, NEW c \in CRs, Release(c)
  PROVE  IInv'
  <1>1. CASE pass[c].latest
    <2>1. Absent \in Resource \cup {Absent} /\ ~Absent.there
      BY DEF Absent
    <2> QED
      BY <1>1, <2>1, OwnWrite DEF Release, Idle
  <1>2. CASE ~pass[c].latest
    BY <1>2, IdleFollows, PassOnly DEF Release, IInv, TypeOK
  <1> QED
    BY <1>1, <1>2

-----------------------------------------------------------------------------
(* Steps of a pass that write NetBox. *)

\* Ownership survives as ids are minted and as resources ask for adoption.
LEMMA OwnGrows ==
  ASSUME NoCR \notin CRs, asked \subseteq asked',
         \A j \in Ids : Minted(j) => maker'[j] = maker[j]
  PROVE  /\ \A j \in Ids : Minted(j) => Minted(j)'
         /\ \A d \in CRs, j \in Ids : Own(d, j) => Own(d, j)'
         /\ \A d \in CRs, r \in Resource : OwnedCopy(d, r) => OwnedCopy(d, r)'
         /\ \A d \in CRs, q \in Pass : OwnedPass(d, q) => OwnedPass(d, q)'
  <1>1. \A j \in Ids : Minted(j) => Minted(j)'
    BY DEF Minted
  <1>2. \A d \in CRs, j \in Ids : Own(d, j) => Own(d, j)'
    BY <1>1 DEF Own, Minted
  <1>3. ASSUME NEW d \in CRs, NEW r \in Resource, OwnedCopy(d, r)
        PROVE  OwnedCopy(d, r)'
    <2>1. r.id # 0 => r.id \in Ids
      BY IdRange DEF Resource
    <2> QED
      BY <1>2, <1>3, <2>1 DEF OwnedCopy
  <1>4. ASSUME NEW d \in CRs, NEW q \in Pass, OwnedPass(d, q)
        PROVE  OwnedPass(d, q)'
    <2>1. OwnedCopy(d, q.obj)'
      BY <1>3, <1>4 DEF OwnedPass, Pass
    <2>2. (q.newID # 0 => q.newID \in Ids) /\ (q.match # 0 => q.match \in Ids)
      BY IdRange DEF Pass
    <2> QED
      BY <1>1, <1>2, <1>4, <2>1, <2>2 DEF OwnedPass
  <1> QED
    BY <1>1, <1>2, <1>3, <1>4

\* A POST: a fresh id, made by c and stamped with nothing or with c.
LEMMA PostStep ==
  ASSUME IInv, NEW c \in CRs, pass[c].pc # "idle", Post(c, pass[c]),
         UNCHANGED <<api, cache, current, edits, touched, asked>>
  PROVE  IInv'
  <1> DEFINE p == pass[c]
  <1>0. /\ p \in Pass /\ p.obj \in Resource /\ OwnedPass(c, p)
        /\ p.latest => api[c].there
    BY AtPass
  <1>1. CASE /\ UNCHANGED <<nb, maker, faults>>
             /\ Go(c, Suppressed(p)) \/ Go(c, Stop(p, "Invalid"))
    <2>1. Follows(c, Suppressed(p)) /\ Follows(c, Stop(p, "Invalid"))
      BY StopFollows DEF Reasons, Suppressed
    <2> QED
      BY <1>1, <2>1, PassOnly DEF IInv, TypeOK, history
  <1>2. ASSUME NEW i \in NextId,
               nb' = [nb EXCEPT ![i] = [there |-> TRUE, key |-> p.obj.key, val |-> p.obj.val,
                                        uid |-> StampOf(c)]],
               maker' = [maker EXCEPT ![i] = c],
               \/ Go(c, Written(p, i)) /\ UNCHANGED faults
               \/ Fault /\ Go(c, Stop(p, "APIError"))
        PROVE  IInv'
    <2>1. i \in Ids /\ ~Minted(i)
      BY DEF NextId
    <2>2. /\ maker' \in [Ids -> CRs \cup {Human, NoCR}]
          /\ maker'[i] = c /\ \A j \in Ids \ {i} : maker'[j] = maker[j]
      BY <1>2, <2>1 DEF IInv, TypeOK
    <2> DEFINE o == [there |-> TRUE, key |-> p.obj.key, val |-> p.obj.val, uid |-> StampOf(c)]
    <2>3. o \in Object /\ o.uid \in {c, NoCR}
      BY <1>0 DEF Object, StampOf, Resource
    <2>4. /\ nb' \in [Ids -> Object \cup {Absent}]
          /\ nb'[i] = o /\ \A j \in Ids \ {i} : nb'[j] = nb[j]
      BY <1>2, <2>1, <2>3 DEF IInv, TypeOK
    <2>5. /\ \A j \in Ids : Minted(j) => Minted(j)'
          /\ \A d \in CRs, j \in Ids : Own(d, j) => Own(d, j)'
          /\ \A d \in CRs, r \in Resource : OwnedCopy(d, r) => OwnedCopy(d, r)'
          /\ \A d \in CRs, q \in Pass : OwnedPass(d, q) => OwnedPass(d, q)'
      BY <2>1, <2>2, OwnGrows, ConstantsAssumption
    <2>6. Own(c, i)'
      BY <2>2 DEF Own
    <2>7. faults' \in 0..MaxFaults
      BY <1>2, FaultIs DEF IInv, TypeOK
    <2>8. PICK q \in Pass : /\ Go(c, q) /\ q.pc = "finish" /\ q.latest = p.latest
                            /\ q.newID \in {0, i, p.newID}
                            /\ q.obj.id \in {i, p.obj.id} /\ q.obj.policy = p.obj.policy
      <3>1. CASE Go(c, Written(p, i))
        BY <1>0, <2>1, <3>1, WrittenIs
      <3>2. CASE Go(c, Stop(p, "APIError"))
        BY <1>0, <3>2, StopIs DEF Reasons
      <3> QED
        BY <1>2, <3>1, <3>2
    <2>9. /\ pass' \in [CRs -> Pass \cup {Idle}]
          /\ pass'[c] = q
          /\ \A d \in CRs \ {c} : pass'[d] = pass[d]
      BY <2>8, GoIs DEF IInv, TypeOK
    <2>10. TypeOK'
      BY <2>2, <2>4, <2>7, <2>9 DEF IInv, TypeOK
    <2>11. Fresh'
      BY <1>0, <2>8, <2>9 DEF IInv, Fresh
    <2>12. (\A d \in CRs : /\ api[d].there => OwnedCopy(d, api[d])
                           /\ cache[d].there => OwnedCopy(d, cache[d]))'
      BY <2>5, ThereIsResource DEF IInv, TypeOK, Owned
    <2>13. OwnedPass(c, q)'
      <3>1. PICK e \in Pass : e = p
        BY <1>0
      <3>2. OwnedPass(c, e)'
        BY <1>0, <2>5, <3>1
      <3>3. /\ q.newID \in {0, i, e.newID} /\ q.obj.id \in {i, e.obj.id}
            /\ q.obj.policy = e.obj.policy
        BY <2>8, <3>1
      <3> QED
        BY <3>2, <3>3, <2>6, <2>8 DEF OwnedPass, OwnedCopy
    <2>14. ASSUME NEW d \in CRs, (pass[d].pc # "idle")'
           PROVE  OwnedPass(d, pass[d])'
      <3>1. CASE d = c
        BY <3>1, <2>9, <2>13 DEF OwnedPass, OwnedCopy
      <3>2. CASE d # c
        <4>1. PICK e \in Pass : e = pass'[d] /\ OwnedPass(d, e)
          BY <2>14, <3>2, <2>9, AtPass
        <4>2. OwnedPass(d, e)'
          BY <4>1, <2>5
        <4> QED
          BY <4>1, <4>2 DEF OwnedPass, OwnedCopy
      <3> QED
        BY <3>1, <3>2
    <2>15. (\A j \in Ids : /\ nb[j].there => Minted(j)
                           /\ \A d \in CRs : nb[j].there /\ nb[j].uid = d => Own(d, j))'
      BY <2>2, <2>3, <2>4, <2>5, <2>6, ConstantsAssumption DEF IInv, Owned, Minted
    <2>16. (\A j \in Ids, d \in CRs : d \in touched[j] => Own(d, j))'
      BY <2>5 DEF IInv, Owned
    <2> QED
      BY <2>10, <2>11, <2>12, <2>14, <2>15, <2>16 DEF IInv, Owned
  <1> QED
    BY <1>1, <1>2 DEF Post

LEMMA CreateStep ==
  ASSUME IInv, NEW c \in CRs, Create(c) \/ RecreateCreate(c)
  PROVE  IInv'
  <1>0. pass[c].pc # "idle"
    BY DEF Create, RecreateCreate, At
  <1>1. CASE Post(c, pass[c])
    BY <1>0, <1>1, PostStep DEF Create, RecreateCreate
  <1>2. CASE Create(c) /\ ~Post(c, pass[c])
    <2>1. Follows(c, Stop(pass[c], "AdoptOnly"))
      BY <1>0, StopFollows DEF Reasons
    <2> QED
      BY <1>2, <2>1, PassOnly DEF Create, history, IInv, TypeOK
  <1> QED
    BY <1>1, <1>2 DEF RecreateCreate

\* A PATCH or a DELETE of an object c may write.
LEMMA NetBoxWrite ==
  ASSUME IInv, NEW c \in CRs, NEW i \in Ids, Own(c, i), nb[i].there,
         NEW o \in Object \cup {Absent}, nb' = [nb EXCEPT ![i] = o],
         o.there => o.uid \in {c, nb[i].uid},
         touched' = [touched EXCEPT ![i] = @ \cup {c}],
         NEW q, Go(c, q), Follows(c, q),
         faults' \in 0..MaxFaults,
         UNCHANGED <<api, cache, current, edits, maker, asked>>
  PROVE  IInv'
  <1>1. /\ pass' \in [CRs -> Pass \cup {Idle}]
        /\ pass'[c] = q
        /\ \A d \in CRs \ {c} : pass'[d] = pass[d]
    BY GoIs DEF Follows, IInv, TypeOK
  <1>2. /\ nb' \in [Ids -> Object \cup {Absent}]
        /\ nb'[i] = o /\ \A j \in Ids \ {i} : nb'[j] = nb[j]
        /\ touched' \in [Ids -> SUBSET CRs]
        /\ touched'[i] = touched[i] \cup {c} /\ \A j \in Ids \ {i} : touched'[j] = touched[j]
    BY DEF IInv, TypeOK
  <1>3. TypeOK'
    BY <1>1, <1>2 DEF IInv, TypeOK
  <1>4. Fresh'
    BY <1>1 DEF IInv, Fresh, Follows
  <1>5. (\A d \in CRs : /\ api[d].there => OwnedCopy(d, api[d])
                        /\ cache[d].there => OwnedCopy(d, cache[d])
                        /\ pass[d].pc # "idle" => OwnedPass(d, pass[d]))'
    BY <1>1 DEF IInv, Owned, Follows, OwnedPass, OwnedCopy, Own, Minted
  <1>6. (\A j \in Ids : /\ nb[j].there => Minted(j)
                        /\ \A d \in CRs : nb[j].there /\ nb[j].uid = d => Own(d, j)
                        /\ \A d \in CRs : d \in touched[j] => Own(d, j))'
    BY <1>2 DEF IInv, Owned, Own, Minted
  <1> QED
    BY <1>3, <1>4, <1>5, <1>6 DEF IInv, Owned

LEMMA UpdateStep ==
  ASSUME IInv, NEW c \in CRs, Update(c)
  PROVE  IInv'
  <1> DEFINE p == pass[c]
             i == p.obj.id
             Patched(o) == [o EXCEPT !.key = IF KeyDrift(p) THEN p.obj.key ELSE @,
                                     !.val = IF p.live.val # p.obj.val THEN p.obj.val ELSE @,
                                     !.uid = IF Stamps THEN c ELSE @]
  <1>0. /\ p.pc # "idle" /\ p \in Pass /\ p.obj \in Resource /\ OwnedPass(c, p)
        /\ p.latest => api[c].there
        /\ i \in Ids /\ Own(c, i)
    BY AtPass, IdRange DEF Update, At, OwnedPass, OwnedCopy
  <1>1. CASE /\ UNCHANGED <<nb, touched, faults>>
             /\ \/ Go(c, Stop(p, "Synced")) \/ Go(c, Suppressed(p))
                \/ Go(c, StopGone(p)) \/ Go(c, Stop(p, "Invalid"))
    <2>1. /\ Follows(c, Stop(p, "Synced")) /\ Follows(c, Suppressed(p))
          /\ Follows(c, StopGone(p)) /\ Follows(c, Stop(p, "Invalid"))
      BY <1>0, StopFollows DEF Reasons, Suppressed
    <2> QED
      BY <1>1, <2>1, PassOnly DEF Update, history, IInv, TypeOK
  <1>2. CASE /\ nb[i].there
             /\ nb' = [nb EXCEPT ![i] = Patched(@)]
             /\ touched' = [touched EXCEPT ![i] = @ \cup {c}]
             /\ \/ Go(c, Written(p, i)) /\ UNCHANGED faults
                \/ Fault /\ Go(c, Stop(p, "APIError"))
    <2> DEFINE o == Patched(nb[i])
    <2>1. nb[i] \in Object
      BY <1>0, <1>2, ThereIsObject DEF IInv, TypeOK
    <2>2. o \in Object /\ o.uid \in {c, nb[i].uid}
      BY <1>0, <2>1 DEF Object, Resource
    <2>3. nb' = [nb EXCEPT ![i] = o]
      BY <1>2
    <2>4. Follows(c, Written(p, i)) /\ Follows(c, Stop(p, "APIError"))
      <3>1. Follows(c, Stop(p, "APIError"))
        BY <1>0, StopFollows DEF Reasons
      <3>2. Follows(c, Written(p, i))
        BY <1>0, WrittenIs DEF Follows, OwnedPass, OwnedCopy
      <3> QED
        BY <3>1, <3>2
    <2>5. faults' \in 0..MaxFaults
      BY <1>2, FaultIs DEF IInv, TypeOK
    <2> HIDE DEF o
    <2> QED
      BY <1>0, <1>2, <2>2, <2>3, <2>4, <2>5, NetBoxWrite DEF Update
  <1> QED
    BY <1>1, <1>2 DEF Update

\* A DELETE, or the refusal or the loss of one.
LEMMA DeletesOwn ==
  ASSUME IInv, NEW c \in CRs, pass[c].pc # "idle", pass[c].obj.id # 0,
         nb[pass[c].obj.id].there,
         nb' = [nb EXCEPT ![pass[c].obj.id] = Absent],
         touched' = [touched EXCEPT ![pass[c].obj.id] = @ \cup {c}],
         NEW q, Go(c, q), Follows(c, q),
         faults' \in 0..MaxFaults,
         UNCHANGED <<api, cache, current, edits, maker, asked>>
  PROVE  IInv'
  <1>1. pass[c].obj.id \in Ids /\ Own(c, pass[c].obj.id)
    BY AtPass, IdRange DEF OwnedPass, OwnedCopy
  <1>2. Absent \in Object \cup {Absent} /\ ~Absent.there
    BY DEF Absent
  <1> QED
    BY <1>1, <1>2, NetBoxWrite

LEMMA RecreateDeleteStep ==
  ASSUME IInv, NEW c \in CRs, RecreateDelete(c)
  PROVE  IInv'
  <1> DEFINE p == pass[c]
  <1>0. p.pc = "update" /\ p.obj.id # 0
    BY AtPass DEF RecreateDelete, At, OwnedPass
  <1>1. /\ Follows(c, Stop(p, "Invalid")) /\ Follows(c, StopGone(p))
        /\ Follows(c, Stop(p, "APIError")) /\ Follows(c, [p EXCEPT !.pc = "recreate"])
    BY <1>0, StopFollows, MoveFollows DEF Reasons, Steps
  <1>2. CASE UNCHANGED <<nb, touched, faults>>
    BY <1>1, <1>2, PassOnly DEF RecreateDelete, history, IInv, TypeOK
  <1>3. CASE /\ nb[p.obj.id].there
             /\ nb' = [nb EXCEPT ![p.obj.id] = Absent]
             /\ touched' = [touched EXCEPT ![p.obj.id] = @ \cup {c}]
             /\ \/ Go(c, [p EXCEPT !.pc = "recreate"]) /\ UNCHANGED faults
                \/ Fault /\ Go(c, Stop(p, "APIError"))
    <2>1. faults' \in 0..MaxFaults
      BY <1>3, FaultIs DEF IInv, TypeOK
    <2> QED
      BY <1>0, <1>1, <1>3, <2>1, DeletesOwn DEF RecreateDelete
  <1> QED
    BY <1>2, <1>3 DEF RecreateDelete

LEMMA DeleteObjectStep ==
  ASSUME IInv, NEW c \in CRs, DeleteObject(c)
  PROVE  IInv'
  <1> DEFINE p == pass[c]
  <1>0. p.pc = "delete" /\ p.obj.id # 0
    BY AtPass DEF DeleteObject, At, OwnedPass
  <1>1. Follows(c, Stop(p, "Blocked")) /\ Follows(c, [p EXCEPT !.pc = "release"])
    BY <1>0, StopFollows, MoveFollows DEF Reasons, Steps
  <1>2. CASE UNCHANGED <<nb, touched, faults>>
    BY <1>1, <1>2, PassOnly DEF DeleteObject, history, IInv, TypeOK
  <1>3. CASE /\ nb[p.obj.id].there
             /\ nb' = [nb EXCEPT ![p.obj.id] = Absent]
             /\ touched' = [touched EXCEPT ![p.obj.id] = @ \cup {c}]
             /\ \/ Go(c, [p EXCEPT !.pc = "release"]) /\ UNCHANGED faults
                \/ Fault /\ Go(c, Stop(p, "Blocked"))
    <2>1. faults' \in 0..MaxFaults
      BY <1>3, FaultIs DEF IInv, TypeOK
    <2> QED
      BY <1>0, <1>1, <1>3, <2>1, DeletesOwn DEF DeleteObject
  <1> QED
    BY <1>2, <1>3 DEF DeleteObject

-----------------------------------------------------------------------------
(* Users, humans in NetBox, the informer, the process. *)

LEMMA EditIs ==
  ASSUME IInv, Edit
  PROVE  edits' \in 0..MaxEdits
  BY ConstantsAssumption DEF IInv, TypeOK, Edit

LEMMA OutsideWrite ==
  ASSUME IInv, NEW c \in CRs, NEW obj \in Resource \cup {Absent}, WriteOutside(c, obj),
         asked \subseteq asked', asked' \in SUBSET CRs,
         obj.there => OwnedCopy(c, obj)',
         edits' \in 0..MaxEdits,
         UNCHANGED <<cache, nb, faults, maker, touched>>
  PROVE  IInv'
  <1>1. /\ api' \in [CRs -> Resource \cup {Absent}]
        /\ api'[c] = obj /\ \A d \in CRs \ {c} : api'[d] = api[d]
    BY DEF IInv, TypeOK, WriteOutside
  <1>2. /\ current' \in [CRs -> BOOLEAN]
        /\ ~current'[c] /\ \A d \in CRs \ {c} : current'[d] = current[d]
    BY DEF IInv, TypeOK, WriteOutside
  <1>3. PICK q \in Pass \cup {Idle} :
          /\ pass' = [pass EXCEPT ![c] = q]
          /\ pass[c].pc = "idle" => q.pc = "idle"
          /\ q.pc # "idle" => ~q.latest /\ OwnedPass(c, q)
    <2>1. CASE pass[c].pc = "idle"
      <3>1. pass[c] \in Pass \cup {Idle} /\ pass' = [pass EXCEPT ![c] = pass[c]]
        BY <2>1 DEF IInv, TypeOK, WriteOutside
      <3> QED
        BY <2>1, <3>1
    <2>2. CASE pass[c].pc # "idle"
      <3> DEFINE q == [pass[c] EXCEPT !.latest = FALSE]
      <3>1. pass[c] \in Pass /\ OwnedPass(c, pass[c])
        BY <2>2, AtPass
      <3>2. /\ q \in Pass /\ ~q.latest /\ q.pc = pass[c].pc /\ q.obj = pass[c].obj
            /\ q.newID = pass[c].newID /\ q.match = pass[c].match /\ q.live = pass[c].live
        BY <3>1 DEF Pass
      <3>3. OwnedPass(c, q)
        BY <3>1, <3>2 DEF OwnedPass
      <3>4. pass' = [pass EXCEPT ![c] = q]
        BY <2>2 DEF WriteOutside
      <3> QED
        BY <2>2, <3>2, <3>3, <3>4
    <2> QED
      BY <2>1, <2>2
  <1>4. /\ pass' \in [CRs -> Pass \cup {Idle}]
        /\ pass'[c] = q /\ \A d \in CRs \ {c} : pass'[d] = pass[d]
    BY <1>3 DEF IInv, TypeOK
  <1>5. TypeOK'
    BY <1>1, <1>2, <1>4 DEF IInv, TypeOK
  <1>6. Fresh'
    BY <1>1, <1>2, <1>3, <1>4 DEF IInv, Fresh
  <1>7. /\ \A j \in Ids : Minted(j) => Minted(j)'
        /\ \A d \in CRs, j \in Ids : Own(d, j) => Own(d, j)'
        /\ \A d \in CRs, r \in Resource : OwnedCopy(d, r) => OwnedCopy(d, r)'
        /\ \A d \in CRs, e \in Pass : OwnedPass(d, e) => OwnedPass(d, e)'
    BY OwnGrows, ConstantsAssumption
  <1>8. ASSUME NEW d \in CRs, (api[d].there)' PROVE OwnedCopy(d, api[d])'
    <2>1. CASE d = c
      BY <1>1, <1>8, <2>1 DEF OwnedCopy
    <2>2. CASE d # c
      <3>1. PICK r \in Resource : r = api'[d] /\ OwnedCopy(d, r)
        BY <1>1, <1>8, <2>2, ThereIsResource DEF IInv, TypeOK, Owned
      <3>2. OwnedCopy(d, r)'
        BY <1>7, <3>1
      <3> QED
        BY <3>1, <3>2 DEF OwnedCopy
    <2> QED
      BY <2>1, <2>2
  <1>9. ASSUME NEW d \in CRs, (cache[d].there)' PROVE OwnedCopy(d, cache[d])'
    <2>1. PICK r \in Resource : r = cache'[d] /\ OwnedCopy(d, r)
      BY <1>9, ThereIsResource DEF IInv, TypeOK, Owned
    <2>2. OwnedCopy(d, r)'
      BY <1>7, <2>1
    <2> QED
      BY <2>1, <2>2 DEF OwnedCopy
  <1>10. ASSUME NEW d \in CRs, (pass[d].pc # "idle")' PROVE OwnedPass(d, pass[d])'
    <2>1. PICK e \in Pass : e = pass'[d] /\ OwnedPass(d, e)
      BY <1>3, <1>4, <1>10, AtPass, BusyIsPass
    <2>2. OwnedPass(d, e)'
      BY <1>7, <2>1
    <2> QED
      BY <2>1, <2>2 DEF OwnedPass, OwnedCopy
  <1>11. (\A j \in Ids : /\ nb[j].there => Minted(j)
                         /\ \A d \in CRs : nb[j].there /\ nb[j].uid = d => Own(d, j)
                         /\ \A d \in CRs : d \in touched[j] => Own(d, j))'
    BY <1>7 DEF IInv, Owned
  <1> QED
    BY <1>5, <1>6, <1>8, <1>9, <1>10, <1>11 DEF IInv, Owned

LEMMA UserEditStep ==
  ASSUME IInv, NEW c \in CRs, UserEdit(c)
  PROVE  IInv'
  <1>1. PICK k \in Keys, v \in Vals, y \in Policies :
          /\ WriteOutside(c, [api[c] EXCEPT !.key = k, !.val = v, !.policy = y])
          /\ asked' = IF y = "Fail" THEN asked ELSE asked \cup {c}
    BY DEF UserEdit
  <1> DEFINE obj == [api[c] EXCEPT !.key = k, !.val = v, !.policy = y]
  <1>2. api[c] \in Resource /\ OwnedCopy(c, api[c])
    BY ThereIsResource DEF UserEdit, IInv, TypeOK, Owned
  <1>3. obj \in Resource /\ obj.policy = y /\ obj.id = api[c].id
    BY <1>2 DEF Resource
  <1>4. asked \subseteq asked' /\ asked' \in SUBSET CRs
    BY <1>1 DEF IInv, TypeOK
  <1>5. ASSUME NEW r, r = obj PROVE OwnedCopy(c, r)'
    BY <1>1, <1>2, <1>3, <1>5 DEF OwnedCopy, UserEdit, Own, Minted
  <1>6. PICK r \in Resource : r = obj
    BY <1>3
  <1>7. WriteOutside(c, r) /\ OwnedCopy(c, r)'
    BY <1>1, <1>5, <1>6
  <1> QED
    BY <1>4, <1>7, EditIs, OutsideWrite DEF UserEdit

LEMMA UserDeleteStep ==
  ASSUME IInv, NEW c \in CRs, UserDelete(c) \/ UserStrip(c)
  PROVE  IInv'
  <1>1. PICK r \in Resource \cup {Absent} :
          WriteOutside(c, r) /\ (r.there => r.policy = api[c].policy /\ r.id = api[c].id)
    <2>1. api[c] \in Resource
      BY ThereIsResource DEF UserDelete, UserStrip, IInv, TypeOK
    <2>2. CASE WriteOutside(c, Absent)
      BY <2>2 DEF Absent
    <2>3. CASE WriteOutside(c, [api[c] EXCEPT !.deleting = TRUE])
      <3> DEFINE obj == [api[c] EXCEPT !.deleting = TRUE]
      <3>1. obj \in Resource /\ obj.policy = api[c].policy /\ obj.id = api[c].id
        BY <2>1 DEF Resource
      <3> QED
        BY <2>3, <3>1
    <2> QED
      BY <2>2, <2>3 DEF UserDelete, UserStrip
  <1>2. api[c].there /\ OwnedCopy(c, api[c])
    BY DEF UserDelete, UserStrip, IInv, Owned
  <1>3. /\ UNCHANGED <<cache, nb, faults, maker, touched, asked>>
        /\ edits' \in 0..MaxEdits
    BY EditIs DEF UserDelete, UserStrip, history, IInv, TypeOK
  <1>4. r.there => OwnedCopy(c, r)'
    BY <1>1, <1>2, <1>3 DEF OwnedCopy, Own, Minted
  <1>5. asked \subseteq asked' /\ asked' \in SUBSET CRs
    BY <1>3 DEF IInv, TypeOK
  <1> QED
    BY <1>1, <1>3, <1>4, <1>5, OutsideWrite

\* NetBox changes under a human's hands: nobody's claim does.
LEMMA HumanWrite ==
  ASSUME IInv, NEW i \in Ids, NEW o \in Object \cup {Absent},
         nb' = [nb EXCEPT ![i] = o],
         o.there => Minted(i)' /\ (o.uid \in CRs => nb[i].there /\ o.uid = nb[i].uid),
         maker' \in [Ids -> CRs \cup {Human, NoCR}],
         \A j \in Ids : Minted(j) => maker'[j] = maker[j],
         edits' \in 0..MaxEdits,
         UNCHANGED <<api, cache, current, pass, faults, touched, asked>>
  PROVE  IInv'
  <1>1. /\ nb' \in [Ids -> Object \cup {Absent}]
        /\ nb'[i] = o /\ \A j \in Ids \ {i} : nb'[j] = nb[j]
    BY DEF IInv, TypeOK
  <1>2. TypeOK'
    BY <1>1 DEF IInv, TypeOK
  <1>3. Fresh'
    BY DEF IInv, Fresh
  <1>4. /\ \A j \in Ids : Minted(j) => Minted(j)'
        /\ \A d \in CRs, j \in Ids : Own(d, j) => Own(d, j)'
        /\ \A d \in CRs, r \in Resource : OwnedCopy(d, r) => OwnedCopy(d, r)'
        /\ \A d \in CRs, e \in Pass : OwnedPass(d, e) => OwnedPass(d, e)'
    BY OwnGrows, ConstantsAssumption
  <1>5. (\A d \in CRs : /\ api[d].there => OwnedCopy(d, api[d])
                        /\ cache[d].there => OwnedCopy(d, cache[d]))'
    BY <1>4, ThereIsResource DEF IInv, TypeOK, Owned
  <1>6. (\A d \in CRs : pass[d].pc # "idle" => OwnedPass(d, pass[d]))'
    BY <1>4, AtPass
  <1>7. (\A j \in Ids : /\ nb[j].there => Minted(j)
                        /\ \A d \in CRs : nb[j].there /\ nb[j].uid = d => Own(d, j)
                        /\ \A d \in CRs : d \in touched[j] => Own(d, j))'
    BY <1>1, <1>4 DEF IInv, Owned
  <1> QED
    BY <1>2, <1>3, <1>5, <1>6, <1>7 DEF IInv, Owned

LEMMA HumanStep ==
  ASSUME IInv, HumanCreate \/ \E i \in Ids : HumanEdit(i) \/ HumanDelete(i)
  PROVE  IInv'
  <1>1. CASE HumanCreate
    <2>1. PICK i \in NextId, k \in Keys, v \in Vals :
            /\ nb' = [nb EXCEPT ![i] = [there |-> TRUE, key |-> k, val |-> v, uid |-> NoCR]]
            /\ maker' = [maker EXCEPT ![i] = Human]
      BY <1>1 DEF HumanCreate
    <2>2. i \in Ids /\ ~Minted(i)
      BY DEF NextId
    <2>3. /\ maker' \in [Ids -> CRs \cup {Human, NoCR}] /\ Minted(i)'
          /\ \A j \in Ids : Minted(j) => maker'[j] = maker[j]
      BY <2>1, <2>2, ConstantsAssumption DEF IInv, TypeOK, Minted
    <2> DEFINE o == [there |-> TRUE, key |-> k, val |-> v, uid |-> NoCR]
    <2>4. o \in Object /\ o.uid \notin CRs
      BY ConstantsAssumption DEF Object
    <2>5. nb' = [nb EXCEPT ![i] = o]
      BY <2>1
    <2> HIDE DEF o
    <2> QED
      BY <1>1, <2>2, <2>3, <2>4, <2>5, EditIs, HumanWrite DEF HumanCreate
  <1>2. ASSUME NEW i \in Ids, HumanEdit(i) PROVE IInv'
    <2>1. PICK k \in Keys, v \in Vals : nb' = [nb EXCEPT ![i] = [@ EXCEPT !.key = k, !.val = v]]
      BY <1>2 DEF HumanEdit
    <2> DEFINE o == [nb[i] EXCEPT !.key = k, !.val = v]
    <2>2. nb[i] \in Object /\ Minted(i)
      BY <1>2, ThereIsObject DEF HumanEdit, IInv, TypeOK, Owned
    <2>3. o \in Object /\ o.uid = nb[i].uid
      BY <2>2 DEF Object
    <2>4. nb' = [nb EXCEPT ![i] = o]
      BY <2>1
    <2>5. Minted(i)' /\ maker' \in [Ids -> CRs \cup {Human, NoCR}]
      BY <1>2, <2>2 DEF HumanEdit, history, Minted, IInv, TypeOK
    <2> HIDE DEF o
    <2> QED
      BY <1>2, <2>2, <2>3, <2>4, <2>5, EditIs, HumanWrite DEF HumanEdit, history
  <1>3. ASSUME NEW i \in Ids, HumanDelete(i) PROVE IInv'
    <2>1. Absent \in Object \cup {Absent} /\ ~Absent.there
      BY DEF Absent
    <2>2. maker' \in [Ids -> CRs \cup {Human, NoCR}]
      BY <1>3 DEF HumanDelete, history, IInv, TypeOK
    <2> QED
      BY <1>3, <2>1, <2>2, EditIs, HumanWrite DEF HumanDelete, history
  <1> QED
    BY <1>1, <1>2, <1>3

LEMMA CacheSyncStep ==
  ASSUME IInv, NEW c \in CRs, CacheSync(c)
  PROVE  IInv'
  <1>1. /\ cache' \in [CRs -> Resource \cup {Absent}]
        /\ cache'[c] = api[c] /\ \A d \in CRs \ {c} : cache'[d] = cache[d]
    BY DEF IInv, TypeOK, CacheSync
  <1>2. /\ current' \in [CRs -> BOOLEAN] /\ \A d \in CRs \ {c} : current'[d] = current[d]
    BY DEF IInv, TypeOK, CacheSync
  <1>3. TypeOK'
    BY <1>1, <1>2 DEF IInv, TypeOK, CacheSync, history
  <1>4. Fresh'
    BY <1>1, <1>2 DEF IInv, Fresh, CacheSync
  <1>5. Owned'
    BY <1>1 DEF IInv, Owned, CacheSync, history, OwnedPass, OwnedCopy, Own, Minted
  <1> QED
    BY <1>3, <1>4, <1>5 DEF IInv

LEMMA CrashStep ==
  ASSUME IInv, Crash
  PROVE  IInv'
  <1>1. TypeOK'
    BY FaultIs DEF IInv, TypeOK, Crash, history
  <1>2. Fresh'
    BY DEF IInv, Fresh, Crash, Idle
  <1>3. Owned'
    BY DEF IInv, Owned, Crash, Idle, history, OwnedPass, OwnedCopy, Own, Minted
  <1> QED
    BY <1>1, <1>2, <1>3 DEF IInv

-----------------------------------------------------------------------------
(* The theorems. *)

LEMMA InitIInv == Init => IInv
  <1> SUFFICES ASSUME Init PROVE IInv
    OBVIOUS
  <1>1. api \in [CRs -> Resource]
    BY DEF Init, Applied
  <1>2. TypeOK
    <2>1. maker \in [Ids -> CRs \cup {Human, NoCR}]
      BY DEF Init
    <2>2. edits \in 0..MaxEdits /\ faults \in 0..MaxFaults
      BY ConstantsAssumption DEF Init
    <2> QED
      BY <1>1, <2>1, <2>2 DEF Init, TypeOK
  <1>3. Fresh
    BY DEF Init, Fresh, Idle
  <1>4. \A c \in CRs : api[c].id = 0
    BY DEF Init, Applied
  <1>5. Owned
    BY <1>4 DEF Init, Owned, OwnedCopy, Absent, Idle
  <1> QED
    BY <1>2, <1>3, <1>5 DEF IInv

LEMMA NextIInv == IInv /\ [Next]_vars => IInv'
  <1> SUFFICES ASSUME IInv, [Next]_vars PROVE IInv'
    OBVIOUS
  <1>1. ASSUME NEW c \in CRs, Step(c) PROVE IInv'
    BY <1>1, BeginStep, TakeFinalizerStep, LocateStep, LookupStep, ClaimStep, CreateStep,
       UpdateStep, RecreateDeleteStep, DeletingStep, DeleteByStampStep, DeleteObjectStep,
       ReleaseStep, FinishStep, RecordIDStep DEF Step
  <1>2. ASSUME NEW c \in CRs,
               \/ EndpointNotReady(c) \/ CallFails(c) \/ CacheSync(c)
               \/ UserEdit(c) \/ UserDelete(c) \/ UserStrip(c)
        PROVE  IInv'
    BY <1>2, EndpointNotReadyStep, CallFailsStep, CacheSyncStep, UserEditStep, UserDeleteStep
  <1>3. CASE HumanCreate \/ \E i \in Ids : HumanEdit(i) \/ HumanDelete(i)
    BY <1>3, HumanStep
  <1>4. CASE Crash
    BY <1>4, CrashStep
  <1>5. CASE UNCHANGED vars
    BY <1>5 DEF vars, IInv, TypeOK, Fresh, Owned, OwnedPass, OwnedCopy, Own, Minted
  <1> QED
    BY <1>1, <1>2, <1>3, <1>4, <1>5 DEF Next

\* The inductive invariant holds in every reachable state.
THEOREM Inductive == Spec => []IInv
  BY InitIInv, NextIInv, PTL DEF Spec

\* Every variable keeps its type in every behaviour of the engine, its users and NetBox.
THEOREM TypeCorrect == Spec => []TypeOK
  <1>1. IInv => TypeOK
    BY DEF IInv
  <1> QED
    BY <1>1, Inductive, PTL

\* The engine never PATCHes or DELETEs an object it neither created for the resource nor
\* was asked to adopt: generic.go claim and ownsMatch, finalizer.go deleteByStamp.
THEOREM TouchesOnlyOwn == Spec => []OnlyTouchesOwn
  <1>1. IInv => OnlyTouchesOwn
    BY DEF IInv, Owned, Own, OnlyTouchesOwn
  <1> QED
    BY <1>1, Inductive, PTL

\* An id in a status always names an object the resource may own: generic.go applyWrite,
\* status.go recordID, whatever was stale, lost or cut short by a crash.
THEOREM RecordsOnlyOwn == Spec => []RecordedIdIsOwn
  <1>1. IInv => RecordedIdIsOwn
    BY DEF IInv, Owned, OwnedCopy, Own, RecordedIdIsOwn
  <1> QED
    BY <1>1, Inductive, PTL

-----------------------------------------------------------------------------
(* One object each.  Where nobody changes a natural key, neither in a spec   *)
(* nor by hand in NetBox, a resource and every object it may own keep one    *)
(* key between them: the lookup before a POST cannot miss what is there.     *)

\* Object i of NetBox content n, if it is there, has the natural key k.
Named(n, i, k) == n[i].there => n[i].key = k

\* A copy of a resource with the key k, naming an object with that key.
KeyedCopy(n, k, obj) == obj.key = k /\ (obj.id # 0 => Named(n, obj.id, k))

\* So does a pass, in what it learned from a write and in what it matched: it is never
\* about to replace an object for its key.
KeyedPass(n, k, p) ==
  /\ KeyedCopy(n, k, p.obj)
  /\ p.newID # 0 => Named(n, p.newID, k)
  /\ p.pc = "owns" => Named(n, p.match, k)
  /\ p.pc \in {"owns", "update"} => p.live.key = k
  /\ p.pc # "recreate"

\* Everything that is c's has the key k.
Keyed(c, k) ==
  /\ api[c].there => KeyedCopy(nb, k, api[c])
  /\ cache[c].there => KeyedCopy(nb, k, cache[c])
  /\ pass[c].pc # "idle" => KeyedPass(nb, k, pass[c])
  /\ \A i \in Ids : nb[i].there /\ (maker[i] = c \/ nb[i].uid = c) => nb[i].key = k

\* Nobody makes two, and who is about to make one has none.
Single ==
  /\ \A c \in CRs : pass[c].pc = "create" => MadeBy(c) = {}
  /\ \A c \in CRs : \A i, j \in MadeBy(c) : i = j

OInv == (\A c \in CRs : \E k \in Keys : Keyed(c, k)) /\ Single

\* Nobody changes a natural key.
SteadyKeys == "KeyEdit" \notin Env /\ "Rename" \notin Env

-----------------------------------------------------------------------------
(* Nothing left behind.  A resource that ends stays that way in every copy   *)
(* of it, the object a copy names is its one object until then, and what is  *)
(* there still has the finalizer of its resource to answer for it.           *)

\* Every copy of c is of a resource being deleted: no pass will create for it again.
Ending(c) ==
  /\ api[c].there => api[c].deleting
  /\ cache[c].there => cache[c].deleting
  /\ pass[c].pc # "idle" => pass[c].obj.deleting

\* An id recorded for c names the object c made, unless that one was deleted for good.
Tied(c, i) == i # 0 => i \in MadeBy(c) \/ (Ending(c) /\ MadeBy(c) = {})

\* The steps of a pass that works on a resource nobody deletes, its finalizer taken.
Working == {"locate", "lookup", "owns", "create", "update"}

\* What c's pass may count on.
TiedPass(c, p) ==
  /\ Tied(c, p.obj.id) /\ Tied(c, p.newID)
  /\ p.obj.deleting => Ending(c)
  /\ p.pc \in Working \cup {"finalizer"} => ~p.obj.deleting
  /\ p.pc \in Working => api[c].there /\ api[c].fin
  /\ p.pc \in {"deleting", "stamp", "delete", "release"} => p.obj.deleting
  /\ p.pc = "owns" /\ p.live.uid = c => p.match \in MadeBy(c)
  /\ p.pc = "release" => MadeBy(c) = {}

\* What holds of c: its object carries its stamp and is answered for by its finalizer,
\* and the informer's copy is never ahead of the deletion it was told of.
Answered(c) ==
  /\ api[c].there => Tied(c, api[c].id)
  /\ cache[c].there => Tied(c, cache[c].id)
  /\ pass[c].pc # "idle" => TiedPass(c, pass[c])
  /\ \A i \in MadeBy(c) : nb[i].uid = c
  /\ MadeBy(c) # {} => api[c].there /\ api[c].fin
  /\ cache[c].there /\ cache[c].deleting => (api[c].there => api[c].deleting)
  /\ cache[c].there /\ cache[c].fin /\ ~cache[c].deleting => api[c].there /\ api[c].fin

LInv == asked = {} /\ \A c \in CRs : Answered(c)

\* The endpoint stamps, everybody fails on a conflict and deletes with the resource, and
\* the surroundings leave the engine's objects, its finalizers and its endpoint alone.
Undisturbed ==
  /\ Stamps
  /\ Policies \subseteq {"Fail"} /\ DelPolicies \subseteq {"Delete"} /\ Modes \subseteq {"Live"}
  /\ Env \subseteq {"HumanCreate"}

-----------------------------------------------------------------------------
(* What a step of a pass may do that leaves both stores alone.               *)

\* Two copies of one resource, status apart.
Like(r, s) == s.key = r.key /\ s.deleting = r.deleting /\ s.fin = r.fin

\* Pass q goes on with what p knew.
Carries(p, q) == Like(p.obj, q.obj) /\ q.obj.id = p.obj.id /\ q.newID = p.newID

\* c's pass p stops, or is over.
Ends(p, q) == q = Idle \/ (q.pc \in {"finish", "record"} /\ Carries(p, q))

\* It gives up a recorded id NetBox no longer knows.
Forgets(p, q) ==
  /\ p.pc \in {"locate", "update"} /\ q.pc \in {"lookup", "finish"}
  /\ p.obj.id # 0 /\ ~nb[p.obj.id].there
  /\ Like(p.obj, q.obj) /\ q.obj.id = 0 /\ q.newID = p.newID

\* It goes from the recorded id to the natural key, to a POST, or to one match.
Searches(p, q) ==
  /\ Carries(p, q)
  /\ \/ p.pc = "locate" /\ q.pc = "lookup"
     \/ p.pc = "lookup" /\ q.pc = "create" /\ Matching(p.obj.key) = {}
     \/ /\ p.pc = "lookup" /\ q.pc = "owns"
        /\ q.match \in Matching(p.obj.key) /\ q.live = nb[q.match]

\* It goes on with the object its id names, or with the match it may have.
Settles(c, p, q) ==
  /\ q.pc = "update" /\ Like(p.obj, q.obj) /\ q.newID = p.newID
  /\ \/ /\ p.pc = "locate" /\ q.obj.id = p.obj.id /\ p.obj.id # 0
        /\ nb[p.obj.id].there /\ q.live = nb[p.obj.id]
     \/ /\ p.pc = "owns" /\ q.obj.id = p.match /\ q.live = p.live
        /\ \/ p.live.uid = c
           \/ api[c].there /\ api[c].id = p.match
           \/ Adopts(p)

\* It is about to POST a replacement it did not have to make room for.
Replacing(p, q) == p.pc = "update" /\ KeyDrift(p) /\ q.pc = "recreate" /\ Carries(p, q)

\* It goes through the deletion: by id, by stamp, or with nothing left to delete.
Dismantles(c, p, q) ==
  /\ Like(p.obj, q.obj) /\ q.newID = p.newID
  /\ \/ p.pc = "deleting" /\ q.pc \in {"stamp", "delete"} /\ q.obj.id = p.obj.id
     \/ p.pc = "stamp" /\ q.pc = "delete" /\ q.obj.id \in Stamped(c)
     \/ /\ q.pc = "release" /\ q.obj.id = p.obj.id
        /\ \/ p.pc = "deleting" /\ (p.obj.del # "Delete" \/ ~Stamps \/ "Outage" \in Env)
           \/ p.pc = "stamp" /\ Stamped(c) = {}
           \/ p.pc = "delete" /\ (p.mode = "DryRun" \/ ~nb[p.obj.id].there)

Turned(c, p, q) ==
  \/ Ends(p, q) \/ Forgets(p, q) \/ Searches(p, q) \/ Settles(c, p, q)
  \/ Replacing(p, q) \/ Dismantles(c, p, q)

LEMMA MoveLike ==
  ASSUME NEW p \in Pass, NEW pc \in Steps
  PROVE  LET q == [p EXCEPT !.pc = pc] IN q.pc = pc /\ Carries(p, q) /\ q.live = p.live
  BY DEF Pass, Carries, Like

LEMMA StopLike ==
  ASSUME NEW p \in Pass, NEW reason \in Reasons
  PROVE  LET q == Stop(p, reason) IN q.pc = "finish" /\ Carries(p, q)
  BY DEF Pass, Stop, Carries, Like, Resource

LEMMA GiveUpLike ==
  ASSUME NEW r \in Resource
  PROVE  GiveUpID(r) \in Resource /\ Like(r, GiveUpID(r)) /\ GiveUpID(r).id = 0
  BY IdRange DEF GiveUpID, Resource, Like

LEMMA StopGoneLike ==
  ASSUME NEW p \in Pass
  PROVE  LET q == StopGone(p) IN
         q.pc = "finish" /\ Like(p.obj, q.obj) /\ q.obj.id = 0 /\ q.newID = p.newID
  <1> DEFINE g == [p EXCEPT !.obj = GiveUpID(@)]
  <1>1. p.obj \in Resource
    BY DEF Pass
  <1>2. g \in Pass /\ g.newID = p.newID /\ g.obj.id = 0 /\ Like(p.obj, g.obj)
    BY <1>1, GiveUpLike DEF Pass
  <1>3. StopGone(p) = Stop(g, "APIError") /\ "APIError" \in Reasons
    BY DEF StopGone, g, Reasons
  <1> HIDE DEF g
  <1>4. Carries(g, Stop(g, "APIError")) /\ Stop(g, "APIError").pc = "finish"
    BY <1>2, <1>3, StopLike
  <1> QED
    BY <1>2, <1>3, <1>4 DEF Carries, Like

LEMMA TakesLike ==
  ASSUME NEW p \in Pass, NEW a \in BOOLEAN
  PROVE  LET q == Takes(p, a) IN
         /\ q.pc = "update" /\ Like(p.obj, q.obj) /\ q.obj.id = p.match
         /\ q.newID = p.newID /\ q.live = p.live
  BY DEF Pass, Takes, Like, Resource

LEMMA WrittenLike ==
  ASSUME NEW p \in Pass, NEW i \in Ids
  PROVE  LET q == Written(p, i) IN
         /\ q.pc = "finish" /\ Like(p.obj, q.obj) /\ q.obj.id = i /\ q.newID \in {0, i}
  <1> DEFINE s == Stop(p, "Synced")
             r == [s.obj EXCEPT !.id = i]
             n == IF i = p.was.id THEN 0 ELSE i
  <1>1. s \in Pass /\ s.pc = "finish" /\ Carries(p, s)
    BY StopIs, StopLike DEF Reasons
  <1>2. s.obj \in Resource
    BY <1>1 DEF Pass
  <1> HIDE DEF s
  <1>3. r.id = i /\ Like(p.obj, r)
    BY <1>1, <1>2 DEF Resource, Carries, Like
  <1>4. Written(p, i) = [s EXCEPT !.obj = r, !.wrote = TRUE, !.newID = n]
    BY DEF Written, s
  <1>5. n \in {0, i}
    OBVIOUS
  <1> HIDE DEF r, n
  <1> QED
    BY <1>1, <1>3, <1>4, <1>5 DEF Pass

\* A step of c's pass that writes nothing is a turn.
Turn(c) == \E q \in Pass \cup {Idle} : Go(c, q) /\ Turned(c, pass[c], q)

LEMMA IdleTurn ==
  ASSUME NEW c \in CRs, Go(c, Idle)
  PROVE  Turn(c)
  BY DEF Turn, Turned, Ends

LEMMA StopTurn ==
  ASSUME NEW c \in CRs, pass[c] \in Pass, NEW reason \in Reasons, Go(c, Stop(pass[c], reason))
  PROVE  Turn(c)
  BY StopIs, StopLike DEF Turn, Turned, Ends

LEMMA RecordTurn ==
  ASSUME NEW c \in CRs, pass[c] \in Pass, Go(c, [pass[c] EXCEPT !.pc = "record"])
  PROVE  Turn(c)
  <1>1. "record" \in Steps \ {"idle"}
    BY DEF Steps
  <1> QED
    BY <1>1, MoveIs, MoveLike DEF Turn, Turned, Ends

LEMMA LocateTurns ==
  ASSUME IInv, NEW c \in CRs, Locate(c)
  PROVE  Turn(c)
  <1> DEFINE p == pass[c]
  <1>0. /\ p.pc = "locate" /\ p \in Pass /\ p.obj \in Resource /\ p.obj.id \in 0..MaxId
    BY AtPass DEF Locate, At
  <1>1. CASE p.obj.id = 0
    <2>1. "lookup" \in Steps \ {"idle"} /\ Go(c, [p EXCEPT !.pc = "lookup"])
      BY <1>1 DEF Steps, Locate
    <2> DEFINE q == [p EXCEPT !.pc = "lookup"]
    <2>2. q \in Pass /\ q.pc = "lookup" /\ Carries(p, q)
      BY <1>0, <2>1, MoveIs, MoveLike
    <2>3. Go(c, q)
      BY <2>1
    <2> HIDE DEF q
    <2>4. Searches(p, q)
      BY <1>0, <2>2 DEF Searches
    <2> QED
      BY <2>2, <2>3, <2>4 DEF Turn, Turned
  <1>2. CASE p.obj.id # 0 /\ nb[p.obj.id].there
    <2> DEFINE q == [p EXCEPT !.pc = "update", !.match = p.obj.id, !.live = nb[p.obj.id]]
    <2>1. nb[p.obj.id] \in Object \cup {Absent}
      BY <1>0, <1>2, IdRange DEF IInv, TypeOK
    <2>2. /\ q \in Pass /\ q.pc = "update" /\ q.obj = p.obj /\ q.newID = p.newID
          /\ q.live = nb[p.obj.id]
      BY <1>0, <2>1 DEF Pass, Steps
    <2>3. Go(c, q)
      BY <1>2 DEF Locate
    <2> HIDE DEF q
    <2>4. Settles(c, p, q)
      BY <1>0, <1>2, <2>2 DEF Settles, Like
    <2> QED
      BY <2>2, <2>3, <2>4 DEF Turn, Turned
  <1>3. CASE p.obj.id # 0 /\ ~nb[p.obj.id].there
    <2> DEFINE q == [p EXCEPT !.pc = "lookup", !.obj = GiveUpID(@)]
    <2>1. /\ q \in Pass /\ q.pc = "lookup" /\ q.newID = p.newID
          /\ q.obj.id = 0 /\ Like(p.obj, q.obj)
      BY <1>0, GiveUpLike DEF Pass, Steps
    <2>2. Go(c, q)
      BY <1>3 DEF Locate
    <2> HIDE DEF q
    <2>3. Forgets(p, q)
      BY <1>0, <1>3, <2>1 DEF Forgets
    <2> QED
      BY <2>1, <2>2, <2>3 DEF Turn, Turned
  <1> QED
    BY <1>1, <1>2, <1>3

LEMMA LookupTurns ==
  ASSUME IInv, NEW c \in CRs, Lookup(c)
  PROVE  Turn(c)
  <1> DEFINE p == pass[c]
             found == Matching(p.obj.key)
  <1>0. p.pc = "lookup" /\ p \in Pass
    BY AtPass DEF Lookup, At
  <1>1. CASE found = {} /\ Go(c, [p EXCEPT !.pc = "create"])
    <2>1. "create" \in Steps \ {"idle"}
      BY DEF Steps
    <2> DEFINE q == [p EXCEPT !.pc = "create"]
    <2>2. q \in Pass /\ q.pc = "create" /\ Carries(p, q)
      BY <1>0, <2>1, MoveIs, MoveLike
    <2>3. Go(c, q)
      BY <1>1
    <2> HIDE DEF q
    <2>4. Searches(p, q)
      BY <1>0, <1>1, <2>2 DEF Searches
    <2> QED
      BY <2>2, <2>3, <2>4 DEF Turn, Turned
  <1>2. ASSUME NEW i \in found, Go(c, [p EXCEPT !.pc = "owns", !.match = i, !.live = nb[i]])
        PROVE  Turn(c)
    <2> DEFINE q == [p EXCEPT !.pc = "owns", !.match = i, !.live = nb[i]]
    <2>1. i \in 0..MaxId /\ nb[i] \in Object \cup {Absent}
      BY ConstantsAssumption DEF Matching, IInv, TypeOK, Ids
    <2>2. /\ q \in Pass /\ q.pc = "owns" /\ q.obj = p.obj /\ q.newID = p.newID
          /\ q.match = i /\ q.live = nb[i]
      BY <1>0, <2>1 DEF Pass, Steps
    <2> HIDE DEF q
    <2>3. Searches(p, q)
      BY <1>0, <2>2 DEF Searches, Carries, Like
    <2> QED
      BY <1>2, <2>2, <2>3 DEF Turn, Turned, q
  <1>3. CASE Go(c, Stop(p, "Conflict"))
    BY <1>0, <1>3, StopTurn DEF Reasons
  <1> QED
    BY <1>1, <1>2, <1>3 DEF Lookup

LEMMA ClaimTurns ==
  ASSUME IInv, NEW c \in CRs, Claim(c)
  PROVE  Turn(c)
  <1> DEFINE p == pass[c]
  <1>0. p.pc = "owns" /\ p \in Pass /\ p.obj.adopted \in BOOLEAN
    BY AtPass DEF Claim, At, Resource
  <1>1. ASSUME NEW a \in BOOLEAN, Go(c, Takes(p, a)),
               p.live.uid = c \/ (api[c].there /\ api[c].id = p.match) \/ Adopts(p)
        PROVE  Turn(c)
    <2>1. Takes(p, a) \in Pass
      BY <1>0, TakesIs
    <2>2. Settles(c, p, Takes(p, a))
      BY <1>0, <1>1, TakesLike DEF Settles
    <2> QED
      BY <1>1, <2>1, <2>2 DEF Turn, Turned
  <1>2. CASE Go(c, Idle)
    BY <1>2, IdleTurn
  <1>3. CASE Go(c, Stop(p, "Conflict"))
    BY <1>0, <1>3, StopTurn DEF Reasons
  <1>4. api[c].there => api[c].adopted \in BOOLEAN
    BY ThereIsResource DEF IInv, TypeOK, Resource
  <1> QED
    BY <1>0, <1>1, <1>2, <1>3, <1>4 DEF Claim, StampedMine

LEMMA DeletionTurns ==
  ASSUME IInv, NEW c \in CRs,
         \/ Deleting(c) \/ EndpointNotReady(c) \/ DeleteByStamp(c)
         \/ DeleteObject(c) /\ UNCHANGED nb
  PROVE  Turn(c)
  <1> DEFINE p == pass[c]
             move(pc) == [p EXCEPT !.pc = pc]
  <1>0. /\ p.pc # "idle" /\ p \in Pass /\ p.obj \in Resource
    BY AtPass DEF Deleting, EndpointNotReady, DeleteByStamp, DeleteObject, At
  <1>1. ASSUME NEW pc \in {"stamp", "delete", "release"}, Go(c, move(pc)),
               \/ p.pc = "deleting" /\ pc # "release"
               \/ /\ p.pc = "deleting"
                  /\ p.obj.del # "Delete" \/ ~Stamps \/ "Outage" \in Env
               \/ p.pc = "stamp" /\ pc = "release" /\ Stamped(c) = {}
               \/ p.pc = "delete" /\ pc = "release" /\ (p.mode = "DryRun" \/ ~nb[p.obj.id].there)
        PROVE  Turn(c)
    <2>1. pc \in Steps \ {"idle"}
      BY DEF Steps
    <2>2. move(pc) \in Pass /\ move(pc).pc = pc /\ Carries(p, move(pc))
      BY <1>0, <2>1, MoveIs, MoveLike
    <2> HIDE DEF move
    <2>3. Dismantles(c, p, move(pc))
      BY <1>1, <2>2 DEF Dismantles, Carries
    <2> QED
      BY <1>1, <2>2, <2>3 DEF Turn, Turned
  <1>2. CASE Deleting(c)
    BY <1>1, <1>2, IdleTurn DEF Deleting, At
  <1>3. CASE EndpointNotReady(c)
    BY <1>0, <1>1, <1>3, StopTurn DEF EndpointNotReady, At, Reasons
  <1>4. CASE DeleteByStamp(c)
    <2>1. ASSUME NEW i \in Stamped(c), Go(c, [p EXCEPT !.pc = "delete", !.obj = [@ EXCEPT !.id = i]])
          PROVE  Turn(c)
      <3> DEFINE q == [p EXCEPT !.pc = "delete", !.obj = [@ EXCEPT !.id = i]]
      <3>1. i \in 0..MaxId
        BY ConstantsAssumption DEF Stamped, Ids
      <3>2. /\ q \in Pass /\ q.pc = "delete" /\ q.newID = p.newID
            /\ q.obj.id = i /\ Like(p.obj, q.obj)
        BY <1>0, <3>1 DEF Pass, Steps, Resource, Like
      <3> HIDE DEF q
      <3>3. Dismantles(c, p, q)
        BY <1>4, <3>2 DEF Dismantles, DeleteByStamp, At
      <3> QED
        BY <2>1, <3>2, <3>3 DEF Turn, Turned, q
    <2>2. CASE Stamped(c) = {} /\ Go(c, move("release"))
      BY <1>1, <1>4, <2>2 DEF DeleteByStamp, At
    <2>3. CASE Go(c, Stop(p, "Conflict"))
      BY <1>0, <2>3, StopTurn DEF Reasons
    <2> QED
      BY <1>4, <2>1, <2>2, <2>3 DEF DeleteByStamp
  <1>5. CASE DeleteObject(c) /\ UNCHANGED nb
    <2>1. CASE (p.mode = "DryRun" \/ ~nb[p.obj.id].there) /\ Go(c, move("release"))
      BY <1>1, <1>5, <2>1 DEF DeleteObject, At
    <2>2. CASE nb[p.obj.id].there /\ nb' = [nb EXCEPT ![p.obj.id] = Absent]
      <3>1. p.obj.id \in Ids
        BY <1>5, AtPass, IdRange DEF DeleteObject, At, OwnedPass
      <3>2. nb'[p.obj.id] = Absent
        BY <2>2, <3>1 DEF IInv, TypeOK
      <3> QED
        BY <1>5, <2>2, <3>2 DEF Absent
    <2> QED
      BY <1>5, <2>1, <2>2 DEF DeleteObject
  <1> QED
    BY <1>2, <1>3, <1>4, <1>5

-----------------------------------------------------------------------------
(* What a step of a pass may do to NetBox.                                   *)

\* c's pass ends with object i, or without it.
Concludes(p, q, i) ==
  /\ q.pc = "finish" /\ Like(p.obj, q.obj)
  /\ q.obj.id \in {i, p.obj.id} /\ q.newID \in {0, i, p.newID}

\* A POST mints a fresh id.
Posts(c) ==
  \E i \in Ids, o \in Object, q \in Pass :
    /\ pass[c].pc \in {"create", "recreate"} /\ ~Minted(i)
    /\ nb' = [nb EXCEPT ![i] = o] /\ maker' = [maker EXCEPT ![i] = c]
    /\ o.there /\ o.key = pass[c].obj.key /\ o.uid = StampOf(c)
    /\ Go(c, q) /\ Concludes(pass[c], q, i)

\* A PATCH of the object the pass names.
Patches(c) ==
  \E i \in Ids, o \in Object, q \in Pass :
    /\ pass[c].pc = "update" /\ i = pass[c].obj.id /\ nb[i].there
    /\ nb' = [nb EXCEPT ![i] = o] /\ maker' = maker
    /\ o.there /\ (KeyDrift(pass[c]) \/ o.key = nb[i].key)
    /\ o.uid = IF Stamps THEN c ELSE nb[i].uid
    /\ Go(c, q) /\ Concludes(pass[c], q, i)

\* A DELETE of the object the pass names, to replace it or for good.
Deletes(c) ==
  \E i \in Ids, q \in Pass :
    /\ i = pass[c].obj.id /\ nb[i].there
    /\ nb' = [nb EXCEPT ![i] = Absent] /\ maker' = maker
    /\ Go(c, q) /\ Carries(pass[c], q)
    /\ \/ pass[c].pc = "update" /\ KeyDrift(pass[c]) /\ q.pc \in {"recreate", "finish"}
       \/ pass[c].pc = "delete" /\ q.pc \in {"release", "finish"}

LEMMA PostKinds ==
  ASSUME IInv, NEW c \in CRs, pass[c].pc \in {"create", "recreate"}, Post(c, pass[c])
  PROVE  (Turn(c) /\ UNCHANGED <<nb, maker>>) \/ Posts(c)
  <1> DEFINE p == pass[c]
  <1>0. p \in Pass /\ p.obj \in Resource
    BY AtPass
  <1>1. CASE UNCHANGED <<nb, maker>> /\ (Go(c, Suppressed(p)) \/ Go(c, Stop(p, "Invalid")))
    BY <1>0, <1>1, StopTurn DEF Suppressed, Reasons
  <1>2. ASSUME NEW i \in NextId,
               nb' = [nb EXCEPT ![i] = [there |-> TRUE, key |-> p.obj.key, val |-> p.obj.val,
                                        uid |-> StampOf(c)]],
               maker' = [maker EXCEPT ![i] = c],
               Go(c, Written(p, i)) \/ Go(c, Stop(p, "APIError"))
        PROVE  Posts(c)
    <2> DEFINE o == [there |-> TRUE, key |-> p.obj.key, val |-> p.obj.val, uid |-> StampOf(c)]
    <2>1. i \in Ids /\ ~Minted(i)
      BY DEF NextId
    <2>2. o \in Object /\ o.there /\ o.key = p.obj.key /\ o.uid = StampOf(c)
      BY <1>0 DEF Object, StampOf, Resource
    <2>3. nb' = [nb EXCEPT ![i] = o]
      BY <1>2
    <2>4. PICK q \in Pass : Go(c, q) /\ Concludes(p, q, i)
      <3>1. "APIError" \in Reasons
        BY DEF Reasons
      <3>2. CASE Go(c, Written(p, i))
        BY <1>0, <2>1, <3>2, WrittenIs, WrittenLike DEF Concludes
      <3>3. CASE Go(c, Stop(p, "APIError"))
        <4>1. Stop(p, "APIError") \in Pass /\ Concludes(p, Stop(p, "APIError"), i)
          BY <1>0, <3>1, StopIs, StopLike DEF Concludes, Carries
        <4> QED
          BY <3>3, <4>1
      <3> QED
        BY <1>2, <3>2, <3>3
    <2> HIDE DEF o
    <2> QED
      BY <1>2, <2>1, <2>2, <2>3, <2>4 DEF Posts
  <1> QED
    BY <1>1, <1>2 DEF Post

LEMMA CreateKinds ==
  ASSUME IInv, NEW c \in CRs, Create(c) \/ RecreateCreate(c)
  PROVE  (Turn(c) /\ UNCHANGED <<nb, maker>>) \/ Posts(c)
  <1>1. pass[c].pc \in {"create", "recreate"} /\ pass[c] \in Pass
    BY AtPass DEF Create, RecreateCreate, At
  <1>2. CASE Post(c, pass[c])
    BY <1>1, <1>2, PostKinds
  <1>3. CASE ~Post(c, pass[c])
    <2>1. Go(c, Stop(pass[c], "AdoptOnly")) /\ UNCHANGED <<nb, maker>>
      BY <1>3 DEF Create, RecreateCreate
    <2> QED
      BY <1>1, <2>1, StopTurn DEF Reasons
  <1> QED
    BY <1>2, <1>3

LEMMA UpdateKinds ==
  ASSUME IInv, NEW c \in CRs, Update(c)
  PROVE  (Turn(c) /\ UNCHANGED <<nb, maker>>) \/ Patches(c)
  <1> DEFINE p == pass[c]
             i == p.obj.id
             Patched(o) == [o EXCEPT !.key = IF KeyDrift(p) THEN p.obj.key ELSE @,
                                     !.val = IF p.live.val # p.obj.val THEN p.obj.val ELSE @,
                                     !.uid = IF Stamps THEN c ELSE @]
  <1>0. p.pc = "update" /\ p \in Pass /\ p.obj \in Resource /\ i \in Ids
    BY AtPass, IdRange DEF Update, At, OwnedPass
  <1>1. CASE Go(c, Stop(p, "Synced")) /\ UNCHANGED nb
    BY <1>0, <1>1, StopTurn DEF Reasons, Update
  <1>2. CASE (Go(c, Suppressed(p)) \/ Go(c, Stop(p, "Invalid"))) /\ UNCHANGED nb
    BY <1>0, <1>2, StopTurn DEF Reasons, Update, Suppressed
  <1>3. CASE ~nb[i].there /\ Go(c, StopGone(p)) /\ UNCHANGED nb
    <2> DEFINE q == StopGone(p)
    <2>1. q \in Pass
      BY <1>0, StopGoneIs
    <2>2. Forgets(p, q)
      BY <1>0, <1>3, StopGoneLike, IdRange DEF Forgets, Ids
    <2> HIDE DEF q
    <2>3. Turn(c)
      BY <1>3, <2>1, <2>2 DEF Turn, Turned, q
    <2> QED
      BY <1>3, <2>3 DEF Update
  <1>4. CASE /\ nb[i].there
             /\ nb' = [nb EXCEPT ![i] = Patched(@)]
             /\ Go(c, Written(p, i)) \/ Go(c, Stop(p, "APIError"))
    <2> DEFINE o == Patched(nb[i])
    <2>1. nb[i] \in Object
      BY <1>0, <1>4, ThereIsObject DEF IInv, TypeOK
    <2>2. /\ o \in Object /\ o.there /\ (KeyDrift(p) \/ o.key = nb[i].key)
          /\ o.uid = IF Stamps THEN c ELSE nb[i].uid
      BY <1>0, <1>4, <2>1 DEF Object, Resource
    <2>3. nb' = [nb EXCEPT ![i] = o]
      BY <1>4
    <2>4. PICK q \in Pass : Go(c, q) /\ Concludes(p, q, i)
      <3>1. "APIError" \in Reasons
        BY DEF Reasons
      <3>2. CASE Go(c, Written(p, i))
        BY <1>0, <3>2, WrittenIs, WrittenLike DEF Concludes
      <3>3. CASE Go(c, Stop(p, "APIError"))
        <4>1. Stop(p, "APIError") \in Pass /\ Concludes(p, Stop(p, "APIError"), i)
          BY <1>0, <3>1, StopIs, StopLike DEF Concludes, Carries
        <4> QED
          BY <3>3, <4>1
      <3> QED
        BY <1>4, <3>2, <3>3
    <2>5. maker' = maker
      BY DEF Update
    <2> HIDE DEF o, Patched
    <2> QED
      BY <1>0, <1>4, <2>2, <2>3, <2>4, <2>5 DEF Patches
  <1> QED
    BY <1>1, <1>2, <1>3, <1>4 DEF Update

LEMMA DeleteKinds ==
  ASSUME IInv, NEW c \in CRs, RecreateDelete(c) \/ DeleteObject(c)
  PROVE  (Turn(c) /\ UNCHANGED <<nb, maker>>) \/ Deletes(c)
  <1> DEFINE p == pass[c]
             i == p.obj.id
             move(pc) == [p EXCEPT !.pc = pc]
  <1>0. p.pc \in {"update", "delete"} /\ p \in Pass /\ i \in Ids /\ maker' = maker
    BY AtPass, IdRange DEF RecreateDelete, DeleteObject, At, OwnedPass
  <1>1. /\ \A r \in {"APIError", "Blocked"} :
             /\ Stop(p, r) \in Pass /\ Stop(p, r).pc = "finish" /\ Carries(p, Stop(p, r))
        /\ \A pc \in {"recreate", "release"} :
             /\ move(pc) \in Pass /\ move(pc).pc = pc /\ Carries(p, move(pc))
    <2>1. ASSUME NEW r \in {"APIError", "Blocked"}
          PROVE  /\ Stop(p, r) \in Pass /\ Stop(p, r).pc = "finish" /\ Carries(p, Stop(p, r))
      <3>1. r \in Reasons
        BY DEF Reasons
      <3> QED
        BY <1>0, <3>1, StopIs, StopLike
    <2>2. ASSUME NEW pc \in {"recreate", "release"}
          PROVE  /\ move(pc) \in Pass /\ move(pc).pc = pc /\ Carries(p, move(pc))
      <3>1. pc \in Steps \ {"idle"}
        BY DEF Steps
      <3> QED
        BY <1>0, <3>1, MoveIs, MoveLike
    <2> HIDE DEF move
    <2> QED
      BY <2>1, <2>2
  <1> HIDE DEF move
  <1>2. CASE RecreateDelete(c)
    <2>0. p.pc = "update" /\ KeyDrift(p)
      BY <1>2 DEF RecreateDelete, At, Replaces
    <2>1. CASE Go(c, Stop(p, "Invalid")) /\ UNCHANGED nb
      BY <1>0, <2>1, StopTurn DEF Reasons
    <2>2. CASE Go(c, move("recreate")) /\ UNCHANGED nb
      <3>1. Replacing(p, move("recreate"))
        BY <1>1, <2>0 DEF Replacing
      <3> QED
        BY <1>0, <1>1, <2>2, <3>1 DEF Turn, Turned
    <2>3. CASE ~nb[i].there /\ Go(c, StopGone(p)) /\ UNCHANGED nb
      <3>1. StopGone(p) \in Pass
        BY <1>0, StopGoneIs
      <3>2. Forgets(p, StopGone(p))
        BY <1>0, <2>0, <2>3, StopGoneLike, IdRange DEF Forgets, Ids
      <3> QED
        BY <1>0, <2>3, <3>1, <3>2 DEF Turn, Turned
    <2>4. CASE /\ nb[i].there /\ nb' = [nb EXCEPT ![i] = Absent]
               /\ Go(c, move("recreate")) \/ Go(c, Stop(p, "APIError"))
      BY <1>0, <1>1, <2>0, <2>4 DEF Deletes
    <2> QED
      BY <1>2, <2>1, <2>2, <2>3, <2>4 DEF RecreateDelete, move
  <1>3. CASE DeleteObject(c)
    <2>0. p.pc = "delete"
      BY <1>3 DEF DeleteObject, At
    <2>1. CASE UNCHANGED nb
      BY <1>0, <1>3, <2>1, DeletionTurns
    <2>2. CASE /\ nb[i].there /\ nb' = [nb EXCEPT ![i] = Absent]
               /\ Go(c, move("release")) \/ Go(c, Stop(p, "Blocked"))
      BY <1>0, <1>1, <2>0, <2>2 DEF Deletes
    <2> QED
      BY <1>3, <2>1, <2>2 DEF DeleteObject, move
  <1> QED
    BY <1>2, <1>3

-----------------------------------------------------------------------------
(* What a step of a pass may do to the API server's copy, and all of it.     *)

\* The finalizer is taken, the status recorded, or the resource let go.
Saves(c) ==
  \E r \in Resource \cup {Absent}, q \in Pass \cup {Idle} :
    /\ pass[c].pc # "idle"
    /\ api' = [api EXCEPT ![c] = r] /\ Go(c, q)
    /\ \/ /\ pass[c].pc = "finalizer" /\ q.pc = "locate" /\ api[c].there /\ r.there /\ r.fin
          /\ r.key = api[c].key /\ r.deleting = api[c].deleting /\ r.id = api[c].id
          /\ q.obj.key = pass[c].obj.key /\ q.obj.deleting = pass[c].obj.deleting
          /\ q.obj.id = pass[c].obj.id /\ q.newID = pass[c].newID
       \/ /\ q = Idle /\ api[c].there /\ r.there /\ Like(api[c], r)
          /\ r.id \in {pass[c].obj.id, pass[c].newID}
       \/ q = Idle /\ pass[c].pc = "release" /\ r = Absent

\* A pass starts on the informer's copy.
Begins(c) ==
  \E q \in Pass :
    /\ pass[c].pc = "idle" /\ cache[c].there /\ Go(c, q)
    /\ q.pc = IF cache[c].deleting THEN "deleting"
              ELSE IF cache[c].fin THEN "locate" ELSE "finalizer"
    /\ q.obj = cache[c] /\ q.newID = 0

PassStep(c) ==
  /\ UNCHANGED <<cache, asked>>
  /\ \/ pass[c].pc # "idle" /\ Turn(c) /\ UNCHANGED <<api, nb, maker>>
     \/ Begins(c) /\ UNCHANGED <<api, nb, maker>>
     \/ Saves(c) /\ UNCHANGED <<nb, maker>>
     \/ (Posts(c) \/ Patches(c) \/ Deletes(c)) /\ UNCHANGED api

LEMMA BeginKinds ==
  ASSUME IInv, NEW c \in CRs, Begin(c)
  PROVE  Begins(c)
  <1>1. PICK m \in Modes :
          Go(c, [pc |-> IF cache[c].deleting THEN "deleting"
                        ELSE IF cache[c].fin THEN "locate" ELSE "finalizer",
                 obj |-> cache[c], was |-> StatusOf(cache[c]), latest |-> current[c],
                 mode |-> m, match |-> 0, live |-> Absent, newID |-> 0, wrote |-> FALSE])
    BY DEF Begin
  <1> DEFINE q == [pc |-> IF cache[c].deleting THEN "deleting"
                          ELSE IF cache[c].fin THEN "locate" ELSE "finalizer",
                   obj |-> cache[c], was |-> StatusOf(cache[c]), latest |-> current[c],
                   mode |-> m, match |-> 0, live |-> Absent, newID |-> 0, wrote |-> FALSE]
  <1>2. cache[c] \in Resource /\ current[c] \in BOOLEAN
    BY ThereIsResource DEF Begin, IInv, TypeOK
  <1>3. StatusOf(cache[c]) \in Status
    BY <1>2 DEF StatusOf, Status, Resource
  <1>4. /\ q \in Pass /\ q.obj = cache[c] /\ q.newID = 0
        /\ q.pc = IF cache[c].deleting THEN "deleting"
                  ELSE IF cache[c].fin THEN "locate" ELSE "finalizer"
    BY <1>2, <1>3, IdRange DEF Pass, Steps
  <1>5. pass[c].pc = "idle" /\ Go(c, q) /\ cache[c].there
    BY <1>1 DEF Begin, At
  <1> HIDE DEF q
  <1> QED
    BY <1>4, <1>5 DEF Begins

LEMMA SaveKinds ==
  ASSUME IInv, NEW c \in CRs,
         TakeFinalizer(c) \/ Finish(c) \/ RecordID(c) \/ Release(c)
  PROVE  (Turn(c) /\ UNCHANGED api) \/ Saves(c)
  <1> DEFINE p == pass[c]
  <1>0. /\ p.pc # "idle" /\ p \in Pass /\ p.obj \in Resource /\ p.newID \in 0..MaxId
        /\ p.latest => api[c].there
    BY AtPass DEF TakeFinalizer, Finish, RecordID, Release, At
  <1>1. api[c].there => api[c] \in Resource
    BY ThereIsResource DEF IInv, TypeOK
  <1>2. CASE UNCHANGED api /\ Go(c, Idle)
    BY <1>2, IdleTurn
  <1>3. CASE UNCHANGED api /\ Go(c, [p EXCEPT !.pc = "record"])
    BY <1>0, <1>3, RecordTurn
  <1>4. CASE TakeFinalizer(c) /\ p.latest
    <2> DEFINE r == [api[c] EXCEPT !.fin = TRUE]
               q == [p EXCEPT !.pc = "locate", !.obj = [@ EXCEPT !.fin = TRUE]]
    <2>1. /\ r \in Resource /\ r.there /\ r.fin /\ r.key = api[c].key
          /\ r.deleting = api[c].deleting /\ r.id = api[c].id
      BY <1>0, <1>1, <1>4 DEF Resource
    <2>2. /\ q \in Pass /\ q.pc = "locate" /\ q.newID = p.newID /\ q.obj.id = p.obj.id
          /\ q.obj.key = p.obj.key /\ q.obj.deleting = p.obj.deleting
      BY <1>0 DEF Pass, Steps, Resource
    <2>3. api' = [api EXCEPT ![c] = r] /\ Go(c, q) /\ p.pc = "finalizer"
      BY <1>4 DEF TakeFinalizer, At
    <2> HIDE DEF r, q
    <2> QED
      BY <1>0, <1>4, <2>1, <2>2, <2>3 DEF Saves
  <1>5. CASE Finish(c) /\ ~UNCHANGED api
    <2> DEFINE r == [api[c] EXCEPT !.id = p.obj.id, !.adopted = p.obj.adopted,
                                   !.reason = p.obj.reason]
    <2>1. p.latest /\ api' = [api EXCEPT ![c] = r] /\ Go(c, Idle)
      BY <1>5 DEF Finish
    <2>2. r \in Resource /\ r.there /\ Like(api[c], r) /\ r.id = p.obj.id
      BY <1>0, <1>1, <2>1 DEF Resource, Like
    <2> HIDE DEF r
    <2> QED
      BY <1>0, <2>1, <2>2 DEF Saves
  <1>6. CASE RecordID(c) /\ ~UNCHANGED api
    <2> DEFINE r == [api[c] EXCEPT !.id = p.newID]
    <2>1. api[c].there /\ api' = [api EXCEPT ![c] = r] /\ Go(c, Idle)
      BY <1>6 DEF RecordID
    <2>2. r \in Resource /\ r.there /\ Like(api[c], r) /\ r.id = p.newID
      BY <1>0, <1>1, <2>1 DEF Resource, Like
    <2> HIDE DEF r
    <2> QED
      BY <1>0, <2>1, <2>2 DEF Saves
  <1>7. CASE Release(c) /\ p.latest
    BY <1>0, <1>7 DEF Saves, Release, At
  <1> QED
    BY <1>2, <1>3, <1>4, <1>5, <1>6, <1>7 DEF TakeFinalizer, Finish, RecordID, Release

LEMMA FailureTurns ==
  ASSUME IInv, NEW c \in CRs, CallFails(c)
  PROVE  Turn(c)
  <1>1. pass[c] \in Pass
    BY AtPass DEF CallFails
  <1> QED
    BY <1>1, IdleTurn, StopTurn, RecordTurn DEF CallFails, Reasons

LEMMA PassStepIs ==
  ASSUME IInv, NEW c \in CRs, Step(c) \/ EndpointNotReady(c) \/ CallFails(c)
  PROVE  PassStep(c)
  <1>1. CASE Begin(c)
    BY <1>1, BeginKinds DEF PassStep, Begin, history
  <1>2. CASE Locate(c) \/ Lookup(c) \/ Claim(c) \/ Deleting(c) \/ DeleteByStamp(c)
    BY <1>2, LocateTurns, LookupTurns, ClaimTurns, DeletionTurns
    DEF PassStep, Locate, Lookup, Claim, Deleting, DeleteByStamp, At, history
  <1>3. CASE EndpointNotReady(c) \/ CallFails(c)
    BY <1>3, DeletionTurns, FailureTurns
    DEF PassStep, EndpointNotReady, CallFails, At, history
  <1>4. CASE TakeFinalizer(c) \/ Finish(c) \/ RecordID(c) \/ Release(c)
    <2>1. pass[c].pc # "idle" /\ UNCHANGED <<cache, asked, nb, maker>>
      BY <1>4 DEF TakeFinalizer, Finish, RecordID, Release, At, history
    <2> QED
      BY <1>4, <2>1, SaveKinds DEF PassStep
  <1>5. CASE Create(c) \/ RecreateCreate(c)
    BY <1>5, CreateKinds DEF PassStep, Create, RecreateCreate, At
  <1>6. CASE Update(c)
    BY <1>6, UpdateKinds DEF PassStep, Update, At
  <1>7. CASE RecreateDelete(c) \/ DeleteObject(c)
    BY <1>7, DeleteKinds DEF PassStep, RecreateDelete, DeleteObject, At
  <1> QED
    BY <1>1, <1>2, <1>3, <1>4, <1>5, <1>6, <1>7 DEF Step

-----------------------------------------------------------------------------
(* One object each: every step keeps the keys.                               *)

\* What keeps d's key, as long as no object gets another.
KeyedNext(d, k) ==
  /\ api'[d].there => KeyedCopy(nb, k, api'[d])
  /\ cache'[d].there => KeyedCopy(nb, k, cache'[d])
  /\ pass'[d].pc # "idle" => KeyedPass(nb, k, pass'[d])
  /\ \A i \in Ids : nb'[i].there /\ nb'[i].uid = d => nb[i].key = k

\* Every id a record names is one NetBox may have an object for.
LEMMA NamesIds ==
  ASSUME IInv, NEW c \in CRs
  PROVE  /\ api[c].there /\ api[c].id # 0 => api[c].id \in Ids /\ Minted(api[c].id)
         /\ cache[c].there /\ cache[c].id # 0 => cache[c].id \in Ids /\ Minted(cache[c].id)
         /\ pass[c].pc # "idle" =>
              /\ pass[c].obj.id # 0 => pass[c].obj.id \in Ids /\ Minted(pass[c].obj.id)
              /\ pass[c].newID # 0 => pass[c].newID \in Ids /\ Minted(pass[c].newID)
              /\ pass[c].pc = "owns" => pass[c].match \in Ids /\ Minted(pass[c].match)
  <1>1. \A i : Own(c, i) => Minted(i)
    BY ConstantsAssumption DEF Own, Minted
  <1>2. \A r \in Resource \cup {Absent} :
          r.there /\ r.id # 0 /\ OwnedCopy(c, r) => r.id \in Ids /\ Minted(r.id)
    <2> SUFFICES ASSUME NEW r \in Resource \cup {Absent}, r.there, r.id # 0, OwnedCopy(c, r)
                 PROVE  r.id \in Ids /\ Minted(r.id)
      OBVIOUS
    <2>1. r.id \in 0..MaxId
      BY ThereIsResource DEF Resource
    <2> QED
      BY <1>1, <2>1, IdRange DEF OwnedCopy
  <1>3. /\ api[c] \in Resource \cup {Absent} /\ (api[c].there => OwnedCopy(c, api[c]))
        /\ cache[c] \in Resource \cup {Absent} /\ (cache[c].there => OwnedCopy(c, cache[c]))
    BY DEF IInv, TypeOK, Owned
  <1>4. ASSUME pass[c].pc # "idle"
        PROVE  /\ pass[c].obj.id # 0 => pass[c].obj.id \in Ids /\ Minted(pass[c].obj.id)
               /\ pass[c].newID # 0 => pass[c].newID \in Ids /\ Minted(pass[c].newID)
               /\ pass[c].pc = "owns" => pass[c].match \in Ids /\ Minted(pass[c].match)
    BY <1>1, <1>4, AtPass, IdRange DEF OwnedPass, OwnedCopy
  <1> QED
    BY <1>2, <1>3, <1>4

LEMMA KeepsKeys ==
  ASSUME IInv, IInv', OInv, maker' = maker,
         \A i \in Ids : nb'[i].there => nb[i].there /\ nb'[i].key = nb[i].key,
         \A d \in CRs, k \in Keys : Keyed(d, k) => KeyedNext(d, k),
         \A d \in CRs : pass'[d].pc = "create" => MadeBy(d) = {}
  PROVE  OInv'
  <1>1. ASSUME NEW d \in CRs PROVE \E k \in Keys : Keyed(d, k)'
    <2>1. PICK k \in Keys : Keyed(d, k)
      BY DEF OInv
    <2>2. KeyedNext(d, k)
      BY <2>1
    <2>3. /\ api'[d].there /\ api'[d].id # 0 => api'[d].id \in Ids
          /\ cache'[d].there /\ cache'[d].id # 0 => cache'[d].id \in Ids
          /\ pass'[d].pc # "idle" =>
               /\ pass'[d].obj.id # 0 => pass'[d].obj.id \in Ids
               /\ pass'[d].newID # 0 => pass'[d].newID \in Ids
               /\ pass'[d].pc = "owns" => pass'[d].match \in Ids
      <3>1. \A r \in Resource \cup {Absent} : r.there /\ r.id # 0 => r.id \in Ids
        BY ThereIsResource, IdRange DEF Resource
      <3>2. api'[d] \in Resource \cup {Absent} /\ cache'[d] \in Resource \cup {Absent}
        BY DEF IInv, TypeOK
      <3>3. ASSUME pass'[d].pc # "idle"
            PROVE  /\ pass'[d].obj.id # 0 => pass'[d].obj.id \in Ids
                   /\ pass'[d].newID # 0 => pass'[d].newID \in Ids
                   /\ pass'[d].pc = "owns" => pass'[d].match \in Ids
        <4>1. pass'[d] \in Pass
          BY <3>3, BusyIsPass DEF IInv, TypeOK
        <4>2. pass'[d].pc = "owns" => pass'[d].match # 0
          BY <3>3 DEF IInv, Owned, OwnedPass
        <4> QED
          BY <4>1, <4>2, IdRange DEF Pass, Resource
      <3> QED
        BY <3>1, <3>2, <3>3
    <2>4. \A i \in Ids : Named(nb, i, k) => Named(nb', i, k)
      BY DEF Named
    <2>5. api'[d].there => KeyedCopy(nb', k, api'[d])
      BY <2>2, <2>3, <2>4 DEF KeyedNext, KeyedCopy
    <2>6. cache'[d].there => KeyedCopy(nb', k, cache'[d])
      BY <2>2, <2>3, <2>4 DEF KeyedNext, KeyedCopy
    <2>7. pass'[d].pc # "idle" => KeyedPass(nb', k, pass'[d])
      BY <2>2, <2>3, <2>4 DEF KeyedNext, KeyedPass, KeyedCopy
    <2>8. \A i \in Ids : nb'[i].there /\ (maker'[i] = d \/ nb'[i].uid = d) => nb'[i].key = k
      BY <2>1, <2>2 DEF Keyed, KeyedNext
    <2>9. Keyed(d, k)'
      BY <2>5, <2>6, <2>7, <2>8 DEF Keyed
    <2> QED
      BY <2>9
  <1>2. ASSUME NEW d \in CRs PROVE MadeBy(d)' \subseteq MadeBy(d)
    BY DEF MadeBy
  <1>3. Single'
    BY <1>2 DEF OInv, Single
  <1> QED
    BY <1>1, <1>3 DEF OInv

\* Whoever a pass is not for keeps its key.
LEMMA OthersKeepKeys ==
  ASSUME NEW d \in CRs, NEW k \in Keys, Keyed(d, k),
         api'[d] = api[d], cache'[d] = cache[d], pass'[d] = pass[d],
         \A i \in Ids : nb'[i].there /\ nb'[i].uid = d => nb[i].there /\ nb[i].uid = d
  PROVE  KeyedNext(d, k)
  BY DEF Keyed, KeyedNext

LEMMA MadeMatches ==
  ASSUME NEW c \in CRs, NEW k \in Keys, Keyed(c, k)
  PROVE  MadeBy(c) \subseteq Matching(k)
  BY DEF Keyed, MadeBy, Matching

LEMMA TurnKeepsKeys ==
  ASSUME IInv, NEW c \in CRs, NEW k \in Keys, Keyed(c, k), pass[c].pc # "idle",
         NEW q \in Pass \cup {Idle}, Turned(c, pass[c], q), q.pc # "idle"
  PROVE  KeyedPass(nb, k, q) /\ (q.pc = "create" => MadeBy(c) = {})
  <1> DEFINE p == pass[c]
  <1>1. KeyedPass(nb, k, p)
    BY DEF Keyed
  <1>2. CASE Ends(p, q)
    BY <1>1, <1>2 DEF Ends, Carries, Like, KeyedPass, KeyedCopy, Idle
  <1>3. CASE Forgets(p, q)
    BY <1>1, <1>3 DEF Forgets, Like, KeyedPass, KeyedCopy
  <1>4. CASE Searches(p, q)
    BY <1>1, <1>4, MadeMatches
    DEF Searches, Carries, Like, KeyedPass, KeyedCopy, Matching, Named
  <1>5. CASE Settles(c, p, q)
    BY <1>1, <1>5 DEF Settles, Like, KeyedPass, KeyedCopy, Named
  <1>6. CASE Replacing(p, q)
    BY <1>1, <1>6 DEF Replacing, KeyDrift, KeyedPass, KeyedCopy
  <1>7. CASE Dismantles(c, p, q)
    <2>1. \A i \in Stamped(c) : nb[i].key = k
      BY DEF Stamped, Keyed
    <2> QED
      BY <1>1, <1>7, <2>1 DEF Dismantles, Like, KeyedPass, KeyedCopy, Named
  <1> QED
    BY <1>2, <1>3, <1>4, <1>5, <1>6, <1>7 DEF Turned

\* A pass goes on, and NetBox keeps the keys of what stays.
LEMMA GoKeepsKeys ==
  ASSUME IInv, IInv', OInv, NEW c \in CRs, NEW q \in Pass \cup {Idle}, Go(c, q),
         q.pc # "idle" => \A k \in Keys : Keyed(c, k) => KeyedPass(nb, k, q),
         q.pc = "create" => MadeBy(c) = {},
         \A k \in Keys : Keyed(c, k) => (api'[c].there => KeyedCopy(nb, k, api'[c])),
         \A d \in CRs \ {c} : api'[d] = api[d],
         cache' = cache, maker' = maker,
         \A i \in Ids : nb'[i].there =>
           /\ nb[i].there /\ nb'[i].key = nb[i].key
           /\ \/ nb'[i].uid = nb[i].uid
              \/ nb'[i].uid = c /\ \A k \in Keys : Keyed(c, k) => nb[i].key = k
  PROVE  OInv'
  <1>1. /\ pass'[c] = q /\ \A d \in CRs \ {c} : pass'[d] = pass[d]
    BY GoIs DEF IInv, TypeOK
  <1>2. ASSUME NEW d \in CRs, NEW k \in Keys, Keyed(d, k)
        PROVE  KeyedNext(d, k)
    <2>1. CASE d = c
      <3>1. \A i \in Ids : nb'[i].there /\ nb'[i].uid = c => nb[i].key = k
        BY <1>2, <2>1 DEF Keyed
      <3> QED
        BY <1>1, <1>2, <2>1, <3>1 DEF Keyed, KeyedNext
    <2>2. CASE d # c
      BY <1>1, <1>2, <2>2, OthersKeepKeys
    <2> QED
      BY <2>1, <2>2
  <1>3. \A d \in CRs : pass'[d].pc = "create" => MadeBy(d) = {}
    BY <1>1 DEF OInv, Single
  <1> QED
    BY <1>2, <1>3, KeepsKeys

LEMMA PostsKeepsKeys ==
  ASSUME IInv, IInv', OInv, NEW c \in CRs, Posts(c), UNCHANGED <<api, cache>>
  PROVE  OInv'
  <1> DEFINE p == pass[c]
  <1>1. PICK i \in Ids, o \in Object, q \in Pass :
          /\ p.pc \in {"create", "recreate"} /\ ~Minted(i)
          /\ nb' = [nb EXCEPT ![i] = o] /\ maker' = [maker EXCEPT ![i] = c]
          /\ o.there /\ o.key = p.obj.key /\ o.uid = StampOf(c)
          /\ Go(c, q) /\ Concludes(p, q, i)
    BY DEF Posts
  <1>2. /\ pass'[c] = q /\ \A d \in CRs \ {c} : pass'[d] = pass[d]
        /\ nb'[i] = o /\ \A j \in Ids \ {i} : nb'[j] = nb[j]
        /\ maker'[i] = c /\ \A j \in Ids \ {i} : maker'[j] = maker[j]
    BY <1>1, GoIs DEF IInv, TypeOK
  <1>3. o.uid \in {c, NoCR} /\ NoCR \notin CRs
    BY <1>1, ConstantsAssumption DEF StampOf
  <1>4. \A k, j : Named(nb, j, k) /\ j \in Ids /\ Minted(j) => Named(nb', j, k)
    BY <1>1, <1>2 DEF Named
  <1>5. ASSUME NEW d \in CRs PROVE \E k \in Keys : Keyed(d, k)'
    <2>1. PICK k \in Keys : Keyed(d, k)
      BY DEF OInv
    <2>2. api'[d].there => KeyedCopy(nb', k, api'[d])
      BY <1>4, <2>1, NamesIds DEF Keyed, KeyedCopy
    <2>3. cache'[d].there => KeyedCopy(nb', k, cache'[d])
      BY <1>4, <2>1, NamesIds DEF Keyed, KeyedCopy
    <2>4. pass'[d].pc # "idle" => KeyedPass(nb', k, pass'[d])
      <3>1. CASE d # c
        <4>1. pass'[d] = pass[d]
          BY <1>2, <3>1
        <4>2. pass[d].pc # "idle" => KeyedPass(nb, k, pass[d])
          BY <2>1 DEF Keyed
        <4>3. pass[d].pc # "idle" => KeyedPass(nb', k, pass[d])
          BY <1>4, <4>2, NamesIds DEF KeyedPass, KeyedCopy
        <4> QED
          BY <4>1, <4>3
      <3>2. CASE d = c
        <4>1. KeyedPass(nb, k, p) /\ p.pc # "idle"
          BY <1>1, <2>1, <3>2 DEF Keyed
        <4>2. Named(nb', i, k)
          BY <1>1, <1>2, <4>1 DEF Named, KeyedPass, KeyedCopy
        <4>3. /\ p.obj.id # 0 => Named(nb', p.obj.id, k)
              /\ p.newID # 0 => Named(nb', p.newID, k)
          BY <1>4, <4>1, NamesIds DEF KeyedPass, KeyedCopy
        <4>4. KeyedPass(nb', k, q)
          BY <1>1, <4>1, <4>2, <4>3 DEF Concludes, Like, KeyedPass, KeyedCopy
        <4> QED
          BY <1>2, <3>2, <4>4
      <3> QED
        BY <3>1, <3>2
    <2>5. \A j \in Ids : nb'[j].there /\ (maker'[j] = d \/ nb'[j].uid = d) => nb'[j].key = k
      <3>1. ASSUME d = c PROVE o.key = k
        BY <1>1, <2>1, <3>1 DEF Keyed, KeyedPass, KeyedCopy
      <3> QED
        BY <1>2, <1>3, <2>1, <3>1 DEF Keyed
    <2>6. Keyed(d, k)'
      BY <2>2, <2>3, <2>4, <2>5 DEF Keyed
    <2> QED
      BY <2>6
  <1>6. \A d \in CRs : d # c => MadeBy(d)' = MadeBy(d)
    BY <1>1, <1>2 DEF MadeBy, Minted, IInv, Owned
  <1>7. MadeBy(c) = {}
    <2>1. p.pc = "create"
      <3>1. PICK k \in Keys : Keyed(c, k)
        BY DEF OInv
      <3> QED
        BY <1>1, <3>1 DEF Keyed, KeyedPass
    <2> QED
      BY <2>1 DEF OInv, Single
  <1>8. MadeBy(c)' \subseteq {i}
    BY <1>2, <1>7 DEF MadeBy
  <1>9. Single'
    BY <1>1, <1>2, <1>6, <1>8 DEF OInv, Single, Concludes
  <1> QED
    BY <1>5, <1>9 DEF OInv

LEMMA WritesKeepKeys ==
  ASSUME IInv, IInv', OInv, NEW c \in CRs, Patches(c) \/ Deletes(c), UNCHANGED <<api, cache>>
  PROVE  OInv'
  <1> DEFINE p == pass[c]
  <1>0. PICK k \in Keys : Keyed(c, k)
    BY DEF OInv
  <1>1. p.pc \in {"update", "delete"} /\ maker' = maker
    BY DEF Patches, Deletes
  <1>2. KeyedPass(nb, k, p) /\ (p.pc = "update" => ~KeyDrift(p))
    BY <1>0, <1>1 DEF Keyed, KeyedPass, KeyedCopy, KeyDrift
  <1>3. PICK q \in Pass :
          /\ Go(c, q) /\ Like(p.obj, q.obj) /\ q.pc \in {"finish", "release"}
          /\ q.obj.id = p.obj.id /\ q.newID \in {0, p.obj.id, p.newID}
    <2>1. CASE Patches(c)
      BY <2>1 DEF Patches, Concludes
    <2>2. CASE Deletes(c)
      BY <1>2, <2>2 DEF Deletes, Carries
    <2> QED
      BY <2>1, <2>2
  <1>4. ASSUME NEW e \in Keys, Keyed(c, e) PROVE KeyedPass(nb, e, q)
    <2>1. KeyedPass(nb, e, p)
      BY <1>1, <1>4 DEF Keyed
    <2> QED
      BY <1>3, <2>1 DEF KeyedPass, KeyedCopy, Like
  <1>5. p.obj.id \in Ids
    BY <1>1, AtPass, IdRange DEF OwnedPass
  <1>6. ASSUME NEW i \in Ids, nb'[i].there
        PROVE  /\ nb[i].there /\ nb'[i].key = nb[i].key
               /\ \/ nb'[i].uid = nb[i].uid
                  \/ nb'[i].uid = c /\ \A e \in Keys : Keyed(c, e) => nb[i].key = e
    <2>1. CASE Patches(c)
      <3>1. PICK o \in Object :
              /\ nb[p.obj.id].there /\ nb' = [nb EXCEPT ![p.obj.id] = o]
              /\ o.key = nb[p.obj.id].key /\ o.uid \in {c, nb[p.obj.id].uid}
        BY <1>2, <2>1 DEF Patches
      <3>2. CASE i = p.obj.id
        <4>1. nb'[i] = o
          BY <1>5, <3>1, <3>2 DEF IInv, TypeOK
        <4>2. \A e \in Keys : Keyed(c, e) => nb[i].key = e
          <5>1. i # 0
            BY <3>2, <1>1, AtPass DEF OwnedPass
          <5> QED
            BY <1>1, <3>1, <3>2, <5>1 DEF Keyed, KeyedPass, KeyedCopy, Named
        <4> QED
          BY <3>1, <3>2, <4>1, <4>2
      <3>3. CASE i # p.obj.id
        BY <1>6, <3>1, <3>3 DEF IInv, TypeOK
      <3> QED
        BY <3>2, <3>3
    <2>2. CASE Deletes(c)
      <3>1. nb' = [nb EXCEPT ![p.obj.id] = Absent]
        BY <2>2 DEF Deletes
      <3>2. i # p.obj.id /\ nb'[i] = nb[i]
        BY <1>5, <1>6, <3>1 DEF Absent, IInv, TypeOK
      <3> QED
        BY <1>6, <3>2
    <2> QED
      BY <2>1, <2>2
  <1>7. \A e \in Keys : Keyed(c, e) => (api'[c].there => KeyedCopy(nb, e, api'[c]))
    BY DEF Keyed
  <1> QED
    BY <1>1, <1>3, <1>4, <1>6, <1>7, GoKeepsKeys

LEMMA PassKeepsKeys ==
  ASSUME IInv, IInv', OInv, NEW c \in CRs, PassStep(c)
  PROVE  OInv'
  <1> USE DEF PassStep
  <1>1. CASE pass[c].pc # "idle" /\ Turn(c) /\ UNCHANGED <<api, nb, maker>>
    <2>1. PICK q \in Pass \cup {Idle} : Go(c, q) /\ Turned(c, pass[c], q)
      BY <1>1 DEF Turn
    <2>2. PICK k \in Keys : Keyed(c, k)
      BY DEF OInv
    <2>3. q.pc # "idle" => \A e \in Keys : Keyed(c, e) => KeyedPass(nb, e, q)
      BY <1>1, <2>1, TurnKeepsKeys
    <2>4. q.pc = "create" => MadeBy(c) = {}
      BY <1>1, <2>1, <2>2, TurnKeepsKeys
    <2>5. \A e \in Keys : Keyed(c, e) => (api'[c].there => KeyedCopy(nb, e, api'[c]))
      BY <1>1 DEF Keyed
    <2> QED
      BY <1>1, <2>1, <2>3, <2>4, <2>5, GoKeepsKeys
  <1>2. CASE Begins(c) /\ UNCHANGED <<api, nb, maker>>
    <2>1. PICK q \in Pass :
            /\ cache[c].there /\ Go(c, q)
            /\ q.pc \in {"deleting", "locate", "finalizer"}
            /\ q.obj = cache[c] /\ q.newID = 0
      BY <1>2 DEF Begins
    <2>2. \A e \in Keys : Keyed(c, e) => KeyedPass(nb, e, q)
      BY <2>1 DEF Keyed, KeyedPass
    <2>3. \A e \in Keys : Keyed(c, e) => (api'[c].there => KeyedCopy(nb, e, api'[c]))
      BY <1>2 DEF Keyed
    <2> QED
      BY <1>2, <2>1, <2>2, <2>3, GoKeepsKeys
  <1>3. CASE Saves(c) /\ UNCHANGED <<nb, maker>>
    <2>1. PICK r \in Resource \cup {Absent}, q \in Pass \cup {Idle} :
            /\ pass[c].pc # "idle"
            /\ api' = [api EXCEPT ![c] = r] /\ Go(c, q)
            /\ r.there => /\ api[c].there /\ r.key = api[c].key
                          /\ r.id \in {api[c].id, pass[c].obj.id, pass[c].newID}
            /\ q.pc # "idle" => /\ q.pc = "locate" /\ q.obj.key = pass[c].obj.key
                                /\ q.obj.id = pass[c].obj.id /\ q.newID = pass[c].newID
      <3>1. Idle.pc = "idle" /\ ~Absent.there
        BY DEF Idle, Absent
      <3> QED
        BY <1>3, <3>1 DEF Saves, Like
    <2>2. api'[c] = r /\ \A d \in CRs \ {c} : api'[d] = api[d]
      BY <2>1 DEF IInv, TypeOK
    <2>3. ASSUME NEW e \in Keys, Keyed(c, e), q.pc # "idle" PROVE KeyedPass(nb, e, q)
      BY <2>1, <2>3 DEF Keyed, KeyedPass, KeyedCopy
    <2>4. ASSUME NEW e \in Keys, Keyed(c, e), r.there PROVE KeyedCopy(nb, e, r)
      BY <2>1, <2>4 DEF Keyed, KeyedPass, KeyedCopy
    <2>5. q.pc # "create"
      BY <2>1
    <2> QED
      BY <1>3, <2>1, <2>2, <2>3, <2>4, <2>5, GoKeepsKeys
  <1>4. CASE (Posts(c) \/ Patches(c) \/ Deletes(c)) /\ UNCHANGED api
    BY <1>4, PostsKeepsKeys, WritesKeepKeys
  <1> QED
    BY <1>1, <1>2, <1>3, <1>4

-----------------------------------------------------------------------------
(* The steps of everybody else.                                              *)

\* A write of c's copy by somebody else: c's pass keeps all it knew.
Outside(c, r) ==
  \E q \in Pass \cup {Idle} :
    /\ api' = [api EXCEPT ![c] = r] /\ Go(c, q)
    /\ q.pc = pass[c].pc
    /\ q.pc # "idle" => /\ q.obj = pass[c].obj /\ q.newID = pass[c].newID
                        /\ q.match = pass[c].match /\ q.live = pass[c].live

LEMMA OutsideIs ==
  ASSUME IInv, NEW c \in CRs, NEW r, WriteOutside(c, r)
  PROVE  Outside(c, r)
  <1>0. pass[c] \in Pass \cup {Idle}
    BY DEF IInv, TypeOK
  <1>1. CASE pass[c].pc = "idle"
    <2>1. Go(c, pass[c])
      BY <1>1 DEF WriteOutside, Go, IInv, TypeOK
    <2> QED
      BY <1>0, <1>1, <2>1 DEF Outside, WriteOutside
  <1>2. CASE pass[c].pc # "idle"
    <2> DEFINE q == [pass[c] EXCEPT !.latest = FALSE]
    <2>1. pass[c] \in Pass
      BY <1>2, AtPass
    <2>2. /\ q \in Pass /\ q.pc = pass[c].pc /\ q.obj = pass[c].obj
          /\ q.newID = pass[c].newID /\ q.match = pass[c].match /\ q.live = pass[c].live
      BY <2>1 DEF Pass
    <2>3. api' = [api EXCEPT ![c] = r] /\ Go(c, q)
      BY <1>2 DEF WriteOutside, Go
    <2> HIDE DEF q
    <2> QED
      BY <2>2, <2>3 DEF Outside
  <1> QED
    BY <1>1, <1>2

LEMMA OutsideKeepsKeys ==
  ASSUME IInv, IInv', OInv, NEW c \in CRs, NEW r \in Resource \cup {Absent}, Outside(c, r),
         r.there => api[c].there /\ r.key = api[c].key /\ r.id = api[c].id,
         UNCHANGED <<cache, nb, maker>>
  PROVE  OInv'
  <1>1. PICK q \in Pass \cup {Idle} :
          /\ api' = [api EXCEPT ![c] = r] /\ Go(c, q)
          /\ q.pc = pass[c].pc
          /\ q.pc # "idle" => /\ q.obj = pass[c].obj /\ q.newID = pass[c].newID
                              /\ q.match = pass[c].match /\ q.live = pass[c].live
    BY DEF Outside
  <1>2. api'[c] = r /\ \A d \in CRs \ {c} : api'[d] = api[d]
    BY <1>1 DEF IInv, TypeOK
  <1>3. ASSUME NEW e \in Keys, Keyed(c, e), q.pc # "idle" PROVE KeyedPass(nb, e, q)
    BY <1>1, <1>3 DEF Keyed, KeyedPass
  <1>4. ASSUME NEW e \in Keys, Keyed(c, e), r.there PROVE KeyedCopy(nb, e, r)
    BY <1>4 DEF Keyed, KeyedCopy
  <1>5. q.pc = "create" => MadeBy(c) = {}
    BY <1>1 DEF OInv, Single
  <1> QED
    BY <1>1, <1>2, <1>3, <1>4, <1>5, GoKeepsKeys

LEMMA UserKeepsKeys ==
  ASSUME IInv, IInv', OInv, SteadyKeys, NEW c \in CRs,
         UserEdit(c) \/ UserDelete(c) \/ UserStrip(c)
  PROVE  OInv'
  <1>0. api[c].there /\ api[c] \in Resource
    BY ThereIsResource DEF UserEdit, UserDelete, UserStrip, IInv, TypeOK
  <1>1. PICK r \in Resource \cup {Absent} :
          /\ WriteOutside(c, r)
          /\ r.there => r.key = api[c].key /\ r.id = api[c].id
    <2>1. CASE UserEdit(c)
      <3>1. PICK v \in Vals, y \in Policies :
              WriteOutside(c, [api[c] EXCEPT !.key = api[c].key, !.val = v, !.policy = y])
        BY <2>1 DEF UserEdit, SteadyKeys
      <3> DEFINE r == [api[c] EXCEPT !.key = api[c].key, !.val = v, !.policy = y]
      <3>2. r \in Resource /\ r.key = api[c].key /\ r.id = api[c].id
        BY <1>0 DEF Resource
      <3> QED
        BY <3>1, <3>2
    <2>2. CASE WriteOutside(c, Absent)
      BY <2>2 DEF Absent
    <2>3. CASE WriteOutside(c, [api[c] EXCEPT !.deleting = TRUE])
      <3> DEFINE r == [api[c] EXCEPT !.deleting = TRUE]
      <3>1. r \in Resource /\ r.key = api[c].key /\ r.id = api[c].id
        BY <1>0 DEF Resource
      <3> QED
        BY <2>3, <3>1
    <2> QED
      BY <2>1, <2>2, <2>3 DEF UserDelete, UserStrip
  <1>2. UNCHANGED <<cache, nb, maker>>
    BY DEF UserEdit, UserDelete, UserStrip, history
  <1> QED
    BY <1>0, <1>1, <1>2, OutsideIs, OutsideKeepsKeys

\* The informer catches up, or a successor lists everything: copies of the resource.
LEMMA SyncKeepsKeys ==
  ASSUME IInv, IInv', OInv, (\E c \in CRs : CacheSync(c)) \/ Crash
  PROVE  OInv'
  <1>1. /\ \A d \in CRs : cache'[d] \in {cache[d], api[d]}
        /\ \A d \in CRs : pass'[d] = pass[d] \/ pass'[d].pc = "idle"
        /\ UNCHANGED <<api, nb, maker>>
    <2>1. CASE Crash
      BY <2>1 DEF Crash, Idle, history
    <2>2. CASE \E c \in CRs : CacheSync(c)
      BY <2>2 DEF CacheSync, IInv, TypeOK, history
    <2> QED
      BY <2>1, <2>2
  <1>2. \A d \in CRs, k \in Keys : Keyed(d, k) => KeyedNext(d, k)
    BY <1>1 DEF Keyed, KeyedNext
  <1>3. \A d \in CRs : pass'[d].pc = "create" => MadeBy(d) = {}
    BY <1>1 DEF OInv, Single
  <1> QED
    BY <1>1, <1>2, <1>3, KeepsKeys

\* An object created by hand is nobody's.
LEMMA HumanCreateKeepsKeys ==
  ASSUME IInv, IInv', OInv, HumanCreate
  PROVE  OInv'
  <1>1. PICK i \in NextId, k \in Keys, v \in Vals :
          /\ nb' = [nb EXCEPT ![i] = [there |-> TRUE, key |-> k, val |-> v, uid |-> NoCR]]
          /\ maker' = [maker EXCEPT ![i] = Human]
    BY DEF HumanCreate
  <1>2. i \in Ids /\ ~Minted(i)
    BY DEF NextId
  <1>3. /\ nb'[i].uid = NoCR /\ \A j \in Ids \ {i} : nb'[j] = nb[j]
        /\ maker'[i] = Human /\ \A j \in Ids \ {i} : maker'[j] = maker[j]
    BY <1>1, <1>2 DEF IInv, TypeOK
  <1>4. UNCHANGED <<api, cache, pass>>
    BY DEF HumanCreate
  <1>5. \A e, j : Named(nb, j, e) /\ j \in Ids /\ Minted(j) => Named(nb', j, e)
    BY <1>2, <1>3 DEF Named
  <1>6. ASSUME NEW d \in CRs PROVE \E e \in Keys : Keyed(d, e)'
    <2>1. PICK e \in Keys : Keyed(d, e)
      BY DEF OInv
    <2>2. api'[d].there => KeyedCopy(nb', e, api'[d])
      BY <1>4, <1>5, <2>1, NamesIds DEF Keyed, KeyedCopy
    <2>3. cache'[d].there => KeyedCopy(nb', e, cache'[d])
      BY <1>4, <1>5, <2>1, NamesIds DEF Keyed, KeyedCopy
    <2>4. pass'[d].pc # "idle" => KeyedPass(nb', e, pass'[d])
      BY <1>4, <1>5, <2>1, NamesIds DEF Keyed, KeyedPass, KeyedCopy
    <2>5. \A j \in Ids : nb'[j].there /\ (maker'[j] = d \/ nb'[j].uid = d) => nb'[j].key = e
      BY <1>3, <2>1, ConstantsAssumption DEF Keyed
    <2>6. Keyed(d, e)'
      BY <2>2, <2>3, <2>4, <2>5 DEF Keyed
    <2> QED
      BY <2>6
  <1>7. \A d \in CRs : MadeBy(d)' = MadeBy(d)
    <2>1. ~nb[i].there
      BY <1>2 DEF IInv, Owned
    <2> QED
      BY <1>3, <2>1, ConstantsAssumption DEF MadeBy
  <1>8. Single'
    BY <1>4, <1>7 DEF OInv, Single
  <1> QED
    BY <1>6, <1>8 DEF OInv

LEMMA HumanKeepsKeys ==
  ASSUME IInv, IInv', OInv, SteadyKeys, NEW i \in Ids, HumanEdit(i) \/ HumanDelete(i)
  PROVE  OInv'
  <1>1. UNCHANGED <<api, cache, pass, maker>>
    BY DEF HumanEdit, HumanDelete, history
  <1>2. PICK o \in Object \cup {Absent} :
          /\ nb' = [nb EXCEPT ![i] = o] /\ nb[i].there
          /\ o.there => o.key = nb[i].key /\ o.uid = nb[i].uid
    <2>1. CASE HumanEdit(i)
      <3>1. PICK v \in Vals : nb' = [nb EXCEPT ![i] = [@ EXCEPT !.key = nb[i].key, !.val = v]]
        BY <2>1 DEF HumanEdit, SteadyKeys
      <3> DEFINE o == [nb[i] EXCEPT !.key = nb[i].key, !.val = v]
      <3>2. nb[i] \in Object
        BY <2>1, ThereIsObject DEF HumanEdit, IInv, TypeOK
      <3>3. o \in Object /\ o.key = nb[i].key /\ o.uid = nb[i].uid
        BY <3>2 DEF Object
      <3>4. nb' = [nb EXCEPT ![i] = o] /\ nb[i].there
        BY <2>1, <3>1 DEF HumanEdit
      <3> QED
        BY <3>3, <3>4
    <2>2. CASE HumanDelete(i)
      <3>1. ~Absent.there
        BY DEF Absent
      <3> QED
        BY <2>2, <3>1 DEF HumanDelete
    <2> QED
      BY <2>1, <2>2
  <1>3. \A j \in Ids : nb'[j].there =>
          nb[j].there /\ nb'[j].key = nb[j].key /\ nb'[j].uid = nb[j].uid
    BY <1>2 DEF IInv, TypeOK
  <1>4. \A d \in CRs, k \in Keys : Keyed(d, k) => KeyedNext(d, k)
    BY <1>1, <1>3, OthersKeepKeys
  <1>5. \A d \in CRs : pass'[d].pc = "create" => MadeBy(d) = {}
    BY <1>1 DEF OInv, Single
  <1> QED
    BY <1>1, <1>3, <1>4, <1>5, KeepsKeys

LEMMA InitOInv == Init => OInv
  <1> SUFFICES ASSUME Init PROVE OInv
    OBVIOUS
  <1>1. ASSUME NEW c \in CRs PROVE \E k \in Keys : Keyed(c, k)
    <2>1. api[c] \in Resource /\ api[c].id = 0
      BY DEF Init, Applied
    <2>2. api[c].key \in Keys
      BY <2>1 DEF Resource
    <2>3. cache[c] = Absent /\ pass[c] = Idle /\ \A i \in Ids : nb[i] = Absent
      BY DEF Init
    <2>4. Keyed(c, api[c].key)
      BY <2>1, <2>3 DEF Keyed, KeyedCopy, Absent, Idle
    <2> QED
      BY <2>2, <2>4
  <1>2. Single
    BY DEF Init, Single, MadeBy, Absent, Idle
  <1> QED
    BY <1>1, <1>2 DEF OInv

LEMMA NextOInv ==
  ASSUME SteadyKeys
  PROVE  IInv /\ IInv' /\ OInv /\ [Next]_vars => OInv'
  <1> SUFFICES ASSUME IInv, IInv', OInv, [Next]_vars PROVE OInv'
    OBVIOUS
  <1>1. ASSUME NEW c \in CRs, Step(c) \/ EndpointNotReady(c) \/ CallFails(c) PROVE OInv'
    BY <1>1, PassStepIs, PassKeepsKeys
  <1>2. ASSUME NEW c \in CRs, UserEdit(c) \/ UserDelete(c) \/ UserStrip(c) PROVE OInv'
    BY <1>2, UserKeepsKeys
  <1>3. CASE (\E c \in CRs : CacheSync(c)) \/ Crash
    BY <1>3, SyncKeepsKeys
  <1>4. CASE HumanCreate
    BY <1>4, HumanCreateKeepsKeys
  <1>5. ASSUME NEW i \in Ids, HumanEdit(i) \/ HumanDelete(i) PROVE OInv'
    BY <1>5, HumanKeepsKeys
  <1>6. CASE UNCHANGED vars
    BY <1>6 DEF vars, OInv, Keyed, Single, MadeBy
  <1> QED
    BY <1>1, <1>2, <1>3, <1>4, <1>5, <1>6 DEF Next

\* Nobody has two objects, counted.
LEMMA SingleCounts ==
  ASSUME NEW S, \A i, j \in S : i = j
  PROVE  Cardinality(S) <= 1
  <1>1. CASE S = {}
    BY <1>1, FS_EmptySet
  <1>2. CASE S # {}
    <2>1. PICK x : S = {x}
      BY <1>2
    <2> QED
      BY <2>1, FS_Singleton
  <1> QED
    BY <1>1, <1>2

\* The engine never POSTs a second object for a resource whose first is there, wherever
\* nobody changes a natural key: any policies, lost answers, crashes, stale copies,
\* deletions by hand and outages, with or without a stamp or a unique constraint
\* (generic.go locate, lookup and create).
THEOREM MakesOne ==
  ASSUME SteadyKeys
  PROVE  Spec => []OneObjectEach
  <1>1. IInv /\ IInv' /\ OInv /\ [Next]_vars => OInv'
    BY NextOInv
  <1>2. OInv => OneObjectEach
    BY SingleCounts DEF OInv, Single, OneObjectEach
  <1> QED
    BY <1>1, <1>2, InitOInv, Inductive, PTL DEF Spec

-----------------------------------------------------------------------------
(* Nothing left behind: every step keeps the ties.                           *)

LEMMA TiesKept ==
  ASSUME NEW d \in CRs, MadeBy(d)' = MadeBy(d), Ending(d) => Ending(d)'
  PROVE  \A i : Tied(d, i) => Tied(d, i)'
  BY DEF Tied

\* Whoever a step is not about stays answered for.
LEMMA OthersAnswered ==
  ASSUME NEW d \in CRs, Answered(d), MadeBy(d)' = MadeBy(d),
         api'[d] = api[d], cache'[d] = cache[d], pass'[d] = pass[d],
         \A i \in MadeBy(d) : nb'[i].uid = d
  PROVE  Answered(d)'
  <1>1. Ending(d)' <=> Ending(d)
    BY DEF Ending
  <1>2. \A i : Tied(d, i) => Tied(d, i)'
    BY <1>1, TiesKept
  <1>3. \A p : TiedPass(d, p) => TiedPass(d, p)'
    BY <1>1, <1>2 DEF TiedPass
  <1> QED
    BY <1>2, <1>3 DEF Answered, Tied, TiedPass

\* With nobody asking for adoption, an object c may write is one it made.
LEMMA OwnIsMade ==
  ASSUME IInv, LInv, NEW c \in CRs, NEW i \in Ids, nb[i].there
  PROVE  /\ Own(c, i) => i \in MadeBy(c)
         /\ nb[i].uid = c => i \in MadeBy(c)
  BY DEF IInv, Owned, Own, LInv, MadeBy

\* What an undisturbed pass is like.
LEMMA Calm ==
  ASSUME IInv, Undisturbed, NEW c \in CRs, pass[c].pc # "idle"
  PROVE  /\ pass[c].mode = "Live" /\ pass[c].obj.del = "Delete" /\ ~Adopts(pass[c])
         /\ Stamps /\ "Outage" \notin Env
  BY AtPass DEF Undisturbed, Pass, Resource, Adopts

LEMMA NoDrift ==
  ASSUME OInv, NEW c \in CRs, pass[c].pc # "idle"
  PROVE  pass[c].pc # "recreate" /\ (pass[c].pc = "update" => ~KeyDrift(pass[c]))
  BY DEF OInv, Keyed, KeyedPass, KeyedCopy, KeyDrift

\* The turns of a pass.
LEMMA TurnTied ==
  ASSUME IInv, OInv, LInv, Undisturbed, NEW c \in CRs, pass[c].pc # "idle",
         NEW q \in Pass \cup {Idle}, Turned(c, pass[c], q), q.pc # "idle"
  PROVE  TiedPass(c, q) /\ q.obj.deleting = pass[c].obj.deleting
  <1> DEFINE p == pass[c]
  <1>0. /\ TiedPass(c, p) /\ OwnedPass(c, p)
        /\ api[c].there => Tied(c, api[c].id)
        /\ p.mode = "Live" /\ p.obj.del = "Delete" /\ ~Adopts(p) /\ Stamps /\ "Outage" \notin Env
    BY AtPass, Calm DEF LInv, Answered
  <1>1. p.pc \in Working => ~Ending(c)
    BY <1>0 DEF TiedPass, Ending
  <1>2. CASE Ends(p, q)
    BY <1>0, <1>2 DEF Ends, Carries, Like, TiedPass, Idle, Working
  <1>3. CASE Forgets(p, q)
    <2>1. p.obj.id \in MadeBy(c)
      BY <1>0, <1>1, <1>3 DEF Forgets, TiedPass, Tied, Working
    <2> QED
      BY <1>3, <2>1 DEF Forgets, MadeBy
  <1>4. CASE Searches(p, q)
    <2>1. q.pc = "owns" /\ q.live.uid = c => q.match \in MadeBy(c)
      BY <1>4, OwnIsMade DEF Searches, Matching
    <2>2. p.pc \in Working /\ q.pc \in {"lookup", "create", "owns"}
      BY <1>4 DEF Searches, Working
    <2> QED
      BY <1>0, <1>4, <2>1, <2>2 DEF Searches, Carries, Like, TiedPass, Working
  <1>5. CASE Settles(c, p, q)
    <2>1. p.pc \in Working /\ q.pc = "update"
      BY <1>5 DEF Settles, Working
    <2>2. Tied(c, q.obj.id)
      BY <1>0, <1>1, <1>5, <2>1 DEF Settles, TiedPass, Tied, OwnedPass
    <2> QED
      BY <1>0, <1>5, <2>1, <2>2 DEF Settles, Like, TiedPass, Working
  <1>6. CASE Replacing(p, q)
    BY <1>6, NoDrift DEF Replacing
  <1>7. CASE Dismantles(c, p, q)
    <2>1. p.pc \in {"deleting", "stamp", "delete"} /\ p.obj.deleting
      BY <1>0, <1>7 DEF Dismantles, TiedPass
    <2>2. Stamped(c) = MadeBy(c)
      <3>1. Stamped(c) \subseteq MadeBy(c)
        BY OwnIsMade DEF Stamped
      <3>2. MadeBy(c) \subseteq Stamped(c)
        BY DEF Stamped, MadeBy, LInv, Answered
      <3> QED
        BY <3>1, <3>2
    <2>3. Tied(c, q.obj.id)
      BY <1>0, <1>7, <2>2 DEF Dismantles, TiedPass, Tied
    <2>4. q.pc = "release" => MadeBy(c) = {}
      <3>1. CASE p.pc = "delete" /\ ~nb[p.obj.id].there
        BY <1>0, <3>1 DEF TiedPass, Tied, OwnedPass, MadeBy
      <3> QED
        BY <1>0, <1>7, <2>2, <3>1 DEF Dismantles
    <2>5. q.pc \in {"stamp", "delete", "release"}
      BY <1>7 DEF Dismantles
    <2> QED
      BY <1>0, <1>7, <2>1, <2>3, <2>4, <2>5 DEF Dismantles, Like, TiedPass, Working
  <1> QED
    BY <1>2, <1>3, <1>4, <1>5, <1>6, <1>7 DEF Turned

\* A pass goes on, its resource and the objects as they were.
LEMMA GoAnswered ==
  ASSUME IInv, LInv, NEW c \in CRs, NEW q \in Pass \cup {Idle}, Go(c, q),
         q.pc # "idle" => /\ Ending(c) => q.obj.deleting
                          /\ TiedPass(c, q),
         UNCHANGED <<api, cache, asked>>,
         \A d \in CRs : MadeBy(d)' = MadeBy(d) /\ \A i \in MadeBy(d) : nb'[i].uid = d
  PROVE  LInv'
  <1>1. /\ pass'[c] = q /\ \A d \in CRs \ {c} : pass'[d] = pass[d]
    BY GoIs DEF IInv, TypeOK
  <1>2. ASSUME NEW d \in CRs, d # c PROVE Answered(d)'
    BY <1>1, <1>2, OthersAnswered DEF LInv
  <1>3. Ending(c) => Ending(c)'
    BY <1>1 DEF Ending
  <1>4. \A i : Tied(c, i) => Tied(c, i)'
    BY <1>3, TiesKept
  <1>5. Answered(c)
    BY DEF LInv
  <1>6. q.pc # "idle" => TiedPass(c, q)'
    BY <1>3, <1>4 DEF TiedPass
  <1>7. Answered(c)'
    BY <1>1, <1>4, <1>5, <1>6 DEF Answered, TiedPass, Tied
  <1> QED
    BY <1>2, <1>7 DEF LInv

LEMMA SavesAnswered ==
  ASSUME IInv, LInv, NEW c \in CRs, Saves(c), UNCHANGED <<cache, nb, maker, asked>>
  PROVE  LInv'
  <1> DEFINE p == pass[c]
  <1>1. PICK r \in Resource \cup {Absent}, q \in Pass \cup {Idle} :
          /\ p.pc # "idle"
          /\ api' = [api EXCEPT ![c] = r] /\ Go(c, q)
          /\ \/ /\ p.pc = "finalizer" /\ q.pc = "locate" /\ api[c].there /\ r.there /\ r.fin
                /\ r.key = api[c].key /\ r.deleting = api[c].deleting /\ r.id = api[c].id
                /\ q.obj.key = p.obj.key /\ q.obj.deleting = p.obj.deleting
                /\ q.obj.id = p.obj.id /\ q.newID = p.newID
             \/ /\ q = Idle /\ api[c].there /\ r.there /\ Like(api[c], r)
                /\ r.id \in {p.obj.id, p.newID}
             \/ q = Idle /\ p.pc = "release" /\ r = Absent
    BY DEF Saves
  <1>2. /\ pass'[c] = q /\ \A d \in CRs \ {c} : pass'[d] = pass[d]
        /\ api'[c] = r /\ \A d \in CRs \ {c} : api'[d] = api[d]
    BY <1>1, GoIs DEF IInv, TypeOK
  <1>3. \A d \in CRs : MadeBy(d)' = MadeBy(d)
    BY DEF MadeBy
  <1>4. ASSUME NEW d \in CRs, d # c PROVE Answered(d)'
    BY <1>2, <1>3, <1>4, OthersAnswered DEF LInv, Answered
  <1>5. Answered(c) /\ TiedPass(c, p)
    BY <1>1 DEF LInv, Answered
  <1>6. Idle.pc = "idle" /\ ~Absent.there
    BY DEF Idle, Absent
  <1>7. Ending(c) => Ending(c)'
    BY <1>1, <1>2, <1>6 DEF Ending, Like
  <1>8. \A i : Tied(c, i) => Tied(c, i)'
    BY <1>3, <1>7, TiesKept
  <1>9. q.pc # "idle" => TiedPass(c, q)'
    <2>1. CASE q.pc = "locate" /\ p.pc = "finalizer"
      <3>1. ~p.obj.deleting /\ ~q.obj.deleting
        BY <1>1, <1>5, <1>6, <2>1 DEF TiedPass
      <3>2. Tied(c, q.obj.id)' /\ Tied(c, q.newID)'
        BY <1>1, <1>5, <1>6, <1>8, <2>1 DEF TiedPass
      <3>3. api'[c].there /\ api'[c].fin
        BY <1>1, <1>2, <1>6, <2>1
      <3> QED
        BY <2>1, <3>1, <3>2, <3>3 DEF TiedPass
    <2> QED
      BY <1>1, <1>6, <2>1
  <1>10. r.there => Tied(c, r.id)'
    BY <1>1, <1>5, <1>6, <1>8 DEF Answered, TiedPass
  <1>11. MadeBy(c) # {} => r.there /\ r.fin
    BY <1>1, <1>5 DEF Answered, TiedPass, Like
  <1>12. cache[c].there /\ cache[c].deleting => (r.there => r.deleting)
    BY <1>1, <1>5, <1>6 DEF Answered, Like
  <1>13. cache[c].there /\ cache[c].fin /\ ~cache[c].deleting => r.there /\ r.fin
    <2>1. CASE p.pc = "release"
      BY <1>5, <2>1 DEF TiedPass, Ending
    <2> QED
      BY <1>1, <1>5, <2>1 DEF Answered, Like
  <1>14. Answered(c)'
    <2>1. cache'[c].there => Tied(c, cache[c].id)'
      BY <1>5, <1>8 DEF Answered
    <2>2. (api[c].there => Tied(c, api[c].id))'
      BY <1>2, <1>10 DEF Tied
    <2>3. (cache[c].there => Tied(c, cache[c].id))'
      BY <2>1 DEF Tied
    <2>4. (pass[c].pc # "idle" => TiedPass(c, pass[c]))'
      BY <1>2, <1>9 DEF TiedPass, Tied
    <2> QED
      BY <1>2, <1>3, <1>5, <1>11, <1>12, <1>13, <2>2, <2>3, <2>4 DEF Answered
  <1> QED
    BY <1>4, <1>14 DEF LInv

LEMMA PostsAnswered ==
  ASSUME IInv, OInv, LInv, Undisturbed, NEW c \in CRs, Posts(c),
         UNCHANGED <<api, cache, asked>>
  PROVE  LInv'
  <1> DEFINE p == pass[c]
  <1>1. PICK i \in Ids, o \in Object, q \in Pass :
          /\ p.pc \in {"create", "recreate"} /\ ~Minted(i)
          /\ nb' = [nb EXCEPT ![i] = o] /\ maker' = [maker EXCEPT ![i] = c]
          /\ o.there /\ o.key = p.obj.key /\ o.uid = StampOf(c)
          /\ Go(c, q) /\ Concludes(p, q, i)
    BY DEF Posts
  <1>2. /\ pass'[c] = q /\ \A d \in CRs \ {c} : pass'[d] = pass[d]
        /\ nb'[i] = o /\ \A j \in Ids \ {i} : nb'[j] = nb[j]
        /\ maker'[i] = c /\ \A j \in Ids \ {i} : maker'[j] = maker[j]
    BY <1>1, GoIs DEF IInv, TypeOK
  <1>3. p.pc = "create" /\ MadeBy(c) = {}
    BY <1>1, NoDrift DEF OInv, Single
  <1>4. MadeBy(c)' = {i}
    BY <1>1, <1>2, <1>3 DEF MadeBy
  <1>5. ~nb[i].there
    BY <1>1 DEF IInv, Owned
  <1>6. ASSUME NEW d \in CRs, d # c PROVE Answered(d)'
    <2>1. MadeBy(d)' = MadeBy(d)
      BY <1>2, <1>5, <1>6 DEF MadeBy
    <2>2. \A j \in MadeBy(d) : nb'[j].uid = d
      BY <1>2, <1>5 DEF LInv, Answered, MadeBy
    <2> QED
      BY <1>2, <1>6, <2>1, <2>2, OthersAnswered DEF LInv
  <1>7. Answered(c) /\ TiedPass(c, p)
    BY <1>3 DEF LInv, Answered
  <1>8. /\ ~p.obj.deleting /\ api[c].there /\ api[c].fin /\ ~Ending(c)
    BY <1>3, <1>7 DEF TiedPass, Working, Ending
  <1>9. /\ api[c].id = 0 /\ (cache[c].there => cache[c].id = 0)
        /\ p.obj.id = 0 /\ p.newID = 0
    BY <1>3, <1>7, <1>8 DEF Answered, TiedPass, Tied
  <1>10. q.pc = "finish" /\ ~q.obj.deleting /\ q.obj.id \in {0, i} /\ q.newID \in {0, i}
    BY <1>1, <1>8, <1>9 DEF Concludes, Like
  <1>11. (Tied(c, 0) /\ Tied(c, i))'
    BY <1>4 DEF Tied
  <1>12. TiedPass(c, q)'
    BY <1>10, <1>11 DEF TiedPass, Working
  <1>13. o.uid = c
    BY <1>1 DEF StampOf, Undisturbed
  <1>14. Answered(c)'
    <2>1. (api[c].there => Tied(c, api[c].id))'
      BY <1>9 DEF Tied
    <2>2. (cache[c].there => Tied(c, cache[c].id))'
      BY <1>9 DEF Tied
    <2>3. (pass[c].pc # "idle" => TiedPass(c, pass[c]))'
      BY <1>2, <1>12 DEF TiedPass, Tied
    <2>4. (\A j \in MadeBy(c) : nb[j].uid = c)'
      BY <1>2, <1>4, <1>13
    <2> QED
      BY <1>7, <1>8, <2>1, <2>2, <2>3, <2>4 DEF Answered
  <1> QED
    BY <1>6, <1>14 DEF LInv

LEMMA PatchesAnswered ==
  ASSUME IInv, LInv, Undisturbed, NEW c \in CRs, Patches(c),
         UNCHANGED <<api, cache, asked>>
  PROVE  LInv'
  <1> DEFINE p == pass[c]
  <1>1. PICK i \in Ids, o \in Object, q \in Pass :
          /\ p.pc = "update" /\ i = p.obj.id /\ nb[i].there
          /\ nb' = [nb EXCEPT ![i] = o] /\ maker' = maker
          /\ o.there /\ o.uid = c
          /\ Go(c, q) /\ Concludes(p, q, i)
    BY DEF Patches, Undisturbed
  <1>2. nb'[i] = o /\ \A j \in Ids \ {i} : nb'[j] = nb[j]
    BY <1>1 DEF IInv, TypeOK
  <1>3. i \in MadeBy(c) /\ maker[i] = c
    <2>1. Own(c, i)
      BY <1>1, AtPass, IdRange DEF OwnedPass, OwnedCopy
    <2> QED
      BY <1>1, <2>1, OwnIsMade DEF MadeBy
  <1>4. ASSUME NEW d \in CRs PROVE MadeBy(d)' = MadeBy(d)
    BY <1>1, <1>2 DEF MadeBy
  <1>5. ASSUME NEW d \in CRs PROVE \A j \in MadeBy(d) : nb'[j].uid = d
    BY <1>1, <1>2, <1>3 DEF MadeBy, LInv, Answered
  <1>6. TiedPass(c, p)
    BY <1>1 DEF LInv, Answered
  <1>7. TiedPass(c, q) /\ (Ending(c) => q.obj.deleting)
    BY <1>1, <1>6 DEF Concludes, Like, TiedPass, Tied, Ending, Working
  <1> QED
    BY <1>1, <1>4, <1>5, <1>7, GoAnswered

LEMMA DeletesAnswered ==
  ASSUME IInv, OInv, LInv, NEW c \in CRs, Deletes(c), UNCHANGED <<api, cache, asked>>
  PROVE  LInv'
  <1> DEFINE p == pass[c]
  <1>1. PICK i \in Ids, q \in Pass :
          /\ i = p.obj.id /\ nb[i].there
          /\ nb' = [nb EXCEPT ![i] = Absent] /\ maker' = maker
          /\ Go(c, q) /\ Carries(p, q)
          /\ p.pc = "delete" /\ q.pc \in {"release", "finish"}
    <2>1. pass[c].pc # "idle"
      BY DEF Deletes
    <2> QED
      BY <2>1, NoDrift DEF Deletes
  <1>2. /\ pass'[c] = q /\ \A d \in CRs \ {c} : pass'[d] = pass[d]
        /\ ~nb'[i].there /\ \A j \in Ids \ {i} : nb'[j] = nb[j]
    BY <1>1, GoIs DEF IInv, TypeOK, Absent
  <1>3. i \in MadeBy(c) /\ maker[i] = c
    <2>1. Own(c, i)
      BY <1>1, AtPass, IdRange DEF OwnedPass, OwnedCopy
    <2> QED
      BY <1>1, <2>1, OwnIsMade DEF MadeBy
  <1>4. MadeBy(c)' = {}
    <2>1. \A j \in MadeBy(c) : j = i
      BY <1>3 DEF OInv, Single
    <2> QED
      BY <1>1, <1>2, <2>1 DEF MadeBy
  <1>5. ASSUME NEW d \in CRs, d # c PROVE Answered(d)'
    <2>1. MadeBy(d)' = MadeBy(d)
      BY <1>1, <1>2, <1>3, <1>5 DEF MadeBy
    <2>2. \A j \in MadeBy(d) : nb'[j].uid = d
      BY <1>2, <1>3, <1>5 DEF LInv, Answered, MadeBy
    <2> QED
      BY <1>2, <1>5, <2>1, <2>2, OthersAnswered DEF LInv
  <1>6. Answered(c) /\ TiedPass(c, p)
    BY <1>1 DEF LInv, Answered
  <1>7. Ending(c) /\ q.obj.deleting
    BY <1>1, <1>6 DEF TiedPass, Carries, Like
  <1>8. Ending(c)'
    BY <1>2, <1>7 DEF Ending
  <1>9. \A j : Tied(c, j)'
    BY <1>4, <1>8 DEF Tied
  <1>10. TiedPass(c, q)'
    BY <1>1, <1>4, <1>7, <1>8, <1>9 DEF TiedPass, Working
  <1>11. Answered(c)'
    <2>1. (api[c].there => Tied(c, api[c].id))'
      BY <1>4, <1>8 DEF Tied
    <2>2. (cache[c].there => Tied(c, cache[c].id))'
      BY <1>4, <1>8 DEF Tied
    <2>3. (pass[c].pc # "idle" => TiedPass(c, pass[c]))'
      BY <1>2, <1>10 DEF TiedPass, Tied
    <2> QED
      BY <1>4, <1>6, <2>1, <2>2, <2>3 DEF Answered
  <1> QED
    BY <1>5, <1>11 DEF LInv

LEMMA PassAnswered ==
  ASSUME IInv, OInv, LInv, Undisturbed, NEW c \in CRs, PassStep(c)
  PROVE  LInv'
  <1> USE DEF PassStep
  <1>0. ASSUME UNCHANGED <<nb, maker>>
        PROVE  \A d \in CRs : MadeBy(d)' = MadeBy(d) /\ \A i \in MadeBy(d) : nb'[i].uid = d
    BY <1>0 DEF MadeBy, LInv, Answered
  <1>1. CASE pass[c].pc # "idle" /\ Turn(c) /\ UNCHANGED <<api, nb, maker>>
    <2>1. PICK q \in Pass \cup {Idle} : Go(c, q) /\ Turned(c, pass[c], q)
      BY <1>1 DEF Turn
    <2>2. q.pc # "idle" => TiedPass(c, q) /\ (Ending(c) => q.obj.deleting)
      BY <1>1, <2>1, TurnTied DEF Ending
    <2> QED
      BY <1>0, <1>1, <2>1, <2>2, GoAnswered
  <1>2. CASE Begins(c) /\ UNCHANGED <<api, nb, maker>>
    <2>1. PICK q \in Pass :
            /\ pass[c].pc = "idle" /\ cache[c].there /\ Go(c, q)
            /\ q.pc = IF cache[c].deleting THEN "deleting"
                      ELSE IF cache[c].fin THEN "locate" ELSE "finalizer"
            /\ q.obj = cache[c] /\ q.newID = 0
      BY <1>2 DEF Begins
    <2>2. Answered(c)
      BY DEF LInv
    <2>3. q.obj.deleting => Ending(c)
      BY <2>1, <2>2 DEF Ending, Answered
    <2>4. Tied(c, q.obj.id) /\ Tied(c, q.newID)
      BY <2>1, <2>2 DEF Answered, Tied
    <2>5. q.pc \in Working => ~q.obj.deleting /\ api[c].there /\ api[c].fin
      BY <2>1, <2>2 DEF Answered, Working
    <2>6. TiedPass(c, q)
      BY <2>1, <2>3, <2>4, <2>5 DEF TiedPass, Working
    <2>7. Ending(c) => q.obj.deleting
      BY <2>1 DEF Ending
    <2> QED
      BY <1>0, <1>2, <2>1, <2>6, <2>7, GoAnswered
  <1>3. CASE Saves(c) /\ UNCHANGED <<nb, maker>>
    BY <1>3, SavesAnswered
  <1>4. CASE (Posts(c) \/ Patches(c) \/ Deletes(c)) /\ UNCHANGED api
    BY <1>4, PostsAnswered, PatchesAnswered, DeletesAnswered
  <1> QED
    BY <1>1, <1>2, <1>3, <1>4

\* A user edits the resource, or deletes it: at once if no finalizer was taken.
LEMMA UserAnswered ==
  ASSUME IInv, LInv, Undisturbed, NEW c \in CRs,
         UserEdit(c) \/ UserDelete(c) \/ UserStrip(c)
  PROVE  LInv'
  <1>0. api[c].there /\ api[c] \in Resource
    BY ThereIsResource DEF UserEdit, UserDelete, UserStrip, IInv, TypeOK
  <1>1. PICK r \in Resource \cup {Absent} :
          /\ WriteOutside(c, r)
          /\ IF r.there
             THEN r.id = api[c].id /\ r.fin = api[c].fin /\ (api[c].deleting => r.deleting)
             ELSE ~api[c].fin
    <2>1. CASE UserEdit(c)
      <3>1. PICK k \in Keys, v \in Vals, y \in Policies :
              WriteOutside(c, [api[c] EXCEPT !.key = k, !.val = v, !.policy = y])
        BY <2>1 DEF UserEdit
      <3> DEFINE r == [api[c] EXCEPT !.key = k, !.val = v, !.policy = y]
      <3>2. /\ r \in Resource /\ r.there /\ r.id = api[c].id /\ r.fin = api[c].fin
            /\ r.deleting = api[c].deleting
        BY <1>0 DEF Resource
      <3> QED
        BY <3>1, <3>2
    <2>2. CASE UserDelete(c)
      <3> DEFINE r == [api[c] EXCEPT !.deleting = TRUE]
      <3>1. /\ r \in Resource /\ r.there /\ r.id = api[c].id /\ r.fin = api[c].fin /\ r.deleting
        BY <1>0 DEF Resource
      <3>2. IF api[c].fin THEN WriteOutside(c, r) ELSE WriteOutside(c, Absent)
        BY <2>2 DEF UserDelete
      <3>3. ~Absent.there
        BY DEF Absent
      <3> HIDE DEF r
      <3> QED
        BY <3>1, <3>2, <3>3
    <2>3. ~UserStrip(c)
      BY DEF UserStrip, Undisturbed
    <2> QED
      BY <2>1, <2>2, <2>3
  <1>2. UNCHANGED <<cache, nb, maker, asked>>
    BY DEF UserEdit, UserDelete, UserStrip, history, Undisturbed
  <1>3. PICK q \in Pass \cup {Idle} :
          /\ api' = [api EXCEPT ![c] = r] /\ Go(c, q)
          /\ q.pc = pass[c].pc
          /\ q.pc # "idle" => /\ q.obj = pass[c].obj /\ q.newID = pass[c].newID
                              /\ q.match = pass[c].match /\ q.live = pass[c].live
    BY <1>1, OutsideIs DEF Outside
  <1>4. /\ pass'[c] = q /\ \A d \in CRs \ {c} : pass'[d] = pass[d]
        /\ api'[c] = r /\ \A d \in CRs \ {c} : api'[d] = api[d]
    BY <1>3, GoIs DEF IInv, TypeOK
  <1>5. \A d \in CRs : MadeBy(d)' = MadeBy(d)
    BY <1>2 DEF MadeBy
  <1>6. ASSUME NEW d \in CRs, d # c PROVE Answered(d)'
    BY <1>2, <1>4, <1>5, <1>6, OthersAnswered DEF LInv, Answered
  <1>7. Answered(c)
    BY DEF LInv
  <1>8. Ending(c) => Ending(c)'
    BY <1>0, <1>1, <1>2, <1>3, <1>4 DEF Ending
  <1>9. \A i : Tied(c, i) => Tied(c, i)'
    BY <1>5, <1>8, TiesKept
  <1>10. pass[c].pc \in Working => r.there /\ r.fin
    BY <1>1, <1>7 DEF Answered, TiedPass, Working
  <1>11. q.pc # "idle" => TiedPass(c, q)'
    <2> SUFFICES ASSUME q.pc # "idle" PROVE TiedPass(c, q)'
      OBVIOUS
    <2>1. TiedPass(c, pass[c])
      BY <1>3, <1>7 DEF Answered
    <2>2. TiedPass(c, q)
      BY <1>3, <2>1 DEF TiedPass
    <2> QED
      BY <1>3, <1>4, <1>5, <1>8, <1>9, <1>10, <2>2 DEF TiedPass
  <1>12. Answered(c)'
    <2>1. (api[c].there => Tied(c, api[c].id))'
      <3>1. r.there => Tied(c, r.id)'
        BY <1>0, <1>1, <1>7, <1>9 DEF Answered
      <3> QED
        BY <1>4, <3>1 DEF Tied
    <2>2. (cache[c].there => Tied(c, cache[c].id))'
      <3>1. PICK i : i = cache[c].id
        OBVIOUS
      <3>2. cache[c].there => Tied(c, i)'
        BY <1>7, <1>9, <3>1 DEF Answered
      <3> QED
        BY <1>2, <3>1, <3>2 DEF Tied
    <2>3. (pass[c].pc # "idle" => TiedPass(c, pass[c]))'
      BY <1>4, <1>11 DEF TiedPass, Tied
    <2> QED
      BY <1>0, <1>1, <1>2, <1>4, <1>5, <1>7, <2>1, <2>2, <2>3 DEF Answered
  <1> QED
    BY <1>2, <1>6, <1>12 DEF LInv

LEMMA SyncAnswered ==
  ASSUME IInv, LInv, (\E c \in CRs : CacheSync(c)) \/ Crash
  PROVE  LInv'
  <1>1. /\ \A d \in CRs : cache'[d] \in {cache[d], api[d]}
        /\ \A d \in CRs : pass'[d] = pass[d] \/ pass'[d].pc = "idle"
        /\ UNCHANGED <<api, nb, maker, asked>>
    <2>1. CASE Crash
      BY <2>1 DEF Crash, Idle, history
    <2>2. CASE \E c \in CRs : CacheSync(c)
      BY <2>2 DEF CacheSync, IInv, TypeOK, history
    <2> QED
      BY <2>1, <2>2
  <1>2. ASSUME NEW d \in CRs PROVE Answered(d)'
    <2>1. Answered(d) /\ MadeBy(d)' = MadeBy(d)
      BY <1>1 DEF LInv, MadeBy
    <2>2. Ending(d) => Ending(d)'
      BY <1>1 DEF Ending
    <2>3. \A i : Tied(d, i) => Tied(d, i)'
      BY <2>1, <2>2, TiesKept
    <2>4. cache'[d].there => Tied(d, cache'[d].id)
      BY <1>1, <2>1 DEF Answered
    <2>5. (cache[d].there => Tied(d, cache[d].id))'
      <3>1. PICK i : i = cache'[d].id
        OBVIOUS
      <3>2. cache'[d].there => Tied(d, i)'
        BY <2>3, <2>4, <3>1
      <3> QED
        BY <3>1, <3>2 DEF Tied
    <2>6. (api[d].there => Tied(d, api[d].id))'
      <3>1. PICK i : i = api[d].id
        OBVIOUS
      <3>2. api[d].there => Tied(d, i)'
        BY <2>1, <2>3, <3>1 DEF Answered
      <3> QED
        BY <1>1, <3>1, <3>2 DEF Tied
    <2>7. (pass[d].pc # "idle" => TiedPass(d, pass[d]))'
      <3> SUFFICES ASSUME pass'[d].pc # "idle" PROVE TiedPass(d, pass[d])'
        OBVIOUS
      <3>1. PICK p : p = pass[d] /\ p = pass'[d]
        BY <1>1
      <3>2. TiedPass(d, p)
        BY <2>1, <3>1 DEF Answered
      <3>3. TiedPass(d, p)'
        BY <1>1, <2>1, <2>2, <2>3, <3>2 DEF TiedPass
      <3> QED
        BY <3>1, <3>3 DEF TiedPass, Tied
    <2> QED
      BY <1>1, <2>1, <2>5, <2>6, <2>7 DEF Answered
  <1> QED
    BY <1>1, <1>2 DEF LInv

\* Humans in NetBox make objects of their own and edit values.
LEMMA HumanAnswered ==
  ASSUME IInv, LInv, Undisturbed,
         HumanCreate \/ \E i \in Ids : HumanEdit(i) \/ HumanDelete(i)
  PROVE  LInv'
  <1>1. UNCHANGED <<api, cache, pass, asked>>
    BY DEF HumanCreate, HumanEdit, HumanDelete, history
  <1>2. ASSUME NEW d \in CRs
        PROVE  MadeBy(d)' = MadeBy(d) /\ \A j \in MadeBy(d) : nb'[j].uid = d
    <2>1. CASE HumanCreate
      <3>1. PICK i \in NextId : /\ \A j \in Ids \ {i} : nb'[j] = nb[j]
                                /\ maker' = [maker EXCEPT ![i] = Human]
        BY <2>1 DEF HumanCreate, IInv, TypeOK
      <3>2. i \in Ids /\ ~nb[i].there
        BY DEF NextId, IInv, Owned
      <3>3. maker'[i] = Human /\ \A j \in Ids \ {i} : maker'[j] = maker[j]
        BY <3>1, <3>2 DEF IInv, TypeOK
      <3>4. MadeBy(d)' = MadeBy(d)
        BY <3>1, <3>2, <3>3, ConstantsAssumption DEF MadeBy
      <3> QED
        BY <3>1, <3>2, <3>4 DEF MadeBy, LInv, Answered
    <2>2. ASSUME NEW i \in Ids, HumanEdit(i)
          PROVE  MadeBy(d)' = MadeBy(d) /\ \A j \in MadeBy(d) : nb'[j].uid = d
      <3>1. PICK k \in Keys, v \in Vals : nb' = [nb EXCEPT ![i] = [@ EXCEPT !.key = k, !.val = v]]
        BY <2>2 DEF HumanEdit
      <3> DEFINE o == [nb[i] EXCEPT !.key = k, !.val = v]
      <3>2. nb[i] \in Object /\ nb[i].there
        BY <2>2, ThereIsObject DEF HumanEdit, IInv, TypeOK
      <3>3. o.there /\ o.uid = nb[i].uid
        BY <3>2 DEF Object
      <3>4. nb'[i] = o /\ \A j \in Ids \ {i} : nb'[j] = nb[j]
        BY <3>1 DEF IInv, TypeOK
      <3> HIDE DEF o
      <3>5. maker' = maker
        BY <2>2 DEF HumanEdit, history
      <3>6. MadeBy(d)' = MadeBy(d)
        BY <3>2, <3>3, <3>4, <3>5 DEF MadeBy
      <3> QED
        BY <3>3, <3>4, <3>6 DEF MadeBy, LInv, Answered
    <2>3. \A i \in Ids : ~HumanDelete(i)
      BY DEF HumanDelete, Undisturbed
    <2> QED
      BY <2>1, <2>2, <2>3
  <1>3. ASSUME NEW d \in CRs PROVE Answered(d)'
    BY <1>1, <1>2, OthersAnswered DEF LInv
  <1> QED
    BY <1>1, <1>3 DEF LInv

LEMMA InitLInv == Init /\ Undisturbed => LInv
  <1> SUFFICES ASSUME Init, Undisturbed PROVE LInv
    OBVIOUS
  <1>1. \A c \in CRs : api[c] \in Resource /\ api[c].id = 0 /\ MadeBy(c) = {}
    BY DEF Init, Applied, MadeBy, Absent
  <1>2. asked = {}
    BY <1>1 DEF Init, Undisturbed, Resource
  <1>3. ASSUME NEW c \in CRs PROVE Answered(c)
    <2>1. cache[c] = Absent /\ pass[c] = Idle
      BY DEF Init
    <2> QED
      BY <1>1, <2>1 DEF Answered, Tied, Absent, Idle
  <1> QED
    BY <1>2, <1>3 DEF LInv

LEMMA NextLInv ==
  ASSUME Undisturbed
  PROVE  IInv /\ OInv /\ LInv /\ [Next]_vars => LInv'
  <1> SUFFICES ASSUME IInv, OInv, LInv, [Next]_vars PROVE LInv'
    OBVIOUS
  <1>1. ASSUME NEW c \in CRs, Step(c) \/ EndpointNotReady(c) \/ CallFails(c) PROVE LInv'
    BY <1>1, PassStepIs, PassAnswered
  <1>2. ASSUME NEW c \in CRs, UserEdit(c) \/ UserDelete(c) \/ UserStrip(c) PROVE LInv'
    BY <1>2, UserAnswered
  <1>3. CASE (\E c \in CRs : CacheSync(c)) \/ Crash
    BY <1>3, SyncAnswered
  <1>4. CASE HumanCreate \/ \E i \in Ids : HumanEdit(i) \/ HumanDelete(i)
    BY <1>4, HumanAnswered
  <1>5. CASE UNCHANGED vars
    BY <1>5 DEF vars, LInv, Answered, TiedPass, Tied, Ending, MadeBy
  <1> QED
    BY <1>1, <1>2, <1>3, <1>4, <1>5 DEF Next

\* A resource that is gone left nothing it made in NetBox: whatever answer was lost, copy
\* was stale or crash came between, the finalizer, the recorded id and the stamp find it
\* (finalizer.go deleting and deleteByStamp).  For an endpoint that stamps, resources that
\* fail on a conflict and delete with them, and nobody deleting the engine's objects by hand.
THEOREM LeavesNothing ==
  ASSUME Undisturbed
  PROVE  Spec => []NothingLeftBehind
  <1>0. SteadyKeys
    BY DEF Undisturbed, SteadyKeys
  <1>1. IInv /\ IInv' /\ OInv /\ [Next]_vars => OInv'
    BY <1>0, NextOInv
  <1>2. IInv /\ OInv /\ LInv /\ [Next]_vars => LInv'
    BY NextLInv
  <1>3. Init => LInv
    BY InitLInv
  <1>4. LInv => NothingLeftBehind
    BY DEF LInv, Answered, NothingLeftBehind
  <1> QED
    BY <1>1, <1>2, <1>3, <1>4, InitOInv, Inductive, PTL DEF Spec
=============================================================================
