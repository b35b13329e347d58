--------------------------- MODULE IdentityProofs ---------------------------
(***************************************************************************)
(* One NetBox object per resource, and Ready only when it carries the whole *)
(* spec, for every set of Kinds whose descriptors are valid and whose      *)
(* candidates are stable.  The argument: a pass that gets past build has   *)
(* resolved every field that is not deferred, so an object carries all of  *)
(* them and the deferred ones its candidate matched; a candidate of any    *)
(* later pass matches the same deferred ones, hence finds it.  That there  *)
(* is always a natural key needs more of the Kinds: every spec gives some  *)
(* candidate values of fields that are not deferred.                       *)
(***************************************************************************)
EXTENDS Identity, FiniteSetTheorems, TLAPS

Solid == Values \ DOMAIN desc.deferred

Bounded ==
  /\ kind \in DOMAIN KindOf
  /\ made \in Nat /\ DOMAIN rows \subseteq 1..made
  /\ id \in 0..made
  /\ pass \in [at : {"idle", "locate", "create", "update", "record"},
               resolved : SUBSET Values, found : 0..made, live : SUBSET Values]

\* An object carries every field that is not deferred and all that some candidate matches.
RowsKeyed ==
  \A r \in DOMAIN rows :
    /\ rows[r] \subseteq Values /\ Solid \subseteq rows[r]
    /\ \E k \in Range(desc.keys) : k.null \cap Declared = {} /\ Range(k.match) \subseteq rows[r]

\* A pass under way has resolved every field that is not deferred.
PassSolid == pass.at # "idle" => Solid \subseteq pass.resolved

\* A pass about to create has a candidate, and has found that there is no object.
CreateFresh ==
  pass.at = "create" =>
    DOMAIN rows = {} /\ Candidates(desc, Declared, pass.resolved) # {}

Single == \A r, s \in DOMAIN rows : r = s

\* What a pass has seen the object carry, it still carries.
LiveCarried ==
  pass.at = "record" =>
    Solid \subseteq pass.live /\ (pass.found \in DOMAIN rows => pass.live \subseteq rows[pass.found])

IInv == /\ Bounded /\ RowsKeyed /\ PassSolid /\ CreateFresh /\ Single /\ LiveCarried
        /\ ReadyMeansCarried

\* A set all of whose elements are equal has at most one.
LEMMA AtMostOne ==
  ASSUME NEW S, \A x, y \in S : x = y
  PROVE  Cardinality(S) <= 1
<1>1. CASE S = {}
  BY <1>1, FS_EmptySet
<1>2. CASE S # {}
  <2>1. PICK x \in S : TRUE
    BY <1>2
  <2>2. S = {x}
    BY <2>1
  <2> QED
    BY <2>2, FS_Singleton
<1> QED
  BY <1>1, <1>2

\* What the spec says does not change while only the passes move.
LEMMA SpecStays ==
  ASSUME UNCHANGED <<kind, spec>>
  PROVE  /\ desc' = desc /\ Declared' = Declared /\ Values' = Values /\ Solid' = Solid
         /\ Unmapped' = Unmapped /\ ToResolve' = ToResolve
<1>1. desc' = desc
  BY DEF desc
<1>2. Declared' = Declared
  BY <1>1 DEF Declared
<1>3. Values' = Values
  BY <1>2 DEF Values
<1> QED
  BY <1>1, <1>2, <1>3 DEF Solid, Unmapped, ToResolve

\* Once a pass has resolved all that is not deferred, every straight candidate that applies
\* finds the object there is (naturalkey.go Applicable, generic.go lookup).
LEMMA CandidateHits ==
  ASSUME kind \in DOMAIN KindOf, RowsKeyed, NEW resolved \in SUBSET Values, Solid \subseteq resolved,
         NEW i \in Candidates(desc, Declared, resolved), NEW r \in DOMAIN rows
  PROVE  \E j \in Candidates(desc, Declared, resolved) : Hits(desc.keys[j]) # {}
<1> DEFINE k == desc.keys[i]
<1>1. /\ i \in DOMAIN desc.keys /\ k \in Range(desc.keys)
      /\ Range(k.match) \subseteq resolved /\ k.null \cap Declared = {}
  BY DEF Candidates, Applicable, Range
<1>2. Validate(desc) /\ StableKeys(desc)
  BY KindsAssumption DEF desc
<1>3. PICK s \in Range(desc.keys) : Straight(s) /\ Range(s.match) = Range(k.match) /\ s.null = k.null
  BY <1>1, <1>2 DEF StableKeys
<1>4. PICK l \in Range(desc.keys) : l.null \cap Declared = {} /\ Range(l.match) \subseteq rows[r]
  BY DEF RowsKeyed
<1>5. rows[r] \subseteq Values /\ Solid \subseteq rows[r] /\ Values \subseteq Declared
  BY DEF RowsKeyed, Values
<1>6. Coexist(s, l)
  BY <1>1, <1>3, <1>4, <1>5 DEF Coexist
<1>7. Range(s.match) \cap DOMAIN desc.deferred = Range(l.match) \cap DOMAIN desc.deferred
  BY <1>2, <1>3, <1>4, <1>6 DEF StableKeys
<1>8. Range(s.match) \subseteq rows[r]
  BY <1>1, <1>3, <1>4, <1>5, <1>7 DEF Solid
<1>9. Matches(s, rows[r])
  <2>1. \A c \in DOMAIN s.match : s.match[c] = c /\ c \in Range(s.match)
    BY <1>3 DEF Straight, Range
  <2>2. s.null \cap rows[r] = {}
    BY <1>1, <1>3, <1>5
  <2> QED
    BY <1>8, <2>1, <2>2 DEF Matches
<1>10. PICK j \in DOMAIN desc.keys : desc.keys[j] = s
  BY <1>3 DEF Range
<1>11. j \in Candidates(desc, Declared, resolved)
  BY <1>1, <1>3, <1>10 DEF Candidates, Applicable
<1>12. r \in Hits(desc.keys[j])
  BY <1>9, <1>10 DEF Hits
<1> QED
  BY <1>11, <1>12

\* What a create sends is enough to find the object again (deferred.go createPayload,
\* registry.go validateDeferred).
LEMMA PayloadKeyed ==
  ASSUME kind \in DOMAIN KindOf, NEW resolved \in SUBSET Values, Solid \subseteq resolved,
         Candidates(desc, Declared, resolved) # {}
  PROVE  LET payload == createPayload(resolved) IN
         /\ payload \subseteq Values /\ Solid \subseteq payload
         /\ \E k \in Range(desc.keys) : k.null \cap Declared = {} /\ Range(k.match) \subseteq payload
<1> DEFINE payload == createPayload(resolved)
<1>1. payload \subseteq Values /\ Solid \subseteq payload
  BY DEF createPayload, Solid
<1>2. PICK i \in Candidates(desc, Declared, resolved) : TRUE
  OBVIOUS
<1> DEFINE k == desc.keys[i]
<1>3. k \in Range(desc.keys) /\ Range(k.match) \subseteq resolved /\ k.null \cap Declared = {}
  BY <1>2 DEF Candidates, Applicable, Range
<1>4. Validate(desc) /\ StableKeys(desc)
  BY KindsAssumption DEF desc
<1>5. PICK s \in Range(desc.keys) : Straight(s) /\ Range(s.match) = Range(k.match) /\ s.null = k.null
  BY <1>3, <1>4 DEF StableKeys
<1>6. \A f \in Range(s.match) : f \in DOMAIN s.match
  BY <1>5 DEF Straight, Range
<1>7. \A f \in DOMAIN desc.deferred : desc.deferred[f] = "Always" => f \notin DOMAIN s.match
  BY <1>4, <1>5 DEF Validate, ValidDeferred
<1>8. Range(s.match) \subseteq payload
  BY <1>3, <1>5, <1>6, <1>7 DEF createPayload
<1> HIDE DEF payload
<1>9. \E l \in Range(desc.keys) : l.null \cap Declared = {} /\ Range(l.match) \subseteq payload
  BY <1>3, <1>5, <1>8
<1> QED
  BY <1>1, <1>9 DEF payload

\* A new resource has no object.
LEMMA InitIInv == Init => IInv
<1> SUFFICES ASSUME Init PROVE IInv
  OBVIOUS
<1>1. DOMAIN rows = {}
  BY DEF Init, Nothing
<1>2. pass = Idle /\ pass.at = "idle" /\ kind \in DOMAIN KindOf /\ made = 0 /\ id = 0
      /\ ready = "Unknown"
  BY DEF Init, Idle
<1>3. Bounded
  BY <1>1, <1>2 DEF Bounded, Idle
<1> QED
  BY <1>1, <1>2, <1>3
  DEF IInv, RowsKeyed, PassSolid, CreateFresh, Single, LiveCarried, ReadyMeansCarried

\* The end of a pass that leaves the objects alone and is not Ready.
LEMMA EndKeeps ==
  ASSUME IInv, UNCHANGED <<kind, spec, rows, made>>, NEW reason, End(reason), reason # "Ready",
         id' \in {0, id}
  PROVE  IInv'
<1>1. pass' = Idle /\ pass'.at = "idle" /\ ready' = reason
  BY DEF End, Idle
<1>2. Bounded'
  BY <1>1, SpecStays DEF IInv, Bounded, Idle
<1>3. RowsKeyed' /\ Single'
  BY SpecStays DEF IInv, RowsKeyed, Single
<1>4. PassSolid' /\ CreateFresh' /\ LiveCarried' /\ ReadyMeansCarried'
  BY <1>1 DEF PassSolid, CreateFresh, LiveCarried, ReadyMeansCarried
<1> QED
  BY <1>2, <1>3, <1>4 DEF IInv

\* A pass that gets past build has resolved every field that is not deferred (generic.go
\* build, refs.go blockedRefs).
LEMMA BuildKeeps ==
  ASSUME IInv, Build
  PROVE  IInv'
<1>0. UNCHANGED <<kind, spec, rows, made, id>>
  BY DEF Build
<1>1. CASE End("Invalid") \/ End("WaitingForRef")
  BY <1>0, <1>1, EndKeeps
<1>2. CASE /\ Unmapped = {} /\ BlockedRefs = {}
           /\ pass' = [Idle EXCEPT !.at = "locate", !.resolved = ResolvedNow]
           /\ UNCHANGED ready
  <2>1. ResolvedNow \subseteq Values
    BY DEF ResolvedNow, ToResolve
  <2>2. Solid \subseteq ResolvedNow
    BY <1>2 DEF Solid, ResolvedNow, BlockedRefs, ToResolve, Unmapped, Values, Fields
  <2>3. pass' = [at |-> "locate", resolved |-> ResolvedNow, found |-> 0, live |-> {}]
    BY <1>2 DEF Idle
  <2> HIDE DEF ResolvedNow
  <2>4. Bounded'
    BY <1>0, <2>1, <2>3, SpecStays DEF IInv, Bounded
  <2>5. RowsKeyed' /\ Single'
    BY <1>0, SpecStays DEF IInv, RowsKeyed, Single
  <2>6. PassSolid' /\ CreateFresh' /\ LiveCarried'
    BY <1>0, <2>2, <2>3, SpecStays DEF PassSolid, CreateFresh, LiveCarried
  <2>7. ReadyMeansCarried'
    BY <1>0, <1>2, SpecStays DEF IInv, ReadyMeansCarried
  <2> QED
    BY <2>4, <2>5, <2>6, <2>7 DEF IInv
<1> QED
  BY <1>1, <1>2 DEF Build

\* A lookup that finds nothing has looked with a candidate that would have found the object
\* (generic.go locate, lookup).
LEMMA LocateKeeps ==
  ASSUME IInv, Locate
  PROVE  IInv'
<1> DEFINE candidates == Candidates(desc, Declared, pass.resolved)
           found == {i \in candidates : Hits(desc.keys[i]) # {}}
           first == Hits(desc.keys[CHOOSE i \in found : \A j \in found : i <= j])
<1>0. UNCHANGED <<kind, spec, rows, made>> /\ pass.at = "locate"
  BY DEF Locate
<1>1. ASSUME NEW at \in {"update", "create"}, NEW f \in 0..made,
             pass' = [pass EXCEPT !.at = at, !.found = f], ready' = ready, id' \in {0, id},
             at = "create" => DOMAIN rows = {} /\ candidates # {}
      PROVE  IInv'
  <2>1. /\ pass'.at = at /\ pass'.found = f /\ pass'.resolved = pass.resolved
        /\ pass' \in [at : {"idle", "locate", "create", "update", "record"},
                      resolved : SUBSET Values, found : 0..made, live : SUBSET Values]
    BY <1>1 DEF IInv, Bounded
  <2>2. Bounded'
    BY <1>0, <1>1, <2>1, SpecStays DEF IInv, Bounded
  <2>3. RowsKeyed' /\ Single'
    BY <1>0, SpecStays DEF IInv, RowsKeyed, Single
  <2>4. PassSolid'
    BY <1>0, <2>1, SpecStays DEF IInv, PassSolid
  <2>5. CreateFresh'
    BY <1>0, <1>1, <2>1, SpecStays DEF CreateFresh, Candidates
  <2>6. LiveCarried'
    BY <1>1, <2>1 DEF LiveCarried
  <2>7. ReadyMeansCarried'
    BY <1>0, <1>1, SpecStays DEF IInv, ReadyMeansCarried, Bounded
  <2> QED
    BY <2>2, <2>3, <2>4, <2>5, <2>6, <2>7 DEF IInv
<1>2. CASE /\ id \in DOMAIN rows
           /\ pass' = [pass EXCEPT !.at = "update", !.found = id] /\ UNCHANGED <<id, ready>>
  <2>1. id \in 0..made
    BY DEF IInv, Bounded
  <2> QED
    BY <1>1, <1>2, <2>1
<1>3. CASE id' = 0 /\ (End("WaitingForKey") \/ End("Conflict"))
  BY <1>0, <1>3, EndKeeps
<1>4. CASE /\ id' = 0 /\ candidates # {} /\ found = {}
           /\ pass' = [pass EXCEPT !.at = "create"] /\ UNCHANGED ready
  <2>1. pass.resolved \in SUBSET Values /\ Solid \subseteq pass.resolved /\ kind \in DOMAIN KindOf
    BY <1>0 DEF IInv, Bounded, PassSolid
  <2>2. DOMAIN rows = {}
    BY <1>4, <2>1, CandidateHits DEF IInv
  <2>3. pass' = [pass EXCEPT !.at = "create", !.found = pass.found] /\ pass.found \in 0..made
    BY <1>4 DEF IInv, Bounded
  <2> QED
    BY <1>1, <1>4, <2>2, <2>3
<1>5. CASE /\ id' = 0 /\ found # {} /\ Cardinality(first) = 1
           /\ pass' = [pass EXCEPT !.at = "update", !.found = CHOOSE r \in first : TRUE]
           /\ UNCHANGED ready
  <2>2. first \subseteq DOMAIN rows
    BY DEF Hits
  <2> HIDE DEF first, found
  <2>1. first # {}
    BY <1>5, FS_EmptySet
  <2> DEFINE r == CHOOSE r \in first : TRUE
  <2>3. r \in first
    BY <2>1
  <2> HIDE DEF r
  <2>5. r \in 1..made /\ made \in Nat
    BY <2>2, <2>3 DEF IInv, Bounded
  <2>6. r \in 0..made
    BY <2>5
  <2>4. (CHOOSE x \in first : TRUE) \in 0..made
    BY <2>6 DEF r
  <2> QED
    BY <1>1, <1>5, <2>4
<1> QED
  BY <1>2, <1>3, <1>4, <1>5 DEF Locate

\* A create adds the one object, with all that is needed to find it again (generic.go create).
LEMMA CreateKeeps ==
  ASSUME IInv, Create
  PROVE  IInv'
<1> DEFINE payload == createPayload(pass.resolved)
<1>0. UNCHANGED <<kind, spec, id>> /\ pass.at = "create"
  BY DEF Create
<1>1. CASE End("Failed") /\ UNCHANGED <<rows, made>>
  BY <1>0, <1>1, EndKeeps
<1>2. ASSUME made' = made + 1,
             rows' = [r \in DOMAIN rows \cup {made + 1} |-> IF r <= made THEN rows[r] ELSE payload],
             \/ /\ pass' = [pass EXCEPT !.at = "record", !.found = made + 1, !.live = payload]
                /\ UNCHANGED ready
             \/ End("Failed")
      PROVE  IInv'
  <2>1. /\ DOMAIN rows = {} /\ Candidates(desc, Declared, pass.resolved) # {}
        /\ pass.resolved \in SUBSET Values /\ Solid \subseteq pass.resolved
        /\ kind \in DOMAIN KindOf /\ made \in Nat /\ id \in 0..made
    BY <1>0 DEF IInv, Bounded, PassSolid, CreateFresh
  <2>2. /\ payload \subseteq Values /\ Solid \subseteq payload
        /\ \E k \in Range(desc.keys) : k.null \cap Declared = {} /\ Range(k.match) \subseteq payload
    BY <2>1, PayloadKeyed
  <2> HIDE DEF payload
  <2>3. DOMAIN rows' = {made + 1} /\ rows'[made + 1] = payload
    BY <1>2, <2>1
  <2>4. made' \in Nat /\ id \in 0..made' /\ made + 1 \in 1..made' /\ made + 1 # id
    BY <1>2, <2>1
  <2>5. RowsKeyed' /\ Single'
    BY <1>0, <2>2, <2>3, SpecStays DEF RowsKeyed, Single
  <2>6. ReadyMeansCarried'
    BY <1>0, <2>3, <2>4 DEF ReadyMeansCarried
  <2>7. CASE pass' = [pass EXCEPT !.at = "record", !.found = made + 1, !.live = payload]
    <3> DEFINE n == made + 1
    <3>5. n \in 0..made' /\ pass' = [pass EXCEPT !.at = "record", !.found = n, !.live = payload]
      BY <2>1, <2>4, <2>7
    <3> HIDE DEF n
    <3>6. /\ pass' \in [at : {"idle", "locate", "create", "update", "record"},
                        resolved : SUBSET Values, found : 0..made', live : SUBSET Values]
          /\ pass'.at = "record" /\ pass'.found = n /\ pass'.live = payload
          /\ pass'.resolved = pass.resolved
      BY <2>2, <3>5 DEF IInv, Bounded
    <3>1. /\ pass' \in [at : {"idle", "locate", "create", "update", "record"},
                        resolved : SUBSET Values, found : 0..made', live : SUBSET Values]
          /\ pass'.at = "record" /\ pass'.found = made + 1 /\ pass'.live = payload
          /\ pass'.resolved = pass.resolved
      BY <3>6 DEF n
    <3>2. Bounded'
      BY <1>0, <2>1, <2>3, <2>4, <3>1, SpecStays DEF Bounded
    <3>3. PassSolid' /\ CreateFresh'
      BY <1>0, <2>1, <3>1, SpecStays DEF PassSolid, CreateFresh
    <3>4. LiveCarried'
      BY <1>0, <2>2, <2>3, <3>1, SpecStays DEF LiveCarried
    <3> QED
      BY <2>5, <2>6, <3>2, <3>3, <3>4 DEF IInv
  <2>8. CASE End("Failed")
    <3>1. pass' = Idle /\ pass'.at = "idle"
      BY <2>8 DEF End, Idle
    <3>2. Bounded'
      BY <1>0, <2>1, <2>3, <2>4, <3>1, SpecStays DEF Bounded, Idle
    <3>3. PassSolid' /\ CreateFresh' /\ LiveCarried'
      BY <3>1 DEF PassSolid, CreateFresh, LiveCarried
    <3> QED
      BY <2>5, <2>6, <3>2, <3>3 DEF IInv
  <2> QED
    BY <1>2, <2>7, <2>8
<1> QED
  BY <1>1, <1>2 DEF Create

\* A PATCH only adds to the object (generic.go update).
LEMMA UpdateKeeps ==
  ASSUME IInv, Update
  PROVE  IInv'
<1>0. UNCHANGED <<kind, spec, made, id>> /\ pass.at = "update"
  BY DEF Update
<1>1. CASE End("Failed") /\ UNCHANGED rows
  BY <1>0, <1>1, EndKeeps
<1>2. CASE /\ pass.found \in DOMAIN rows
           /\ rows' = [rows EXCEPT ![pass.found] = rows[pass.found] \cup pass.resolved]
           /\ pass' = [pass EXCEPT !.at = "record", !.live = rows[pass.found] \cup pass.resolved]
           /\ UNCHANGED ready
  <2> DEFINE row == rows[pass.found] \cup pass.resolved
  <2>1. /\ pass.resolved \in SUBSET Values /\ Solid \subseteq pass.resolved
        /\ rows[pass.found] \subseteq Values
    BY <1>0, <1>2 DEF IInv, Bounded, PassSolid, RowsKeyed
  <2>2. row \subseteq Values /\ Solid \subseteq row /\ rows[pass.found] \subseteq row
    BY <2>1
  <2>3. /\ DOMAIN rows' = DOMAIN rows
        /\ \A r \in DOMAIN rows : rows'[r] = IF r = pass.found THEN row ELSE rows[r]
    BY <1>2
  <2>4. pass' = [pass EXCEPT !.at = "record", !.live = row]
    BY <1>2
  <2> HIDE DEF row
  <2>5. /\ pass' \in [at : {"idle", "locate", "create", "update", "record"},
                      resolved : SUBSET Values, found : 0..made, live : SUBSET Values]
        /\ pass'.at = "record" /\ pass'.found = pass.found /\ pass'.live = row
        /\ pass'.resolved = pass.resolved
    BY <2>2, <2>4 DEF IInv, Bounded
  <2>6. Bounded'
    BY <1>0, <2>3, <2>5, SpecStays DEF IInv, Bounded
  <2>7. \A r \in DOMAIN rows : rows[r] \subseteq rows'[r] /\ rows'[r] \subseteq Values
    BY <2>2, <2>3 DEF IInv, RowsKeyed
  <2>8. RowsKeyed' /\ Single'
    <3>1. \A r \in DOMAIN rows : /\ rows'[r] \subseteq Values /\ Solid \subseteq rows'[r]
                                 /\ \E k \in Range(desc.keys) :
                                      k.null \cap Declared = {} /\ Range(k.match) \subseteq rows'[r]
      BY <2>7 DEF IInv, RowsKeyed
    <3> QED
      BY <1>0, <2>3, <3>1, SpecStays DEF IInv, RowsKeyed, Single
  <2>9. PassSolid' /\ CreateFresh'
    BY <1>0, <2>1, <2>5, SpecStays DEF PassSolid, CreateFresh
  <2>10. LiveCarried'
    BY <1>0, <2>2, <2>3, <2>5, SpecStays DEF LiveCarried
  <2>11. ReadyMeansCarried'
    BY <1>0, <1>2, <2>3, <2>7, SpecStays DEF IInv, ReadyMeansCarried
  <2> QED
    BY <2>6, <2>8, <2>9, <2>10, <2>11 DEF IInv
<1> QED
  BY <1>1, <1>2 DEF Update

\* Ready is said of an object that has been seen to carry every field (deferred.go settle).
LEMMA RecordKeeps ==
  ASSUME IInv, Record
  PROVE  IInv'
<1>0. UNCHANGED <<kind, spec, rows, made>> /\ pass.at = "record" /\ id' = pass.found
  BY DEF Record
<1>1. pass' = Idle /\ pass'.at = "idle"
  BY DEF Record, End, Idle
<1>2. Bounded'
  BY <1>0, <1>1, SpecStays DEF IInv, Bounded, Idle
<1>3. RowsKeyed' /\ Single'
  BY <1>0, SpecStays DEF IInv, RowsKeyed, Single
<1>4. PassSolid' /\ CreateFresh' /\ LiveCarried'
  BY <1>1 DEF PassSolid, CreateFresh, LiveCarried
<1>5. ready' = "Ready" => (Values \cap DOMAIN desc.deferred) \ pass.live = {}
  BY DEF Record, End
<1>6. ReadyMeansCarried'
  <2> SUFFICES ASSUME ready' = "Ready", pass.found \in DOMAIN rows
               PROVE  Values \subseteq rows[pass.found]
    BY <1>0, SpecStays DEF ReadyMeansCarried
  <2>1. Solid \subseteq pass.live /\ pass.live \subseteq rows[pass.found]
    BY <1>0 DEF IInv, LiveCarried
  <2> QED
    BY <1>5, <2>1 DEF Solid
<1> QED
  BY <1>2, <1>3, <1>4, <1>6 DEF IInv

\* A crash, and an object deleted in NetBox.
LEMMA FaultKeeps ==
  ASSUME IInv, Crash \/ Vanish
  PROVE  IInv'
<1>1. CASE Crash
  <2>1. UNCHANGED <<kind, spec, rows, made, id, ready>> /\ pass' = Idle /\ pass'.at = "idle"
    BY <1>1 DEF Crash, Fault, Idle
  <2>2. Bounded'
    BY <2>1, SpecStays DEF IInv, Bounded, Idle
  <2>3. RowsKeyed' /\ Single' /\ ReadyMeansCarried'
    BY <2>1, SpecStays DEF IInv, RowsKeyed, Single, ReadyMeansCarried
  <2>4. PassSolid' /\ CreateFresh' /\ LiveCarried'
    BY <2>1 DEF PassSolid, CreateFresh, LiveCarried
  <2> QED
    BY <2>2, <2>3, <2>4 DEF IInv
<1>2. CASE Vanish
  <2>1. UNCHANGED <<kind, spec, made, id, pass, ready>>
    BY <1>2 DEF Vanish, Fault
  <2>2. PICK g \in DOMAIN rows : rows' = [r \in DOMAIN rows \ {g} |-> rows[r]]
    BY <1>2 DEF Vanish, Restrict
  <2>3. DOMAIN rows' \subseteq DOMAIN rows /\ \A r \in DOMAIN rows' : rows'[r] = rows[r]
    BY <2>2
  <2>4. Bounded'
    BY <2>1, <2>3, SpecStays DEF IInv, Bounded
  <2>5. RowsKeyed' /\ Single' /\ ReadyMeansCarried'
    BY <2>1, <2>3, SpecStays DEF IInv, RowsKeyed, Single, ReadyMeansCarried
  <2>6. PassSolid' /\ CreateFresh' /\ LiveCarried'
    BY <2>1, <2>3, SpecStays DEF IInv, PassSolid, CreateFresh, LiveCarried, Candidates
  <2> QED
    BY <2>4, <2>5, <2>6 DEF IInv
<1> QED
  BY <1>1, <1>2

\* Steps of the references only, and steps of nothing.
LEMMA IdleKeeps ==
  ASSUME IInv, UNCHANGED <<kind, spec, rows, made, id, pass, ready>>
  PROVE  IInv'
<1>1. Bounded' /\ RowsKeyed' /\ Single' /\ ReadyMeansCarried'
  BY SpecStays DEF IInv, Bounded, RowsKeyed, Single, ReadyMeansCarried
<1>2. PassSolid' /\ CreateFresh' /\ LiveCarried'
  BY SpecStays DEF IInv, PassSolid, CreateFresh, LiveCarried, Candidates
<1> QED
  BY <1>1, <1>2 DEF IInv

\* Every step keeps the invariant.
LEMMA NextIInv == IInv /\ [Next]_vars => IInv'
<1> SUFFICES ASSUME IInv, [Next]_vars PROVE IInv'
  OBVIOUS
<1>1. CASE Pass
  BY <1>1, BuildKeeps, LocateKeeps, CreateKeeps, UpdateKeeps, RecordKeeps DEF Pass
<1>2. CASE Resolve \/ Lose
  BY <1>2, IdleKeeps DEF Resolve, Lose
<1>3. CASE Crash \/ Vanish
  BY <1>3, FaultKeeps
<1>4. CASE UNCHANGED vars
  BY <1>4, IdleKeeps DEF vars
<1> QED
  BY <1>1, <1>2, <1>3, <1>4 DEF Next

\* No resource ever has two NetBox objects, whatever its Kind, its spec, its references and the
\* answers that were lost (generic.go lookup, create; deferred.go createPayload).
THEOREM OneObject == Spec => []OneRow
<1>1. IInv => OneRow
  BY AtMostOne DEF IInv, Single, OneRow
<1> QED
  BY InitIInv, NextIInv, <1>1, PTL DEF Spec

\* Ready is reported only of an object that carries the whole spec (status.go ready,
\* deferred.go settle).
THEOREM ReadyCarries == Spec => []ReadyMeansCarried
<1>1. IInv => ReadyMeansCarried
  BY DEF IInv
<1> QED
  BY InitIInv, NextIInv, <1>1, PTL DEF Spec

-----------------------------------------------------------------------------
(* The natural key. *)

KInv == IInv /\ spec \in Specs(kind) /\ Keyed

\* A pass that has resolved all that is not deferred has a candidate, however late the rest is.
LEMMA CandidateExists ==
  ASSUME kind \in DOMAIN KindOf, spec \in Specs(kind), ~Emptied,
         NEW resolved, Solid \subseteq resolved
  PROVE  Candidates(desc, Declared, resolved) # {}
<1>1. PICK key \in Range(desc.keys) :
        /\ Range(key.match) \subseteq Declared \ (spec.empty \cup DOMAIN desc.deferred)
        /\ key.null \cap Declared = {}
  BY SpecsAreKeyed DEF Emptied, Declared, desc
<1>2. Range(key.match) \subseteq resolved
  BY <1>1 DEF Solid, Values
<1>3. PICK i \in DOMAIN desc.keys : key = desc.keys[i]
  BY DEF Range
<1> QED
  BY <1>1, <1>2, <1>3 DEF Candidates, Applicable

\* Only a lookup that no candidate applies to ends a pass in WaitingForKey.
LEMMA NextKInv == KInv /\ [Next]_vars => KInv'
<1> SUFFICES ASSUME KInv, [Next]_vars PROVE KInv'
  OBVIOUS
<1>1. IInv /\ IInv' /\ kind \in DOMAIN KindOf
  BY NextIInv DEF KInv, IInv, Bounded
<1>2. UNCHANGED <<kind, spec>>
  BY DEF Next, Pass, Build, Locate, Create, Update, Record, Resolve, Lose, Crash, Vanish, Fault, vars
<1>3. Emptied' = Emptied /\ (spec \in Specs(kind))'
  BY <1>2 DEF Emptied, desc, KInv, Specs, Admitted, Focus
<1>4. ASSUME ready' # "WaitingForKey" \/ ready' = ready PROVE Keyed'
  BY <1>3, <1>4 DEF KInv, Keyed
<1>5. ASSUME Locate PROVE Keyed'
  <2>1. CASE Candidates(desc, Declared, pass.resolved) = {} /\ End("WaitingForKey")
    <3>1. Solid \subseteq pass.resolved
      BY <1>1, <1>5 DEF IInv, PassSolid, Locate
    <3>2. Emptied
      BY <1>1, <2>1, <3>1, CandidateExists DEF KInv
    <3> QED
      BY <1>3, <3>2 DEF Keyed
  <2>2. CASE ready' = ready \/ End("Conflict")
    BY <1>4, <2>2 DEF End
  <2> QED
    BY <1>5, <2>1, <2>2 DEF Locate
<1>6. ASSUME Build \/ Create \/ Update \/ Record PROVE Keyed'
  <2>1. \/ ready' = ready
        \/ ready' \in {"Invalid", "WaitingForRef", "Failed", "DeferredFieldPending", "Ready"}
    BY <1>6 DEF Build, Create, Update, Record, End
  <2> QED
    BY <1>4, <2>1
<1>7. ASSUME Resolve \/ Lose \/ Crash \/ Vanish \/ UNCHANGED vars PROVE Keyed'
  BY <1>4, <1>7 DEF Resolve, Lose, Crash, Vanish, vars
<1>8. Keyed'
  BY <1>5, <1>6, <1>7 DEF Next, Pass
<1> QED
  BY <1>1, <1>3, <1>8 DEF KInv

\* No order in which references resolve, are lost or come back leaves a resource without a natural
\* key to look for: a pass gets as far as the lookup only with all that one candidate matches
\* (generic.go build, locate; naturalkey.go Applicable; deferred.go).
THEOREM NaturalKeyIsThere == Spec => []Keyed
<1>1. Init => KInv
  BY InitIInv DEF Init, KInv, Keyed
<1>2. KInv => Keyed
  BY DEF KInv
<1> QED
  BY <1>1, <1>2, NextKInv, PTL DEF Spec
=============================================================================
