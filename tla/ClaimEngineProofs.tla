------------------------- MODULE ClaimEngineProofs --------------------------
(***************************************************************************)
(* Machine-checked facts about ClaimEngine, for any number of claims,      *)
(* addresses, objects, faults and edits.  What the surroundings may do is  *)
(* a hypothesis of each theorem: each names the events that break it.      *)
(***************************************************************************)
EXTENDS ClaimEngine, TLAPS

Copy ==
  [there : BOOLEAN, identity : Explicit \cup {None}, del : DelPolicies,
   deleting : BOOLEAN, fin : BOOLEAN,
   addr : Addrs \cup {None}, id : 0..MaxId, held : Identities \cup {None},
   reason : Reasons, tries : Nat]

Made ==
  [there : BOOLEAN, addr : Addrs \cup {Outside}, identity : Identities \cup {None},
   cluster : Clusters \cup {None}, owner : Names \cup {None}]

Running ==
  [pc : Steps, obj : Copy, was : Copy, latest : BOOLEAN, mode : Modes,
   match : 0..MaxId, answered : Addrs \cup {None}, dated : BOOLEAN, retained : BOOLEAN]

TypeOK ==
  /\ api \in [Claims -> Copy \cup {Absent}]
  /\ cache \in [Claims -> Copy \cup {Absent}]
  /\ current \in [Claims -> BOOLEAN]
  /\ pass \in [Claims -> Running \cup {Idle}]
  /\ nb \in [Ids -> Made \cup {Absent}]
  /\ flight \in SUBSET Request
  /\ maker \in [Ids -> Claims \cup {None, Human}]
  /\ freed \in [Ids -> SUBSET Claims]

Releases == {"releasing", "free", "release"}

\* A pass p whose copy is the latest agrees with what the API server has, but for the status a
\* finishing pass is about to write; passes that release work on a claim being deleted, others
\* do not.
Agrees(p, a) ==
  /\ p.pc \in Releases => p.obj.deleting
  /\ p.pc \notin Releases \cup {"finish"} => ~p.obj.deleting
  /\ p.pc = "free" => p.obj.id # 0
  /\ p.pc = "verify" => p.match # 0
  /\ p.latest => /\ a.there /\ a.deleting = p.obj.deleting
                 /\ p.pc # "finish" => a.addr = p.obj.addr /\ a.id = p.obj.id /\ a.held = p.obj.held

Fresh ==
  \A c \in Claims : /\ current[c] => cache[c] = api[c]
                    /\ pass[c].pc # "idle" => Agrees(pass[c], api[c])

BInv == TypeOK /\ Fresh

-----------------------------------------------------------------------------
(* The shape of records. *)

LEMMA IdRange == /\ 0 \in 0..MaxId /\ Ids \subseteq 0..MaxId
                 /\ \A i \in 0..MaxId : i # 0 <=> i \in Ids
  BY ConstantsAssumption DEF Ids

LEMMA ThereIsCopy == ASSUME NEW r \in Copy \cup {Absent}, r.there PROVE r \in Copy
  BY DEF Absent

LEMMA ThereIsMade == ASSUME NEW o \in Made \cup {Absent}, o.there PROVE o \in Made
  BY DEF Absent

LEMMA BusyIsRunning == ASSUME NEW p \in Running \cup {Idle}, p.pc # "idle" PROVE p \in Running
  BY DEF Idle

LEMMA RunningIsBusy == ASSUME NEW p \in Running PROVE p.pc # "idle" /\ p \in Running \cup {Idle}
  BY DEF Running, Steps

LEMMA IdleIs == Idle \in Running \cup {Idle} /\ Idle.pc = "idle"
  BY DEF Idle

LEMMA AppliedIs ==
  ASSUME NEW r \in Applied
  PROVE  r \in Copy /\ r.there /\ ~r.deleting /\ r.addr = None /\ r.id = 0 /\ r.held = None
<1>4. r \in Copy
  BY ConstantsAssumption DEF Applied, Resource, Copy
<1> QED
  BY <1>4 DEF Applied

\* The two copies of a claim name the same object.
SameRecord(r, s) == r.addr = s.addr /\ r.id = s.id /\ r.held = s.held

\* What pass q keeps of pass p.
Keeps(p, q) ==
  /\ q \in Running /\ q.latest = p.latest /\ q.mode = p.mode
  /\ q.obj.deleting = p.obj.deleting /\ q.obj.identity = p.obj.identity
  /\ q.obj.del = p.obj.del

LEMMA MoveIs ==
  ASSUME NEW p \in Running, NEW pc \in Steps
  PROVE  LET q == [p EXCEPT !.pc = pc] IN Keeps(p, q) /\ q.pc = pc /\ q.obj = p.obj
  BY DEF Keeps, Running

LEMMA StopIs ==
  ASSUME NEW p \in Running, NEW reason \in Reasons
  PROVE  LET q == Stop(p, reason) IN
         Keeps(p, q) /\ q.pc = "finish" /\ SameRecord(q.obj, p.obj)
<1> DEFINE o == [p.obj EXCEPT !.reason = reason]
<1>1. /\ o \in Copy /\ SameRecord(o, p.obj) /\ o.deleting = p.obj.deleting
      /\ o.identity = p.obj.identity /\ o.del = p.obj.del
  BY DEF Running, Copy, SameRecord
<1>2. Stop(p, reason) = [p EXCEPT !.pc = "finish", !.obj = o]
  BY DEF Stop
<1> HIDE DEF o
<1> QED
  BY <1>1, <1>2 DEF Keeps, Running, Steps

LEMMA CommitIs ==
  ASSUME NEW p, NEW i, NEW a, NEW x, p \in Running, i \in Ids, a \in Addrs \cup {None},
         x \in Identities \cup {None}
  PROVE  LET q == Commit(p, i, a, x) IN
         Keeps(p, q) /\ q.pc = "finish" /\ q.obj.addr = a /\ q.obj.id = i /\ q.obj.held = x
<1> DEFINE o == [p.obj EXCEPT !.addr = a, !.id = i, !.held = x, !.reason = "Allocated"]
<1>1. /\ o \in Copy /\ o.deleting = p.obj.deleting /\ o.identity = p.obj.identity
      /\ o.del = p.obj.del /\ o.addr = a /\ o.id = i /\ o.held = x
  BY IdRange DEF Running, Copy, Reasons
<1>2. Commit(p, i, a, x) = [p EXCEPT !.pc = "finish", !.dated = TRUE, !.obj = o]
  BY DEF Commit
<1> HIDE DEF o
<1> QED
  BY <1>1, <1>2 DEF Keeps, Running, Steps

LEMMA ToReleaseIs ==
  ASSUME NEW p \in Running, NEW b \in BOOLEAN
  PROVE  LET q == ToRelease(p, b) IN
         Keeps(p, q) /\ q.pc = "release" /\ q.obj = p.obj /\ q.retained = b
  BY DEF ToRelease, Keeps, Running, Steps

LEMMA DatedIs ==
  ASSUME NEW p \in Running
  PROVE  LET q == [p EXCEPT !.dated = TRUE] IN Keeps(p, q) /\ q.pc = p.pc /\ q.obj = p.obj
  BY DEF Keeps, Running

LEMMA PinnedIs ==
  ASSUME NEW p \in Running
  PROVE  LET q == Pinned(p) IN Keeps(p, q) /\ q.pc = "finish" /\ SameRecord(q.obj, p.obj)
  BY StopIs DEF Pinned, Reasons

LEMMA KeepsThrough ==
  ASSUME NEW p, NEW q, NEW r, Keeps(p, q), Keeps(q, r) PROVE Keeps(p, r)
  BY DEF Keeps

LEMMA ContestedIs ==
  ASSUME NEW p \in Running
  PROVE  LET q == Contested(p) IN Keeps(p, q) /\ q.pc = "finish" /\ SameRecord(q.obj, p.obj)
<1>1. PICK s : s = Stop(p, "Contested")
  OBVIOUS
<1>2. Keeps(p, s) /\ s.pc = "finish" /\ SameRecord(s.obj, p.obj) /\ s \in Running
  BY <1>1, StopIs DEF Reasons, Keeps
<1> QED
  BY <1>1, <1>2, DatedIs, KeepsThrough DEF Contested

\* An attempt counted: another one later, or giving up with a report.
LEMMA DeleteBlockedIs ==
  ASSUME NEW p \in Running
  PROVE  LET q == DeleteBlocked(p) IN
         /\ Keeps(p, q) /\ SameRecord(q.obj, p.obj)
         /\ q.pc = "finish" \/ (q.pc = "release" /\ q.retained)
<1> DEFINE n == p.obj.tries + 1
           o == [p.obj EXCEPT !.tries = n]
           b == [p.obj EXCEPT !.tries = n, !.reason = "Blocked"]
           g == [p EXCEPT !.obj = o]
           f == [p EXCEPT !.pc = "finish", !.obj = b]
<1>0. p.obj \in Copy
  BY DEF Running
<1>1. p.obj \in Copy /\ n \in Nat
  BY <1>0 DEF Copy
<1> HIDE DEF n
<1>2. /\ o \in Copy /\ SameRecord(o, p.obj) /\ o.deleting = p.obj.deleting
      /\ o.identity = p.obj.identity /\ o.del = p.obj.del
  BY <1>1 DEF Copy, SameRecord
<1>3. /\ b \in Copy /\ SameRecord(b, p.obj) /\ b.deleting = p.obj.deleting
      /\ b.identity = p.obj.identity /\ b.del = p.obj.del
  BY <1>1 DEF Copy, SameRecord, Reasons
<1> HIDE DEF o, b
<1>4. Keeps(p, g) /\ g.obj = o /\ g \in Running
  BY <1>2 DEF Keeps, Running
<1>5. Keeps(p, f) /\ f.obj = b /\ f.pc = "finish"
  BY <1>3 DEF Keeps, Running, Steps
<1>6. DeleteBlocked(p) = IF n >= MaxTries THEN ToRelease(g, TRUE) ELSE f
  BY DEF DeleteBlocked, n, o, b
<1> HIDE DEF g, f
<1>7. Keeps(p, ToRelease(g, TRUE)) /\ ToRelease(g, TRUE).pc = "release"
      /\ ToRelease(g, TRUE).obj = o /\ ToRelease(g, TRUE).retained
  BY <1>4, ToReleaseIs, KeepsThrough
<1> QED
  BY <1>2, <1>3, <1>5, <1>6, <1>7

-----------------------------------------------------------------------------
(* The kinds of step of a pass, whichever call it makes. *)

Still == UNCHANGED <<api, cache, current, nb, flight, maker, freed>>

Starts(c, q) ==
  /\ pass[c].pc = "idle" /\ cache[c].there /\ q.latest = current[c]
  /\ q \in Running /\ q.obj = cache[c]
  /\ q.pc \in {"releasing", "finalizer", "settled", "find"}
  /\ q.pc = "releasing" <=> q.obj.deleting

\* What leads from one call of pass p to the next, q.
Leads(c, p, q) ==
  \/ q.pc = "finish"
  \/ p.pc = "find" /\ q.pc = "allocate" /\ Carrying(Identity(c, p)) = {}
  \/ p.pc = "settled" /\ q.pc = "holder"
  \/ p.pc = "releasing" /\ q.pc = "free" /\ p.obj.id # 0
  \/ /\ p.pc \in {"releasing", "free"} /\ q.pc = "release"
     /\ q.retained \/ p.obj.id = 0 \/ (p.pc = "free" /\ ~nb[p.obj.id].there)

Proceeds(c, p, q) ==
  /\ p \in Running /\ Keeps(p, q) /\ SameRecord(q.obj, p.obj) /\ Leads(c, p, q)

\* Pass p takes object i, found by the identity or just made.
Commits(c, p, q) ==
  /\ p \in Running /\ Keeps(p, q) /\ q.pc = "finish"
  /\ \E i \in Ids :
       /\ nb[i].there /\ nb[i].identity = Identity(c, p)
       /\ q.obj.id = i /\ q.obj.addr = nb[i].addr /\ q.obj.held = nb[i].identity
       /\ \/ p.pc = "find" /\ ~Foreign(c, p, nb[i])
          \/ p.pc = "verify" /\ i = p.match

Quiet(c, q) ==
  /\ Still /\ Go(c, q)
  /\ q = Idle \/ Starts(c, q) \/ Proceeds(c, pass[c], q) \/ Commits(c, pass[c], q)

Registers(c, q) ==
  /\ At(c, "finalizer") /\ pass[c].latest
  /\ api' = [api EXCEPT ![c] = [@ EXCEPT !.fin = TRUE]]
  /\ current' = [current EXCEPT ![c] = FALSE]
  /\ Go(c, q) /\ Keeps(pass[c], q) /\ SameRecord(q.obj, pass[c].obj) /\ q.pc \in {"settled", "find"}
  /\ UNCHANGED <<cache, nb, flight, maker, freed>>

Makes(c, q) ==
  /\ At(c, "allocate") /\ Go(c, q) /\ Keeps(pass[c], q) /\ SameRecord(q.obj, pass[c].obj)
  /\ \E i \in Ids, a \in Addrs :
       /\ Mint(i, a, c, Identity(c, pass[c]))
       /\ q.pc = "finish" \/ (q.pc = "verify" /\ q.match = i)
  /\ UNCHANGED <<api, cache, current, flight, freed>>

Sends(c, q) ==
  /\ At(c, "allocate") /\ Go(c, q) /\ Keeps(pass[c], q) /\ SameRecord(q.obj, pass[c].obj)
  /\ q.pc = "finish" /\ "Late" \in Env
  /\ flight' = flight \cup {[claim |-> c, identity |-> Identity(c, pass[c])]}
  /\ UNCHANGED <<api, cache, current, nb, maker, freed>>

Frees(c, q) ==
  /\ At(c, "free") /\ Go(c, q) /\ Keeps(pass[c], q) /\ SameRecord(q.obj, pass[c].obj)
  /\ q.pc \in {"finish", "release"}
  /\ nb' = [nb EXCEPT ![pass[c].obj.id] = Absent]
  /\ freed' = [freed EXCEPT ![pass[c].obj.id] = @ \cup {c}]
  /\ UNCHANGED <<api, cache, current, flight, maker>>

Records(c) ==
  LET p == pass[c] IN
  /\ At(c, "finish") /\ p.latest /\ Go(c, Idle)
  /\ api' = [api EXCEPT ![c] = [@ EXCEPT !.addr = p.obj.addr, !.id = p.obj.id,
               !.held = p.obj.held, !.reason = p.obj.reason, !.tries = p.obj.tries]]
  /\ current' = [current EXCEPT ![c] = FALSE]
  /\ UNCHANGED <<cache, nb, flight, maker, freed>>

LetsGo(c) ==
  /\ At(c, "release") /\ pass[c].latest /\ Go(c, Idle)
  /\ api' = [api EXCEPT ![c] = Absent]
  /\ current' = [current EXCEPT ![c] = FALSE]
  /\ told' = IF pass[c].retained THEN told \cup {c} ELSE told
  /\ UNCHANGED <<cache, nb, flight, maker, freed>>

\* Users replace the claim: an edit or a deletion, which keep what is recorded, its end when it
\* has no finalizer, or a new claim.
Rewrites(c, obj) ==
  /\ WriteOutside(c, obj) /\ UNCHANGED <<cache, nb, flight, maker, freed>>
  /\ \/ obj = Absent /\ ~api[c].deleting
     \/ obj \in Copy /\ api[c].there /\ ~api[c].deleting /\ SameRecord(obj, api[c])
     \/ obj \in Copy /\ ~api[c].there /\ obj.addr = None /\ obj.id = 0

PassStep(c) ==
  \/ Records(c) \/ LetsGo(c)
  \/ \E q : Quiet(c, q) \/ Registers(c, q) \/ Makes(c, q) \/ Sends(c, q) \/ Frees(c, q)

LEMMA AtRunning ==
  ASSUME BInv, NEW c \in Claims, pass[c].pc # "idle"
  PROVE  pass[c] \in Running /\ pass[c].obj \in Copy /\ Agrees(pass[c], api[c])
<1>1. pass[c] \in Running
  BY BusyIsRunning DEF BInv, TypeOK
<1> QED
  BY <1>1 DEF BInv, Fresh, Running

LEMMA ProceedsQuiet ==
  ASSUME NEW c, NEW q, pass[c] \in Running, Keeps(pass[c], q), SameRecord(q.obj, pass[c].obj),
         Leads(c, pass[c], q), Still, Go(c, q)
  PROVE  PassStep(c)
  BY DEF PassStep, Quiet, Proceeds

LEMMA IdleQuiet == ASSUME NEW c, Still, Go(c, Idle) PROVE PassStep(c)
  BY DEF PassStep, Quiet

LEMMA StopQuiet ==
  ASSUME NEW c, NEW reason \in Reasons, pass[c] \in Running, Still, Go(c, Stop(pass[c], reason))
  PROVE  PassStep(c)
  BY StopIs, ProceedsQuiet DEF Leads

LEMMA IdentityIs ==
  ASSUME NEW c \in Claims, NEW p \in Running
  PROVE  /\ Identity(c, p) \in Identities
         /\ p.obj.identity = None => Identity(c, p) = c[2]
         /\ p.obj.identity # None => Identity(c, p) \in Explicit
  BY DEF Identity, Identities, Claims, Running, Copy

LEMMA BeginStep == ASSUME BInv, NEW c \in Claims, Begin(c) PROVE PassStep(c)
<1> DEFINE o == cache[c]
           pc == IF o.deleting THEN "releasing"
                 ELSE IF ~o.fin THEN "finalizer"
                 ELSE IF o.addr # None THEN "settled" ELSE "find"
<1>1. PICK m \in Modes :
        Go(c, [pc |-> pc, obj |-> o, was |-> o, latest |-> current[c], mode |-> m,
               match |-> 0, answered |-> None, dated |-> FALSE, retained |-> FALSE])
  BY DEF Begin
<1> DEFINE q == [pc |-> pc, obj |-> o, was |-> o, latest |-> current[c], mode |-> m,
                 match |-> 0, answered |-> None, dated |-> FALSE, retained |-> FALSE]
<1>2. o \in Copy /\ current[c] \in BOOLEAN
  BY ThereIsCopy DEF Begin, BInv, TypeOK
<1>3. pc \in {"releasing", "finalizer", "settled", "find"} /\ (pc = "releasing" <=> o.deleting)
  OBVIOUS
<1> HIDE DEF pc, o
<1>4. q \in Running
  BY <1>2, <1>3, IdRange DEF Running, Steps
<1>5. Starts(c, q)
  BY <1>3, <1>4 DEF Starts, Begin, At, o
<1> HIDE DEF q
<1> QED
  BY <1>1, <1>5 DEF PassStep, Quiet, Begin, Still, netbox, q

LEMMA TakeFinalizerStep == ASSUME BInv, NEW c \in Claims, TakeFinalizer(c) PROVE PassStep(c)
<1> DEFINE p == pass[c]
           o == [p.obj EXCEPT !.fin = TRUE]
           pc == IF p.obj.addr # None THEN "settled" ELSE "find"
           q == [p EXCEPT !.pc = pc, !.obj = o]
<1>1. p \in Running /\ p.obj \in Copy
  BY AtRunning DEF TakeFinalizer, At
<1>2. CASE p.latest
  <2>1. /\ o \in Copy /\ SameRecord(o, p.obj) /\ o.deleting = p.obj.deleting
        /\ o.identity = p.obj.identity /\ o.del = p.obj.del
    BY <1>1 DEF Copy, SameRecord
  <2> HIDE DEF o
  <2>2. Keeps(p, q) /\ q.obj = o /\ q.pc \in {"settled", "find"}
    BY <1>1, <2>1 DEF Keeps, Running, Steps
  <2>3. Go(c, q)
    BY <1>2 DEF TakeFinalizer, o
  <2> HIDE DEF q
  <2>4. Registers(c, q)
    BY <1>2, <2>1, <2>2, <2>3 DEF Registers, TakeFinalizer, netbox
  <2> QED
    BY <2>4 DEF PassStep
<1>3. CASE ~p.latest
  BY <1>3, IdleQuiet DEF TakeFinalizer, Still, netbox
<1> QED
  BY <1>2, <1>3

LEMMA FindStep == ASSUME BInv, NEW c \in Claims, Find(c) PROVE PassStep(c)
<1> DEFINE p == pass[c]
           x == Identity(c, p)
<1>1. p \in Running /\ p.pc = "find" /\ Still
  BY AtRunning DEF Find, At, Still, netbox
<1>2. x \in Identities
  BY <1>1, IdentityIs
<1>3. CASE Go(c, Stop(p, "Refused"))
  BY <1>1, <1>3, StopQuiet DEF Reasons
<1>4. CASE Carrying(x) = {} /\ Go(c, [p EXCEPT !.pc = "allocate"])
  <2> DEFINE q == [p EXCEPT !.pc = "allocate"]
  <2>1. Keeps(p, q) /\ q.pc = "allocate" /\ q.obj = p.obj
    BY <1>1, MoveIs DEF Steps
  <2> HIDE DEF q
  <2> QED
    BY <1>1, <1>4, <2>1, ProceedsQuiet DEF Leads, SameRecord, q
<1>5. ASSUME NEW i \in Carrying(x), Go(c, Reclaim(c, p, i)) PROVE PassStep(c)
  <2>1. i \in Ids /\ nb[i].there /\ nb[i].identity = x /\ nb[i] \in Made
    BY <1>5, ThereIsMade DEF Carrying, BInv, TypeOK
  <2>2. CASE nb[i].addr # Outside /\ ~Foreign(c, p, nb[i])
    <3> DEFINE q == Commit(p, i, nb[i].addr, x)
    <3>1. nb[i].addr \in Addrs \cup {None} /\ x \in Identities \cup {None}
      BY <1>2, <2>1, <2>2 DEF Made
    <3>2. Keeps(p, q) /\ q.pc = "finish" /\ q.obj.addr = nb[i].addr /\ q.obj.id = i
          /\ q.obj.held = x
      <4> HIDE DEF x
      <4> QED
        BY <1>1, <2>1, <3>1, CommitIs
    <3>3. Go(c, q)
      BY <1>5, <2>2 DEF Reclaim
    <3> HIDE DEF q
    <3>4. Commits(c, p, q)
      BY <1>1, <2>1, <2>2, <3>2 DEF Commits
    <3> QED
      BY <1>1, <3>3, <3>4 DEF PassStep, Quiet
  <2>3. CASE nb[i].addr = Outside \/ Foreign(c, p, nb[i])
    BY <1>1, <1>5, <2>3, StopQuiet DEF Reclaim, Reasons
  <2> QED
    BY <2>2, <2>3
<1> QED
  BY <1>3, <1>4, <1>5 DEF Find

LEMMA AllocateStep == ASSUME BInv, NEW c \in Claims, Allocate(c) PROVE PassStep(c)
<1> DEFINE p == pass[c]
           stop == Stop(p, "Waiting")
<1>1. p \in Running /\ p.pc = "allocate"
  BY AtRunning DEF Allocate, At
<1>2. Keeps(p, stop) /\ stop.pc = "finish" /\ SameRecord(stop.obj, p.obj)
  BY <1>1, StopIs DEF Reasons
<1> HIDE DEF stop
<1>3. ASSUME NEW r \in Reasons, Go(c, Stop(p, r)), UNCHANGED <<nb, flight, maker>>
      PROVE  PassStep(c)
  BY <1>1, <1>3, StopQuiet DEF Allocate, Still
<1>4. ASSUME NEW i \in Ids, NEW a \in Addrs, Mint(i, a, c, Identity(c, p)), UNCHANGED flight,
             \/ Go(c, [p EXCEPT !.pc = "verify", !.match = i, !.answered = a])
             \/ Go(c, stop)
      PROVE  PassStep(c)
  <2> DEFINE q == [p EXCEPT !.pc = "verify", !.match = i, !.answered = a]
  <2>1. Keeps(p, q) /\ q.pc = "verify" /\ q.match = i /\ q.obj = p.obj
    BY <1>1, IdRange DEF Keeps, Running, Steps
  <2> HIDE DEF q
  <2>2. CASE Go(c, q)
    <3>1. Makes(c, q)
      BY <1>1, <1>4, <2>1, <2>2 DEF Makes, At, Allocate, SameRecord
    <3> QED
      BY <3>1 DEF PassStep
  <2>3. CASE Go(c, stop)
    <3>1. Makes(c, stop)
      BY <1>1, <1>2, <1>4, <2>3 DEF Makes, At, Allocate
    <3> QED
      BY <3>1 DEF PassStep
  <2> QED
    BY <1>4, <2>2, <2>3 DEF q
<1>5. ASSUME "Late" \in Env, Go(c, stop), UNCHANGED <<nb, maker>>,
             flight' = flight \cup {[claim |-> c, identity |-> Identity(c, p)]}
      PROVE  PassStep(c)
  <2>1. Sends(c, stop)
    BY <1>1, <1>2, <1>5 DEF Sends, At, Allocate
  <2> QED
    BY <2>1 DEF PassStep
<1> QED
  BY <1>3, <1>4, <1>5 DEF Allocate, Reasons, stop

LEMMA VerifyStep == ASSUME BInv, NEW c \in Claims, Verify(c) PROVE PassStep(c)
<1> DEFINE p == pass[c]
           o == nb[p.match]
           x == Identity(c, p)
<1>1. p \in Running /\ p.pc = "verify" /\ Still
  BY AtRunning DEF Verify, At, Still, netbox
<1>2. x \in Identities
  BY <1>1, IdentityIs
<1>3. CASE o.there /\ o.addr = p.answered /\ o.identity = x
  <2> DEFINE q == Commit(p, p.match, o.addr, o.identity)
  <2>1. p.match \in Ids
    BY <1>1, AtRunning, IdRange DEF Agrees, Running
  <2>2. o.addr \in Addrs \cup {None} /\ o.identity \in Identities \cup {None}
    BY <1>1, <1>2, <1>3 DEF Running
  <2>3. Go(c, q)
    BY <1>3 DEF Verify
  <2> HIDE DEF x
  <2>4. Keeps(p, q) /\ q.pc = "finish" /\ q.obj.addr = o.addr /\ q.obj.id = p.match
        /\ q.obj.held = o.identity
    <3> HIDE DEF o
    <3> QED
      BY <1>1, <2>1, <2>2, CommitIs
  <2> HIDE DEF q
  <2>5. Commits(c, p, q)
    BY <1>1, <1>3, <2>1, <2>4 DEF Commits, x
  <2> QED
    BY <1>1, <2>3, <2>5 DEF PassStep, Quiet
<1>4. CASE ~(o.there /\ o.addr = p.answered /\ o.identity = x)
  BY <1>1, <1>4, StopQuiet DEF Verify, Reasons
<1> QED
  BY <1>3, <1>4

\* The call fails or changes nothing: the pass finishes with what it had.
LEMMA PinnedQuiet ==
  ASSUME NEW c, pass[c] \in Running, Still, Go(c, Pinned(pass[c])) PROVE PassStep(c)
  BY StopQuiet DEF Pinned, Reasons

LEMMA ContestedQuiet ==
  ASSUME NEW c, pass[c] \in Running, Still, Go(c, Contested(pass[c])) PROVE PassStep(c)
  BY ContestedIs, ProceedsQuiet DEF Leads

LEMMA BlockedQuiet ==
  ASSUME NEW c, pass[c] \in Running, pass[c].pc \in {"releasing", "free"}, Still,
         Go(c, DeleteBlocked(pass[c]))
  PROVE  PassStep(c)
  BY DeleteBlockedIs, ProceedsQuiet DEF Leads

LEMMA ReleaseQuiet ==
  ASSUME NEW c, NEW b \in BOOLEAN, pass[c] \in Running, pass[c].pc \in {"releasing", "free"},
         Still, Go(c, ToRelease(pass[c], b)),
         b \/ pass[c].obj.id = 0 \/ (pass[c].pc = "free" /\ ~nb[pass[c].obj.id].there)
  PROVE  PassStep(c)
  BY ToReleaseIs, ProceedsQuiet DEF Leads, SameRecord

LEMMA SettledStep == ASSUME BInv, NEW c \in Claims, Settled(c) PROVE PassStep(c)
<1> DEFINE p == pass[c]
<1>1. p \in Running /\ p.pc = "settled" /\ Still
  BY AtRunning DEF Settled, At, Still, netbox
<1>2. CASE Go(c, Pinned(p))
  BY <1>1, <1>2, PinnedQuiet
<1>3. CASE Go(c, VerifyPin(p))
  <2>1. CASE VerifyPin(p) = Contested(p)
    BY <1>1, <1>3, <2>1, ContestedQuiet
  <2>2. CASE VerifyPin(p) = [Pinned(p) EXCEPT !.dated = TRUE]
    <3>1. PICK s : s = Pinned(p)
      OBVIOUS
    <3>2. Keeps(p, s) /\ s.pc = "finish" /\ SameRecord(s.obj, p.obj) /\ s \in Running
      BY <1>1, <3>1, PinnedIs DEF Keeps
    <3>3. PICK q : q = [s EXCEPT !.dated = TRUE]
      OBVIOUS
    <3>4. Keeps(p, q) /\ q.pc = "finish" /\ SameRecord(q.obj, p.obj)
      BY <3>2, <3>3, DatedIs, KeepsThrough
    <3> QED
      BY <1>1, <1>3, <2>2, <3>1, <3>3, <3>4, ProceedsQuiet DEF Leads
  <2>3. CASE VerifyPin(p) = [p EXCEPT !.pc = "holder"]
    <3> DEFINE q == [p EXCEPT !.pc = "holder"]
    <3>1. Keeps(p, q) /\ q.pc = "holder" /\ q.obj = p.obj
      BY <1>1, MoveIs DEF Steps
    <3> HIDE DEF q
    <3> QED
      BY <1>1, <1>3, <2>3, <3>1, ProceedsQuiet DEF Leads, SameRecord, q
  <2> QED
    BY <2>1, <2>2, <2>3 DEF VerifyPin
<1> QED
  BY <1>2, <1>3 DEF Settled

LEMMA PinNotHeldStep == ASSUME BInv, NEW c \in Claims, PinNotHeld(c) PROVE PassStep(c)
<1>1. pass[c] \in Running
  BY AtRunning DEF PinNotHeld, At
<1> QED
  BY <1>1, ContestedQuiet DEF PinNotHeld, Still, netbox

LEMMA FinishStep == ASSUME BInv, NEW c \in Claims, Finish(c) PROVE PassStep(c)
<1>1. CASE (pass[c].dated \/ StatusOf(pass[c].obj) # StatusOf(pass[c].was)) /\ pass[c].latest
  BY <1>1 DEF Finish, PassStep, Records, netbox
<1>2. CASE ~((pass[c].dated \/ StatusOf(pass[c].obj) # StatusOf(pass[c].was)) /\ pass[c].latest)
  BY <1>2, IdleQuiet DEF Finish, Still, netbox
<1> QED
  BY <1>1, <1>2

LEMMA ReleasingStep == ASSUME BInv, NEW c \in Claims, Releasing(c) PROVE PassStep(c)
<1> DEFINE p == pass[c]
<1>1. p \in Running /\ p.pc = "releasing" /\ Still /\ p.obj.del \in {"Delete", "Retain", "Skip"}
  BY AtRunning, ConstantsAssumption DEF Releasing, At, Still, netbox, Copy
<1>2. CASE ~p.obj.fin
  BY <1>1, <1>2, IdleQuiet DEF Releasing
<1>3. CASE p.obj.fin /\ ReleasesAtOnce(p.obj)
  <2>1. LeavesBehind(p.obj) \/ p.obj.id = 0
    BY <1>1, <1>3 DEF ReleasesAtOnce, LeavesBehind
  <2>2. LeavesBehind(p.obj) \in BOOLEAN
    BY DEF LeavesBehind
  <2> QED
    BY <1>1, <1>3, <2>1, <2>2, ReleaseQuiet DEF Releasing
<1>4. CASE p.obj.fin /\ ~ReleasesAtOnce(p.obj)
  <2> DEFINE q == [p EXCEPT !.pc = "free"]
  <2>1. Keeps(p, q) /\ q.pc = "free" /\ q.obj = p.obj /\ p.obj.id # 0
    BY <1>1, <1>4, MoveIs DEF Steps, ReleasesAtOnce
  <2>2. Go(c, q)
    BY <1>4 DEF Releasing
  <2> HIDE DEF q
  <2> QED
    BY <1>1, <2>1, <2>2, ProceedsQuiet DEF Leads, SameRecord
<1> QED
  BY <1>2, <1>3, <1>4

LEMMA FreeStep == ASSUME BInv, NEW c \in Claims, Free(c) PROVE PassStep(c)
<1> DEFINE p == pass[c]
           i == p.obj.id
<1>1. p \in Running /\ p.pc = "free" /\ UNCHANGED <<api, cache, current, flight, maker>>
  BY AtRunning DEF Free, At
<1>2. CASE UNCHANGED <<nb, freed>> /\ Go(c, ToRelease(p, TRUE))
  BY <1>1, <1>2, ReleaseQuiet DEF Still
<1>3. CASE UNCHANGED <<nb, freed>> /\ Go(c, ToRelease(p, FALSE)) /\ ~nb[i].there
  BY <1>1, <1>3, ReleaseQuiet DEF Still
<1>4. CASE UNCHANGED <<nb, freed>> /\ Go(c, DeleteBlocked(p))
  BY <1>1, <1>4, BlockedQuiet DEF Still
<1>5. ASSUME nb' = [nb EXCEPT ![i] = Absent], freed' = [freed EXCEPT ![i] = @ \cup {c}],
             NEW q, Go(c, q), q = ToRelease(p, FALSE) \/ q = DeleteBlocked(p)
      PROVE  PassStep(c)
  <2>1. Keeps(p, q) /\ SameRecord(q.obj, p.obj) /\ q.pc \in {"finish", "release"}
    BY <1>1, <1>5, ToReleaseIs, DeleteBlockedIs DEF SameRecord
  <2>2. Frees(c, q)
    BY <1>1, <1>5, <2>1 DEF Frees, At
  <2> QED
    BY <2>2 DEF PassStep
<1> QED
  BY <1>2, <1>3, <1>4, <1>5 DEF Free

LEMMA ReleaseStep == ASSUME BInv, NEW c \in Claims, Release(c) PROVE PassStep(c)
<1>1. CASE pass[c].latest
  BY <1>1 DEF Release, PassStep, LetsGo, netbox
<1>2. CASE ~pass[c].latest
  BY <1>2, IdleQuiet DEF Release, Still, netbox
<1> QED
  BY <1>1, <1>2

LEMMA TroubleStep ==
  ASSUME BInv, NEW c \in Claims, PoolUnusable(c) \/ EndpointNotReady(c) \/ CallFails(c)
  PROVE  PassStep(c)
<1> DEFINE p == pass[c]
<1>0. Still
  BY DEF PoolUnusable, EndpointNotReady, CallFails, Still, netbox
<1>1. CASE Go(c, Idle)
  BY <1>0, <1>1, IdleQuiet
<1>2. CASE p.pc # "idle" /\ Go(c, Stop(p, "Waiting"))
  BY <1>0, <1>2, AtRunning, StopQuiet DEF Reasons
<1>3. CASE p.pc # "idle" /\ Go(c, Pinned(p))
  BY <1>0, <1>3, AtRunning, PinnedQuiet
<1>4. CASE p.pc \in {"releasing", "free"} /\ Go(c, DeleteBlocked(p))
  BY <1>0, <1>4, AtRunning, BlockedQuiet
<1> QED
  BY <1>1, <1>2, <1>3, <1>4 DEF PoolUnusable, EndpointNotReady, CallFails, At

LEMMA AnyPassStep ==
  ASSUME BInv, NEW c \in Claims,
         Step(c) \/ PoolUnusable(c) \/ EndpointNotReady(c) \/ CallFails(c)
  PROVE  PassStep(c)
  BY BeginStep, TakeFinalizerStep, FindStep, AllocateStep, VerifyStep, SettledStep,
     PinNotHeldStep, FinishStep, ReleasingStep, FreeStep, ReleaseStep, TroubleStep DEF Step

LEMMA UserStep ==
  ASSUME BInv, NEW c \in Claims, UserEdit(c) \/ UserDelete(c) \/ UserReapply(c)
  PROVE  \E obj : Rewrites(c, obj)
<1>0. UNCHANGED <<cache, nb, flight, maker, freed>> /\ api[c] \in Copy \cup {Absent}
  BY DEF UserEdit, UserDelete, UserReapply, netbox, BInv, TypeOK
<1>1. CASE UserEdit(c)
  <2> PICK x \in Explicit \cup {None}, d \in DelPolicies :
        WriteOutside(c, [api[c] EXCEPT !.identity = x, !.del = d])
    BY <1>1 DEF UserEdit
  <2>1. api[c].there /\ ~api[c].deleting /\ api[c] \in Copy
    BY <1>0, <1>1, ThereIsCopy DEF UserEdit
  <2>2. PICK o : o = [api[c] EXCEPT !.identity = x, !.del = d]
    OBVIOUS
  <2>3. o \in Copy /\ SameRecord(o, api[c])
    BY <2>1, <2>2 DEF Copy, SameRecord
  <2> QED
    BY <1>0, <2>1, <2>2, <2>3 DEF Rewrites
<1>2. CASE UserDelete(c)
  <2>1. api[c].there /\ ~api[c].deleting /\ api[c] \in Copy
    BY <1>0, <1>2, ThereIsCopy DEF UserDelete
  <2>2. PICK o : o = [api[c] EXCEPT !.deleting = TRUE]
    OBVIOUS
  <2>3. o \in Copy /\ SameRecord(o, api[c])
    BY <2>1, <2>2 DEF Copy, SameRecord
  <2>4. WriteOutside(c, o) \/ WriteOutside(c, Absent)
    BY <1>2, <2>2 DEF UserDelete
  <2> QED
    BY <1>0, <2>1, <2>3, <2>4 DEF Rewrites
<1>3. CASE UserReapply(c)
  <2> PICK r \in Applied : WriteOutside(c, r)
    BY <1>3 DEF UserReapply
  <2> QED
    BY <1>0, <1>3, AppliedIs DEF Rewrites, UserReapply
<1> QED
  BY <1>1, <1>2, <1>3

\* What surrounds the passes: users, NetBox, the informer, the process.
OtherStep ==
  \/ \E c \in Claims : CacheSync(c) \/ \E obj : Rewrites(c, obj)
  \/ \E i \in Ids : HumanDelete(i) \/ HumanMove(i) \/ HumanStamp(i)
  \/ \E k \in Clusters : Crash(k)
  \/ HumanMake \/ Restore \/ LateAllocation

LEMMA NextIs ==
  ASSUME BInv, Next PROVE (\E c \in Claims : PassStep(c)) \/ OtherStep
  BY AnyPassStep, UserStep DEF Next, OtherStep

-----------------------------------------------------------------------------
(* Types, and what the optimistic lock is worth to a pass. *)

NetBoxOK ==
  /\ nb \in [Ids -> Made \cup {Absent}] /\ flight \in SUBSET Request
  /\ maker \in [Ids -> Claims \cup {None, Human}] /\ freed \in [Ids -> SUBSET Claims]

\* One pass moves, one claim is perhaps written, NetBox changes or not.
LEMMA OneMoves ==
  ASSUME BInv, NEW c \in Claims, NEW q, pass' = [pass EXCEPT ![c] = q],
         q \in Running \cup {Idle}, UNCHANGED cache, NetBoxOK', NEW a, a \in Copy \cup {Absent},
         \/ UNCHANGED <<api, current>> /\ a = api[c]
         \/ api' = [api EXCEPT ![c] = a] /\ current' = [current EXCEPT ![c] = FALSE],
         q.pc # "idle" => Agrees(q, a)
  PROVE  BInv'
<1>1. TypeOK'
  BY DEF BInv, TypeOK, NetBoxOK
<1>2. \A d \in Claims : d # c => api'[d] = api[d] /\ current'[d] = current[d] /\ pass'[d] = pass[d]
  BY DEF BInv, TypeOK
<1>3. api'[c] = a /\ pass'[c] = q /\ (current'[c] => current[c] /\ api'[c] = api[c])
  BY DEF BInv, TypeOK
<1>4. Fresh'
  BY <1>2, <1>3 DEF BInv, Fresh
<1> QED
  BY <1>1, <1>4 DEF BInv

\* Only NetBox changes.
LEMMA NetBoxMoves ==
  ASSUME BInv, UNCHANGED <<api, cache, current, pass>>, NetBoxOK' PROVE BInv'
  BY DEF BInv, TypeOK, Fresh, NetBoxOK

LEMMA StillOK == ASSUME BInv, UNCHANGED <<nb, flight, maker, freed>> PROVE NetBoxOK'
  BY DEF BInv, TypeOK, NetBoxOK

LEMMA MintOK ==
  ASSUME BInv, NEW i \in Ids, NEW a \in Addrs, NEW c \in Claims, NEW x, x \in Identities,
         Mint(i, a, c, x)
  PROVE  /\ nb' \in [Ids -> Made \cup {Absent}] /\ maker' \in [Ids -> Claims \cup {None, Human}]
<1> DEFINE o == [there |-> TRUE, addr |-> a, identity |-> x, cluster |-> c[1], owner |-> c[2]]
<1>1. o \in Made
  BY DEF Made, Claims
<1> HIDE DEF o
<1> QED
  BY <1>1 DEF Mint, o, BInv, TypeOK

LEMMA QuietBInv == ASSUME BInv, NEW c \in Claims, NEW q, Quiet(c, q) PROVE BInv'
<1>0. pass' = [pass EXCEPT ![c] = q] /\ UNCHANGED <<api, cache, current>> /\ NetBoxOK'
      /\ api[c] \in Copy \cup {Absent}
  BY StillOK DEF Quiet, Go, Still, BInv, TypeOK
<1>1. CASE q = Idle
  BY <1>0, <1>1, OneMoves, IdleIs
<1>2. CASE Starts(c, q)
  <2>1. q.latest => q.obj = api[c]
    BY <1>2 DEF Starts, BInv, Fresh
  <2>2. Agrees(q, api[c])
    BY <1>2, <2>1 DEF Starts, Agrees, Releases
  <2> QED
    BY <1>0, <1>2, <2>2, OneMoves, RunningIsBusy DEF Starts
<1>3. CASE Proceeds(c, pass[c], q) \/ Commits(c, pass[c], q)
  <2>1. pass[c] \in Running /\ pass[c].pc # "idle" /\ Keeps(pass[c], q)
    BY <1>3, RunningIsBusy DEF Proceeds, Commits
  <2>2. Agrees(pass[c], api[c])
    BY <2>1, AtRunning
  <2>3. Agrees(q, api[c])
    BY <1>3, <2>1, <2>2 DEF Agrees, Keeps, Proceeds, Commits, Leads, SameRecord, Releases
  <2> QED
    BY <1>0, <2>1, <2>3, OneMoves, RunningIsBusy DEF Keeps
<1> QED
  BY <1>1, <1>2, <1>3 DEF Quiet

LEMMA RegistersBInv == ASSUME BInv, NEW c \in Claims, NEW q, Registers(c, q) PROVE BInv'
<1>1. pass[c] \in Running /\ Agrees(pass[c], api[c])
  BY AtRunning DEF Registers, At
<1>2. api[c] \in Copy
  BY <1>1, ThereIsCopy DEF Registers, Agrees, BInv, TypeOK
<1>3. PICK a : a = [api[c] EXCEPT !.fin = TRUE]
  OBVIOUS
<1>4. a \in Copy /\ SameRecord(a, api[c]) /\ a.there = api[c].there /\ a.deleting = api[c].deleting
  BY <1>2, <1>3 DEF Copy, SameRecord
<1>5. Agrees(q, a)
  BY <1>1, <1>4 DEF Agrees, Registers, Keeps, SameRecord, At, Releases
<1>6. api' = [api EXCEPT ![c] = a] /\ current' = [current EXCEPT ![c] = FALSE]
  BY <1>3 DEF Registers
<1> QED
  BY <1>4, <1>5, <1>6, OneMoves, StillOK DEF Registers, Go, Keeps

LEMMA MakesBInv == ASSUME BInv, NEW c \in Claims, NEW q, Makes(c, q) PROVE BInv'
<1>1. pass[c] \in Running /\ Agrees(pass[c], api[c])
  BY AtRunning DEF Makes, At
<1>2. PICK i \in Ids, a \in Addrs : /\ Mint(i, a, c, Identity(c, pass[c]))
                                    /\ q.pc = "finish" \/ (q.pc = "verify" /\ q.match = i)
  BY DEF Makes
<1>3. NetBoxOK'
  BY <1>1, <1>2, IdentityIs, MintOK DEF Makes, NetBoxOK, BInv, TypeOK
<1>4. i # 0
  BY IdRange
<1>5. Agrees(q, api[c])
  BY <1>1, <1>2, <1>4 DEF Agrees, Makes, Keeps, SameRecord, At, Releases
<1> QED
  BY <1>3, <1>5, OneMoves DEF Makes, Go, Keeps, BInv, TypeOK

LEMMA SendsBInv == ASSUME BInv, NEW c \in Claims, NEW q, Sends(c, q) PROVE BInv'
<1>1. pass[c] \in Running /\ Agrees(pass[c], api[c])
  BY AtRunning DEF Sends, At
<1>2. [claim |-> c, identity |-> Identity(c, pass[c])] \in Request
  BY <1>1, IdentityIs DEF Request
<1>3. NetBoxOK'
  BY <1>2 DEF Sends, NetBoxOK, BInv, TypeOK
<1>5. Agrees(q, api[c])
  BY <1>1 DEF Agrees, Sends, Keeps, SameRecord, At, Releases
<1> QED
  BY <1>3, <1>5, OneMoves DEF Sends, Go, Keeps, BInv, TypeOK

LEMMA FreesBInv == ASSUME BInv, NEW c \in Claims, NEW q, Frees(c, q) PROVE BInv'
<1>1. pass[c] \in Running /\ pass[c].obj \in Copy /\ Agrees(pass[c], api[c])
  BY AtRunning DEF Frees, At
<1>2. pass[c].obj.id \in Ids
  BY <1>1, IdRange DEF Agrees, Frees, At, Copy
<1>3. NetBoxOK'
  BY <1>2 DEF Frees, NetBoxOK, BInv, TypeOK
<1>5. Agrees(q, api[c])
  BY <1>1 DEF Agrees, Frees, Keeps, SameRecord, At, Releases
<1> QED
  BY <1>3, <1>5, OneMoves DEF Frees, Go, Keeps, BInv, TypeOK

LEMMA RecordsBInv == ASSUME BInv, NEW c \in Claims, Records(c) PROVE BInv'
<1>1. pass[c] \in Running /\ pass[c].obj \in Copy /\ Agrees(pass[c], api[c])
  BY AtRunning DEF Records, At
<1>2. api[c] \in Copy
  BY <1>1, ThereIsCopy DEF Records, Agrees, BInv, TypeOK
<1>3. PICK a : a = [api[c] EXCEPT !.addr = pass[c].obj.addr, !.id = pass[c].obj.id,
               !.held = pass[c].obj.held, !.reason = pass[c].obj.reason, !.tries = pass[c].obj.tries]
  OBVIOUS
<1>4. a \in Copy
  BY <1>1, <1>2, <1>3 DEF Copy
<1>5. api' = [api EXCEPT ![c] = a] /\ current' = [current EXCEPT ![c] = FALSE]
  BY <1>3 DEF Records
<1> QED
  BY <1>4, <1>5, OneMoves, StillOK, IdleIs DEF Records, Go

LEMMA LetsGoBInv == ASSUME BInv, NEW c \in Claims, LetsGo(c) PROVE BInv'
  BY OneMoves, StillOK, IdleIs DEF LetsGo, Go

LEMMA RewritesBInv == ASSUME BInv, NEW c \in Claims, NEW obj, Rewrites(c, obj) PROVE BInv'
<1>0. /\ obj \in Copy \cup {Absent} /\ UNCHANGED cache /\ NetBoxOK' /\ pass[c] \in Running \cup {Idle}
      /\ api' = [api EXCEPT ![c] = obj] /\ current' = [current EXCEPT ![c] = FALSE]
  BY StillOK DEF Rewrites, WriteOutside, BInv, TypeOK
<1>1. CASE pass[c].pc = "idle"
  <2>1. pass' = [pass EXCEPT ![c] = pass[c]]
    BY <1>1 DEF Rewrites, WriteOutside, BInv, TypeOK
  <2> QED
    BY <1>0, <1>1, <2>1, OneMoves
<1>2. CASE pass[c].pc # "idle"
  <2>1. pass[c] \in Running /\ Agrees(pass[c], api[c])
    BY <1>2, AtRunning
  <2>2. PICK q : q = [pass[c] EXCEPT !.latest = FALSE]
    OBVIOUS
  <2>3. q \in Running /\ q.pc = pass[c].pc /\ q.obj = pass[c].obj /\ q.match = pass[c].match
        /\ q.latest = FALSE
    BY <2>1, <2>2 DEF Running
  <2>4. Agrees(q, obj)
    BY <2>1, <2>3 DEF Agrees
  <2>5. pass' = [pass EXCEPT ![c] = q]
    BY <1>2, <2>2 DEF Rewrites, WriteOutside
  <2> QED
    BY <1>0, <2>3, <2>4, <2>5, OneMoves
<1> QED
  BY <1>1, <1>2

LEMMA OtherBInv == ASSUME BInv, OtherStep PROVE BInv'
<1>1. ASSUME NEW c \in Claims, CacheSync(c) PROVE BInv'
  <2>1. TypeOK'
    BY <1>1 DEF CacheSync, netbox, BInv, TypeOK
  <2>2. cache'[c] = api[c] /\ \A d \in Claims : d # c => cache'[d] = cache[d] /\ current'[d] = current[d]
    BY <1>1 DEF CacheSync, BInv, TypeOK
  <2>3. Fresh'
    BY <1>1, <2>2 DEF CacheSync, BInv, Fresh
  <2> QED
    BY <2>1, <2>3 DEF BInv
<1>2. ASSUME NEW i \in Ids, HumanDelete(i) PROVE BInv'
  <2>1. NetBoxOK'
    BY <1>2 DEF HumanDelete, history, NetBoxOK, BInv, TypeOK
  <2> QED
    BY <1>2, <2>1, NetBoxMoves DEF HumanDelete
<1>3. ASSUME NEW i \in Ids, HumanMove(i) PROVE BInv'
  <2>0. nb[i] \in Made
    BY <1>3, ThereIsMade DEF HumanMove, BInv, TypeOK
  <2>1. \A a \in Addrs \cup {Outside} : [nb[i] EXCEPT !.addr = a] \in Made
    BY <2>0 DEF Made
  <2>2. NetBoxOK'
    BY <1>3, <2>1 DEF HumanMove, history, NetBoxOK, BInv, TypeOK
  <2> QED
    BY <1>3, <2>2, NetBoxMoves DEF HumanMove
<1>4. ASSUME NEW i \in Ids, HumanStamp(i) PROVE BInv'
  <2>0. nb[i] \in Made
    BY <1>4, ThereIsMade DEF HumanStamp, BInv, TypeOK
  <2>1. /\ \A n \in Names : [nb[i] EXCEPT !.owner = n] \in Made
        /\ [nb[i] EXCEPT !.owner = None, !.cluster = None] \in Made
    BY <2>0 DEF Made
  <2>2. NetBoxOK'
    BY <1>4, <2>1 DEF HumanStamp, history, NetBoxOK, BInv, TypeOK
  <2> QED
    BY <1>4, <2>2, NetBoxMoves DEF HumanStamp
<1>5. ASSUME NEW k \in Clusters, Crash(k) PROVE BInv'
  <2>1. TypeOK'
    BY <1>5, IdleIs DEF Crash, netbox, BInv, TypeOK
  <2>2. Fresh'
    BY <1>5, IdleIs DEF Crash, BInv, TypeOK, Fresh
  <2> QED
    BY <2>1, <2>2 DEF BInv
<1>6. ASSUME HumanMake PROVE BInv'
  <2>1. PICK i \in NextId, a \in Addrs :
          /\ nb' = [nb EXCEPT ![i] = [there |-> TRUE, addr |-> a, identity |-> None,
                                      cluster |-> None, owner |-> None]]
          /\ maker' = [maker EXCEPT ![i] = Human]
    BY <1>6 DEF HumanMake
  <2>2. PICK o : o = [there |-> TRUE, addr |-> a, identity |-> None, cluster |-> None, owner |-> None]
    OBVIOUS
  <2>3. o \in Made
    BY <2>2 DEF Made
  <2>4. NetBoxOK'
    BY <1>6, <2>1, <2>2, <2>3 DEF HumanMake, NextId, NetBoxOK, BInv, TypeOK
  <2> QED
    BY <1>6, <2>4, NetBoxMoves DEF HumanMake
<1>7. ASSUME Restore PROVE BInv'
  <2>1. NetBoxOK'
    BY <1>7 DEF Restore, NetBoxOK, BInv, TypeOK
  <2> QED
    BY <1>7, <2>1, NetBoxMoves DEF Restore
<1>8. ASSUME LateAllocation PROVE BInv'
  <2>1. PICK q \in flight, i \in Ids, a \in Addrs :
          flight' = flight \ {q} /\ Mint(i, a, q.claim, q.identity)
    BY <1>8 DEF LateAllocation
  <2>2. q.claim \in Claims /\ q.identity \in Identities
    BY DEF BInv, TypeOK, Request
  <2>3. NetBoxOK'
    BY <1>8, <2>1, <2>2, MintOK DEF LateAllocation, NetBoxOK, BInv, TypeOK
  <2> QED
    BY <1>8, <2>3, NetBoxMoves DEF LateAllocation
<1> QED
  BY <1>1, <1>2, <1>3, <1>4, <1>5, <1>6, <1>7, <1>8, RewritesBInv DEF OtherStep

LEMMA NextBInv == ASSUME BInv, [Next]_vars PROVE BInv'
<1>1. CASE UNCHANGED vars
  BY <1>1 DEF vars, BInv, TypeOK, Fresh
<1>2. ASSUME NEW c \in Claims, PassStep(c) PROVE BInv'
  BY <1>2, QuietBInv, RegistersBInv, MakesBInv, SendsBInv, FreesBInv, RecordsBInv, LetsGoBInv
     DEF PassStep
<1> QED
  BY <1>1, <1>2, NextIs, OtherBInv

LEMMA InitBInv == Init => BInv
<1> SUFFICES ASSUME Init PROVE BInv
  OBVIOUS
<1>1. api \in [Claims -> Copy \cup {Absent}]
  BY AppliedIs DEF Init
<1>2. TypeOK
  BY <1>1 DEF Init, TypeOK
<1>3. Fresh
  BY IdleIs DEF Init, Fresh
<1> QED
  BY <1>2, <1>3 DEF BInv

LEMMA AlwaysBInv == Spec => []BInv
  BY InitBInv, NextBInv, PTL DEF Spec

-----------------------------------------------------------------------------
(* Freed or reported. *)

\* Id i was minted, with makers m; so were the ids copy r and pass p record, and a pass about to
\* let its claim go has an object left only if it reports it.
Known(i, m) == i = 0 \/ m[i] # None

Settles(p, m, n) ==
  /\ Known(p.obj.id, m)
  /\ p.pc = "release" => p.retained \/ p.obj.id = 0 \/ ~n[p.obj.id].there

RInv ==
  /\ \A i \in Ids : nb[i].there => maker[i] # None
  /\ \A c \in Claims : /\ api[c].there => Known(api[c].id, maker)
                       /\ cache[c].there => Known(cache[c].id, maker)
                       /\ pass[c].pc # "idle" => Settles(pass[c], maker, nb)

\* NetBox goes on to makers m and objects n: ids stay minted, and none comes back.
Onwards(m, n) ==
  \A i \in Ids : maker[i] # None => m[i] = maker[i] /\ (n[i].there => nb[i].there)

LEMMA RStays ==
  ASSUME BInv, RInv, Onwards(maker', nb'), NEW c \in Claims
  PROVE  /\ api[c].there => Known(api[c].id, maker')
         /\ cache[c].there => Known(cache[c].id, maker')
         /\ pass[c].pc # "idle" => Settles(pass[c], maker', nb')
<1>1. \A i \in 0..MaxId : Known(i, maker) => Known(i, maker')
  BY IdRange DEF Onwards, Known
<1>2. api[c].there => api[c].id \in 0..MaxId
  BY ThereIsCopy DEF BInv, TypeOK, Copy
<1>3. cache[c].there => cache[c].id \in 0..MaxId
  BY ThereIsCopy DEF BInv, TypeOK, Copy
<1>4. pass[c].pc # "idle" => pass[c].obj.id \in 0..MaxId
  BY AtRunning DEF Copy
<1> QED
  BY <1>1, <1>2, <1>3, <1>4, IdRange DEF RInv, Settles, Onwards, Known

\* One pass moves, its claim is perhaps written.
LEMMA ROneMoves ==
  ASSUME BInv, RInv, Onwards(maker', nb'), \A i \in Ids : nb'[i].there => maker'[i] # None,
         NEW c \in Claims, NEW q, pass' = [pass EXCEPT ![c] = q], UNCHANGED cache,
         q.pc # "idle" => Settles(q, maker', nb'), NEW a,
         UNCHANGED api \/ api' = [api EXCEPT ![c] = a],
         a.there => Known(a.id, maker')
  PROVE  RInv'
<1>1. \A d \in Claims : /\ api'[d] = api[d] \/ (d = c /\ api'[d] = a)
                        /\ pass'[d] = pass[d] \/ (d = c /\ pass'[d] = q)
  BY DEF BInv, TypeOK
<1> QED
  BY <1>1, RStays DEF RInv

LEMMA MintOnwards ==
  ASSUME BInv, RInv, NEW i \in Ids, NEW a, NEW c \in Claims, NEW x, Mint(i, a, c, x)
  PROVE  /\ Onwards(maker', nb') /\ \A j \in Ids : nb'[j].there => maker'[j] # None
         /\ maker'[i] = c /\ nb'[i].there
<1>1. maker[i] = None
  BY DEF Mint, NextId, Minted
<1>2. /\ nb'[i] = [there |-> TRUE, addr |-> a, identity |-> x, cluster |-> c[1], owner |-> c[2]]
      /\ maker'[i] = c /\ \A j \in Ids : j # i => nb'[j] = nb[j] /\ maker'[j] = maker[j]
  BY DEF Mint, BInv, TypeOK
<1>3. c # None
  BY ConstantsAssumption
<1> QED
  BY <1>1, <1>2, <1>3 DEF Onwards, RInv

LEMMA StillOnwards ==
  ASSUME RInv, UNCHANGED <<nb, maker>>
  PROVE  Onwards(maker', nb') /\ \A i \in Ids : nb'[i].there => maker'[i] # None
  BY DEF Onwards, RInv

LEMMA PassRInv == ASSUME BInv, RInv, NEW c \in Claims, PassStep(c) PROVE RInv'
<1>0. api[c].there => Known(api[c].id, maker)
  BY DEF RInv
<1>1. ASSUME NEW q, Quiet(c, q) PROVE RInv'
  <2>1. UNCHANGED <<api, cache, nb, maker>> /\ pass' = [pass EXCEPT ![c] = q]
    BY <1>1 DEF Quiet, Still, Go
  <2>2. CASE q = Idle
    BY <1>0, <2>1, <2>2, ROneMoves, StillOnwards, IdleIs
  <2>3. CASE Starts(c, q)
    <3>1. Settles(q, maker, nb)
      BY <2>3 DEF Starts, Settles, RInv
    <3> QED
      BY <1>0, <2>1, <3>1, ROneMoves, StillOnwards
  <2>4. CASE Proceeds(c, pass[c], q)
    <3>1. pass[c].pc # "idle" /\ pass[c] \in Running
      BY <2>4, RunningIsBusy DEF Proceeds
    <3>2. Settles(q, maker, nb)
      BY <2>4, <3>1 DEF Proceeds, Leads, SameRecord, Settles, RInv
    <3> QED
      BY <1>0, <2>1, <3>2, ROneMoves, StillOnwards
  <2>5. CASE Commits(c, pass[c], q)
    <3>2. Settles(q, maker, nb)
      BY <2>5 DEF Commits, Settles, Known, RInv
    <3> QED
      BY <1>0, <2>1, <3>2, ROneMoves, StillOnwards
  <2> QED
    BY <1>1, <2>2, <2>3, <2>4, <2>5 DEF Quiet
<1>2. ASSUME NEW q, Registers(c, q) PROVE RInv'
  <2>1. UNCHANGED <<cache, nb, maker>> /\ pass' = [pass EXCEPT ![c] = q] /\ pass[c] \in Running
        /\ pass[c].pc = "finalizer" /\ Agrees(pass[c], api[c])
    BY <1>2, AtRunning DEF Registers, Go, At
  <2>2. Settles(q, maker, nb)
    BY <1>2, <2>1 DEF Registers, SameRecord, Settles, RInv
  <2>3. PICK a : a = [api[c] EXCEPT !.fin = TRUE]
    OBVIOUS
  <2>4. api[c] \in Copy
    BY <1>2, <2>1, ThereIsCopy DEF Registers, Agrees, BInv, TypeOK
  <2>5. a.id = api[c].id /\ a.there = api[c].there /\ api' = [api EXCEPT ![c] = a]
    BY <1>2, <2>3, <2>4 DEF Copy, Registers
  <2> QED
    BY <1>0, <2>1, <2>2, <2>5, ROneMoves, StillOnwards
<1>3. ASSUME NEW q, Makes(c, q) PROVE RInv'
  <2>1. UNCHANGED <<api, cache>> /\ pass' = [pass EXCEPT ![c] = q] /\ pass[c].pc # "idle"
        /\ SameRecord(q.obj, pass[c].obj) /\ q.pc # "release"
    BY <1>3 DEF Makes, Go, At
  <2>2. Onwards(maker', nb') /\ \A j \in Ids : nb'[j].there => maker'[j] # None
    BY <1>3, MintOnwards DEF Makes
  <2>3. Settles(q, maker', nb')
    BY <2>1, <2>2, RStays DEF SameRecord, Settles
  <2> QED
    BY <1>0, <2>1, <2>2, <2>3, ROneMoves, RStays
<1>4. ASSUME NEW q, Sends(c, q) PROVE RInv'
  <2>1. UNCHANGED <<api, cache, nb, maker>> /\ pass' = [pass EXCEPT ![c] = q]
        /\ pass[c].pc = "allocate"
    BY <1>4 DEF Sends, Go, At
  <2>2. Settles(q, maker, nb)
    BY <1>4, <2>1 DEF Sends, SameRecord, Settles, RInv
  <2> QED
    BY <1>0, <2>1, <2>2, ROneMoves, StillOnwards
<1>5. ASSUME NEW q, Frees(c, q) PROVE RInv'
  <2>1. UNCHANGED <<api, cache, maker>> /\ pass' = [pass EXCEPT ![c] = q] /\ pass[c].pc # "idle"
        /\ SameRecord(q.obj, pass[c].obj) /\ pass[c].pc = "free"
    BY <1>5 DEF Frees, Go, At
  <2>2. pass[c].obj.id \in Ids
    BY <2>1, AtRunning, IdRange DEF Agrees, Copy
  <2>3. /\ nb'[pass[c].obj.id] = Absent
        /\ \A j \in Ids : j # pass[c].obj.id => nb'[j] = nb[j]
    BY <1>5, <2>2 DEF Frees, BInv, TypeOK
  <2>4. Onwards(maker', nb') /\ \A j \in Ids : nb'[j].there => maker'[j] # None
    BY <2>1, <2>3 DEF Onwards, RInv, Absent
  <2>5. Settles(q, maker', nb')
    BY <2>1, <2>3, <2>4, RStays DEF SameRecord, Settles, Absent
  <2> QED
    BY <1>0, <2>1, <2>4, <2>5, ROneMoves
<1>6. ASSUME Records(c) PROVE RInv'
  <2>1. UNCHANGED <<cache, nb, maker>> /\ pass' = [pass EXCEPT ![c] = Idle] /\ pass[c].pc # "idle"
        /\ pass[c].latest
    BY <1>6 DEF Records, Go, At
  <2>2. api[c] \in Copy
    BY <2>1, AtRunning, ThereIsCopy DEF Agrees, BInv, TypeOK
  <2>3. PICK a : a = [api[c] EXCEPT !.addr = pass[c].obj.addr, !.id = pass[c].obj.id,
               !.held = pass[c].obj.held, !.reason = pass[c].obj.reason, !.tries = pass[c].obj.tries]
    OBVIOUS
  <2>4. a.id = pass[c].obj.id /\ api' = [api EXCEPT ![c] = a]
    BY <1>6, <2>2, <2>3 DEF Copy, Records
  <2>5. Known(a.id, maker)
    BY <2>1, <2>4 DEF RInv, Settles
  <2> QED
    BY <2>1, <2>4, <2>5, ROneMoves, StillOnwards, IdleIs
<1>7. ASSUME LetsGo(c) PROVE RInv'
  <2>1. ~Absent.there
    BY DEF Absent
  <2> QED
    BY <1>7, <2>1, ROneMoves, StillOnwards, IdleIs DEF LetsGo, Go
<1> QED
  BY <1>1, <1>2, <1>3, <1>4, <1>5, <1>6, <1>7 DEF PassStep

\* An outside write keeps all of a running pass but the validity of its copy.
LEMMA WriteOutsidePass ==
  ASSUME BInv, NEW c \in Claims, NEW obj, WriteOutside(c, obj)
  PROVE  /\ \A d \in Claims : d # c => pass'[d] = pass[d] /\ api'[d] = api[d]
         /\ api'[c] = obj
         /\ pass[c].pc = "idle" => pass'[c] = pass[c]
         /\ pass[c].pc # "idle" =>
              /\ pass'[c] \in Running /\ ~pass'[c].latest
              /\ pass'[c].pc = pass[c].pc /\ pass'[c].obj = pass[c].obj
              /\ pass'[c].match = pass[c].match /\ pass'[c].retained = pass[c].retained
<1>1. /\ \A d \in Claims : d # c => pass'[d] = pass[d] /\ api'[d] = api[d]
      /\ api'[c] = obj
      /\ pass[c].pc = "idle" => pass'[c] = pass[c]
      /\ pass[c].pc # "idle" => pass'[c] = [pass[c] EXCEPT !.latest = FALSE]
  BY DEF WriteOutside, BInv, TypeOK
<1>2. ASSUME NEW p \in Running
      PROVE  LET q == [p EXCEPT !.latest = FALSE] IN
             /\ q \in Running /\ ~q.latest /\ q.pc = p.pc /\ q.obj = p.obj
             /\ q.match = p.match /\ q.retained = p.retained
  BY DEF Running
<1> QED
  BY <1>1, <1>2, AtRunning

\* What humans do to one object.
LEMMA HumanStep ==
  ASSUME BInv, NEW i \in Ids, HumanDelete(i) \/ HumanMove(i) \/ HumanStamp(i)
  PROVE  /\ UNCHANGED <<api, cache, pass, flight, maker, freed>> /\ nb[i] \in Made /\ nb[i].there
         /\ \A j \in Ids : j # i => nb'[j] = nb[j]
         /\ nb'[i].there => nb'[i].identity = nb[i].identity
         /\ HumanDelete(i) => nb'[i] = Absent
<1>1. UNCHANGED <<api, cache, pass, flight, maker, freed>> /\ nb[i].there /\ nb[i] \in Made
  BY ThereIsMade DEF HumanDelete, HumanMove, HumanStamp, history, BInv, TypeOK
<1>2. CASE HumanDelete(i)
  BY <1>1, <1>2 DEF HumanDelete, BInv, TypeOK, Absent
<1>3. CASE HumanMove(i)
  <2>1. PICK a \in Addrs \cup {Outside} : nb' = [nb EXCEPT ![i] = [@ EXCEPT !.addr = a]]
    BY <1>3 DEF HumanMove
  <2>2. nb'[i] = [nb[i] EXCEPT !.addr = a] /\ \A j \in Ids : j # i => nb'[j] = nb[j]
    BY <2>1 DEF BInv, TypeOK
  <2>4. nb'[i].identity = nb[i].identity /\ nb'[i].there
    BY <1>1, <2>2 DEF Made
  <2> QED
    BY <1>1, <2>2, <2>4 DEF HumanDelete, BInv, TypeOK
<1>4. CASE HumanStamp(i)
  <2>2. /\ \/ \E n \in Names : nb'[i] = [nb[i] EXCEPT !.owner = n]
           \/ nb'[i] = [nb[i] EXCEPT !.owner = None, !.cluster = None]
        /\ \A j \in Ids : j # i => nb'[j] = nb[j]
    BY <1>4 DEF HumanStamp, BInv, TypeOK
  <2>4. nb'[i].identity = nb[i].identity /\ nb'[i].there
    BY <1>1, <2>2 DEF Made
  <2> QED
    BY <1>1, <2>2, <2>4 DEF HumanDelete, BInv, TypeOK
<1> QED
  BY <1>2, <1>3, <1>4

LEMMA HumanMakeIs ==
  ASSUME BInv, HumanMake
  PROVE  /\ UNCHANGED <<api, cache, pass, flight, freed>>
         /\ \E i \in Ids : /\ maker[i] = None /\ maker'[i] = Human
                           /\ nb'[i].there /\ nb'[i].identity = None
                           /\ \A j \in Ids : j # i => nb'[j] = nb[j] /\ maker'[j] = maker[j]
<1>1. PICK i \in NextId, a \in Addrs :
        /\ nb' = [nb EXCEPT ![i] = [there |-> TRUE, addr |-> a, identity |-> None,
                                    cluster |-> None, owner |-> None]]
        /\ maker' = [maker EXCEPT ![i] = Human]
  BY DEF HumanMake
<1>2. i \in Ids /\ maker[i] = None
  BY DEF NextId, Minted
<1>3. /\ nb'[i] = [there |-> TRUE, addr |-> a, identity |-> None, cluster |-> None, owner |-> None]
      /\ maker'[i] = Human /\ \A j \in Ids : j # i => nb'[j] = nb[j] /\ maker'[j] = maker[j]
  BY <1>1, <1>2 DEF BInv, TypeOK
<1>4. nb'[i].there /\ nb'[i].identity = None
  BY <1>3
<1>5. UNCHANGED <<api, cache, pass, flight, freed>>
  BY DEF HumanMake
<1> QED
  BY <1>2, <1>3, <1>4, <1>5

LEMMA LateIs ==
  ASSUME BInv, LateAllocation
  PROVE  /\ UNCHANGED <<api, cache, pass, freed>>
         /\ \E q \in flight, i \in Ids, a \in Addrs :
              /\ q.claim \in Claims /\ q.identity \in Identities
              /\ flight' = flight \ {q} /\ Mint(i, a, q.claim, q.identity)
  BY DEF LateAllocation, BInv, TypeOK, Request

\* The informer's copies and the passes after a sync or a crash.
LEMMA ReadsAgain ==
  ASSUME BInv, (\E c \in Claims : CacheSync(c)) \/ (\E k \in Clusters : Crash(k))
  PROVE  /\ UNCHANGED <<api, nb, flight, maker, freed>>
         /\ \A d \in Claims : cache'[d] = cache[d] \/ cache'[d] = api[d]
         /\ \A d \in Claims : pass'[d] = pass[d] \/ pass'[d] = Idle
  BY DEF CacheSync, Crash, netbox, BInv, TypeOK

LEMMA OtherRInv ==
  ASSUME BInv, RInv, "Restore" \notin Env, OtherStep PROVE RInv'
<1>1. ASSUME UNCHANGED <<api, cache, pass>>, Onwards(maker', nb'),
             \A i \in Ids : nb'[i].there => maker'[i] # None
      PROVE  RInv'
  BY <1>1, RStays DEF RInv
<1>2. ASSUME NEW i \in Ids, HumanDelete(i) \/ HumanMove(i) \/ HumanStamp(i) PROVE RInv'
  <2>1. Onwards(maker', nb') /\ \A j \in Ids : nb'[j].there => maker'[j] # None
    BY <1>2, HumanStep DEF Onwards, RInv
  <2> QED
    BY <1>1, <1>2, <2>1, HumanStep
<1>3. ASSUME HumanMake PROVE RInv'
  <2>1. Human # None
    BY ConstantsAssumption
  <2>2. Onwards(maker', nb') /\ \A j \in Ids : nb'[j].there => maker'[j] # None
    BY <1>3, <2>1, HumanMakeIs DEF Onwards, RInv
  <2> QED
    BY <1>1, <1>3, <2>2, HumanMakeIs
<1>4. ASSUME LateAllocation PROVE RInv'
  <2>1. PICK q \in flight, i \in Ids, a \in Addrs :
          q.claim \in Claims /\ Mint(i, a, q.claim, q.identity)
    BY <1>4, LateIs
  <2>2. Onwards(maker', nb') /\ \A j \in Ids : nb'[j].there => maker'[j] # None
    BY <2>1, MintOnwards
  <2> QED
    BY <1>1, <1>4, <2>2, LateIs
<1>5. ASSUME (\E c \in Claims : CacheSync(c)) \/ (\E k \in Clusters : Crash(k)) PROVE RInv'
  BY <1>5, ReadsAgain, IdleIs DEF RInv
<1>6. ASSUME NEW c \in Claims, NEW obj, Rewrites(c, obj) PROVE RInv'
  <2>1. UNCHANGED <<cache, nb, maker>> /\ WriteOutside(c, obj)
    BY <1>6 DEF Rewrites
  <2>2. obj.there => Known(obj.id, maker)
    BY <1>6 DEF Rewrites, RInv, Known, SameRecord, Absent
  <2> QED
    BY <2>1, <2>2, WriteOutsidePass DEF RInv, Settles
<1>7. ~Restore
  BY DEF Restore
<1> QED
  BY <1>2, <1>3, <1>4, <1>5, <1>6, <1>7 DEF OtherStep

LEMMA InitRInv == Init => RInv
<1> SUFFICES ASSUME Init PROVE RInv
  OBVIOUS
<1>1. \A c \in Claims : api[c].id = 0 /\ ~cache[c].there /\ pass[c].pc = "idle"
  BY AppliedIs, IdleIs DEF Init, Absent
<1>2. \A i \in Ids : ~nb[i].there
  BY DEF Init, Absent
<1> QED
  BY <1>1, <1>2 DEF RInv, Known

LEMMA AlwaysRInv == ASSUME "Restore" \notin Env PROVE Spec => []RInv
<1>1. BInv /\ RInv /\ [Next]_vars => RInv'
  <2> SUFFICES ASSUME BInv, RInv, [Next]_vars PROVE RInv'
    OBVIOUS
  <2>1. CASE UNCHANGED vars
    BY <2>1 DEF vars, RInv
  <2> QED
    BY <2>1, NextIs, PassRInv, OtherRInv
<1> QED
  BY <1>1, InitRInv, AlwaysBInv, PTL DEF Spec

\* A claim never lets go of the object it made and recorded without that object being gone or
\* the claim having said that it stays: whatever fails, is lost, late or read stale, whoever
\* else writes NetBox, on any endpoint and under any policy.  Only a NetBox restored from a
\* snapshot, which hands out ids again, is excluded (claim.go releasing, free, release).
THEOREM NothingIsLeftUnsaid == ASSUME "Restore" \notin Env PROVE Spec => FreedOrReported
<1>1. ASSUME BInv, RInv, Next, NEW c \in Claims, api[c].there, api[c].deleting, api[c].id # 0,
             ~api'[c].there
      PROVE  c \in told' \/ api[c].id \notin MadeBy(c)
  <2>0. api[c] \in Copy /\ ~Absent.there
    BY <1>1, ThereIsCopy DEF BInv, TypeOK, Absent
  <2>1. ASSUME NEW d \in Claims, PassStep(d) PROVE LetsGo(c)
    <3>1. CASE UNCHANGED api
      BY <1>1, <3>1
    <3>2. CASE Records(d)
      <4>1. api'[c] = api[c] \/ api'[c] = [api[c] EXCEPT !.addr = pass[d].obj.addr,
              !.id = pass[d].obj.id, !.held = pass[d].obj.held, !.reason = pass[d].obj.reason,
              !.tries = pass[d].obj.tries]
        BY <1>1, <3>2 DEF Records, BInv, TypeOK
      <4> QED
        BY <1>1, <2>0, <4>1 DEF Copy
    <3>3. ASSUME NEW q, Registers(d, q) PROVE LetsGo(c)
      <4>1. api'[c] = api[c] \/ api'[c] = [api[c] EXCEPT !.fin = TRUE]
        BY <1>1, <3>3 DEF Registers, BInv, TypeOK
      <4> QED
        BY <1>1, <2>0, <4>1 DEF Copy
    <3>4. CASE LetsGo(d)
      <4>1. d = c
        BY <1>1, <3>4 DEF LetsGo, BInv, TypeOK
      <4> QED
        BY <3>4, <4>1
    <3> QED
      BY <2>1, <3>1, <3>2, <3>3, <3>4 DEF PassStep, Quiet, Still, Makes, Sends, Frees
  <2>2. ASSUME OtherStep PROVE FALSE
    <3>1. ASSUME NEW d \in Claims, NEW obj, Rewrites(d, obj) PROVE FALSE
      <4>1. d = c
        BY <1>1, <3>1, WriteOutsidePass DEF Rewrites
      <4> QED
        BY <1>1, <3>1, <4>1 DEF Rewrites
    <3> QED
      BY <1>1, <2>2, <3>1, HumanStep, HumanMakeIs, LateIs, ReadsAgain DEF OtherStep, Restore
  <2>3. LetsGo(c)
    BY <1>1, <2>1, <2>2, NextIs
  <2>4. pass[c].pc = "release" /\ pass[c].latest /\ Settles(pass[c], maker, nb)
    BY <1>1, <2>3 DEF LetsGo, At, RInv
  <2>5. pass[c].obj.id = api[c].id
    BY <1>1, <2>4, AtRunning DEF Agrees
  <2> QED
    BY <1>1, <2>3, <2>4, <2>5 DEF LetsGo, Settles, MadeBy
<1>2. BInv /\ RInv /\ [Next]_vars =>
        [\A c \in Claims :
           api[c].there /\ api[c].deleting /\ api[c].id # 0 /\ ~api'[c].there
             => c \in told' \/ api[c].id \notin MadeBy(c)]_vars
  BY <1>1
<1> QED
  BY <1>2, AlwaysBInv, AlwaysRInv, PTL DEF Spec, FreedOrReported

-----------------------------------------------------------------------------
(* Exactly once. *)

\* Among objects n with makers m, none that c made carries identity x.
NoneYet(c, x, n, m) == \A i \in Ids : n[i].there /\ m[i] = c => n[i].identity # x

\* No request is on its way unheard, and a pass about to allocate has seen that there is nothing
\* to reclaim, which stays so because nobody else makes objects for its claim.
XInv ==
  /\ flight = {}
  /\ \A c \in Claims : pass[c].pc = "allocate" => NoneYet(c, Identity(c, pass[c]), nb, maker)
  /\ ExactlyOnce

\* NetBox goes on to objects n with makers m, none of them made for a claim meanwhile.
NoneMade(n, m) ==
  \A i \in Ids : n[i].there /\ m[i] \in Claims =>
    nb[i].there /\ n[i].identity = nb[i].identity /\ m[i] = maker[i]

LEMMA XStays ==
  ASSUME XInv, NoneMade(nb', maker'), UNCHANGED flight,
         \A c \in Claims : pass'[c].pc = "allocate" =>
           \/ pass[c].pc = "allocate" /\ Identity(c, pass'[c]) = Identity(c, pass[c])
           \/ NoneYet(c, Identity(c, pass'[c]), nb, maker)
  PROVE  XInv'
<1>1. \A c \in Claims : pass'[c].pc = "allocate" => NoneYet(c, Identity(c, pass'[c]), nb, maker)
  BY DEF XInv
<1>2. \A x : \A c \in Claims : NoneYet(c, x, nb, maker) => NoneYet(c, x, nb', maker')
  BY DEF NoneYet, NoneMade
<1>3. ExactlyOnce'
  BY DEF NoneMade, XInv, ExactlyOnce, MadeBy
<1> QED
  BY <1>1, <1>2, <1>3 DEF XInv

LEMMA PassXInv ==
  ASSUME BInv, XInv, "Late" \notin Env, NEW c \in Claims, PassStep(c) PROVE XInv'
<1>1. ASSUME NEW q, pass' = [pass EXCEPT ![c] = q], UNCHANGED <<nb, maker, flight>>,
             q.pc = "allocate" => NoneYet(c, Identity(c, q), nb, maker)
      PROVE  XInv'
  <2>1. NoneMade(nb', maker')
    BY <1>1 DEF NoneMade
  <2>2. pass'[c] = q /\ \A d \in Claims : d # c => pass'[d] = pass[d]
    BY <1>1 DEF BInv, TypeOK
  <2> QED
    BY <1>1, <2>1, <2>2, XStays
<1>2. ASSUME NEW q, Quiet(c, q) PROVE XInv'
  <2>1. ASSUME q.pc = "allocate" PROVE NoneYet(c, Identity(c, q), nb, maker)
    <3>1. Proceeds(c, pass[c], q)
      BY <1>2, <2>1, IdleIs DEF Quiet, Starts, Commits
    <3>2. Carrying(Identity(c, pass[c])) = {}
      BY <2>1, <3>1 DEF Proceeds, Leads
    <3>3. Identity(c, q) = Identity(c, pass[c])
      BY <3>1 DEF Proceeds, Keeps, Identity
    <3> QED
      BY <3>2, <3>3 DEF Carrying, NoneYet
  <2> QED
    BY <1>1, <1>2, <2>1 DEF Quiet, Still, Go
<1>3. ASSUME NEW q, Registers(c, q) PROVE XInv'
  BY <1>1, <1>3 DEF Registers, Go
<1>4. ASSUME NEW q, Makes(c, q) PROVE XInv'
  <2>1. PICK i \in Ids, a \in Addrs : Mint(i, a, c, Identity(c, pass[c]))
    BY <1>4 DEF Makes
  <2>2. PICK x : x = Identity(c, pass[c])
    OBVIOUS
  <2>3. /\ nb'[i] = [there |-> TRUE, addr |-> a, identity |-> x, cluster |-> c[1], owner |-> c[2]]
        /\ maker'[i] = c /\ \A j \in Ids : j # i => nb'[j] = nb[j] /\ maker'[j] = maker[j]
    BY <2>1, <2>2 DEF Mint, BInv, TypeOK
  <2>4. nb'[i].identity = x
    BY <2>3
  <2>5. NoneYet(c, x, nb, maker)
    BY <1>4, <2>2 DEF XInv, Makes, At
  <2>6. ExactlyOnce'
    <3> SUFFICES ASSUME NEW d \in Claims, NEW j \in MadeBy(d)', NEW k \in MadeBy(d)', j # k
                 PROVE  nb'[j].identity # nb'[k].identity
      BY DEF ExactlyOnce
    <3>1. j \in Ids /\ k \in Ids /\ maker'[j] = d /\ maker'[k] = d /\ nb'[j].there /\ nb'[k].there
      BY DEF MadeBy
    <3>2. CASE j # i /\ k # i
      BY <2>3, <3>1, <3>2 DEF XInv, ExactlyOnce, MadeBy
    <3>3. CASE j = i
      BY <2>3, <2>4, <2>5, <3>1, <3>3 DEF NoneYet
    <3>4. CASE k = i
      BY <2>3, <2>4, <2>5, <3>1, <3>4 DEF NoneYet
    <3> QED
      BY <3>2, <3>3, <3>4
  <2>7. ASSUME NEW d \in Claims, pass'[d].pc = "allocate"
        PROVE  NoneYet(d, Identity(d, pass'[d]), nb', maker')
    <3>1. d # c /\ pass'[d] = pass[d]
      BY <1>4, <2>7 DEF Makes, Go, BInv, TypeOK
    <3> QED
      BY <2>3, <2>7, <3>1 DEF XInv, NoneYet
  <2> QED
    BY <1>4, <2>6, <2>7 DEF XInv, Makes
<1>5. ASSUME NEW q, Frees(c, q) PROVE XInv'
  <2>1. NoneMade(nb', maker')
    BY <1>5 DEF Frees, NoneMade, BInv, TypeOK, Absent
  <2>2. \A d \in Claims : pass'[d].pc = "allocate" => pass'[d] = pass[d]
    BY <1>5 DEF Frees, Go, BInv, TypeOK
  <2> QED
    BY <1>5, <2>1, <2>2, XStays DEF Frees
<1>6. ASSUME Records(c) \/ LetsGo(c) PROVE XInv'
  BY <1>1, <1>6, IdleIs DEF Records, LetsGo, Go
<1> QED
  BY <1>2, <1>3, <1>4, <1>5, <1>6 DEF PassStep, Sends

LEMMA OtherXInv == ASSUME BInv, XInv, OtherStep PROVE XInv'
<1>1. ASSUME UNCHANGED <<pass, flight>>, NoneMade(nb', maker') PROVE XInv'
  BY <1>1, XStays
<1>2. ASSUME NEW i \in Ids, HumanDelete(i) \/ HumanMove(i) \/ HumanStamp(i) PROVE XInv'
  BY <1>1, <1>2, HumanStep DEF NoneMade
<1>3. ASSUME HumanMake PROVE XInv'
  <2>1. Human \notin Claims
    BY ConstantsAssumption
  <2>2. NoneMade(nb', maker')
    BY <1>3, <2>1, HumanMakeIs DEF NoneMade
  <2> QED
    BY <1>1, <1>3, <2>2, HumanMakeIs
<1>4. ~LateAllocation
  BY DEF LateAllocation, XInv
<1>5. ASSUME (\E c \in Claims : CacheSync(c)) \/ (\E k \in Clusters : Crash(k)) PROVE XInv'
  <2>1. NoneMade(nb', maker')
    BY <1>5, ReadsAgain DEF NoneMade
  <2>2. \A d \in Claims : pass'[d].pc = "allocate" => pass'[d] = pass[d]
    BY <1>5, ReadsAgain, IdleIs
  <2> QED
    BY <1>5, <2>1, <2>2, ReadsAgain, XStays
<1>6. ASSUME NEW c \in Claims, NEW obj, Rewrites(c, obj) PROVE XInv'
  <2>1. UNCHANGED <<nb, maker, flight>> /\ WriteOutside(c, obj)
    BY <1>6 DEF Rewrites
  <2>2. NoneMade(nb', maker')
    BY <2>1 DEF NoneMade
  <2>3. \A d \in Claims : pass'[d].pc = "allocate" =>
          pass[d].pc = "allocate" /\ pass'[d].obj = pass[d].obj
    BY <2>1, WriteOutsidePass
  <2>4. \A d \in Claims : pass'[d].pc = "allocate" =>
          pass[d].pc = "allocate" /\ Identity(d, pass'[d]) = Identity(d, pass[d])
    BY <2>3 DEF Identity
  <2> QED
    BY <2>1, <2>2, <2>4, XStays
<1>7. ASSUME Restore PROVE XInv'
  <2>1. NoneMade(nb', maker')
    BY <1>7 DEF Restore, NoneMade, Absent
  <2> QED
    BY <1>1, <1>7, <2>1 DEF Restore
<1> QED
  BY <1>2, <1>3, <1>4, <1>5, <1>6, <1>7 DEF OtherStep

\* A claim never takes a second object while one with its identity is in NetBox: whatever
\* answer is lost, whatever write is refused, however stale the copy, whoever deletes, moves or
\* restamps objects, and even if NetBox is restored from a snapshot.  Only a request that NetBox
\* serves after its client gave up is excluded (claim.go allocateOnce).
THEOREM AllocatesOnce == ASSUME "Late" \notin Env PROVE Spec => []ExactlyOnce
<1>1. Init => XInv
  <2> SUFFICES ASSUME Init PROVE XInv
    OBVIOUS
  <2>1. (\A i \in Ids : ~nb[i].there) /\ (\A c \in Claims : pass[c].pc = "idle") /\ flight = {}
    BY IdleIs DEF Init, Absent
  <2> QED
    BY <2>1 DEF XInv, ExactlyOnce, MadeBy
<1>2. BInv /\ XInv /\ [Next]_vars => XInv'
  <2> SUFFICES ASSUME BInv, XInv, [Next]_vars PROVE XInv'
    OBVIOUS
  <2>1. CASE UNCHANGED vars
    BY <2>1 DEF vars, XInv, ExactlyOnce, MadeBy
  <2> QED
    BY <2>1, NextIs, PassXInv, OtherXInv
<1>3. XInv => ExactlyOnce
  BY DEF XInv
<1> QED
  BY <1>1, <1>2, <1>3, AlwaysBInv, PTL DEF Spec

-----------------------------------------------------------------------------
(* Whose an object is. *)

\* One cluster, whose users give identities that are no claim's name; nobody hands objects over
\* or restores NetBox.
Closed ==
  /\ \A k, l \in Clusters : k = l
  /\ Explicit \cap Names = {}
  /\ "HumanStamp" \notin Env /\ "Restore" \notin Env

\* Id i is none, or, with makers m, that of an object c made.
Own(c, i, m) == i = 0 \/ m[i] = c

\* The identities a claim can have written on an object.
Writes(c, x) == x \in Explicit \cup {c[2]}

\* Object o, made by w, still says whose it is.
Tells(o, w) ==
  /\ w # None
  /\ w \in Claims => o.cluster = w[1] /\ o.owner = w[2] /\ Writes(w, o.identity)
  /\ w \notin Claims => o.identity = None

OwnPass(c, p, m) == Own(c, p.obj.id, m) /\ (p.pc = "verify" => Own(c, p.match, m))

OInv ==
  /\ \A i \in Ids : nb[i].there => Tells(nb[i], maker[i])
  /\ \A q \in flight : Writes(q.claim, q.identity)
  /\ \A c \in Claims : /\ api[c].there => Own(c, api[c].id, maker)
                       /\ cache[c].there => Own(c, cache[c].id, maker)
                       /\ pass[c].pc # "idle" => OwnPass(c, pass[c], maker)
  /\ FreesOnlyOwn

\* An object with the identity of c's pass, and not refused as foreign, is one c made.
LEMMA ReclaimsOwn ==
  ASSUME Closed, OInv, NEW c \in Claims, NEW p \in Running, NEW i \in Ids, nb[i].there,
         nb[i].identity = Identity(c, p), ~Foreign(c, p, nb[i])
  PROVE  maker[i] = c
<1>1. Tells(nb[i], maker[i]) /\ Identity(c, p) \in Identities
  BY IdentityIs DEF OInv
<1>2. maker[i] \in Claims
  BY <1>1, ConstantsAssumption DEF Tells
<1>3. PICK w \in Claims : maker[i] = w
  BY <1>2
<1>4. c = <<c[1], c[2]>> /\ w = <<w[1], w[2]>> /\ c[1] \in Clusters /\ w[1] \in Clusters
      /\ c[2] \in Names /\ w[2] \in Names
  BY DEF Claims
<1>5. c[1] = w[1]
  BY <1>4 DEF Closed
<1>6. nb[i].owner = w[2] /\ nb[i].cluster = w[1] /\ Writes(w, nb[i].identity)
  BY <1>1, <1>3 DEF Tells
<1>7. CASE p.obj.identity = None
  <2>1. Identity(c, p) = c[2]
    BY <1>7 DEF Identity
  <2>2. c[2] = w[2]
    BY <1>4, <1>6, <2>1 DEF Writes, Closed
  <2> QED
    BY <1>3, <1>4, <1>5, <2>2
<1>8. CASE p.obj.identity # None
  <2>1. ~Conflict(c, nb[i])
    BY <1>8 DEF Foreign
  <2>2. w[2] # None
    BY <1>4, ConstantsAssumption DEF Identities
  <2>3. c[2] = w[2]
    BY <1>6, <2>1, <2>2 DEF Conflict
  <2> QED
    BY <1>3, <1>4, <1>5, <2>3
<1> QED
  BY <1>7, <1>8

\* NetBox goes on to makers m: nothing minted changes hands.
Stays(m) == \A i \in Ids : maker[i] # None => m[i] = maker[i]

LEMMA OStays ==
  ASSUME BInv, OInv, Stays(maker'), NEW c \in Claims
  PROVE  /\ api[c].there => Own(c, api[c].id, maker')
         /\ cache[c].there => Own(c, cache[c].id, maker')
         /\ pass[c].pc # "idle" => OwnPass(c, pass[c], maker')
<1>0. c # None
  BY ConstantsAssumption
<1>1. \A i \in 0..MaxId : Own(c, i, maker) => Own(c, i, maker')
  BY <1>0, IdRange DEF Stays, Own
<1>2. api[c].there => api[c].id \in 0..MaxId
  BY ThereIsCopy DEF BInv, TypeOK, Copy
<1>3. cache[c].there => cache[c].id \in 0..MaxId
  BY ThereIsCopy DEF BInv, TypeOK, Copy
<1>4. pass[c].pc # "idle" => pass[c].obj.id \in 0..MaxId /\ pass[c].match \in 0..MaxId
  BY AtRunning DEF Copy, Running
<1> QED
  BY <1>1, <1>2, <1>3, <1>4 DEF OInv, OwnPass

\* What NetBox holds goes on to be told apart, and what was freed was its owner's.
OwnNetBox(n, m, f, d) ==
  /\ Stays(m)
  /\ \A i \in Ids : n[i].there => Tells(n[i], m[i])
  /\ \A q \in f : Writes(q.claim, q.identity)
  /\ \A c \in Claims, i \in Ids : c \in d[i] => m[i] = c

LEMMA OOneMoves ==
  ASSUME BInv, OInv, OwnNetBox(nb', maker', flight', freed'),
         NEW c \in Claims, NEW q, pass' = [pass EXCEPT ![c] = q], UNCHANGED cache,
         q.pc # "idle" => OwnPass(c, q, maker'), NEW a,
         UNCHANGED api \/ api' = [api EXCEPT ![c] = a],
         a.there => Own(c, a.id, maker')
  PROVE  OInv'
<1>1. \A d \in Claims : /\ api'[d] = api[d] \/ (d = c /\ api'[d] = a)
                        /\ pass'[d] = pass[d] \/ (d = c /\ pass'[d] = q)
  BY DEF BInv, TypeOK
<1>2. Stays(maker')
  BY DEF OwnNetBox
<1>3. FreesOnlyOwn'
  BY DEF OwnNetBox, FreesOnlyOwn
<1> QED
  BY <1>1, <1>2, <1>3, OStays DEF OInv, OwnNetBox

LEMMA StillOwn ==
  ASSUME OInv, UNCHANGED <<nb, maker, flight, freed>>
  PROVE  OwnNetBox(nb', maker', flight', freed')
  BY DEF OwnNetBox, Stays, OInv, FreesOnlyOwn

LEMMA MintOwn ==
  ASSUME BInv, OInv, NEW i \in Ids, NEW a, NEW c \in Claims, NEW x, Mint(i, a, c, x),
         Writes(c, x), flight' \subseteq flight, UNCHANGED freed
  PROVE  OwnNetBox(nb', maker', flight', freed') /\ maker'[i] = c
<1>1. maker[i] = None /\ c # None
  BY ConstantsAssumption DEF Mint, NextId, Minted
<1>2. /\ nb'[i] = [there |-> TRUE, addr |-> a, identity |-> x, cluster |-> c[1], owner |-> c[2]]
      /\ maker'[i] = c /\ \A j \in Ids : j # i => nb'[j] = nb[j] /\ maker'[j] = maker[j]
  BY DEF Mint, BInv, TypeOK
<1>3. Tells(nb'[i], maker'[i])
  <2>1. nb'[i].cluster = c[1] /\ nb'[i].owner = c[2] /\ nb'[i].identity = x
    BY <1>2
  <2> QED
    BY <1>1, <1>2, <2>1 DEF Tells
<1>4. Stays(maker')
  BY <1>1, <1>2 DEF Stays
<1>5. \A d \in Claims, j \in Ids : d \in freed'[j] => maker'[j] = d
  <2> SUFFICES ASSUME NEW d \in Claims, NEW j \in Ids, d \in freed[j] PROVE maker'[j] = d
    OBVIOUS
  <2>1. maker[j] = d /\ d # None
    BY ConstantsAssumption DEF OInv, FreesOnlyOwn
  <2> QED
    BY <1>4, <2>1 DEF Stays
<1>6. \A j \in Ids : nb'[j].there => Tells(nb'[j], maker'[j])
  BY <1>2, <1>3 DEF OInv
<1>7. \A q \in flight' : Writes(q.claim, q.identity)
  BY DEF OInv
<1> QED
  BY <1>2, <1>4, <1>5, <1>6, <1>7 DEF OwnNetBox

LEMMA PassOInv == ASSUME Closed, BInv, OInv, NEW c \in Claims, PassStep(c) PROVE OInv'
<1>0. api[c].there => Own(c, api[c].id, maker)
  BY DEF OInv
<1>1. ASSUME NEW q, Quiet(c, q) PROVE OInv'
  <2>1. UNCHANGED <<api, cache, nb, maker, flight, freed>> /\ pass' = [pass EXCEPT ![c] = q]
    BY <1>1 DEF Quiet, Still, Go
  <2>2. CASE q = Idle
    BY <1>0, <2>1, <2>2, OOneMoves, StillOwn, IdleIs
  <2>3. CASE Starts(c, q)
    <3>1. OwnPass(c, q, maker)
      BY <2>3 DEF Starts, OwnPass, OInv
    <3> QED
      BY <1>0, <2>1, <3>1, OOneMoves, StillOwn
  <2>4. CASE Proceeds(c, pass[c], q)
    <3>1. pass[c].pc # "idle" /\ pass[c] \in Running
      BY <2>4, RunningIsBusy DEF Proceeds
    <3>2. OwnPass(c, q, maker)
      BY <2>4, <3>1 DEF Proceeds, Leads, SameRecord, OwnPass, OInv
    <3> QED
      BY <1>0, <2>1, <3>2, OOneMoves, StillOwn
  <2>5. CASE Commits(c, pass[c], q)
    <3>0. pass[c].pc # "idle" /\ pass[c] \in Running
      BY <2>5, RunningIsBusy DEF Commits
    <3>1. PICK i \in Ids :
            /\ nb[i].there /\ nb[i].identity = Identity(c, pass[c]) /\ q.obj.id = i
            /\ \/ pass[c].pc = "find" /\ ~Foreign(c, pass[c], nb[i])
               \/ pass[c].pc = "verify" /\ i = pass[c].match
      BY <2>5 DEF Commits
    <3>2. maker[i] = c
      BY <3>0, <3>1, ReclaimsOwn, IdRange DEF OInv, OwnPass, Own
    <3>3. OwnPass(c, q, maker)
      BY <2>5, <3>1, <3>2 DEF Commits, OwnPass, Own
    <3> QED
      BY <1>0, <2>1, <3>3, OOneMoves, StillOwn
  <2> QED
    BY <1>1, <2>2, <2>3, <2>4, <2>5 DEF Quiet
<1>2. ASSUME NEW q, Registers(c, q) PROVE OInv'
  <2>1. UNCHANGED <<cache, nb, maker, flight, freed>> /\ pass' = [pass EXCEPT ![c] = q]
        /\ pass[c] \in Running /\ pass[c].pc = "finalizer" /\ Agrees(pass[c], api[c])
    BY <1>2, AtRunning DEF Registers, Go, At
  <2>2. OwnPass(c, q, maker)
    BY <1>2, <2>1 DEF Registers, SameRecord, OwnPass, OInv
  <2>3. PICK a : a = [api[c] EXCEPT !.fin = TRUE]
    OBVIOUS
  <2>4. api[c] \in Copy
    BY <1>2, <2>1, ThereIsCopy DEF Registers, Agrees, BInv, TypeOK
  <2>5. a.id = api[c].id /\ a.there = api[c].there /\ api' = [api EXCEPT ![c] = a]
    BY <1>2, <2>3, <2>4 DEF Copy, Registers
  <2> QED
    BY <1>0, <2>1, <2>2, <2>5, OOneMoves, StillOwn
<1>3. ASSUME NEW q, Makes(c, q) PROVE OInv'
  <2>1. UNCHANGED <<api, cache, flight, freed>> /\ pass' = [pass EXCEPT ![c] = q]
        /\ pass[c].pc # "idle" /\ SameRecord(q.obj, pass[c].obj)
    BY <1>3 DEF Makes, Go, At
  <2>2. PICK i \in Ids, a \in Addrs : /\ Mint(i, a, c, Identity(c, pass[c]))
                                      /\ q.pc = "finish" \/ (q.pc = "verify" /\ q.match = i)
    BY <1>3 DEF Makes
  <2>3. Writes(c, Identity(c, pass[c]))
    BY <2>1, AtRunning, IdentityIs DEF Writes
  <2>4. OwnNetBox(nb', maker', flight', freed') /\ maker'[i] = c
    BY <2>1, <2>2, <2>3, MintOwn
  <2>5. Stays(maker')
    BY <2>4 DEF OwnNetBox
  <2>6. OwnPass(c, q, maker')
    BY <2>1, <2>2, <2>4, <2>5, OStays DEF SameRecord, OwnPass, Own
  <2> QED
    BY <1>0, <2>1, <2>4, <2>5, <2>6, OOneMoves, OStays
<1>4. ASSUME NEW q, Sends(c, q) PROVE OInv'
  <2>1. UNCHANGED <<api, cache, nb, maker, freed>> /\ pass' = [pass EXCEPT ![c] = q]
        /\ pass[c].pc = "allocate"
        /\ flight' = flight \cup {[claim |-> c, identity |-> Identity(c, pass[c])]}
    BY <1>4 DEF Sends, Go, At
  <2>2. OwnPass(c, q, maker)
    BY <1>4, <2>1 DEF Sends, SameRecord, OwnPass, OInv
  <2>3. Writes(c, Identity(c, pass[c]))
    BY <2>1, AtRunning, IdentityIs DEF Writes
  <2>4. \A r \in flight' : Writes(r.claim, r.identity)
    BY <2>1, <2>3 DEF OInv
  <2>5. OwnNetBox(nb', maker', flight', freed')
    BY <2>1, <2>4 DEF OwnNetBox, Stays, OInv, FreesOnlyOwn
  <2> QED
    BY <1>0, <2>1, <2>2, <2>5, OOneMoves
<1>5. ASSUME NEW q, Frees(c, q) PROVE OInv'
  <2>1. UNCHANGED <<api, cache, maker, flight>> /\ pass' = [pass EXCEPT ![c] = q]
        /\ SameRecord(q.obj, pass[c].obj) /\ pass[c].pc = "free" /\ q.pc # "verify"
    BY <1>5 DEF Frees, Go, At
  <2>2. pass[c].obj.id \in Ids
    BY <2>1, AtRunning, IdRange DEF Agrees, Copy
  <2>3. maker[pass[c].obj.id] = c
    BY <2>1, <2>2, IdRange DEF OInv, OwnPass, Own
  <2>4. /\ nb'[pass[c].obj.id] = Absent /\ freed'[pass[c].obj.id] = freed[pass[c].obj.id] \cup {c}
        /\ \A j \in Ids : j # pass[c].obj.id => nb'[j] = nb[j] /\ freed'[j] = freed[j]
    BY <1>5, <2>2 DEF Frees, BInv, TypeOK
  <2>5. OwnNetBox(nb', maker', flight', freed')
    BY <2>1, <2>3, <2>4 DEF OwnNetBox, Stays, OInv, FreesOnlyOwn, Absent
  <2>6. OwnPass(c, q, maker)
    BY <2>1 DEF SameRecord, OwnPass, OInv
  <2> QED
    BY <1>0, <2>1, <2>5, <2>6, OOneMoves
<1>6. ASSUME Records(c) PROVE OInv'
  <2>1. UNCHANGED <<cache, nb, maker, flight, freed>> /\ pass' = [pass EXCEPT ![c] = Idle]
        /\ pass[c].pc # "idle" /\ pass[c].latest
    BY <1>6 DEF Records, Go, At
  <2>2. api[c] \in Copy
    BY <2>1, AtRunning, ThereIsCopy DEF Agrees, BInv, TypeOK
  <2>3. PICK a : a = [api[c] EXCEPT !.addr = pass[c].obj.addr, !.id = pass[c].obj.id,
               !.held = pass[c].obj.held, !.reason = pass[c].obj.reason, !.tries = pass[c].obj.tries]
    OBVIOUS
  <2>4. a.id = pass[c].obj.id /\ api' = [api EXCEPT ![c] = a]
    BY <1>6, <2>2, <2>3 DEF Copy, Records
  <2>5. Own(c, a.id, maker)
    BY <2>1, <2>4 DEF OInv, OwnPass
  <2> QED
    BY <2>1, <2>4, <2>5, OOneMoves, StillOwn, IdleIs
<1>7. ASSUME LetsGo(c) PROVE OInv'
  <2>1. ~Absent.there
    BY DEF Absent
  <2> QED
    BY <1>7, <2>1, OOneMoves, StillOwn, IdleIs DEF LetsGo, Go
<1> QED
  BY <1>1, <1>2, <1>3, <1>4, <1>5, <1>6, <1>7 DEF PassStep

LEMMA OtherOInv == ASSUME Closed, BInv, OInv, OtherStep PROVE OInv'
<1>1. ASSUME UNCHANGED <<api, cache, pass>>, OwnNetBox(nb', maker', flight', freed') PROVE OInv'
  <2>1. Stays(maker') /\ FreesOnlyOwn'
    BY <1>1 DEF OwnNetBox, FreesOnlyOwn
  <2> QED
    BY <1>1, <2>1, OStays DEF OInv, OwnNetBox
<1>2. ASSUME NEW i \in Ids, HumanDelete(i) PROVE OInv'
  <2>1. UNCHANGED <<api, cache, pass, flight, maker, freed>> /\ nb'[i] = Absent
        /\ \A j \in Ids : j # i => nb'[j] = nb[j]
    BY <1>2, HumanStep
  <2>2. OwnNetBox(nb', maker', flight', freed')
    BY <2>1 DEF OwnNetBox, Stays, OInv, FreesOnlyOwn, Absent
  <2> QED
    BY <1>1, <2>1, <2>2
<1>3. ASSUME NEW i \in Ids, HumanMove(i) PROVE OInv'
  <2>1. UNCHANGED <<api, cache, pass, flight, maker, freed>> /\ nb[i] \in Made /\ nb[i].there
    BY <1>3, HumanStep
  <2>2. PICK a \in Addrs \cup {Outside} : nb' = [nb EXCEPT ![i] = [@ EXCEPT !.addr = a]]
    BY <1>3 DEF HumanMove
  <2>3. nb'[i] = [nb[i] EXCEPT !.addr = a] /\ \A j \in Ids : j # i => nb'[j] = nb[j]
    BY <2>2 DEF BInv, TypeOK
  <2>4. nb'[i].identity = nb[i].identity /\ nb'[i].cluster = nb[i].cluster
        /\ nb'[i].owner = nb[i].owner
    BY <2>1, <2>3 DEF Made
  <2>5. Tells(nb'[i], maker[i])
    BY <2>1, <2>4 DEF OInv, Tells
  <2>6. OwnNetBox(nb', maker', flight', freed')
    BY <2>1, <2>3, <2>5 DEF OwnNetBox, Stays, OInv, FreesOnlyOwn
  <2> QED
    BY <1>1, <2>1, <2>6
<1>4. ASSUME HumanMake PROVE OInv'
  <2>1. Human # None /\ Human \notin Claims
    BY ConstantsAssumption
  <2>2. UNCHANGED <<api, cache, pass, flight, freed>>
    BY <1>4, HumanMakeIs
  <2>3. PICK i \in Ids : /\ maker[i] = None /\ maker'[i] = Human
                         /\ nb'[i].there /\ nb'[i].identity = None
                         /\ \A j \in Ids : j # i => nb'[j] = nb[j] /\ maker'[j] = maker[j]
    BY <1>4, HumanMakeIs
  <2>4. Stays(maker')
    BY <2>3 DEF Stays
  <2>5. \A j \in Ids : nb'[j].there => Tells(nb'[j], maker'[j])
    BY <2>1, <2>3 DEF OInv, Tells
  <2>6. \A d \in Claims, j \in Ids : d \in freed'[j] => maker'[j] = d
    BY <2>2, <2>3, ConstantsAssumption DEF OInv, FreesOnlyOwn
  <2>7. OwnNetBox(nb', maker', flight', freed')
    BY <2>2, <2>4, <2>5, <2>6 DEF OwnNetBox, OInv
  <2> QED
    BY <1>1, <2>2, <2>7
<1>5. ASSUME LateAllocation PROVE OInv'
  <2>1. PICK q \in flight, i \in Ids, a \in Addrs :
          /\ q.claim \in Claims /\ q.identity \in Identities
          /\ flight' = flight \ {q} /\ Mint(i, a, q.claim, q.identity)
    BY <1>5, LateIs
  <2>2. Writes(q.claim, q.identity)
    BY DEF OInv
  <2>3. UNCHANGED <<api, cache, pass, freed>>
    BY <1>5, LateIs
  <2>4. OwnNetBox(nb', maker', flight', freed')
    BY <2>1, <2>2, <2>3, MintOwn
  <2> QED
    BY <1>1, <2>3, <2>4
<1>6. ASSUME (\E c \in Claims : CacheSync(c)) \/ (\E k \in Clusters : Crash(k)) PROVE OInv'
  BY <1>6, ReadsAgain, IdleIs DEF OInv, FreesOnlyOwn
<1>7. ASSUME NEW c \in Claims, NEW obj, Rewrites(c, obj) PROVE OInv'
  <2>1. UNCHANGED <<cache, nb, maker, flight, freed>> /\ WriteOutside(c, obj)
    BY <1>7 DEF Rewrites
  <2>2. obj.there => Own(c, obj.id, maker)
    BY <1>7 DEF Rewrites, OInv, Own, SameRecord, Absent
  <2> QED
    BY <2>1, <2>2, WriteOutsidePass DEF OInv, OwnPass, FreesOnlyOwn
<1> QED
  BY <1>2, <1>3, <1>4, <1>5, <1>6, <1>7 DEF OtherStep, Closed, HumanStamp, Restore

LEMMA AlwaysOInv == ASSUME Closed PROVE Spec => []OInv
<1>1. Init => OInv
  <2> SUFFICES ASSUME Init PROVE OInv
    OBVIOUS
  <2>1. \A c \in Claims : api[c].id = 0 /\ ~cache[c].there /\ pass[c].pc = "idle"
    BY AppliedIs, IdleIs DEF Init, Absent
  <2>2. (\A i \in Ids : ~nb[i].there /\ freed[i] = {}) /\ flight = {}
    BY DEF Init, Absent
  <2> QED
    BY <2>1, <2>2 DEF OInv, Own, FreesOnlyOwn
<1>2. BInv /\ OInv /\ [Next]_vars => OInv'
  <2> SUFFICES ASSUME BInv, OInv, [Next]_vars PROVE OInv'
    OBVIOUS
  <2>1. CASE UNCHANGED vars
    BY <2>1 DEF vars, OInv, FreesOnlyOwn
  <2> QED
    BY <2>1, NextIs, PassOInv, OtherOInv
<1> QED
  BY <1>1, <1>2, AlwaysBInv, PTL DEF Spec

\* A claim frees only what was allocated for it, although the DELETE trusts the id in its status:
\* within one cluster, as long as a given identity is nobody's name, nobody rewrites stamps and
\* NetBox hands out no id twice; deletions, moves and late requests are all included
\* (claim.go free, refuseForeignReclaim).
THEOREM FreesItsOwn == ASSUME Closed PROVE Spec => []FreesOnlyOwn
<1>1. OInv => FreesOnlyOwn
  BY DEF OInv
<1> QED
  BY <1>1, AlwaysOInv, PTL

-----------------------------------------------------------------------------
(* What a claim reports is there, and its alone. *)

Untouched == "HumanDelete" \notin Env /\ "HumanMove" \notin Env

\* Among objects n, the one copy r records is as r says.
Backed(r, n) ==
  /\ r.id \in Ids /\ n[r.id].there /\ n[r.id].addr = r.addr /\ n[r.id].identity = r.held

HeldBy(a) == a.there /\ ~a.deleting /\ a.addr # None

\* A claim whose API copy is a holds: what it holds is there, and no stale copy k of it, nor a
\* pass p begun from one, is about to free it.
Guarded(a, k, p, n) ==
  HeldBy(a) => /\ Backed(a, n)
               /\ k.there => ~k.deleting
               /\ p.pc # "idle" => ~p.obj.deleting

\* A pass whose copy is the latest and that is not deleting will report only what is there.
Truthful(k, p, n) ==
  p.pc # "idle" /\ p.latest /\ ~p.obj.deleting =>
    /\ k.there => ~k.deleting
    /\ p.obj.addr # None => Backed(p.obj, n)

Apart(n, m) ==
  \A i, j \in Ids : i # j /\ n[i].there /\ n[j].there /\ m[i] \in Claims /\ m[j] \in Claims
                      => n[i].addr # n[j].addr

HInv ==
  /\ \A c \in Claims : Guarded(api[c], cache[c], pass[c], nb) /\ Truthful(cache[c], pass[c], nb)
  /\ Apart(nb, maker)

\* Objects n hold all that claim c may have recorded.
Spares(c, n) == \A i \in Ids : nb[i].there /\ maker[i] = c => n[i] = nb[i]

LEMMA HStays ==
  ASSUME BInv, OInv, NEW c \in Claims, NEW n, Spares(c, n),
         NEW r \in Copy, Own(c, r.id, maker), Backed(r, nb)
  PROVE  Backed(r, n)
  BY IdRange DEF Spares, Own, Backed

LEMMA HClaimStays ==
  ASSUME BInv, OInv, HInv, NEW c \in Claims, Spares(c, nb')
  PROVE  Guarded(api[c], cache[c], pass[c], nb') /\ Truthful(cache[c], pass[c], nb')
<1>1. HeldBy(api[c]) => api[c] \in Copy /\ Own(c, api[c].id, maker)
  BY ThereIsCopy DEF HeldBy, BInv, TypeOK, OInv
<1>2. pass[c].pc # "idle" => pass[c].obj \in Copy /\ Own(c, pass[c].obj.id, maker)
  BY AtRunning DEF OInv, OwnPass
<1> QED
  BY <1>1, <1>2, HStays DEF HInv, Guarded, Truthful

LEMMA HOneMoves ==
  ASSUME BInv, OInv, HInv, NEW c \in Claims, NEW q, pass' = [pass EXCEPT ![c] = q],
         UNCHANGED cache, NEW a,
         (UNCHANGED api /\ a = api[c]) \/ api' = [api EXCEPT ![c] = a],
         \A d \in Claims : d # c => Spares(d, nb'),
         Guarded(a, cache[c], q, nb'), Truthful(cache[c], q, nb'), Apart(nb', maker')
  PROVE  HInv'
<1>1. /\ \A d \in Claims : d # c => api'[d] = api[d] /\ pass'[d] = pass[d]
      /\ api'[c] = a /\ pass'[c] = q
  BY DEF BInv, TypeOK
<1> QED
  BY <1>1, HClaimStays DEF HInv

LEMMA MintHInv ==
  ASSUME BInv, OInv, HInv, NEW i \in Ids, NEW a, NEW c \in Claims, NEW x, Mint(i, a, c, x)
  PROVE  Apart(nb', maker') /\ \A d \in Claims : Spares(d, nb')
<1>1. maker[i] = None
  BY DEF Mint, NextId, Minted
<1>2. /\ nb'[i] = [there |-> TRUE, addr |-> a, identity |-> x, cluster |-> c[1], owner |-> c[2]]
      /\ maker'[i] = c /\ \A j \in Ids : j # i => nb'[j] = nb[j] /\ maker'[j] = maker[j]
  BY DEF Mint, BInv, TypeOK
<1>3. nb'[i].addr = a /\ \A j \in Ids : nb[j].there => nb[j].addr # a
  BY <1>2 DEF Mint, Taken
<1>4. Apart(nb', maker')
  BY <1>2, <1>3 DEF Apart, HInv
<1>5. \A d \in Claims : Spares(d, nb')
  BY <1>1, <1>2, ConstantsAssumption DEF Spares
<1> QED
  BY <1>4, <1>5

LEMMA PassHInv == ASSUME BInv, OInv, HInv, NEW c \in Claims, PassStep(c) PROVE HInv'
<1>0. Guarded(api[c], cache[c], pass[c], nb) /\ Truthful(cache[c], pass[c], nb) /\ Apart(nb, maker)
  BY DEF HInv
<1>1. ASSUME NEW q, Quiet(c, q) PROVE HInv'
  <2>1. UNCHANGED <<api, cache, nb, maker>> /\ pass' = [pass EXCEPT ![c] = q]
    BY <1>1 DEF Quiet, Still, Go
  <2>2. \A d \in Claims : Spares(d, nb')
    BY <2>1 DEF Spares
  <2>3. SUFFICES Guarded(api[c], cache[c], q, nb) /\ Truthful(cache[c], q, nb)
    BY <1>0, <2>1, <2>2, HOneMoves
  <2>4. CASE q = Idle
    BY <1>0, <2>4, IdleIs DEF Guarded, Truthful
  <2>5. CASE Starts(c, q)
    <3>1. q.latest => q.obj = api[c]
      BY <2>5 DEF Starts, BInv, Fresh
    <3> QED
      BY <1>0, <2>5, <3>1 DEF Starts, Guarded, Truthful, HeldBy
  <2>6. CASE Proceeds(c, pass[c], q)
    <3>1. pass[c].pc # "idle"
      BY <2>6, RunningIsBusy DEF Proceeds
    <3> QED
      BY <1>0, <2>6, <3>1 DEF Proceeds, Keeps, SameRecord, Guarded, Truthful, Backed
  <2>7. CASE Commits(c, pass[c], q)
    <3>1. pass[c].pc # "idle"
      BY <2>7, RunningIsBusy DEF Commits
    <3> QED
      BY <1>0, <2>7, <3>1 DEF Commits, Keeps, Guarded, Truthful, Backed
  <2> QED
    BY <1>1, <2>4, <2>5, <2>6, <2>7 DEF Quiet
<1>2. ASSUME NEW q, Registers(c, q) PROVE HInv'
  <2>1. UNCHANGED <<cache, nb, maker>> /\ pass' = [pass EXCEPT ![c] = q]
        /\ pass[c].pc = "finalizer" /\ Agrees(pass[c], api[c]) /\ pass[c].latest
    BY <1>2, AtRunning DEF Registers, Go, At
  <2>2. \A d \in Claims : Spares(d, nb')
    BY <2>1 DEF Spares
  <2>3. PICK a : a = [api[c] EXCEPT !.fin = TRUE]
    OBVIOUS
  <2>4. api[c] \in Copy
    BY <1>2, <2>1, ThereIsCopy DEF Registers, Agrees, BInv, TypeOK
  <2>5. SameRecord(a, api[c]) /\ a.there = api[c].there /\ a.deleting = api[c].deleting
        /\ api' = [api EXCEPT ![c] = a]
    BY <1>2, <2>3, <2>4 DEF Copy, Registers, SameRecord
  <2>6. Guarded(a, cache[c], q, nb) /\ Truthful(cache[c], q, nb)
    BY <1>0, <1>2, <2>1, <2>5 DEF Registers, Keeps, SameRecord, Guarded, Truthful, Backed, HeldBy
  <2> QED
    BY <1>0, <2>1, <2>2, <2>5, <2>6, HOneMoves
<1>3. ASSUME NEW q, Makes(c, q) PROVE HInv'
  <2>1. UNCHANGED <<api, cache>> /\ pass' = [pass EXCEPT ![c] = q] /\ pass[c].pc # "idle"
        /\ Keeps(pass[c], q) /\ SameRecord(q.obj, pass[c].obj)
    BY <1>3 DEF Makes, Go, At
  <2>2. Apart(nb', maker') /\ \A d \in Claims : Spares(d, nb')
    BY <1>3, MintHInv DEF Makes
  <2>3. Guarded(api[c], cache[c], pass[c], nb') /\ Truthful(cache[c], pass[c], nb')
    BY <2>2, HClaimStays
  <2>4. Guarded(api[c], cache[c], q, nb') /\ Truthful(cache[c], q, nb')
    BY <2>1, <2>3 DEF Keeps, SameRecord, Guarded, Truthful, Backed
  <2> QED
    BY <2>1, <2>2, <2>4, HOneMoves
<1>4. ASSUME NEW q, Sends(c, q) PROVE HInv'
  <2>1. UNCHANGED <<api, cache, nb, maker>> /\ pass' = [pass EXCEPT ![c] = q]
        /\ pass[c].pc # "idle" /\ Keeps(pass[c], q) /\ SameRecord(q.obj, pass[c].obj)
    BY <1>4 DEF Sends, Go, At
  <2>2. \A d \in Claims : Spares(d, nb')
    BY <2>1 DEF Spares
  <2>4. Guarded(api[c], cache[c], q, nb) /\ Truthful(cache[c], q, nb)
    BY <1>0, <2>1 DEF Keeps, SameRecord, Guarded, Truthful, Backed
  <2> QED
    BY <1>0, <2>1, <2>2, <2>4, HOneMoves
<1>5. ASSUME NEW q, Frees(c, q) PROVE HInv'
  <2>1. UNCHANGED <<api, cache, maker>> /\ pass' = [pass EXCEPT ![c] = q]
        /\ Keeps(pass[c], q) /\ pass[c].pc = "free"
    BY <1>5 DEF Frees, Go, At
  <2>2. pass[c].obj.id \in Ids /\ pass[c].obj.deleting
    BY <2>1, AtRunning, IdRange DEF Agrees, Copy, Releases
  <2>3. maker[pass[c].obj.id] = c
    BY <2>1, <2>2, IdRange DEF OInv, OwnPass, Own
  <2>4. /\ nb'[pass[c].obj.id] = Absent
        /\ \A j \in Ids : j # pass[c].obj.id => nb'[j] = nb[j]
    BY <1>5, <2>2 DEF Frees, BInv, TypeOK
  <2>5. \A d \in Claims : d # c => Spares(d, nb')
    BY <2>3, <2>4 DEF Spares
  <2>6. Apart(nb', maker')
    BY <1>0, <2>1, <2>4 DEF Apart, Absent
  <2>7. ~HeldBy(api[c])
    BY <1>0, <2>1, <2>2 DEF Guarded
  <2>8. Guarded(api[c], cache[c], q, nb') /\ Truthful(cache[c], q, nb')
    BY <2>1, <2>2, <2>7 DEF Guarded, Truthful, Keeps
  <2> QED
    BY <2>1, <2>5, <2>6, <2>8, HOneMoves
<1>6. ASSUME Records(c) PROVE HInv'
  <2>1. UNCHANGED <<cache, nb, maker>> /\ pass' = [pass EXCEPT ![c] = Idle]
        /\ pass[c].pc # "idle" /\ pass[c].latest
    BY <1>6 DEF Records, Go, At
  <2>2. Agrees(pass[c], api[c]) /\ api[c] \in Copy
    BY <2>1, AtRunning, ThereIsCopy DEF Agrees, BInv, TypeOK
  <2>3. PICK a : a = [api[c] EXCEPT !.addr = pass[c].obj.addr, !.id = pass[c].obj.id,
               !.held = pass[c].obj.held, !.reason = pass[c].obj.reason, !.tries = pass[c].obj.tries]
    OBVIOUS
  <2>4. SameRecord(a, pass[c].obj) /\ a.deleting = api[c].deleting /\ api' = [api EXCEPT ![c] = a]
    BY <1>6, <2>2, <2>3 DEF Copy, Records, SameRecord
  <2>5. a.deleting = pass[c].obj.deleting
    BY <2>1, <2>2, <2>4 DEF Agrees
  <2>6. Guarded(a, cache[c], Idle, nb) /\ Truthful(cache[c], Idle, nb)
    BY <1>0, <2>1, <2>4, <2>5, IdleIs DEF Guarded, Truthful, HeldBy, SameRecord, Backed
  <2>7. \A d \in Claims : Spares(d, nb')
    BY <2>1 DEF Spares
  <2> QED
    BY <1>0, <2>1, <2>4, <2>6, <2>7, HOneMoves
<1>7. ASSUME LetsGo(c) PROVE HInv'
  <2>1. UNCHANGED <<cache, nb, maker>> /\ pass' = [pass EXCEPT ![c] = Idle]
        /\ api' = [api EXCEPT ![c] = Absent]
    BY <1>7 DEF LetsGo, Go
  <2>2. Guarded(Absent, cache[c], Idle, nb) /\ Truthful(cache[c], Idle, nb)
    BY IdleIs DEF Guarded, Truthful, HeldBy, Absent
  <2>3. \A d \in Claims : Spares(d, nb')
    BY <2>1 DEF Spares
  <2> QED
    BY <1>0, <2>1, <2>2, <2>3, HOneMoves
<1> QED
  BY <1>1, <1>2, <1>3, <1>4, <1>5, <1>6, <1>7 DEF PassStep

LEMMA OtherHInv == ASSUME Closed, Untouched, BInv, OInv, HInv, OtherStep PROVE HInv'
<1>1. ASSUME UNCHANGED <<api, cache, pass>>, Apart(nb', maker'), \A d \in Claims : Spares(d, nb')
      PROVE  HInv'
  BY <1>1, HClaimStays DEF HInv
<1>2. ASSUME HumanMake PROVE HInv'
  <2>1. Human \notin Claims /\ None \notin Claims
    BY ConstantsAssumption
  <2>2. PICK i \in Ids : /\ maker[i] = None /\ maker'[i] = Human
                         /\ \A j \in Ids : j # i => nb'[j] = nb[j] /\ maker'[j] = maker[j]
    BY <1>2, HumanMakeIs
  <2>3. Apart(nb', maker') /\ \A d \in Claims : Spares(d, nb')
    BY <2>1, <2>2 DEF Apart, HInv, Spares
  <2> QED
    BY <1>1, <1>2, <2>3, HumanMakeIs
<1>3. ASSUME LateAllocation PROVE HInv'
  <2>1. UNCHANGED <<api, cache, pass>>
    BY <1>3, LateIs
  <2>2. PICK q \in flight, i \in Ids, a \in Addrs :
          q.claim \in Claims /\ Mint(i, a, q.claim, q.identity)
    BY <1>3, LateIs
  <2> QED
    BY <1>1, <2>1, <2>2, MintHInv
<1>4. ASSUME NEW c \in Claims, CacheSync(c) PROVE HInv'
  <2>1. UNCHANGED <<api, pass, nb, maker>> /\ cache'[c] = api[c]
        /\ \A d \in Claims : d # c => cache'[d] = cache[d]
    BY <1>4 DEF CacheSync, netbox, BInv, TypeOK
  <2>2. pass[c].pc # "idle" /\ pass[c].latest => api[c].deleting = pass[c].obj.deleting
    BY AtRunning DEF Agrees
  <2>3. Guarded(api[c], api[c], pass[c], nb) /\ Truthful(api[c], pass[c], nb)
    BY <2>2 DEF HInv, Guarded, Truthful, HeldBy
  <2> QED
    BY <2>1, <2>3 DEF HInv
<1>5. ASSUME NEW k \in Clusters, Crash(k) PROVE HInv'
  <2>1. UNCHANGED <<api, nb, maker>>
    BY <1>5 DEF Crash, netbox
  <2>2. \A d \in Claims : \/ cache'[d] = cache[d] /\ pass'[d] = pass[d]
                          \/ cache'[d] = api[d] /\ pass'[d] = Idle
    BY <1>5 DEF Crash
  <2>3. \A d \in Claims : Guarded(api[d], api[d], Idle, nb) /\ Truthful(api[d], Idle, nb)
    BY IdleIs DEF HInv, Guarded, Truthful, HeldBy
  <2> QED
    BY <2>1, <2>2, <2>3 DEF HInv
<1>6. ASSUME NEW c \in Claims, NEW obj, Rewrites(c, obj) PROVE HInv'
  <2>1. UNCHANGED <<cache, nb, maker>> /\ WriteOutside(c, obj)
    BY <1>6 DEF Rewrites
  <2>2. /\ \A d \in Claims : d # c => pass'[d] = pass[d] /\ api'[d] = api[d]
        /\ api'[c] = obj
        /\ pass[c].pc = "idle" => pass'[c] = pass[c]
        /\ pass[c].pc # "idle" =>
             ~pass'[c].latest /\ pass'[c].pc = pass[c].pc /\ pass'[c].obj = pass[c].obj
    BY <2>1, WriteOutsidePass
  <2>3. HeldBy(obj) => HeldBy(api[c]) /\ SameRecord(obj, api[c])
    BY <1>6 DEF Rewrites, HeldBy, SameRecord, Absent
  <2>4. Guarded(obj, cache[c], pass'[c], nb)
    BY <2>2, <2>3 DEF HInv, Guarded, SameRecord, Backed
  <2>5. Truthful(cache[c], pass'[c], nb)
    BY <2>2 DEF Truthful
  <2> QED
    BY <2>1, <2>2, <2>4, <2>5 DEF HInv
<1> QED
  BY <1>2, <1>3, <1>4, <1>5, <1>6
     DEF OtherStep, Closed, Untouched, HumanStamp, HumanDelete, HumanMove, Restore

LEMMA AlwaysHInv == ASSUME Closed, Untouched PROVE Spec => []HInv
<1>1. Init => HInv
  <2> SUFFICES ASSUME Init PROVE HInv
    OBVIOUS
  <2>1. \A c \in Claims : api[c].addr = None /\ pass[c].pc = "idle"
    BY AppliedIs, IdleIs DEF Init
  <2>2. \A i \in Ids : ~nb[i].there
    BY DEF Init, Absent
  <2> QED
    BY <2>1, <2>2 DEF HInv, Guarded, Truthful, HeldBy, Apart
<1>2. BInv /\ OInv /\ HInv /\ [Next]_vars => HInv'
  <2> SUFFICES ASSUME BInv, OInv, HInv, [Next]_vars PROVE HInv'
    OBVIOUS
  <2>1. CASE UNCHANGED vars
    BY <2>1 DEF vars, HInv
  <2> QED
    BY <2>1, NextIs, PassHInv, OtherHInv
<1> QED
  BY <1>1, <1>2, AlwaysBInv, AlwaysOInv, PTL DEF Spec

\* What a claim nobody is deleting reports is in NetBox as it says, and no other such claim
\* reports the same object or address: whatever is lost, late, refused, retried or read stale,
\* whoever re-applies the manifest, and whatever humans make in the pool besides.  Excluded are
\* the hands that take an object away from its claim (claim.go commit, refuseForeignReclaim, free).
THEOREM ReportsWhatItHolds == ASSUME Closed, Untouched PROVE Spec => []HoldsAlone
<1>1. BInv /\ OInv /\ HInv => HoldsAlone
  <2> SUFFICES ASSUME BInv, OInv, HInv, NEW c \in Claims, Holds(c)
               PROVE  LET o == nb[api[c].id] IN
                      /\ o.there /\ o.addr = api[c].addr /\ o.identity = api[c].held
                      /\ \A d \in Claims \ {c} :
                           Holds(d) => api[c].id # api[d].id /\ api[c].addr # api[d].addr
    BY DEF HoldsAlone
  <2>1. \A d \in Claims : Holds(d) => Backed(api[d], nb) /\ Own(d, api[d].id, maker)
    BY DEF HInv, Guarded, HeldBy, Holds, OInv
  <2>2. \A d \in Claims : Holds(d) =>
          api[d].id \in Ids /\ nb[api[d].id].there /\ nb[api[d].id].addr = api[d].addr
          /\ maker[api[d].id] = d
    BY <2>1, IdRange DEF Backed, Own
  <2>3. ASSUME NEW d \in Claims \ {c}, Holds(d)
        PROVE  api[c].id # api[d].id /\ api[c].addr # api[d].addr
    BY <2>2, <2>3 DEF HInv, Apart
  <2> QED
    BY <2>1, <2>3 DEF Backed
<1> QED
  BY <1>1, AlwaysBInv, AlwaysOInv, AlwaysHInv, PTL
=============================================================================
