---------------------------- MODULE ClaimEngine -----------------------------
(***************************************************************************)
(* The claim engine (internal/reconciler/claim.go): a claim asks for one   *)
(* object out of a pool, NetBox picks it, and the only proof of ownership  *)
(* is the allocation identity the allocating POST wrote on the object.     *)
(* One operator per cluster, several clusters on one NetBox.  As in        *)
(* ObjectEngine every remote call is an action of its own.                 *)
(*                                                                         *)
(* The pool is one prefix allocated through a locked available-* path, so  *)
(* picking an address and creating its object are one step of NetBox.      *)
(* Back-off and verification intervals are clocks: a pass may find them    *)
(* run out or not.                                                         *)
(***************************************************************************)
EXTENDS Naturals, FiniteSets

CONSTANTS
  Clusters,     \* the clusters whose operators share this NetBox
  Names,        \* namespace/name of a claim
  Explicit,     \* values users put in spec.allocationIdentity
  Addrs,        \* the addresses of the pool
  DelPolicies,  \* "Delete", "Retain", or "Skip" for the skip-finalizer annotation
  Modes,        \* endpoints: "Live", "DryRun" (or Report), "NoStore" (no identity field)
  Env,          \* what the surroundings may do, see EnvEvents
  MaxTries,     \* claimDeleteAttempts
  MaxId,        \* bound: NetBox ids
  MaxEdits,     \* bound: steps of users and of humans in NetBox
  MaxFaults,    \* bound: failed, lost or late calls, crashes, endpoint outages
  None,         \* no address, no identity, no stamp
  Outside,      \* an address of no interest but for being outside the pool
  Human         \* whoever writes NetBox by hand

Ids == 1..MaxId
Claims == Clusters \X Names
Identities == Names \cup Explicit

EnvEvents == {"Edit", "Reapply", "HumanMake", "HumanDelete", "HumanMove", "HumanStamp",
              "Restore", "Late", "Outage", "Protected"}

ASSUME ConstantsAssumption ==
  /\ MaxId \in Nat /\ MaxEdits \in Nat /\ MaxFaults \in Nat
  /\ MaxTries \in Nat \ {0}
  /\ DelPolicies \subseteq {"Delete", "Retain", "Skip"}
  /\ Modes \subseteq {"Live", "DryRun", "NoStore"}
  /\ Env \subseteq EnvEvents
  /\ None \notin Identities \cup Addrs \cup Clusters
  /\ Outside \notin Addrs \cup {None}
  /\ Human \notin Claims \cup {None} /\ None \notin Claims

VARIABLES
  api,      \* the API servers' copy of each claim
  cache,    \* the informers' copies
  current,  \* whether an informer's copy is the latest version
  pass,     \* the reconcile of each claim in progress
  nb,       \* the NetBox objects allocated out of the pool, by id
  flight,   \* allocating POSTs NetBox has received and not answered in time
  edits,    \* steps of users and humans so far
  faults,   \* faults so far
  maker,    \* history: who POSTed each id
  freed,    \* history: the claims on whose behalf each id was DELETEd
  told      \* history: the claims whose release reported an object left behind

vars == <<api, cache, current, pass, nb, flight, edits, faults, maker, freed, told>>
history == <<maker, freed, told>>
netbox == <<nb, flight, maker, freed>>

Reasons == {"None", "Allocated", "Waiting", "Refused", "Pending", "Contested", "Blocked"}

\* metadata, spec and status of one claim; identity is spec.allocationIdentity, held what
\* status.allocationIdentity records, tries status.deletionAttempts.
Resource ==
  [there: BOOLEAN, identity: Explicit \cup {None}, del: DelPolicies,
   deleting: BOOLEAN, fin: BOOLEAN,
   addr: Addrs \cup {None}, id: 0..MaxId, held: Identities \cup {None},
   reason: Reasons, tries: 0..MaxTries]

StatusOf(obj) == <<obj.addr, obj.id, obj.held, obj.reason, obj.tries>>

Absent == [there |-> FALSE]

\* An object with its allocation identity and the provenance stamp it carries.
Object ==
  [there: BOOLEAN, addr: Addrs \cup {Outside}, identity: Identities \cup {None},
   cluster: Clusters \cup {None}, owner: Names \cup {None}]

Steps == {"finalizer", "find", "allocate", "verify", "settled", "holder",
          "releasing", "free", "release", "finish"}

Idle == [pc |-> "idle"]

\* claimPass: the copy being worked on and the status it came with, whether that copy's
\* resourceVersion is still the latest, the endpoint's mode, the object the allocation
\* answered with, whether a verification was dated, whether the release has to report.
Pass ==
  [pc: Steps, obj: Resource, was: Resource, latest: BOOLEAN, mode: Modes,
   match: 0..MaxId, answered: Addrs \cup {None}, dated: BOOLEAN, retained: BOOLEAN]

Request == [claim: Claims, identity: Identities]

\* A manifest just applied.
Applied ==
  {r \in Resource : /\ r.there /\ ~r.deleting /\ ~r.fin
                    /\ r.addr = None /\ r.id = 0 /\ r.held = None
                    /\ r.reason = "None" /\ r.tries = 0}

Init ==
  /\ api \in [Claims -> Applied]
  /\ cache = [c \in Claims |-> Absent]
  /\ current = [c \in Claims |-> FALSE]
  /\ pass = [c \in Claims |-> Idle]
  /\ nb = [i \in Ids |-> Absent]
  /\ flight = {}
  /\ edits = 0
  /\ faults = 0
  /\ maker = [i \in Ids |-> None]
  /\ freed = [i \in Ids |-> {}]
  /\ told = {}

-----------------------------------------------------------------------------
(* The two stores. *)

\* A write to the API server's copy of c by somebody other than c's own pass.
WriteOutside(c, obj) ==
  /\ api' = [api EXCEPT ![c] = obj]
  /\ current' = [current EXCEPT ![c] = FALSE]
  /\ pass' = IF pass[c].pc = "idle" THEN pass
             ELSE [pass EXCEPT ![c] = [@ EXCEPT !.latest = FALSE]]

\* The next id NetBox mints: the lowest its database has not handed out.
Minted(i) == maker[i] # None
NextId == {i \in Ids : ~Minted(i) /\ \A j \in 1..(i - 1) : Minted(j)}

Carrying(identity) == {i \in Ids : nb[i].there /\ nb[i].identity = identity}
Taken == {nb[i].addr : i \in {j \in Ids : nb[j].there}}

\* The locked available-* view: pick a free address and create the object, one step.
Mint(i, a, c, identity) ==
  /\ i \in NextId /\ a \in Addrs \ Taken
  /\ nb' = [nb EXCEPT ![i] = [there |-> TRUE, addr |-> a, identity |-> identity,
                              cluster |-> c[1], owner |-> c[2]]]
  /\ maker' = [maker EXCEPT ![i] = c]

-----------------------------------------------------------------------------
(* Users, humans in NetBox, NetBox itself, the informer, the process. *)

Edit == edits < MaxEdits /\ edits' = edits + 1
Fault == faults < MaxFaults /\ faults' = faults + 1

\* allocationIdentity can be added and never changed.
UserEdit(c) ==
  /\ "Edit" \in Env /\ Edit
  /\ api[c].there /\ ~api[c].deleting
  /\ \E x \in Explicit \cup {None}, d \in DelPolicies :
       /\ api[c].identity \in {None, x}
       /\ WriteOutside(c, [api[c] EXCEPT !.identity = x, !.del = d])
  /\ UNCHANGED <<cache, netbox, faults, told>>

UserDelete(c) ==
  /\ api[c].there /\ ~api[c].deleting
  /\ WriteOutside(c, IF api[c].fin THEN [api[c] EXCEPT !.deleting = TRUE] ELSE Absent)
  /\ UNCHANGED <<cache, netbox, edits, faults, told>>

\* The same manifest, or the same name in another, applied again.
UserReapply(c) ==
  /\ "Reapply" \in Env /\ Edit
  /\ ~api[c].there
  /\ \E r \in Applied : WriteOutside(c, r)
  /\ UNCHANGED <<cache, netbox, faults, told>>

\* NetBox allows two objects with one address unless told otherwise.
HumanMake ==
  /\ "HumanMake" \in Env /\ Edit
  /\ \E i \in NextId, a \in Addrs :
       /\ nb' = [nb EXCEPT ![i] = [there |-> TRUE, addr |-> a, identity |-> None,
                                   cluster |-> None, owner |-> None]]
       /\ maker' = [maker EXCEPT ![i] = Human]
  /\ UNCHANGED <<api, cache, current, pass, flight, faults, freed, told>>

HumanDelete(i) ==
  /\ "HumanDelete" \in Env /\ Edit
  /\ nb[i].there
  /\ nb' = [nb EXCEPT ![i] = Absent]
  /\ UNCHANGED <<api, cache, current, pass, flight, faults, history>>

HumanMove(i) ==
  /\ "HumanMove" \in Env /\ Edit
  /\ nb[i].there
  /\ \E a \in Addrs \cup {Outside} : nb' = [nb EXCEPT ![i] = [@ EXCEPT !.addr = a]]
  /\ UNCHANGED <<api, cache, current, pass, flight, faults, history>>

\* The hand-over the refusal asks for: a human writes the owner stamp, or clears the stamp.
HumanStamp(i) ==
  /\ "HumanStamp" \in Env /\ Edit
  /\ nb[i].there
  /\ \/ \E n \in Names : nb' = [nb EXCEPT ![i] = [@ EXCEPT !.owner = n]]
     \/ nb' = [nb EXCEPT ![i] = [@ EXCEPT !.owner = None, !.cluster = None]]
  /\ UNCHANGED <<api, cache, current, pass, flight, faults, history>>

\* NetBox restored from a snapshot that predates every id from k on: they are minted again.
Restore ==
  /\ "Restore" \in Env /\ Edit
  /\ \E k \in Ids :
       /\ Minted(k)
       /\ nb' = [i \in Ids |-> IF i < k THEN nb[i] ELSE Absent]
       /\ maker' = [i \in Ids |-> IF i < k THEN maker[i] ELSE None]
       /\ freed' = [i \in Ids |-> IF i < k THEN freed[i] ELSE {}]
  /\ UNCHANGED <<api, cache, current, pass, flight, faults, told>>

\* NetBox gets to a POST whose client has long stopped waiting.
LateAllocation ==
  /\ \E q \in flight :
       /\ flight' = flight \ {q}
       /\ \E i \in Ids, a \in Addrs : Mint(i, a, q.claim, q.identity)
  /\ UNCHANGED <<api, cache, current, pass, edits, faults, freed, told>>

CacheSync(c) ==
  /\ ~current[c]
  /\ cache' = [cache EXCEPT ![c] = api[c]]
  /\ current' = [current EXCEPT ![c] = TRUE]
  /\ UNCHANGED <<api, pass, netbox, edits, faults, told>>

\* The operator of one cluster dies; its successor lists before it reconciles.
Crash(k) ==
  LET mine == {k} \X Names IN
  /\ Fault
  /\ \E c \in mine : pass[c].pc # "idle"
  /\ pass' = [c \in Claims |-> IF c \in mine THEN Idle ELSE pass[c]]
  /\ cache' = [c \in Claims |-> IF c \in mine THEN api[c] ELSE cache[c]]
  /\ current' = [c \in Claims |-> IF c \in mine THEN TRUE ELSE current[c]]
  /\ UNCHANGED <<api, netbox, edits, told>>

-----------------------------------------------------------------------------
(* The allocating pass. *)

At(c, pc) == pass[c].pc = pc
Go(c, p) == pass' = [pass EXCEPT ![c] = p]

\* claimPass.stop and pending: nothing allocated, and why.
Stop(p, reason) == [p EXCEPT !.pc = "finish", !.obj = [@ EXCEPT !.reason = reason]]

\* ClaimEngine.Reconcile up to the first call.
Begin(c) ==
  LET o == cache[c] IN
  /\ At(c, "idle")
  /\ o.there
  /\ \E m \in Modes :
       Go(c, [pc |-> IF o.deleting THEN "releasing"
                     ELSE IF ~o.fin THEN "finalizer"
                     ELSE IF o.addr # None THEN "settled" ELSE "find",
              obj |-> o, was |-> o, latest |-> current[c], mode |-> m,
              match |-> 0, answered |-> None, dated |-> FALSE, retained |-> FALSE])
  /\ UNCHANGED <<api, cache, current, netbox, edits, faults, told>>

\* takeFinalizer: a metadata patch carrying the resourceVersion of the copy.
TakeFinalizer(c) ==
  LET p == pass[c] IN
  /\ At(c, "finalizer")
  /\ IF p.latest
     THEN /\ api' = [api EXCEPT ![c] = [@ EXCEPT !.fin = TRUE]]
          /\ current' = [current EXCEPT ![c] = FALSE]
          /\ Go(c, [p EXCEPT !.pc = IF p.obj.addr # None THEN "settled" ELSE "find",
                             !.obj = [@ EXCEPT !.fin = TRUE]])
     ELSE Go(c, Idle) /\ UNCHANGED <<api, current>>
  /\ UNCHANGED <<cache, netbox, edits, faults, told>>

\* Mutant: the digest leaves the name out.
IdentityIgnoresName(c, p) ==
  IF p.obj.identity # None THEN p.obj.identity ELSE CHOOSE n \in Names : TRUE

\* claimPass.allocationIdentity and AllocationIdentity: the digest of NetBox's URL, the
\* kind, the namespace and the name tells claims apart as the name does.
Identity(c, p) == IF p.obj.identity # None THEN p.obj.identity ELSE c[2]

\* Mutant: only another cluster's stamp is foreign.
ConflictByClusterOnly(c, o) == o.cluster # None /\ o.cluster # c[1]

\* Stamp.Conflict: the stamp names another cluster, or another owner.
Conflict(c, o) ==
  \/ o.cluster # None /\ o.cluster # c[1]
  \/ o.owner # None /\ o.owner # c[2]

\* claimPass.refuseForeignReclaim: only a given identity is checked.
Foreign(c, p, o) ==
  /\ p.obj.identity # None
  /\ Conflict(c, o) \/ (o.cluster = None /\ o.owner = None)

\* claimPass.commit.
Commit(p, i, addr, identity) ==
  [p EXCEPT !.pc = "finish", !.dated = TRUE,
            !.obj = [@ EXCEPT !.addr = addr, !.id = i, !.held = identity,
                              !.reason = "Allocated"]]

\* claimPass.reclaim: the one object carrying the identity, unless it lies outside the pool.
Reclaim(c, p, i) ==
  IF nb[i].addr = Outside \/ Foreign(c, p, nb[i]) THEN Stop(p, "Refused")
  ELSE Commit(p, i, nb[i].addr, Identity(c, p))

\* Mutant: allocate without looking.
FindSkipsSearch(c) ==
  /\ At(c, "find")
  /\ Go(c, [pass[c] EXCEPT !.pc = "allocate"])
  /\ UNCHANGED <<api, cache, current, netbox, edits, faults, told>>

\* Mutant: an object already carrying the identity is always somebody else's.
FindRefusesMatch(c) ==
  LET p == pass[c] IN
  /\ At(c, "find")
  /\ Go(c, IF Carrying(Identity(c, p)) = {} THEN [p EXCEPT !.pc = "allocate"]
           ELSE Stop(p, "Refused"))
  /\ UNCHANGED <<api, cache, current, netbox, edits, faults, told>>

\* claimPass.allocateOnce, the pool being usable: search by the identity first.
Find(c) ==
  LET p == pass[c]
      found == Carrying(Identity(c, p))
  IN
  /\ At(c, "find")
  /\ \/ p.mode = "NoStore" /\ Go(c, Stop(p, "Refused"))
     \/ p.mode # "NoStore" /\ found = {} /\ Go(c, [p EXCEPT !.pc = "allocate"])
     \/ /\ p.mode # "NoStore"
        /\ \E i \in found : found = {i} /\ Go(c, Reclaim(c, p, i))
     \/ p.mode # "NoStore" /\ Cardinality(found) > 1 /\ Go(c, Stop(p, "Refused"))
  /\ UNCHANGED <<api, cache, current, netbox, edits, faults, told>>

\* claimPass.resolvePool and admitPool: the reference does not resolve, the prefix is gone,
\* marked utilised, or in a status this kind does not allocate out of.
PoolUnusable(c) ==
  /\ "Outage" \in Env /\ Fault
  /\ At(c, "find") /\ pass[c].mode # "NoStore"
  /\ Go(c, Stop(pass[c], "Waiting"))
  /\ UNCHANGED <<api, cache, current, netbox, edits, told>>

\* claimPass.allocate and Client.Allocate: one attempt, never retried.  The answer may be
\* lost, or the client may stop waiting before NetBox gets to the request.
Allocate(c) ==
  LET p == pass[c] IN
  /\ At(c, "allocate")
  /\ \/ /\ p.mode = "DryRun"
        /\ Go(c, Stop(p, "Pending"))
        /\ UNCHANGED <<nb, flight, maker, faults>>
     \/ /\ p.mode = "Live" /\ Addrs \subseteq Taken
        /\ Go(c, Stop(p, "Refused"))
        /\ UNCHANGED <<nb, flight, maker, faults>>
     \/ /\ p.mode = "Live"
        /\ \E i \in Ids, a \in Addrs :
             /\ Mint(i, a, c, Identity(c, p))
             /\ \/ Go(c, [p EXCEPT !.pc = "verify", !.match = i, !.answered = a])
                   /\ UNCHANGED faults
                \/ Fault /\ Go(c, Stop(p, "Waiting"))
        /\ UNCHANGED flight
     \/ /\ p.mode = "Live" /\ "Late" \in Env /\ Fault
        /\ flight' = flight \cup {[claim |-> c, identity |-> Identity(c, p)]}
        /\ Go(c, Stop(p, "Waiting"))
        /\ UNCHANGED <<nb, maker>>
  /\ UNCHANGED <<api, cache, current, edits, freed, told>>

\* claimPass.verify: the read after the write.
Verify(c) ==
  LET p == pass[c]
      o == nb[p.match]
  IN
  /\ At(c, "verify")
  /\ Go(c, IF o.there /\ o.addr = p.answered /\ o.identity = Identity(c, p)
           THEN Commit(p, p.match, o.addr, o.identity)
           ELSE Stop(p, "Pending"))
  /\ UNCHANGED <<api, cache, current, netbox, edits, faults, told>>

-----------------------------------------------------------------------------
(* A claim that holds an allocation already. *)

\* claimPass.pinned and ready.
Pinned(p) == Stop(p, "Allocated")

\* claimPass.contested, whichever of its verdicts.
Contested(p) == [Stop(p, "Contested") EXCEPT !.dated = TRUE]

\* claimPass.verifyPin and verified: one search by the recorded identity.
VerifyPin(p) ==
  LET found == Carrying(p.obj.held) IN
  IF Cardinality(found) > 1 THEN Contested(p)
  ELSE IF \E i \in found : nb[i].addr = p.obj.addr THEN [Pinned(p) EXCEPT !.dated = TRUE]
  ELSE [p EXCEPT !.pc = "holder"]

\* claimPass.settled: not due or nothing to verify against, or a verification.
Settled(c) ==
  LET p == pass[c] IN
  /\ At(c, "settled")
  /\ \/ Go(c, Pinned(p))
     \/ p.mode # "NoStore" /\ Go(c, VerifyPin(p))
  /\ UNCHANGED <<api, cache, current, netbox, edits, faults, told>>

\* claimPass.pinNotHeld: who holds the address decides the wording only.
PinNotHeld(c) ==
  /\ At(c, "holder")
  /\ Go(c, Contested(pass[c]))
  /\ UNCHANGED <<api, cache, current, netbox, edits, faults, told>>

\* claimPass.finish: the status update carries the copy's resourceVersion, and a refused
\* one is dropped: the next pass finds the object by its identity.
Finish(c) ==
  LET p == pass[c] IN
  /\ At(c, "finish")
  /\ IF (p.dated \/ StatusOf(p.obj) # StatusOf(p.was)) /\ p.latest
     THEN /\ api' = [api EXCEPT ![c] = [@ EXCEPT !.addr = p.obj.addr, !.id = p.obj.id,
                       !.held = p.obj.held, !.reason = p.obj.reason, !.tries = p.obj.tries]]
          /\ current' = [current EXCEPT ![c] = FALSE]
     ELSE UNCHANGED <<api, current>>
  /\ Go(c, Idle)
  /\ UNCHANGED <<cache, netbox, edits, faults, told>>

-----------------------------------------------------------------------------
(* A claim being deleted. *)

ToRelease(p, retained) == [p EXCEPT !.pc = "release", !.retained = retained]

\* claimPass.releaseWithoutDeleting: skipped, retained, or no id recorded.
ReleasesAtOnce(obj) == obj.del # "Delete" \/ obj.id = 0
LeavesBehind(obj) ==
  \/ obj.del = "Skip" /\ obj.id # 0
  \/ obj.del = "Retain"
  \/ obj.del = "Delete" /\ obj.addr # None

\* Mutant: retry for ever.
DeleteBlockedForever(p) ==
  [p EXCEPT !.pc = "finish", !.obj = [@ EXCEPT !.tries = 1, !.reason = "Blocked"]]

\* Mutant: give up without a word.
DeleteBlockedSilently(p) ==
  LET n == p.obj.tries + 1 IN
  IF n >= MaxTries THEN ToRelease([p EXCEPT !.obj = [@ EXCEPT !.tries = n]], FALSE)
  ELSE [p EXCEPT !.pc = "finish", !.obj = [@ EXCEPT !.tries = n, !.reason = "Blocked"]]

\* claimPass.deleteBlocked: give up into a report after MaxTries attempts.
DeleteBlocked(p) ==
  LET n == p.obj.tries + 1 IN
  IF n >= MaxTries THEN ToRelease([p EXCEPT !.obj = [@ EXCEPT !.tries = n]], TRUE)
  ELSE [p EXCEPT !.pc = "finish", !.obj = [@ EXCEPT !.tries = n, !.reason = "Blocked"]]

\* claimPass.releasing up to its first call, the endpoint being ready.
Releasing(c) ==
  LET p == pass[c] IN
  /\ At(c, "releasing")
  /\ Go(c, IF ~p.obj.fin THEN Idle
           ELSE IF ReleasesAtOnce(p.obj) THEN ToRelease(p, LeavesBehind(p.obj))
           ELSE [p EXCEPT !.pc = "free"])
  /\ UNCHANGED <<api, cache, current, netbox, edits, faults, told>>

\* Endpoints.Endpoint has no ready client.
EndpointNotReady(c) ==
  LET p == pass[c] IN
  /\ "Outage" \in Env /\ Fault
  /\ \/ At(c, "find") /\ Go(c, Stop(p, "Waiting"))
     \/ /\ At(c, "releasing") /\ p.obj.fin /\ ~ReleasesAtOnce(p.obj)
        /\ Go(c, DeleteBlocked(p))
  /\ UNCHANGED <<api, cache, current, netbox, edits, told>>

\* claimPass.free: DELETE by the recorded id.  NetBox may refuse for a protected relation.
Free(c) ==
  LET p == pass[c]
      i == p.obj.id
  IN
  /\ At(c, "free")
  /\ \/ /\ p.mode = "DryRun"
        /\ Go(c, ToRelease(p, TRUE))
        /\ UNCHANGED <<nb, freed, faults>>
     \/ /\ p.mode # "DryRun" /\ ~nb[i].there
        /\ Go(c, ToRelease(p, FALSE))
        /\ UNCHANGED <<nb, freed, faults>>
     \/ /\ p.mode # "DryRun" /\ nb[i].there /\ "Protected" \in Env
        /\ Go(c, DeleteBlocked(p))
        /\ UNCHANGED <<nb, freed, faults>>
     \/ /\ p.mode # "DryRun" /\ nb[i].there
        /\ nb' = [nb EXCEPT ![i] = Absent]
        /\ freed' = [freed EXCEPT ![i] = @ \cup {c}]
        /\ \/ Go(c, ToRelease(p, FALSE)) /\ UNCHANGED faults
           \/ Fault /\ Go(c, DeleteBlocked(p))
  /\ UNCHANGED <<api, cache, current, flight, edits, maker, told>>

\* claimPass.release: the patch carries the resourceVersion; the report follows it.
Release(c) ==
  LET p == pass[c] IN
  /\ At(c, "release")
  /\ IF p.latest
     THEN /\ api' = [api EXCEPT ![c] = Absent]
          /\ current' = [current EXCEPT ![c] = FALSE]
          /\ told' = IF p.retained THEN told \cup {c} ELSE told
     ELSE UNCHANGED <<api, current, told>>
  /\ Go(c, Idle)
  /\ UNCHANGED <<cache, netbox, edits, faults>>

\* The call a pass is about to make fails without taking effect; an allocation that could
\* not be verified stands.
CallFails(c) ==
  LET p == pass[c] IN
  /\ Fault
  /\ \/ p.pc \in {"find", "allocate", "verify"} /\ Go(c, Stop(p, "Waiting"))
     \/ p.pc \in {"settled", "holder"} /\ Go(c, Pinned(p))
     \/ p.pc = "free" /\ Go(c, DeleteBlocked(p))
     \/ p.pc \in {"finalizer", "release", "finish"} /\ Go(c, Idle)
  /\ UNCHANGED <<api, cache, current, netbox, edits, told>>

-----------------------------------------------------------------------------
Step(c) ==
  \/ Begin(c) \/ TakeFinalizer(c) \/ Find(c) \/ Allocate(c) \/ Verify(c)
  \/ Settled(c) \/ PinNotHeld(c) \/ Finish(c)
  \/ Releasing(c) \/ Free(c) \/ Release(c)

Next ==
  \/ \E c \in Claims : \/ Step(c) \/ PoolUnusable(c) \/ EndpointNotReady(c) \/ CallFails(c)
                       \/ CacheSync(c) \/ UserEdit(c) \/ UserDelete(c) \/ UserReapply(c)
  \/ \E i \in Ids : HumanDelete(i) \/ HumanMove(i) \/ HumanStamp(i)
  \/ \E k \in Clusters : Crash(k)
  \/ HumanMake \/ Restore \/ LateAllocation

Spec == Init /\ [][Next]_vars

\* controller-runtime keeps a queued key until its reconcile has run and requeues it,
\* and the watch keeps delivering.
Fairness == \A c \in Claims : WF_vars(Step(c)) /\ WF_vars(CacheSync(c))

FairSpec == Spec /\ Fairness

-----------------------------------------------------------------------------
(* Properties. *)

Holds(c) == api[c].there /\ ~api[c].deleting /\ api[c].addr # None

MadeBy(c) == {i \in Ids : nb[i].there /\ maker[i] = c}

\* Exactly once: no lost answer, crash, refused status write, stale copy or re-applied manifest
\* makes a claim take a second object while an object with its identity is in NetBox
\* (claim.go allocateOnce).
ExactlyOnce ==
  \A c \in Claims : \A i, j \in MadeBy(c) : i # j => nb[i].identity # nb[j].identity

\* What a claim nobody is deleting reports is really there and its alone: its object, at that
\* id, with that address and that identity, and recorded by no other claim, whatever is lost,
\* retried, read stale, reclaimed or freed (claim.go commit, refuseForeignReclaim, free).
HoldsAlone ==
  \A c \in Claims : Holds(c) =>
    LET o == nb[api[c].id] IN
    /\ o.there /\ o.addr = api[c].addr /\ o.identity = api[c].held
    /\ \A d \in Claims \ {c} : Holds(d) => api[c].id # api[d].id /\ api[c].addr # api[d].addr

\* A claim frees only what was allocated for it (claim.go free trusts status.netboxID).
FreesOnlyOwn == \A c \in Claims, i \in Ids : c \in freed[i] => maker[i] = c

\* A claim's finalizer cannot wedge a namespace: whatever NetBox answers and whether or not
\* an endpoint is there, a deletion completes (claim.go deleteBlocked).
DeletionCompletes ==
  \A c \in Claims : (api[c].there /\ api[c].deleting) ~> ~api[c].there

\* A claim that lost an answer or a status write still ends up holding an address
\* (claim.go allocateOnce).
Allocates == \A c \in Claims : <>[](api[c].there /\ ~api[c].deleting => Holds(c))

\* A claim never lets go of the object it made and recorded without that object being gone from NetBox
\* or the claim having said that it stays, whichever way the deletion ended: freed, retained,
\* skipped, given up on, or on an endpoint that sends no writes (claim.go releasing, release).
FreedOrReported ==
  [][\A c \in Claims :
       api[c].there /\ api[c].deleting /\ api[c].id # 0 /\ ~api'[c].there
         => c \in told' \/ api[c].id \notin MadeBy(c)]_vars

\* Only a verification that finds the allocation restores Ready on a claim reported lost or
\* in conflict (claim.go contested and pinned).
VerdictStands ==
  [][\A c \in Claims :
       api[c].there /\ api[c].reason = "Contested" /\ api'[c].there
       /\ api'[c].reason = "Allocated" => pass[c].dated]_vars
=============================================================================
