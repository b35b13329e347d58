---------------------------- MODULE ObjectEngine ----------------------------
(***************************************************************************)
(* The generic reconcile engine (internal/reconciler) driving one NetBox   *)
(* kind: the pass one custom resource goes through from the informer's     *)
(* copy of it to the status write, the deletion sequence behind the        *)
(* finalizer, and the two stores the pass straddles, the API server and    *)
(* NetBox.  Every remote call is an action of its own, so that everything  *)
(* else may happen between two calls of one pass: a user edits or deletes  *)
(* the resource, a human edits NetBox, a call fails before or after it     *)
(* took effect, the process dies, the informer lags.                       *)
(*                                                                         *)
(* A member of CRs stands for one metadata.uid: a resource deleted and     *)
(* applied again is another member, perhaps with the same natural key.     *)
(* The kind has no inline children and no DataLossOnDelete flag.           *)
(***************************************************************************)
EXTENDS Naturals, FiniteSets

CONSTANTS
  CRs,          \* the custom resources of the kind, one per metadata.uid
  Keys,         \* natural-key values (spec fields the lookup filters on)
  Vals,         \* values of the remaining managed fields, taken together
  Policies,     \* the values of spec.onConflict the users set
  DelPolicies,  \* "Delete", "Retain", or "Skip" for the skip-finalizer annotation
  Stamps,       \* the endpoint stamps k8s_uid on this kind (stampIdentifies)
  Recreate,     \* UpdateStrategy is UpdateRecreate on the natural key
  Unique,       \* NetBox holds a unique constraint on the natural key
  Modes,        \* what an endpoint's client may be: "Live" or "DryRun"
  Env,          \* what the surroundings may do, see EnvEvents
  MaxId,        \* bound: NetBox ids minted
  MaxEdits,     \* bound: steps of users and of humans in NetBox
  MaxFaults,    \* bound: failed or lost calls, crashes, endpoint outages
  NoCR,         \* "no uid stamped", "nobody made it"
  Human         \* whoever writes NetBox by hand

Ids == 1..MaxId

\* Users changing a natural key or a policy, or stripping a finalizer by hand; humans
\* creating an object, renaming or deleting one; the endpoint losing its client.
\* Everything else may always happen.
EnvEvents == {"KeyEdit", "PolicyEdit", "Strip", "HumanCreate", "Rename", "HumanDelete", "Outage"}

ASSUME ConstantsAssumption ==
  /\ MaxId \in Nat /\ MaxEdits \in Nat /\ MaxFaults \in Nat
  /\ Policies \subseteq {"Fail", "Adopt", "AdoptOnly"}
  /\ DelPolicies \subseteq {"Delete", "Retain", "Skip"}
  /\ Modes \subseteq {"Live", "DryRun"}
  /\ {Stamps, Recreate, Unique} \subseteq BOOLEAN
  /\ Env \subseteq EnvEvents
  /\ NoCR \notin CRs /\ Human \notin CRs /\ NoCR # Human

VARIABLES
  api,      \* the API server's copy of each resource
  cache,    \* the informer's copy of each resource
  current,  \* whether the informer's copy is the latest version
  pass,     \* the reconcile of each resource in progress
  nb,       \* the NetBox objects of the kind, by id
  edits,    \* steps of users and humans so far
  faults,   \* faults so far
  maker,    \* history: who POSTed each id
  touched,  \* history: the resources on whose behalf each id was PATCHed or DELETEd
  asked     \* history: the resources whose spec ever asked for adoption

vars == <<api, cache, current, pass, nb, edits, faults, maker, touched, asked>>
history == <<maker, touched, asked>>

Reasons == {"None", "Synced", "Conflict", "AdoptOnly", "Invalid",
            "Waiting", "APIError", "DryRunPending", "Blocked"}

\* metadata, spec and engine-owned status of one resource.
Resource ==
  [there: BOOLEAN, key: Keys, val: Vals, policy: Policies, del: DelPolicies,
   deleting: BOOLEAN, fin: BOOLEAN,
   id: 0..MaxId, adopted: BOOLEAN, reason: Reasons]

Status == [id: 0..MaxId, adopted: BOOLEAN, reason: Reasons]
StatusOf(obj) == [id |-> obj.id, adopted |-> obj.adopted, reason |-> obj.reason]

Absent == [there |-> FALSE]

\* One object of the kind as NetBox returns it; uid is the k8s_uid custom field.
Object == [there: BOOLEAN, key: Keys, val: Vals, uid: CRs \cup {NoCR}]

Steps == {"idle", "finalizer", "locate", "lookup", "owns", "create", "update",
          "recreate", "deleting", "stamp", "delete", "release", "finish", "record"}

\* Engine.pass: the copy being worked on, the status it came with, whether that copy's
\* resourceVersion is still the latest, the endpoint's mode, the NetBox object found.
Idle == [pc |-> "idle"]

Pass ==
  [pc: Steps \ {"idle"}, obj: Resource, was: Status, latest: BOOLEAN, mode: Modes,
   match: 0..MaxId, live: Object \cup {Absent}, newID: 0..MaxId, wrote: BOOLEAN]

TypeOK ==
  /\ api \in [CRs -> Resource \cup {Absent}]
  /\ cache \in [CRs -> Resource \cup {Absent}]
  /\ current \in [CRs -> BOOLEAN]
  /\ pass \in [CRs -> Pass \cup {Idle}]
  /\ nb \in [Ids -> Object \cup {Absent}]
  /\ edits \in 0..MaxEdits
  /\ faults \in 0..MaxFaults
  /\ maker \in [Ids -> CRs \cup {Human, NoCR}]
  /\ touched \in [Ids -> SUBSET CRs]
  /\ asked \in SUBSET CRs

\* Every manifest has just been applied and no informer has seen it.
Applied ==
  {r \in Resource : /\ r.there /\ ~r.deleting /\ ~r.fin
                    /\ r.id = 0 /\ ~r.adopted /\ r.reason = "None"}

Init ==
  /\ api \in [CRs -> Applied]
  /\ cache = [c \in CRs |-> Absent]
  /\ current = [c \in CRs |-> FALSE]
  /\ pass = [c \in CRs |-> Idle]
  /\ nb = [i \in Ids |-> Absent]
  /\ edits = 0
  /\ faults = 0
  /\ maker = [i \in Ids |-> NoCR]
  /\ touched = [i \in Ids |-> {}]
  /\ asked = {c \in CRs : api[c].policy # "Fail"}

-----------------------------------------------------------------------------
(* The two stores. *)

\* A write to the API server's copy of c by somebody other than c's own pass: every
\* copy read before it carries a superseded resourceVersion.
WriteOutside(c, obj) ==
  /\ api' = [api EXCEPT ![c] = obj]
  /\ current' = [current EXCEPT ![c] = FALSE]
  /\ pass' = IF pass[c].pc = "idle" THEN pass
             ELSE [pass EXCEPT ![c] = [@ EXCEPT !.latest = FALSE]]

\* The next id NetBox mints: in order, never reused.
Minted(i) == maker[i] # NoCR
NextId == {i \in Ids : ~Minted(i) /\ \A j \in 1..(i - 1) : Minted(j)}

Matching(key) == {i \in Ids : nb[i].there /\ nb[i].key = key}
Stamped(c) == {i \in Ids : nb[i].there /\ nb[i].uid = c}

\* NetBox's unique constraint, for object i taking a key (0: an object not minted yet).
KeyFree(key, i) == Unique => Matching(key) \subseteq {i}

\* The k8s_uid a write on behalf of c carries.
StampOf(c) == IF Stamps THEN c ELSE NoCR

-----------------------------------------------------------------------------
(* Users, humans in NetBox, the informer, the process. *)

Edit == edits < MaxEdits /\ edits' = edits + 1
Fault == faults < MaxFaults /\ faults' = faults + 1

\* A spec edit: the managed values, the natural key, or the policies.
UserEdit(c) ==
  /\ Edit
  /\ api[c].there /\ ~api[c].deleting
  /\ \E k \in Keys, v \in Vals, p \in Policies :
       /\ k = api[c].key \/ "KeyEdit" \in Env
       /\ p = api[c].policy \/ "PolicyEdit" \in Env
       /\ WriteOutside(c, [api[c] EXCEPT !.key = k, !.val = v, !.policy = p])
       /\ asked' = IF p = "Fail" THEN asked ELSE asked \cup {c}
  /\ UNCHANGED <<cache, nb, faults, maker, touched>>

\* kubectl delete: immediate without a finalizer, a deletionTimestamp with one.
UserDelete(c) ==
  /\ api[c].there /\ ~api[c].deleting
  /\ WriteOutside(c, IF api[c].fin THEN [api[c] EXCEPT !.deleting = TRUE] ELSE Absent)
  /\ UNCHANGED <<cache, nb, edits, faults, history>>

\* A finalizer stripped by hand from a resource being deleted.
UserStrip(c) ==
  /\ "Strip" \in Env /\ Edit
  /\ api[c].there /\ api[c].deleting
  /\ WriteOutside(c, Absent)
  /\ UNCHANGED <<cache, nb, faults, history>>

HumanCreate ==
  /\ "HumanCreate" \in Env /\ Edit
  /\ \E i \in NextId, k \in Keys, v \in Vals :
       /\ KeyFree(k, 0)
       /\ nb' = [nb EXCEPT ![i] = [there |-> TRUE, key |-> k, val |-> v, uid |-> NoCR]]
       /\ maker' = [maker EXCEPT ![i] = Human]
  /\ UNCHANGED <<api, cache, current, pass, faults, touched, asked>>

HumanEdit(i) ==
  /\ Edit
  /\ nb[i].there
  /\ \E k \in Keys, v \in Vals :
       /\ k = nb[i].key \/ ("Rename" \in Env /\ KeyFree(k, i))
       /\ nb' = [nb EXCEPT ![i] = [@ EXCEPT !.key = k, !.val = v]]
  /\ UNCHANGED <<api, cache, current, pass, faults, history>>

HumanDelete(i) ==
  /\ "HumanDelete" \in Env /\ Edit
  /\ nb[i].there
  /\ nb' = [nb EXCEPT ![i] = Absent]
  /\ UNCHANGED <<api, cache, current, pass, faults, history>>

\* A watch event reaches the informer.
CacheSync(c) ==
  /\ ~current[c]
  /\ cache' = [cache EXCEPT ![c] = api[c]]
  /\ current' = [current EXCEPT ![c] = TRUE]
  /\ UNCHANGED <<api, pass, nb, edits, faults, history>>

\* The process dies with every pass in progress; its successor lists before it reconciles.
Crash ==
  /\ Fault
  /\ \E c \in CRs : pass[c].pc # "idle"
  /\ pass' = [c \in CRs |-> Idle]
  /\ cache' = api
  /\ current' = [c \in CRs |-> TRUE]
  /\ UNCHANGED <<api, nb, edits, history>>

-----------------------------------------------------------------------------
(* The pass.  At(c, pc): c's pass is about to make this call. *)

At(c, pc) == pass[c].pc = pc
Go(c, p) == pass' = [pass EXCEPT ![c] = p]

\* pass.stop and pass.blocked: record why on the status under construction.
Stop(p, reason) == [p EXCEPT !.pc = "finish", !.obj = [@ EXCEPT !.reason = reason]]

\* NetBox answered 404 for the recorded id.
GiveUpID(obj) == [obj EXCEPT !.id = 0, !.adopted = FALSE]

\* pass.stop on a NotFoundError: the id is given up with it.
StopGone(p) == Stop([p EXCEPT !.obj = GiveUpID(@)], "APIError")

\* Engine.Reconcile up to the first call.
Begin(c) ==
  /\ At(c, "idle")
  /\ cache[c].there
  /\ \E m \in Modes :
       Go(c, [pc |-> IF cache[c].deleting THEN "deleting"
                     ELSE IF cache[c].fin THEN "locate" ELSE "finalizer",
              obj |-> cache[c], was |-> StatusOf(cache[c]), latest |-> current[c], mode |-> m,
              match |-> 0, live |-> Absent, newID |-> 0, wrote |-> FALSE])
  /\ UNCHANGED <<api, cache, current, nb, edits, faults, history>>

\* takeFinalizer: a metadata patch carrying the resourceVersion of the copy.
TakeFinalizer(c) ==
  LET p == pass[c] IN
  /\ At(c, "finalizer")
  /\ IF p.latest
     THEN /\ api' = [api EXCEPT ![c] = [@ EXCEPT !.fin = TRUE]]
          /\ current' = [current EXCEPT ![c] = FALSE]
          /\ Go(c, [p EXCEPT !.pc = "locate", !.obj = [@ EXCEPT !.fin = TRUE]])
     ELSE Go(c, Idle) /\ UNCHANGED <<api, current>>
  /\ UNCHANGED <<cache, nb, edits, faults, history>>

\* Mutant: no id recorded is taken to mean no object in NetBox.
LocateSkipsLookup(c) ==
  LET p == pass[c] IN
  /\ At(c, "locate")
  /\ Go(c, IF p.obj.id = 0 THEN [p EXCEPT !.pc = "create"]
           ELSE IF nb[p.obj.id].there
           THEN [p EXCEPT !.pc = "update", !.match = p.obj.id, !.live = nb[p.obj.id]]
           ELSE [p EXCEPT !.pc = "create", !.obj = GiveUpID(@)])
  /\ UNCHANGED <<api, cache, current, nb, edits, faults, history>>

\* pass.locate: by id first, and a 404 gives the id up.
Locate(c) ==
  LET p == pass[c] IN
  /\ At(c, "locate")
  /\ Go(c, IF p.obj.id = 0 THEN [p EXCEPT !.pc = "lookup"]
           ELSE IF nb[p.obj.id].there
           THEN [p EXCEPT !.pc = "update", !.match = p.obj.id, !.live = nb[p.obj.id]]
           ELSE [p EXCEPT !.pc = "lookup", !.obj = GiveUpID(@)])
  /\ UNCHANGED <<api, cache, current, nb, edits, faults, history>>

\* pass.lookup: Client.GetOne on the natural key; more than one match is an AmbiguousError.
Lookup(c) ==
  LET p == pass[c]
      found == Matching(p.obj.key)
  IN
  /\ At(c, "lookup")
  /\ \/ found = {} /\ Go(c, [p EXCEPT !.pc = "create"])
     \/ \E i \in found : /\ found = {i}
                         /\ Go(c, [p EXCEPT !.pc = "owns", !.match = i, !.live = nb[i]])
     \/ Cardinality(found) > 1 /\ Go(c, Stop(p, "Conflict"))
  /\ UNCHANGED <<api, cache, current, nb, edits, faults, history>>

\* Mutant: a stamp counts only beside a recorded id.
StampedMineRecorded(c, p) == Stamps /\ p.live.uid = c /\ p.obj.id # 0

\* pass.stampedMine and ownsStamp.
StampedMine(c, p) == Stamps /\ p.live.uid = c

\* Mutant: adoption is the default.
AdoptsByDefault(p) == p.obj.policy # "None"

\* adopts.
Adopts(p) == p.obj.policy \in {"Adopt", "AdoptOnly"}

\* The pass goes on with the object it matched.
Takes(p, adopted) ==
  [p EXCEPT !.pc = "update", !.obj = [@ EXCEPT !.id = p.match, !.adopted = adopted]]

\* Mutant: a refused match leaves its id in the status all the same.
ClaimRecordsRefused(c) ==
  LET p == pass[c] IN
  /\ At(c, "owns")
  /\ Go(c, IF StampedMine(c, p) THEN Takes(p, p.obj.adopted)
           ELSE IF ~api[c].there THEN Idle
           ELSE IF api[c].id = p.match THEN Takes(p, api[c].adopted)
           ELSE IF Adopts(p) THEN Takes(p, TRUE)
           ELSE Stop(Takes(p, FALSE), "Conflict"))
  /\ UNCHANGED <<api, cache, current, nb, edits, faults, history>>

\* pass.claim and ownsMatch: own stamp, else the id the API server records, else adoption.
Claim(c) ==
  LET p == pass[c] IN
  /\ At(c, "owns")
  /\ Go(c, IF StampedMine(c, p) THEN Takes(p, p.obj.adopted)
           ELSE IF ~api[c].there THEN Idle
           ELSE IF api[c].id = p.match THEN Takes(p, api[c].adopted)
           ELSE IF Adopts(p) THEN Takes(p, TRUE)
           ELSE Stop(p, "Conflict"))
  /\ UNCHANGED <<api, cache, current, nb, edits, faults, history>>

\* pass.applyWrite: NetBox answered a write with object i.
Written(p, i) ==
  [Stop(p, "Synced") EXCEPT !.obj = [@ EXCEPT !.id = i], !.wrote = TRUE,
                            !.newID = IF i = p.was.id THEN 0 ELSE i]

\* pass.applyWrite on what a DryRun client returns: nothing was sent.
Suppressed(p) == Stop(p, "DryRunPending")

\* Client.Create: NetBox mints an id, whether or not the answer arrives.
Post(c, p) ==
  \/ /\ p.mode = "DryRun"
     /\ Go(c, Suppressed(p))
     /\ UNCHANGED <<nb, maker, faults>>
  \/ /\ p.mode = "Live" /\ ~KeyFree(p.obj.key, 0)
     /\ Go(c, Stop(p, "Invalid"))
     /\ UNCHANGED <<nb, maker, faults>>
  \/ /\ p.mode = "Live" /\ KeyFree(p.obj.key, 0)
     /\ \E i \in NextId :
          /\ nb' = [nb EXCEPT ![i] = [there |-> TRUE, key |-> p.obj.key, val |-> p.obj.val,
                                      uid |-> StampOf(c)]]
          /\ maker' = [maker EXCEPT ![i] = c]
          /\ \/ Go(c, Written(p, i)) /\ UNCHANGED faults
             \/ Fault /\ Go(c, Stop(p, "APIError"))

\* pass.create.
Create(c) ==
  LET p == pass[c] IN
  /\ At(c, "create")
  /\ IF p.obj.policy = "AdoptOnly"
     THEN Go(c, Stop(p, "AdoptOnly")) /\ UNCHANGED <<nb, maker, faults>>
     ELSE Post(c, p)
  /\ UNCHANGED <<api, cache, current, edits, touched, asked>>

\* The fields netbox.Changes finds between what was read and what is wanted.
KeyDrift(p) == p.live.key # p.obj.key
Drift(c, p) == KeyDrift(p) \/ p.live.val # p.obj.val \/ (Stamps /\ p.live.uid # c)
Replaces(p) == Recreate /\ KeyDrift(p)

\* pass.update: PATCH exactly the fields that drifted.
Update(c) ==
  LET p == pass[c]
      i == p.obj.id
      Patched(o) == [o EXCEPT !.key = IF KeyDrift(p) THEN p.obj.key ELSE @,
                              !.val = IF p.live.val # p.obj.val THEN p.obj.val ELSE @,
                              !.uid = IF Stamps THEN c ELSE @]
  IN
  /\ At(c, "update")
  /\ ~(Drift(c, p) /\ Replaces(p))
  /\ \/ /\ ~Drift(c, p)
        /\ Go(c, Stop(p, "Synced"))
        /\ UNCHANGED <<nb, touched, faults>>
     \/ /\ Drift(c, p) /\ p.mode = "DryRun"
        /\ Go(c, Suppressed(p))
        /\ UNCHANGED <<nb, touched, faults>>
     \/ /\ Drift(c, p) /\ p.mode = "Live" /\ ~nb[i].there
        /\ Go(c, StopGone(p))
        /\ UNCHANGED <<nb, touched, faults>>
     \/ /\ Drift(c, p) /\ p.mode = "Live" /\ nb[i].there
        /\ KeyDrift(p) /\ ~KeyFree(p.obj.key, i)
        /\ Go(c, Stop(p, "Invalid"))
        /\ UNCHANGED <<nb, touched, faults>>
     \/ /\ Drift(c, p) /\ p.mode = "Live" /\ nb[i].there
        /\ KeyDrift(p) => KeyFree(p.obj.key, i)
        /\ nb' = [nb EXCEPT ![i] = Patched(@)]
        /\ touched' = [touched EXCEPT ![i] = @ \cup {c}]
        /\ \/ Go(c, Written(p, i)) /\ UNCHANGED faults
           \/ Fault /\ Go(c, Stop(p, "APIError"))
  /\ UNCHANGED <<api, cache, current, edits, maker, asked>>

\* pass.recreate, first half: the identity changed, so the old object goes first.
RecreateDelete(c) ==
  LET p == pass[c]
      i == p.obj.id
  IN
  /\ At(c, "update")
  /\ Drift(c, p) /\ Replaces(p)
  /\ \/ /\ p.obj.del = "Retain"
        /\ Go(c, Stop(p, "Invalid"))
        /\ UNCHANGED <<nb, touched, faults>>
     \/ /\ p.obj.del # "Retain" /\ p.mode = "DryRun"
        /\ Go(c, [p EXCEPT !.pc = "recreate"])
        /\ UNCHANGED <<nb, touched, faults>>
     \/ /\ p.obj.del # "Retain" /\ p.mode = "Live" /\ ~nb[i].there
        /\ Go(c, StopGone(p))
        /\ UNCHANGED <<nb, touched, faults>>
     \/ /\ p.obj.del # "Retain" /\ p.mode = "Live" /\ nb[i].there
        /\ nb' = [nb EXCEPT ![i] = Absent]
        /\ touched' = [touched EXCEPT ![i] = @ \cup {c}]
        /\ \/ Go(c, [p EXCEPT !.pc = "recreate"]) /\ UNCHANGED faults
           \/ Fault /\ Go(c, Stop(p, "APIError"))
  /\ UNCHANGED <<api, cache, current, edits, maker, asked>>

\* pass.recreate, second half: the replacement is POSTed.
RecreateCreate(c) ==
  /\ At(c, "recreate")
  /\ Post(c, pass[c])
  /\ UNCHANGED <<api, cache, current, edits, touched, asked>>

\* pass.finish: the status update carries the copy's resourceVersion.  A refused one
\* drops every conclusion but an id this pass learned from a write.
Finish(c) ==
  LET p == pass[c]
      changed == p.wrote \/ StatusOf(p.obj) # p.was
  IN
  /\ At(c, "finish")
  /\ IF changed /\ p.latest
     THEN /\ api' = [api EXCEPT ![c] = [@ EXCEPT !.id = p.obj.id, !.adopted = p.obj.adopted,
                                                 !.reason = p.obj.reason]]
          /\ current' = [current EXCEPT ![c] = FALSE]
     ELSE UNCHANGED <<api, current>>
  /\ Go(c, IF changed /\ ~p.latest /\ p.newID # 0 THEN [p EXCEPT !.pc = "record"] ELSE Idle)
  /\ UNCHANGED <<cache, nb, edits, faults, history>>

\* pass.recordID and idWriter.RecordID: a merge patch of status.id with no precondition, neither
\* resourceVersion nor uid.  It is addressed by namespace and name; here a name is never used
\* again, so it cannot land on a successor of the resource the pass began with.
RecordID(c) ==
  LET p == pass[c] IN
  /\ At(c, "record")
  /\ IF api[c].there
     THEN /\ api' = [api EXCEPT ![c] = [@ EXCEPT !.id = p.newID]]
          /\ current' = [current EXCEPT ![c] = FALSE]
     ELSE UNCHANGED <<api, current>>
  /\ Go(c, Idle)
  /\ UNCHANGED <<cache, nb, edits, faults, history>>

-----------------------------------------------------------------------------
(* The deletion sequence. *)

\* Mutant: nothing recorded is nothing to delete, stamp or no stamp.
DeletingTrustsStatus(c) ==
  LET p == pass[c] IN
  /\ At(c, "deleting")
  /\ Go(c, IF ~p.obj.fin THEN Idle
           ELSE IF p.obj.del # "Delete" \/ p.obj.id = 0 THEN [p EXCEPT !.pc = "release"]
           ELSE [p EXCEPT !.pc = "delete"])
  /\ UNCHANGED <<api, cache, current, nb, edits, faults, history>>

\* pass.deleting up to its first NetBox call, the endpoint being ready.
Deleting(c) ==
  LET p == pass[c] IN
  /\ At(c, "deleting")
  /\ Go(c, IF ~p.obj.fin THEN Idle
           ELSE IF p.obj.del # "Delete" \/ (p.obj.id = 0 /\ ~Stamps)
           THEN [p EXCEPT !.pc = "release"]
           ELSE [p EXCEPT !.pc = IF p.obj.id = 0 THEN "stamp" ELSE "delete"])
  /\ UNCHANGED <<api, cache, current, nb, edits, faults, history>>

\* Endpoints.Endpoint has no ready client: wait, but let go of what has no recorded id.
EndpointNotReady(c) ==
  LET p == pass[c] IN
  /\ "Outage" \in Env /\ Fault
  /\ \/ At(c, "locate") /\ Go(c, Stop(p, "Waiting"))
     \/ /\ At(c, "deleting") /\ p.obj.fin /\ p.obj.del = "Delete"
        /\ Go(c, IF p.obj.id = 0 THEN [p EXCEPT !.pc = "release"] ELSE Stop(p, "Waiting"))
  /\ UNCHANGED <<api, cache, current, nb, edits, history>>

\* pass.deleteByStamp: search for this uid when no id was recorded.
DeleteByStamp(c) ==
  LET p == pass[c]
      found == Stamped(c)
  IN
  /\ At(c, "stamp")
  /\ \/ found = {} /\ Go(c, [p EXCEPT !.pc = "release"])
     \/ \E i \in found : found = {i} /\ Go(c, [p EXCEPT !.pc = "delete", !.obj = [@ EXCEPT !.id = i]])
     \/ Cardinality(found) > 1 /\ Go(c, Stop(p, "Conflict"))
  /\ UNCHANGED <<api, cache, current, nb, edits, faults, history>>

\* Mutant: deleting what is gone already is a failure.
DeleteObjectStrict(c) ==
  LET p == pass[c]
      i == p.obj.id
  IN
  /\ At(c, "delete")
  /\ IF nb[i].there
     THEN /\ nb' = [nb EXCEPT ![i] = Absent]
          /\ touched' = [touched EXCEPT ![i] = @ \cup {c}]
          /\ Go(c, [p EXCEPT !.pc = "release"])
     ELSE Go(c, Stop(p, "Blocked")) /\ UNCHANGED <<nb, touched>>
  /\ UNCHANGED <<api, cache, current, edits, faults, maker, asked>>

\* pass.deleteObject: gone already is as good as deleted.
DeleteObject(c) ==
  LET p == pass[c]
      i == p.obj.id
  IN
  /\ At(c, "delete")
  /\ \/ /\ p.mode = "DryRun" \/ ~nb[i].there
        /\ Go(c, [p EXCEPT !.pc = "release"])
        /\ UNCHANGED <<nb, touched, faults>>
     \/ /\ p.mode = "Live" /\ nb[i].there
        /\ nb' = [nb EXCEPT ![i] = Absent]
        /\ touched' = [touched EXCEPT ![i] = @ \cup {c}]
        /\ \/ Go(c, [p EXCEPT !.pc = "release"]) /\ UNCHANGED faults
           \/ Fault /\ Go(c, Stop(p, "Blocked"))
  /\ UNCHANGED <<api, cache, current, edits, maker, asked>>

\* pass.release: the patch carries the resourceVersion; the last finalizer off removes
\* the resource.
Release(c) ==
  LET p == pass[c] IN
  /\ At(c, "release")
  /\ IF p.latest
     THEN /\ api' = [api EXCEPT ![c] = Absent]
          /\ current' = [current EXCEPT ![c] = FALSE]
     ELSE UNCHANGED <<api, current>>
  /\ Go(c, Idle)
  /\ UNCHANGED <<cache, nb, edits, faults, history>>

\* The call a pass is about to make fails without taking effect.
CallFails(c) ==
  LET p == pass[c] IN
  /\ Fault
  /\ \/ /\ p.pc \in {"locate", "lookup", "create", "update", "recreate"}
        /\ Go(c, Stop(p, "APIError"))
     \/ p.pc \in {"stamp", "delete"} /\ Go(c, Stop(p, "Blocked"))
     \/ p.pc \in {"finalizer", "owns", "release", "record"} /\ Go(c, Idle)
     \/ /\ p.pc = "finish"
        /\ Go(c, IF p.newID # 0 THEN [p EXCEPT !.pc = "record"] ELSE Idle)
  /\ UNCHANGED <<api, cache, current, nb, edits, history>>

-----------------------------------------------------------------------------
\* A step the engine takes on its own when nothing fails.
Step(c) ==
  \/ Begin(c) \/ TakeFinalizer(c) \/ Locate(c) \/ Lookup(c) \/ Claim(c)
  \/ Create(c) \/ Update(c) \/ RecreateDelete(c) \/ RecreateCreate(c)
  \/ Deleting(c) \/ DeleteByStamp(c) \/ DeleteObject(c) \/ Release(c)
  \/ Finish(c) \/ RecordID(c)

Next ==
  \/ \E c \in CRs : \/ Step(c) \/ EndpointNotReady(c) \/ CallFails(c)
                    \/ CacheSync(c) \/ UserEdit(c) \/ UserDelete(c) \/ UserStrip(c)
  \/ \E i \in Ids : HumanEdit(i) \/ HumanDelete(i)
  \/ HumanCreate
  \/ Crash

Spec == Init /\ [][Next]_vars

\* controller-runtime keeps a queued key until its reconcile has run and requeues it,
\* and the watch keeps delivering.
Fairness == \A c \in CRs : WF_vars(Step(c)) /\ WF_vars(CacheSync(c))

FairSpec == Spec /\ Fairness

-----------------------------------------------------------------------------
(* Properties. *)

\* The engine PATCHes or DELETEs an object on behalf of a resource only if it created the
\* object for that very resource or the resource's spec asked to adopt, whatever stale
\* copy, lost answer or crash led there (generic.go claim and ownsMatch, finalizer.go).
OnlyTouchesOwn ==
  \A c \in CRs, i \in Ids : c \in touched[i] => maker[i] = c \/ c \in asked

\* An id recorded in a status names an object NetBox minted, created for the resource or
\* one its spec asked to adopt: the claim every later PATCH and DELETE rests on
\* (generic.go applyWrite, status.go recordID).
RecordedIdIsOwn ==
  \A c \in CRs : api[c].there /\ api[c].id # 0 =>
    \/ maker[api[c].id] = c
    \/ c \in asked /\ Minted(api[c].id)

MadeBy(c) == {i \in Ids : nb[i].there /\ maker[i] = c}

\* One resource, one object: no retry, lost answer, stale copy or crash makes the engine
\* POST a second object while the first is still there (generic.go locate and lookup).
OneObjectEach == \A c \in CRs : Cardinality(MadeBy(c)) <= 1

\* A resource that is gone and did not ask to retain left nothing it made in NetBox
\* (finalizer.go deleting and deleteByStamp).
NothingLeftBehind == \A c \in CRs : ~api[c].there => MadeBy(c) = {}

InSync(c) ==
  /\ api[c].id # 0 /\ nb[api[c].id].there
  /\ nb[api[c].id].key = api[c].key /\ nb[api[c].id].val = api[c].val

\* Once users, humans and faults are quiet a resource nobody deletes ends with its id
\* recorded and NetBox as its spec says, and stays so (Engine.Reconcile as a whole).
Converges == \A c \in CRs : <>[](api[c].there /\ ~api[c].deleting => InSync(c))

\* A deletion completes: the finalizer comes off (finalizer.go deleting).
DeletionCompletes ==
  \A c \in CRs : (api[c].there /\ api[c].deleting) ~> ~api[c].there
=============================================================================
