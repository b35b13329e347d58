------------------------------ MODULE Endpoint ------------------------------
(***************************************************************************)
(* The endpoint controller (internal/controller/netboxendpoint_controller  *)
(* .go), the client cache it fills (clientcache.go, endpointprovider.go)   *)
(* and the provenance bootstrap it runs first (provenance/bootstrap.go).   *)
(*                                                                         *)
(* Every operator has one NetBoxEndpoint; all of them use one NetBox.  A   *)
(* pass over an endpoint reads it and its Secret from the informer cache,  *)
(* probes NetBox, makes the tag and the custom field exist and covers its  *)
(* object types with the field, puts the client into the cache and only    *)
(* then writes its status.  Each request to NetBox is a step of its own.   *)
(* Object passes look a client up and keep it until they end.              *)
(***************************************************************************)
EXTENDS Naturals

CONSTANTS
  Ops,        \* the operators
  Types,      \* the object types each of them stamps
  Starts,     \* where a behaviour may begin: the specs of the operators' endpoints, the tag and
              \* the field that earlier operators left in NetBox, and the budget
  Specs,      \* the specs an endpoint may be edited to
  MaxSecret,  \* bound: versions of a token Secret
  None        \* no client, no pass, no definition

\* What the enums of NetBoxEndpointSpec admit.
EndpointSpecs ==
  [mode : {"Apply", "DryRun"}, drift : {"Correct", "Report", "Off"}, managed : BOOLEAN,
   bootstrap : BOOLEAN]

\* The object types the operators stamp, and those the field was made for before.
AllTypes == UNION ({Types[o] : o \in Ops} \cup ({s.field : s \in Starts} \ {None}))

\* Specs are what the CRD admits, and no set of object types is taken for a missing definition.
ASSUME EndpointAssumption ==
  /\ Specs \subseteq EndpointSpecs
  /\ \A s \in Starts : s.tag \in BOOLEAN /\ \A o \in Ops : s.spec[o] \in EndpointSpecs \cup {None}
  /\ \A types \in SUBSET AllTypes : types # None

VARIABLES
  cr,       \* the endpoints on the API server
  seen,     \* the endpoints as the informers saw them
  secret,   \* the version of each token Secret; 0 when it is gone
  known,    \* the version the informers saw
  accepted, \* the token versions NetBox accepts
  queue,    \* the endpoints a pass is due for
  pass,     \* the endpoint passes
  cache,    \* the client cache of each operator
  work,     \* the object passes: the client each looked up, and what its last write came to
  tag,      \* NetBox: whether the tag exists
  field,    \* NetBox: the custom field's object types; None before it exists
  budget    \* the edits and the faults that are left

api == <<cr, secret, accepted>>
informers == <<seen, known>>
netbox == <<tag, field>>
endpointVars == <<cr, seen, secret, known, accepted, queue, pass, cache, work, tag, field,
                  budget>>

-----------------------------------------------------------------------------
\* clientMode: a Report endpoint gets a client that cannot write.
clientMode(spec) == IF spec.drift = "Report" THEN "DryRun" ELSE spec.mode

Writes(client) == client # None /\ client.mode = "Apply"

NoEndpoint == [live |-> FALSE, gen |-> 0, spec |-> None,
               status |-> [reason |-> "Unknown", gen |-> 0]]

Idle == [at |-> "idle", cr |-> NoEndpoint, sec |-> 0, covered |-> {}, missing |-> FALSE,
         suppressed |-> FALSE, reason |-> "Unknown"]

EndpointInit ==
  /\ \E s \in Starts :
       /\ cr = [o \in Ops |-> IF s.spec[o] = None THEN NoEndpoint
                              ELSE [NoEndpoint EXCEPT !.live = TRUE, !.gen = 1, !.spec = s.spec[o]]]
       /\ tag = s.tag /\ field = s.field
       /\ budget = [edits |-> s.edits, faults |-> s.faults]
  /\ seen = cr
  /\ secret = [o \in Ops |-> 1] /\ known = secret
  /\ accepted = [o \in Ops |-> {1}]
  /\ queue = [o \in Ops |-> cr[o].live]
  /\ pass = [o \in Ops |-> Idle]
  /\ cache = [o \in Ops |-> None]
  /\ work = [o \in Ops |-> None]

-----------------------------------------------------------------------------
(* The endpoint pass. *)

Advance(o, p) == pass' = [pass EXCEPT ![o] = p]

\* Forget drops the client.
Forget(o) == cache' = [cache EXCEPT ![o] = None]

\* Mutant: the client outlives the failure.
failKeeping(o, p, reason) ==
  Advance(o, [p EXCEPT !.at = "status", !.reason = reason]) /\ UNCHANGED cache

\* fail forgets the client before it writes the status.
fail(o, p, reason) == Forget(o) /\ Advance(o, [p EXCEPT !.at = "status", !.reason = reason])

Fault == budget.faults > 0 /\ budget' = [budget EXCEPT !.faults = @ - 1]

\* Reconcile's reads: the endpoint, then its token.
Start(o) ==
  /\ pass[o].at = "idle" /\ queue[o]
  /\ queue' = [queue EXCEPT ![o] = FALSE]
  /\ LET p == [Idle EXCEPT !.cr = seen[o], !.sec = known[o]]
     IN  \/ ~seen[o].live /\ Forget(o) /\ UNCHANGED pass
         \/ seen[o].live /\ known[o] = 0 /\ fail(o, p, "SecretMissing")
         \/ seen[o].live /\ known[o] # 0 /\ Advance(o, [p EXCEPT !.at = "probe"]) /\ UNCHANGED cache
  /\ UNCHANGED <<api, informers, work, netbox, budget>>

\* The probe and the version gate; provision is skipped without spec.managedBy.
Probe(o) ==
  LET p == pass[o] IN
  /\ p.at = "probe"
  /\ \/ /\ Fault
        /\ \E reason \in {"ProbeFailed", "VersionUnsupported"} : fail(o, p, reason)
     \/ /\ p.sec \notin accepted[o]
        /\ fail(o, p, "AuthError") /\ UNCHANGED budget
     \/ /\ p.sec \in accepted[o]
        /\ Advance(o, [p EXCEPT !.at = IF p.cr.spec.managed THEN "tag" ELSE "put"])
        /\ UNCHANGED <<cache, budget>>
  /\ UNCHANGED <<api, informers, queue, work, netbox>>

\* lookup: answered, with q the pass from there, or failed, as with a token that was revoked.
Find(o, q) ==
  \/ pass[o].sec \in accepted[o] /\ Advance(o, q) /\ UNCHANGED <<cache, budget>>
  \/ /\ Fault \/ (pass[o].sec \notin accepted[o] /\ UNCHANGED budget)
     /\ fail(o, pass[o], "BootstrapFailed")

\* bootstrapTag's lookup, and the verdict when it may not create.
FindTag(o) ==
  LET p == pass[o] IN
  /\ p.at = "tag"
  /\ Find(o, IF tag THEN [p EXCEPT !.at = "field"]
             ELSE IF ~p.cr.spec.bootstrap THEN [p EXCEPT !.at = "field", !.missing = TRUE]
             ELSE [p EXCEPT !.at = "makeTag"])
  /\ UNCHANGED <<api, informers, queue, work, netbox>>

\* A create or a PATCH of the bootstrap: refused, suppressed, answered, or its answer lost.
Send(o, ok, effect, unsent, sent) ==
  LET p == pass[o] IN
  \/ clientMode(p.cr.spec) = "DryRun" /\ Advance(o, unsent) /\ UNCHANGED <<cache, netbox, budget>>
  \/ /\ clientMode(p.cr.spec) = "Apply"
     /\ \/ ok /\ p.sec \in accepted[o] /\ effect /\ Advance(o, sent) /\ UNCHANGED <<cache, budget>>
        \/ ~(ok /\ p.sec \in accepted[o]) /\ fail(o, p, "BootstrapFailed") /\ UNCHANGED <<netbox, budget>>
        \/ ok /\ p.sec \in accepted[o] /\ Fault /\ effect /\ fail(o, p, "BootstrapFailed")

\* The tag's slug is unique, so the second of two creates is refused.
MakeTag(o) ==
  LET p == pass[o] IN
  /\ p.at = "makeTag"
  /\ Send(o, ~tag, tag' = TRUE /\ UNCHANGED field,
          [p EXCEPT !.at = "field", !.missing = TRUE, !.suppressed = TRUE],
          [p EXCEPT !.at = "field"])
  /\ UNCHANGED <<api, informers, queue, work>>

\* bootstrapField's lookup: nothing to do, or a create or a widening to come.
FindField(o) ==
  LET p == pass[o] IN
  /\ p.at = "field"
  /\ Find(o, IF field # None
             THEN IF Types[o] \subseteq field THEN [p EXCEPT !.at = "put"]
                  ELSE [p EXCEPT !.at = "widen", !.covered = field]
             ELSE IF p.cr.spec.bootstrap THEN [p EXCEPT !.at = "makeField"]
             ELSE [p EXCEPT !.at = "put", !.missing = TRUE])
  /\ UNCHANGED <<api, informers, queue, work, netbox>>

MakeField(o) ==
  LET p == pass[o] IN
  /\ p.at = "makeField"
  /\ Send(o, field = None, field' = Types[o] /\ UNCHANGED tag,
          [p EXCEPT !.at = "put", !.missing = TRUE, !.suppressed = TRUE],
          [p EXCEPT !.at = "put"])
  /\ UNCHANGED <<api, informers, queue, work>>

\* Mutant: the definition is given this operator's types only.
WidenOwn(o) ==
  LET p == pass[o] IN
  /\ p.at = "widen"
  /\ Send(o, TRUE, field' = Types[o] /\ UNCHANGED tag,
          [p EXCEPT !.at = "put", !.missing = TRUE, !.suppressed = TRUE],
          [p EXCEPT !.at = "put"])
  /\ UNCHANGED <<api, informers, queue, work>>

\* widen replaces the whole list by the union with what the lookup returned.
Widen(o) ==
  LET p == pass[o] IN
  /\ p.at = "widen"
  /\ Send(o, TRUE, field' = p.covered \cup Types[o] /\ UNCHANGED tag,
          [p EXCEPT !.at = "put", !.missing = TRUE, !.suppressed = TRUE],
          [p EXCEPT !.at = "put"])
  /\ UNCHANGED <<api, informers, queue, work>>

\* The client a pass has proved; with something missing it stamps nothing.
Proved(p) ==
  [gen |-> p.cr.gen, sec |-> p.sec, mode |-> clientMode(p.cr.spec), managed |-> p.cr.spec.managed,
   stamp |-> p.cr.spec.managed /\ ~p.missing]

\* Mutant: a missing definition is never a failure.
PutIncomplete(o) ==
  LET p == pass[o] IN
  /\ p.at = "put"
  /\ cache' = [cache EXCEPT ![o] = Proved(p)] /\ Advance(o, [p EXCEPT !.at = "status", !.reason = "Ready"])
  /\ UNCHANGED <<api, informers, queue, work, netbox, budget>>

\* Mutant: the first client stays in the cache.
PutOnce(o) ==
  LET p == pass[o] IN
  /\ p.at = "put"
  /\ cache' = [cache EXCEPT ![o] = IF @ = None THEN Proved(p) ELSE @]
  /\ Advance(o, [p EXCEPT !.at = "status", !.reason = "Ready"])
  /\ UNCHANGED <<api, informers, queue, work, netbox, budget>>

\* Bootstrap's verdict, then Cache.put, which evicts the previous client.
Put(o) ==
  LET p == pass[o] IN
  /\ p.at = "put"
  /\ \/ p.missing /\ ~p.suppressed /\ fail(o, p, "BootstrapDisabled")
     \/ /\ ~p.missing \/ p.suppressed
        /\ cache' = [cache EXCEPT ![o] = Proved(p)]
        /\ Advance(o, [p EXCEPT !.at = "status", !.reason = "Ready"])
  /\ UNCHANGED <<api, informers, queue, work, netbox, budget>>

\* writeStatus: nothing to say, written, or refused because the endpoint is not the one read.
WriteStatus(o) ==
  LET p == pass[o]
      status == [reason |-> p.reason, gen |-> p.cr.gen]
  IN
  /\ p.at = "status" /\ Advance(o, Idle)
  /\ \/ status = p.cr.status /\ UNCHANGED <<cr, queue>>
     \/ /\ status # p.cr.status /\ cr[o] = p.cr
        /\ cr' = [cr EXCEPT ![o].status = status] /\ UNCHANGED queue
     \/ /\ status # p.cr.status /\ cr[o] # p.cr
        /\ queue' = [queue EXCEPT ![o] = TRUE] /\ UNCHANGED cr
  /\ UNCHANGED <<secret, accepted, informers, cache, work, netbox, budget>>

\* Mutant: an endpoint that is not ready is left to the watches.
RequeueReady(o) ==
  /\ pass[o].at = "idle" /\ seen[o].live /\ ~queue[o] /\ seen[o].status.reason = "Ready"
  /\ queue' = [queue EXCEPT ![o] = TRUE]
  /\ UNCHANGED <<api, informers, pass, cache, work, netbox, budget>>

\* RequeueAfter: the resync of a ready endpoint, the backoff of one that is not.
Requeue(o) ==
  /\ pass[o].at = "idle" /\ seen[o].live /\ ~queue[o]
  /\ queue' = [queue EXCEPT ![o] = TRUE]
  /\ UNCHANGED <<api, informers, pass, cache, work, netbox, budget>>

-----------------------------------------------------------------------------
(* The watches of the endpoint and of the Secrets it names. *)

Observe(o) ==
  /\ seen[o] # cr[o] /\ seen' = [seen EXCEPT ![o] = cr[o]]
  /\ queue' = [queue EXCEPT ![o] = TRUE]
  /\ UNCHANGED <<api, known, pass, cache, work, netbox, budget>>

\* endpointsForSecret.
ObserveSecret(o) ==
  /\ known[o] # secret[o] /\ known' = [known EXCEPT ![o] = secret[o]]
  /\ queue' = [queue EXCEPT ![o] = @ \/ seen[o].live]
  /\ UNCHANGED <<api, seen, pass, cache, work, netbox, budget>>

-----------------------------------------------------------------------------
(* Object passes. *)

\* Endpoint: the client comes from the cache.  since is the generation reported ready by then.
Lookup(o) ==
  /\ work[o] = None /\ cache[o] # None
  /\ work' = [work EXCEPT ![o] =
       [client |-> cache[o], answer |-> "none",
        since |-> IF cr[o].status.reason = "Ready" THEN cr[o].status.gen ELSE 0]]
  /\ UNCHANGED <<api, informers, queue, pass, cache, netbox, budget>>

\* Create, Patch or Delete through the client the pass holds.
Write(o) ==
  /\ work[o] # None
  /\ work' = [work EXCEPT ![o].answer =
       LET c == work[o].client IN
       IF c.mode = "DryRun" THEN "suppressed"
       ELSE IF c.sec \notin accepted[o] THEN "denied"
       ELSE IF c.stamp /\ ~(tag /\ field # None /\ Types[o] \subseteq field) THEN "rejected"
       ELSE "written"]
  /\ UNCHANGED <<api, informers, queue, pass, cache, netbox, budget>>

EndWork(o) ==
  /\ work[o] # None /\ work' = [work EXCEPT ![o] = None]
  /\ UNCHANGED <<api, informers, queue, pass, cache, netbox, budget>>

-----------------------------------------------------------------------------
(* The users, the NetBox administrator, and restarts. *)

Spend == budget.edits > 0 /\ budget' = [budget EXCEPT !.edits = @ - 1]

EditSpec(o) ==
  /\ cr[o].live /\ Spend
  /\ \E spec \in Specs \ {cr[o].spec} :
       cr' = [cr EXCEPT ![o].gen = @ + 1, ![o].spec = spec]
  /\ UNCHANGED <<secret, accepted, informers, queue, pass, cache, work, netbox>>

DeleteEndpoint(o) ==
  /\ cr[o].live /\ Spend
  /\ cr' = [cr EXCEPT ![o].live = FALSE]
  /\ UNCHANGED <<secret, accepted, informers, queue, pass, cache, work, netbox>>

\* A new token, which NetBox accepts beside the old one.
Rotate(o) ==
  /\ secret[o] # 0 /\ secret[o] < MaxSecret /\ Spend
  /\ secret' = [secret EXCEPT ![o] = @ + 1]
  /\ accepted' = [accepted EXCEPT ![o] = @ \cup {secret[o] + 1}]
  /\ UNCHANGED <<cr, informers, queue, pass, cache, work, netbox>>

\* The tokens other than the Secret's are revoked.
Revoke(o) ==
  /\ accepted[o] # {secret[o]} \ {0} /\ accepted' = [accepted EXCEPT ![o] = {secret[o]} \ {0}]
  /\ UNCHANGED <<cr, secret, informers, queue, pass, cache, work, netbox, budget>>

DeleteSecret(o) ==
  /\ secret[o] # 0 /\ Spend
  /\ secret' = [secret EXCEPT ![o] = 0]
  /\ UNCHANGED <<cr, accepted, informers, queue, pass, cache, work, netbox>>

\* The operator restarts; its informers list anew.
Restart(o) ==
  /\ Fault
  /\ seen' = [seen EXCEPT ![o] = cr[o]] /\ known' = [known EXCEPT ![o] = secret[o]]
  /\ queue' = [queue EXCEPT ![o] = cr[o].live]
  /\ pass' = [pass EXCEPT ![o] = Idle]
  /\ cache' = [cache EXCEPT ![o] = None] /\ work' = [work EXCEPT ![o] = None]
  /\ UNCHANGED <<api, netbox>>

Controller(o) ==
  \/ Start(o) \/ Probe(o) \/ FindTag(o) \/ MakeTag(o) \/ FindField(o) \/ MakeField(o) \/ Widen(o)
  \/ Put(o) \/ WriteStatus(o)

ObjectPass(o) == Lookup(o) \/ Write(o) \/ EndWork(o)

Users(o) ==
  EditSpec(o) \/ DeleteEndpoint(o) \/ Rotate(o) \/ Revoke(o) \/ DeleteSecret(o) \/ Restart(o)

EndpointNext ==
  \E o \in Ops :
    Controller(o) \/ Requeue(o) \/ Observe(o) \/ ObserveSecret(o) \/ ObjectPass(o) \/ Users(o)

EndpointSpec == EndpointInit /\ [][EndpointNext]_endpointVars

\* The passes run, the timers fire, the watches deliver, and an object pass comes to an end.
EndpointFairness ==
  \A o \in Ops :
    /\ WF_endpointVars(Controller(o)) /\ WF_endpointVars(Requeue(o))
    /\ WF_endpointVars(Observe(o)) /\ WF_endpointVars(ObserveSecret(o))
    /\ WF_endpointVars(EndWork(o))

-----------------------------------------------------------------------------
(* Safety. *)

\* Once the endpoint reports a generation ready, no object pass that begins gets a client built
\* from an older one: an endpoint that says it runs DryRun, or that its new token works, hands
\* out that mode and that token.  Reconcile puts the client before it writes the status, and
\* put evicts the previous one.
ReportedIsServed ==
  \A o \in Ops :
    /\ cr[o].status.reason = "Ready" /\ cache[o] # None => cache[o].gen >= cr[o].status.gen
    /\ work[o] # None => work[o].client.gen >= work[o].since

\* A client that can write stamps what it writes, when the endpoint asks for stamps, and the
\* definitions it stamps with exist: provision runs before put, and an incomplete bootstrap is
\* a failure for an endpoint that is able to write.
WritesAreStamped ==
  \A o \in Ops :
    \A c \in {cache[o]} \cup (IF work[o] = None THEN {} ELSE {work[o].client}) :
      Writes(c) /\ c.managed => c.stamp /\ tag /\ field # None

-----------------------------------------------------------------------------
(* Liveness. *)

Forbidden(o) ==
  ~cr[o].live \/ clientMode(cr[o].spec) = "DryRun" \/ secret[o] = 0

\* An endpoint that is deleted, switched to DryRun or to Report, or loses its Secret stops
\* writing, whatever passes were under way with the client they had looked up.
StopsWriting ==
  \A o \in Ops :
    <>[]Forbidden(o) => <>[][Write(o) => work'[o].answer # "written"]_endpointVars

Complete(o) ==
  /\ cr[o].live /\ secret[o] \in accepted[o]
  /\ ~cr[o].spec.managed \/ cr[o].spec.bootstrap

\* An endpoint whose spec and token are in order ends up Ready, with the client of its last
\* generation and its last token in the cache, whatever failed, raced or restarted before.
Serves ==
  \A o \in Ops :
    <>[]Complete(o) =>
      <>[](/\ cr[o].status = [reason |-> "Ready", gen |-> cr[o].gen]
           /\ cache[o] # None /\ cache[o].gen = cr[o].gen /\ cache[o].sec = secret[o])

\* The shared custom field ends up covering the types of every operator that may write, though
\* each widening replaces the whole list by what it read and its own types, and two of them
\* may read the same list.
Covered ==
  \A o \in Ops :
    <>[](Complete(o) /\ cr[o].spec.managed /\ ~Forbidden(o)) =>
      <>[](field # None /\ Types[o] \subseteq field)

-----------------------------------------------------------------------------
\* The comment on widen: types are only ever added, never removed.
TypesOnlyGrow == [][field = None \/ field \subseteq field']_endpointVars
=============================================================================
