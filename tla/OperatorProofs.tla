--------------------------- MODULE OperatorProofs ---------------------------
(***************************************************************************)
(* Machine-checked facts about Endpoint and about Sweep, for any number of *)
(* operators, endpoint edits, faults and restarts, and for any number of   *)
(* resources, of NetBox objects and of changes around a sweep.             *)
(***************************************************************************)
EXTENDS Endpoint, Sweep, FiniteSetTheorems, TLAPS

-----------------------------------------------------------------------------
(* Endpoint: the records. *)

EndpointReasons ==
  {"Unknown", "Ready", "SecretMissing", "ProbeFailed", "VersionUnsupported", "AuthError",
   "BootstrapFailed", "BootstrapDisabled"}

EndpointResource ==
  [live : BOOLEAN, gen : Nat, spec : EndpointSpecs \cup {None},
   status : [reason : EndpointReasons, gen : Nat]]

EndpointPass ==
  [at : {"idle", "probe", "tag", "makeTag", "field", "makeField", "widen", "put", "status"},
   cr : EndpointResource, sec : Nat, covered : SUBSET AllTypes, missing : BOOLEAN,
   suppressed : BOOLEAN, reason : EndpointReasons]

Client == [gen : Nat, sec : Nat, mode : {"Apply", "DryRun"}, managed : BOOLEAN, stamp : BOOLEAN]

ObjectWork ==
  [client : Client, answer : {"none", "suppressed", "denied", "rejected", "written"}, since : Nat]

EndpointTypeOK ==
  /\ cr \in [Ops -> EndpointResource] /\ seen \in [Ops -> EndpointResource]
  /\ \A o \in Ops : /\ cr[o].live => cr[o].spec \in EndpointSpecs
                    /\ seen[o].live => seen[o].spec \in EndpointSpecs
  /\ secret \in [Ops -> Nat] /\ known \in [Ops -> Nat]
  /\ pass \in [Ops -> EndpointPass]
  /\ cache \in [Ops -> Client \cup {None}]
  /\ work \in [Ops -> ObjectWork \cup {None}]
  /\ tag \in BOOLEAN /\ field \in (SUBSET AllTypes) \cup {None}

\* No informer, pass or report is ahead of what it was read from.
Generations ==
  \A o \in Ops : cr[o].status.gen <= seen[o].gen /\ seen[o].gen <= cr[o].gen

\* What a pass q over the endpoint r, seen as v, has established when it gets where it is: the
\* generation it works on is not older than the reported one, and what a step needs, the tag t
\* and the field f, is in NetBox.
Established(r, v, t, f, q) ==
  /\ q.at # "idle" => /\ q.cr.spec \in EndpointSpecs
                      /\ r.status.gen <= q.cr.gen /\ q.cr.gen <= v.gen
                      /\ q.suppressed => clientMode(q.cr.spec) = "DryRun"
  /\ q.at \in {"field", "makeField", "widen"} /\ ~q.missing => t
  /\ q.at = "widen" => f # None
  /\ q.at = "put" /\ q.cr.spec.managed /\ ~q.missing => t /\ f # None

\* A client k in the cache goes with the pass q that may be about to report it.
Goes(r, q, k) ==
  k # None =>
    /\ r.status.reason = "Ready" => k.gen >= r.status.gen
    /\ q.at = "status" /\ q.reason = "Ready" => k.gen = q.cr.gen

\* A client that writes for an endpoint that asks for stamps is able to stamp.
Stamps(t, f, k) == Writes(k) /\ k.managed => k.stamp /\ t /\ f # None

Sound(o) ==
  /\ Established(cr[o], seen[o], tag, field, pass[o])
  /\ Goes(cr[o], pass[o], cache[o]) /\ Stamps(tag, field, cache[o])

EInv ==
  /\ EndpointTypeOK /\ Generations
  /\ \A o \in Ops : /\ Sound(o)
                    /\ work[o] # None => /\ Stamps(tag, field, work[o].client)
                                         /\ work[o].client.gen >= work[o].since

-----------------------------------------------------------------------------
(* Endpoint: the kinds of step. *)

\* A step of o's pass that leaves NetBox with no less than it had.
LEMMA PassStep ==
  ASSUME EInv, NEW o \in Ops, NEW q \in EndpointPass, NEW k \in Client \cup {None},
         pass' = [pass EXCEPT ![o] = q], cache' = [cache EXCEPT ![o] = k],
         UNCHANGED <<cr, seen, secret, known, work>>,
         tag' \in BOOLEAN, field' \in (SUBSET AllTypes) \cup {None},
         tag => tag', field # None => field' # None,
         Established(cr'[o], seen'[o], tag', field', q), Goes(cr[o], q, k), Stamps(tag', field', k)
  PROVE  EInv'
<1>1. EndpointTypeOK'
  BY DEF EInv, EndpointTypeOK
<1>2. Generations'
  BY DEF EInv, Generations
<1>3. ASSUME NEW p \in Ops
      PROVE  Sound(p)'
  <2>1. CASE p = o
    <3>1. pass'[p] = q /\ cache'[p] = k
      BY <2>1 DEF EInv, EndpointTypeOK
    <3> QED
      BY <2>1, <3>1 DEF Sound, Established, Goes, Stamps
  <2>2. CASE p # o
    <3>1. pass'[p] = pass[p] /\ cache'[p] = cache[p]
      BY <2>2 DEF EInv, EndpointTypeOK
    <3>2. Sound(p)
      BY DEF EInv
    <3> QED
      BY <3>1, <3>2 DEF Sound, Established, Goes, Stamps
  <2> QED
    BY <2>1, <2>2
<1>4. ASSUME NEW p \in Ops, work[p] # None
      PROVE  Stamps(tag, field, work[p].client)' /\ (work[p].client.gen >= work[p].since)'
  BY <1>4 DEF EInv, Stamps
<1> QED
  BY <1>1, <1>2, <1>3, <1>4 DEF EInv

\* A failure: the client is forgotten and the status is still to be written.
LEMMA FailIs ==
  ASSUME EInv, NEW o \in Ops, NEW p \in EndpointPass, p.at # "idle", NEW reason \in EndpointReasons,
         reason # "Ready", Established(cr[o], seen[o], tag, field, p), fail(o, p, reason),
         UNCHANGED <<cr, seen, secret, known, work>>,
         tag' \in BOOLEAN, field' \in (SUBSET AllTypes) \cup {None},
         tag => tag', field # None => field' # None
  PROVE  EInv'
<1> DEFINE q == [p EXCEPT !.at = "status", !.reason = reason]
<1>1. q \in EndpointPass /\ q.at = "status" /\ q.reason = reason /\ q.cr = p.cr
      /\ q.suppressed = p.suppressed
  BY DEF EndpointPass
<1>2. pass' = [pass EXCEPT ![o] = q] /\ cache' = [cache EXCEPT ![o] = None]
  BY DEF fail, Forget, Advance
<1> HIDE DEF q
<1>3. Established(cr'[o], seen'[o], tag', field', q) /\ Goes(cr[o], q, None) /\ Stamps(tag', field', None)
  BY <1>1 DEF Established, Goes, Stamps, Writes
<1> QED
  BY <1>1, <1>2, <1>3, PassStep

\* A step of o's pass that leaves its client alone.
LEMMA MoveStep ==
  ASSUME EInv, NEW o \in Ops, NEW q \in EndpointPass, Advance(o, q), UNCHANGED cache,
         q.at # "status",
         UNCHANGED <<cr, seen, secret, known, work>>,
         tag' \in BOOLEAN, field' \in (SUBSET AllTypes) \cup {None},
         tag => tag', field # None => field' # None,
         Established(cr'[o], seen'[o], tag', field', q)
  PROVE  EInv'
<1>1. cache[o] \in Client \cup {None} /\ cache' = [cache EXCEPT ![o] = cache[o]]
  BY DEF EInv, EndpointTypeOK
<1>2. Goes(cr[o], q, cache[o]) /\ Stamps(tag, field, cache[o])'
  BY DEF EInv, Sound, Goes, Stamps
<1> QED
  BY <1>1, <1>2, PassStep DEF Advance

\* A step that leaves the passes, the clients and NetBox alone, and lets o's resource only
\* grow older than its copies.
LEMMA WatchStep ==
  ASSUME EInv, NEW o \in Ops, NEW r \in EndpointResource, NEW t \in EndpointResource,
         cr' = [cr EXCEPT ![o] = r], seen' = [seen EXCEPT ![o] = t],
         r.live => r.spec \in EndpointSpecs, t.live => t.spec \in EndpointSpecs,
         r.status = cr[o].status, seen[o].gen <= t.gen, t.gen <= r.gen,
         secret' \in [Ops -> Nat], known' \in [Ops -> Nat],
         UNCHANGED <<pass, cache, work, tag, field>>
  PROVE  EInv'
<1>1. EndpointTypeOK'
  BY DEF EInv, EndpointTypeOK
<1>2. \A p \in Ops : /\ cr'[p].status = cr[p].status
                     /\ cr'[p].status.gen \in Nat /\ seen'[p].gen \in Nat /\ seen[p].gen \in Nat
                     /\ cr'[p].gen \in Nat
                     /\ seen[p].gen <= seen'[p].gen /\ seen'[p].gen <= cr'[p].gen
  BY DEF EInv, EndpointTypeOK, Generations, EndpointResource
<1>3. Generations'
  BY <1>2 DEF EInv, Generations
<1>4. ASSUME NEW p \in Ops
      PROVE  Sound(p)'
  <2>1. Sound(p)
    BY DEF EInv
  <2>2. pass[p].cr.gen \in Nat
    BY DEF EInv, EndpointTypeOK, EndpointPass, EndpointResource
  <2> QED
    BY <1>2, <2>1, <2>2 DEF Sound, Established, Goes, Stamps
<1>5. ASSUME NEW p \in Ops, work[p] # None
      PROVE  Stamps(tag, field, work[p].client)' /\ (work[p].client.gen >= work[p].since)'
  BY <1>5 DEF EInv, Stamps
<1> QED
  BY <1>1, <1>3, <1>4, <1>5 DEF EInv

\* A step of an object pass alone.
LEMMA WorkStep ==
  ASSUME EInv, NEW o \in Ops, NEW w \in ObjectWork \cup {None},
         work' = [work EXCEPT ![o] = w],
         w # None => Stamps(tag, field, w.client) /\ w.client.gen >= w.since,
         UNCHANGED <<cr, seen, secret, known, pass, cache, tag, field>>
  PROVE  EInv'
<1>1. EndpointTypeOK' /\ Generations'
  BY DEF EInv, EndpointTypeOK, Generations
<1>2. ASSUME NEW p \in Ops
      PROVE  Sound(p)'
  BY DEF EInv, Sound, Established, Goes, Stamps
<1>3. ASSUME NEW p \in Ops, work'[p] # None
      PROVE  Stamps(tag, field, work[p].client)' /\ (work[p].client.gen >= work[p].since)'
  BY <1>3 DEF EInv, Stamps, EndpointTypeOK
<1> QED
  BY <1>1, <1>2, <1>3 DEF EInv

LEMMA IdlePass ==
  Idle \in EndpointPass /\ Idle.at = "idle" /\ NoEndpoint \in EndpointResource
<1>1. NoEndpoint \in EndpointResource
  BY DEF NoEndpoint, EndpointResource, EndpointReasons
<1> QED
  BY <1>1 DEF Idle, EndpointPass, EndpointReasons

-----------------------------------------------------------------------------
(* Endpoint: the steps of a pass. *)

LEMMA StartKeeps == ASSUME EInv, NEW o \in Ops, Start(o) PROVE EInv'
<1> DEFINE p == [Idle EXCEPT !.cr = seen[o], !.sec = known[o]]
<1>1. /\ p \in EndpointPass /\ p.at = "idle" /\ p.cr = seen[o] /\ ~p.suppressed
  BY IdlePass DEF EInv, EndpointTypeOK, EndpointPass, Idle
<1>2. UNCHANGED <<cr, seen, secret, known, work, tag, field>>
  BY DEF Start, api, informers, netbox
<1>3. tag' \in BOOLEAN /\ field' \in (SUBSET AllTypes) \cup {None}
  BY <1>2 DEF EInv, EndpointTypeOK
<1>4. seen[o].live => seen[o].spec \in EndpointSpecs
  BY DEF EInv, EndpointTypeOK
<1>5. cr[o].status.gen <= seen[o].gen /\ seen[o].gen \in Nat
  BY DEF EInv, EndpointTypeOK, Generations, EndpointResource
<1>6. CASE ~seen[o].live /\ Forget(o) /\ UNCHANGED pass
  <2>1. /\ pass' = [pass EXCEPT ![o] = pass[o]] /\ cache' = [cache EXCEPT ![o] = None]
        /\ pass[o] \in EndpointPass
    BY <1>6 DEF Forget, EInv, EndpointTypeOK
  <2>2. Goes(cr[o], pass[o], None) /\ Stamps(tag', field', None)
    BY DEF Goes, Stamps, Writes
  <2>4. Established(cr'[o], seen'[o], tag', field', pass[o])
    BY <1>2 DEF EInv, Sound, Established
  <2> QED
    BY <1>2, <1>3, <2>1, <2>2, <2>4, PassStep
<1>7. CASE seen[o].live /\ fail(o, p, "SecretMissing")
  <2> DEFINE q == [p EXCEPT !.at = "status", !.reason = "SecretMissing"]
  <2>1. /\ q \in EndpointPass /\ q.at = "status" /\ q.reason = "SecretMissing" /\ q.cr = seen[o]
        /\ ~q.suppressed
    BY <1>1 DEF EndpointPass, EndpointReasons
  <2>2. pass' = [pass EXCEPT ![o] = q] /\ cache' = [cache EXCEPT ![o] = None]
    BY <1>7 DEF fail, Forget, Advance
  <2> HIDE DEF q
  <2>3. Established(cr'[o], seen'[o], tag', field', q) /\ Goes(cr[o], q, None) /\ Stamps(tag', field', None)
    BY <1>2, <1>4, <1>5, <1>7, <2>1 DEF Established, Goes, Stamps, Writes
  <2> QED
    BY <1>2, <1>3, <2>1, <2>2, <2>3, PassStep
<1>8. CASE seen[o].live /\ Advance(o, [p EXCEPT !.at = "probe"]) /\ UNCHANGED cache
  <2> DEFINE q == [p EXCEPT !.at = "probe"]
  <2>1. q \in EndpointPass /\ q.at = "probe" /\ q.cr = seen[o] /\ ~q.suppressed
    BY <1>1 DEF EndpointPass
  <2>2. Advance(o, q) /\ UNCHANGED cache
    BY <1>8
  <2> HIDE DEF q
  <2>3. Established(cr'[o], seen'[o], tag', field', q)
    BY <1>2, <1>4, <1>5, <1>8, <2>1 DEF Established
  <2> QED
    BY <1>2, <1>3, <2>1, <2>2, <2>3, MoveStep
<1> QED
  BY <1>6, <1>7, <1>8 DEF Start

\* Where a pass under way stands, and that it may fail.
LEMMA UnderWay ==
  ASSUME EInv, NEW o \in Ops, pass[o].at # "idle",
         UNCHANGED <<cr, seen, secret, known, work>>
  PROVE  /\ pass[o] \in EndpointPass /\ Established(cr[o], seen[o], tag, field, pass[o])
         /\ pass[o].cr \in EndpointResource /\ pass[o].cr.spec \in EndpointSpecs
         /\ tag \in BOOLEAN /\ field \in (SUBSET AllTypes) \cup {None}
         /\ \A q \in EndpointPass :
              /\ q.at # "idle" /\ q.cr = pass[o].cr
              /\ q.suppressed => clientMode(q.cr.spec) = "DryRun"
              /\ q.at \in {"field", "makeField", "widen"} /\ ~q.missing => tag'
              /\ q.at = "widen" => field' # None
              /\ q.at = "put" /\ q.cr.spec.managed /\ ~q.missing => tag' /\ field' # None
              => Established(cr'[o], seen'[o], tag', field', q)
<1>1. pass[o] \in EndpointPass /\ Established(cr[o], seen[o], tag, field, pass[o])
  BY DEF EInv, Sound, EndpointTypeOK
<1> QED
  BY <1>1 DEF EInv, EndpointTypeOK, EndpointPass, Established

LEMMA ProbeKeeps == ASSUME EInv, NEW o \in Ops, Probe(o) PROVE EInv'
<1> DEFINE p == pass[o]
           at == IF p.cr.spec.managed THEN "tag" ELSE "put"
           q == [p EXCEPT !.at = at]
<1>1. UNCHANGED <<cr, seen, secret, known, work, tag, field>> /\ p.at = "probe"
  BY DEF Probe, api, informers, netbox
<1>2. /\ p \in EndpointPass /\ Established(cr[o], seen[o], tag, field, p) /\ tag' \in BOOLEAN
      /\ field' \in (SUBSET AllTypes) \cup {None}
  BY <1>1, UnderWay
<1>3. CASE \E reason \in {"ProbeFailed", "VersionUnsupported", "AuthError"} : fail(o, p, reason)
  BY <1>1, <1>2, <1>3, FailIs DEF EndpointReasons
<1>4. CASE Advance(o, q) /\ UNCHANGED cache
  <2>1. /\ q \in EndpointPass /\ q.at = at /\ q.cr = p.cr /\ q.suppressed = p.suppressed
    BY <1>2 DEF EndpointPass
  <2>2. Advance(o, q) /\ UNCHANGED cache
    BY <1>4
  <2>3. p.suppressed => clientMode(p.cr.spec) = "DryRun"
    BY <1>1, <1>2 DEF Established
  <2> HIDE DEF q
  <2>4. Established(cr'[o], seen'[o], tag', field', q)
    BY <1>1, <2>1, <2>3, UnderWay
  <2>5. q.at # "status"
    BY <2>1
  <2> QED
    BY <1>1, <1>2, <2>1, <2>2, <2>4, <2>5, MoveStep
<1> QED
  BY <1>3, <1>4 DEF Probe

LEMMA FindTagKeeps == ASSUME EInv, NEW o \in Ops, FindTag(o) PROVE EInv'
<1> DEFINE p == pass[o]
           q == IF tag THEN [p EXCEPT !.at = "field"]
                ELSE IF ~p.cr.spec.bootstrap THEN [p EXCEPT !.at = "field", !.missing = TRUE]
                ELSE [p EXCEPT !.at = "makeTag"]
<1>1. UNCHANGED <<cr, seen, secret, known, work, tag, field>> /\ p.at = "tag" /\ Find(o, q)
  BY DEF FindTag, api, informers, netbox
<1>2. /\ p \in EndpointPass /\ Established(cr[o], seen[o], tag, field, p) /\ tag' \in BOOLEAN
      /\ field' \in (SUBSET AllTypes) \cup {None}
  BY <1>1, UnderWay
<1>3. /\ q \in EndpointPass /\ q.at \in {"field", "makeTag"} /\ q.cr = p.cr
      /\ q.suppressed = p.suppressed
      /\ q.at = "field" => tag \/ q.missing
  <2>1. [p EXCEPT !.at = "field"] \in EndpointPass /\ [p EXCEPT !.at = "makeTag"] \in EndpointPass
        /\ [p EXCEPT !.at = "field", !.missing = TRUE] \in EndpointPass
    BY <1>2 DEF EndpointPass
  <2> QED
    BY <1>2, <2>1 DEF EndpointPass
<1>4. p.suppressed => clientMode(p.cr.spec) = "DryRun"
  BY <1>1, <1>2 DEF Established
<1> HIDE DEF q
<1>5. Established(cr'[o], seen'[o], tag', field', q)
  BY <1>1, <1>3, <1>4, UnderWay
<1>6. q.at # "status"
  BY <1>3
<1>7. CASE Advance(o, q) /\ UNCHANGED cache
  BY <1>1, <1>2, <1>3, <1>5, <1>6, <1>7, MoveStep
<1>8. CASE fail(o, p, "BootstrapFailed")
  BY <1>1, <1>2, <1>8, FailIs DEF EndpointReasons
<1> QED
  BY <1>1, <1>7, <1>8 DEF Find

\* What a create or a PATCH comes to: q when it is suppressed, q1 when it is sent.
LEMMA SendIs ==
  ASSUME EInv, NEW o \in Ops, pass[o].at # "idle", NEW q \in EndpointPass, NEW q1 \in EndpointPass,
         UNCHANGED <<cr, seen, secret, known, work>>,
         tag' \in BOOLEAN, field' \in (SUBSET AllTypes) \cup {None},
         tag => tag', field # None => field' # None,
         q.at \in {"field", "put"}, q1.at = q.at, q.missing, q.cr = pass[o].cr, q1.cr = pass[o].cr,
         q1.suppressed = pass[o].suppressed,
         \/ Advance(o, q) /\ UNCHANGED cache /\ clientMode(pass[o].cr.spec) = "DryRun"
         \/ /\ Advance(o, q1) /\ UNCHANGED cache
            /\ ~q1.missing => tag' /\ (q1.at = "put" => field' # None)
         \/ fail(o, pass[o], "BootstrapFailed")
  PROVE  EInv'
<1> DEFINE p == pass[o]
<1>1. /\ p \in EndpointPass /\ Established(cr[o], seen[o], tag, field, p)
  BY UnderWay
<1>2. p.suppressed => clientMode(p.cr.spec) = "DryRun"
  BY <1>1 DEF Established
<1>3. CASE Advance(o, q) /\ UNCHANGED cache /\ clientMode(p.cr.spec) = "DryRun"
  <2>1. Established(cr'[o], seen'[o], tag', field', q)
    BY <1>3, UnderWay
  <2> QED
    BY <1>3, <2>1, MoveStep
<1>4. CASE Advance(o, q1) /\ UNCHANGED cache /\ (~q1.missing => tag' /\ (q1.at = "put" => field' # None))
  <2>1. Established(cr'[o], seen'[o], tag', field', q1)
    BY <1>2, <1>4, UnderWay
  <2> QED
    BY <1>4, <2>1, MoveStep
<1>5. CASE fail(o, p, "BootstrapFailed")
  BY <1>1, <1>5, FailIs DEF EndpointReasons
<1> QED
  BY <1>3, <1>4, <1>5

LEMMA MakeTagKeeps == ASSUME EInv, NEW o \in Ops, MakeTag(o) PROVE EInv'
<1> DEFINE p == pass[o]
           q == [p EXCEPT !.at = "field", !.missing = TRUE, !.suppressed = TRUE]
           q1 == [p EXCEPT !.at = "field"]
<1>1. p.at = "makeTag" /\ UNCHANGED <<cr, seen, secret, known, work>>
  BY DEF MakeTag, api, informers
<1>2. p \in EndpointPass /\ tag \in BOOLEAN /\ field \in (SUBSET AllTypes) \cup {None}
  BY <1>1, UnderWay
<1>3. /\ q \in EndpointPass /\ q.at = "field" /\ q.missing /\ q.cr = p.cr
      /\ q1 \in EndpointPass /\ q1.at = "field" /\ q1.cr = p.cr /\ q1.suppressed = p.suppressed
  BY <1>2 DEF EndpointPass
<1>4. /\ tag' \in BOOLEAN /\ field' = field /\ (tag => tag')
      /\ \/ Advance(o, q) /\ UNCHANGED cache /\ clientMode(p.cr.spec) = "DryRun"
         \/ Advance(o, q1) /\ UNCHANGED cache /\ tag'
         \/ fail(o, p, "BootstrapFailed")
  BY <1>2 DEF MakeTag, Send, netbox
<1> HIDE DEF q, q1
<1> QED
  BY <1>1, <1>2, <1>3, <1>4, SendIs

\* What a pass adds to the custom field is there, and is no missing definition.
LEMMA TypesAre ==
  ASSUME NEW o \in Ops, NEW covered \in SUBSET AllTypes
  PROVE  /\ Types[o] \in SUBSET AllTypes /\ Types[o] # None
         /\ covered \cup Types[o] \in SUBSET AllTypes /\ covered \cup Types[o] # None
<1>1. Types[o] \in SUBSET AllTypes /\ covered \cup Types[o] \in SUBSET AllTypes
  BY DEF AllTypes
<1> QED
  BY <1>1, EndpointAssumption DEF AllTypes

LEMMA FindFieldKeeps == ASSUME EInv, NEW o \in Ops, FindField(o) PROVE EInv'
<1> DEFINE p == pass[o]
           q == IF field # None
                THEN IF Types[o] \subseteq field THEN [p EXCEPT !.at = "put"]
                     ELSE [p EXCEPT !.at = "widen", !.covered = field]
                ELSE IF p.cr.spec.bootstrap THEN [p EXCEPT !.at = "makeField"]
                ELSE [p EXCEPT !.at = "put", !.missing = TRUE]
<1>1. UNCHANGED <<cr, seen, secret, known, work, tag, field>> /\ p.at = "field" /\ Find(o, q)
  BY DEF FindField, api, informers, netbox
<1>2. /\ p \in EndpointPass /\ Established(cr[o], seen[o], tag, field, p) /\ tag \in BOOLEAN
      /\ field \in (SUBSET AllTypes) \cup {None}
  BY <1>1, UnderWay
<1>3. /\ q \in EndpointPass /\ q.at \in {"put", "widen", "makeField"} /\ q.cr = p.cr
      /\ q.suppressed = p.suppressed
      /\ q.missing \/ q.missing = p.missing
      /\ q.at = "widen" => field # None
      /\ q.at = "put" /\ ~q.missing => field # None
  <2>1. CASE field # None /\ ~(Types[o] \subseteq field)
    <3>1. field \in SUBSET AllTypes
      BY <1>2, <2>1
    <3>2. q = [p EXCEPT !.at = "widen", !.covered = field]
      BY <2>1
    <3> QED
      BY <1>2, <2>1, <3>1, <3>2 DEF EndpointPass
  <2>2. CASE field # None /\ Types[o] \subseteq field
    BY <1>2, <2>2 DEF EndpointPass
  <2>3. CASE field = None
    BY <1>2, <2>3 DEF EndpointPass
  <2> QED
    BY <2>1, <2>2, <2>3
<1>4. /\ p.suppressed => clientMode(p.cr.spec) = "DryRun"
      /\ ~p.missing => tag
  BY <1>1, <1>2 DEF Established
<1> HIDE DEF q
<1>5. Established(cr'[o], seen'[o], tag', field', q)
  BY <1>1, <1>3, <1>4, UnderWay
<1>6. CASE Advance(o, q) /\ UNCHANGED cache
  BY <1>1, <1>2, <1>3, <1>5, <1>6, MoveStep
<1>7. CASE fail(o, p, "BootstrapFailed")
  BY <1>1, <1>2, <1>7, FailIs DEF EndpointReasons
<1> QED
  BY <1>1, <1>6, <1>7 DEF Find

LEMMA MakeFieldKeeps == ASSUME EInv, NEW o \in Ops, MakeField(o) PROVE EInv'
<1> DEFINE p == pass[o]
           q == [p EXCEPT !.at = "put", !.missing = TRUE, !.suppressed = TRUE]
           q1 == [p EXCEPT !.at = "put"]
<1>1. p.at = "makeField" /\ UNCHANGED <<cr, seen, secret, known, work>>
  BY DEF MakeField, api, informers
<1>2. /\ p \in EndpointPass /\ tag \in BOOLEAN /\ field \in (SUBSET AllTypes) \cup {None}
      /\ Established(cr[o], seen[o], tag, field, p)
  BY <1>1, UnderWay
<1>3. /\ q \in EndpointPass /\ q.at = "put" /\ q.missing /\ q.cr = p.cr
      /\ q1 \in EndpointPass /\ q1.at = "put" /\ q1.cr = p.cr /\ q1.suppressed = p.suppressed
      /\ q1.missing = p.missing
  BY <1>2 DEF EndpointPass
<1>4. Types[o] \in SUBSET AllTypes /\ Types[o] # None
  BY TypesAre
<1>5. /\ field' \in (SUBSET AllTypes) \cup {None} /\ tag' = tag /\ (field # None => field' # None)
      /\ \/ Advance(o, q) /\ UNCHANGED cache /\ clientMode(p.cr.spec) = "DryRun"
         \/ Advance(o, q1) /\ UNCHANGED cache /\ field' # None
         \/ fail(o, p, "BootstrapFailed")
  BY <1>2, <1>4 DEF MakeField, Send, netbox
<1>6. ~p.missing => tag
  BY <1>1, <1>2 DEF Established
<1> HIDE DEF q, q1
<1> QED
  BY <1>1, <1>2, <1>3, <1>5, <1>6, SendIs

LEMMA WidenKeeps == ASSUME EInv, NEW o \in Ops, Widen(o) PROVE EInv'
<1> DEFINE p == pass[o]
           q == [p EXCEPT !.at = "put", !.missing = TRUE, !.suppressed = TRUE]
           q1 == [p EXCEPT !.at = "put"]
<1>1. p.at = "widen" /\ UNCHANGED <<cr, seen, secret, known, work>>
  BY DEF Widen, api, informers
<1>2. /\ p \in EndpointPass /\ tag \in BOOLEAN /\ field \in (SUBSET AllTypes) \cup {None}
      /\ Established(cr[o], seen[o], tag, field, p)
  BY <1>1, UnderWay
<1>3. /\ q \in EndpointPass /\ q.at = "put" /\ q.missing /\ q.cr = p.cr
      /\ q1 \in EndpointPass /\ q1.at = "put" /\ q1.cr = p.cr /\ q1.suppressed = p.suppressed
      /\ q1.missing = p.missing /\ p.covered \in SUBSET AllTypes
  BY <1>2 DEF EndpointPass
<1>4. p.covered \cup Types[o] \in SUBSET AllTypes /\ p.covered \cup Types[o] # None
  BY <1>3, TypesAre
<1>5. /\ field' \in (SUBSET AllTypes) \cup {None} /\ tag' = tag /\ (field # None => field' # None)
      /\ \/ Advance(o, q) /\ UNCHANGED cache /\ clientMode(p.cr.spec) = "DryRun"
         \/ Advance(o, q1) /\ UNCHANGED cache /\ field' # None
         \/ fail(o, p, "BootstrapFailed")
  BY <1>2, <1>4 DEF Widen, Send, netbox
<1>6. ~p.missing => tag
  BY <1>1, <1>2 DEF Established
<1> HIDE DEF q, q1
<1> QED
  BY <1>1, <1>2, <1>3, <1>5, <1>6, SendIs

LEMMA PutKeeps == ASSUME EInv, NEW o \in Ops, Put(o) PROVE EInv'
<1> DEFINE p == pass[o]
           q == [p EXCEPT !.at = "status", !.reason = "Ready"]
           k == Proved(p)
<1>1. p.at = "put" /\ UNCHANGED <<cr, seen, secret, known, work, tag, field>>
  BY DEF Put, api, informers, netbox
<1>2. /\ p \in EndpointPass /\ Established(cr[o], seen[o], tag, field, p) /\ tag \in BOOLEAN
      /\ field \in (SUBSET AllTypes) \cup {None}
      /\ p.cr \in EndpointResource /\ p.cr.spec \in EndpointSpecs
  BY <1>1, UnderWay
<1>3. CASE fail(o, p, "BootstrapDisabled")
  BY <1>1, <1>2, <1>3, FailIs DEF EndpointReasons
<1>4. CASE /\ ~p.missing \/ p.suppressed
           /\ cache' = [cache EXCEPT ![o] = k] /\ Advance(o, q)
  <2>1. q \in EndpointPass /\ q.at = "status" /\ q.cr = p.cr /\ q.suppressed = p.suppressed
    BY <1>2 DEF EndpointPass, EndpointReasons
  <2>2. /\ k \in Client /\ k.gen = p.cr.gen /\ k.mode = clientMode(p.cr.spec)
        /\ k.managed = p.cr.spec.managed /\ k.stamp = (p.cr.spec.managed /\ ~p.missing)
    BY <1>2 DEF Proved, Client, EndpointPass, EndpointResource, EndpointSpecs, clientMode
  <2>3. /\ p.suppressed => clientMode(p.cr.spec) = "DryRun"
        /\ p.cr.spec.managed /\ ~p.missing => tag /\ field # None
        /\ cr[o].status.gen <= p.cr.gen
    BY <1>1, <1>2 DEF Established
  <2>4. cr[o].status.gen \in Nat /\ p.cr.gen \in Nat
    BY <1>2 DEF EInv, EndpointTypeOK, EndpointResource
  <2> HIDE DEF q, k
  <2>5. Established(cr'[o], seen'[o], tag', field', q)
    BY <1>1, <2>1, <2>3, UnderWay
  <2>6. Goes(cr[o], q, k)
    BY <2>1, <2>2, <2>3, <2>4 DEF Goes
  <2>7. Stamps(tag', field', k)
    BY <1>1, <1>2, <1>4, <2>2, <2>3 DEF Stamps, Writes
  <2> QED
    BY <1>1, <1>2, <1>4, <2>1, <2>2, <2>5, <2>6, <2>7, PassStep DEF Advance
<1> QED
  BY <1>3, <1>4 DEF Put

LEMMA WriteStatusKeeps == ASSUME EInv, NEW o \in Ops, WriteStatus(o) PROVE EInv'
<1> DEFINE p == pass[o]
           status == [reason |-> p.reason, gen |-> p.cr.gen]
<1>1. /\ p.at = "status" /\ Advance(o, Idle) /\ UNCHANGED <<seen, secret, known, cache, work, tag, field>>
  BY DEF WriteStatus, informers, netbox
<1>2. /\ p \in EndpointPass /\ p.cr \in EndpointResource /\ p.reason \in EndpointReasons
      /\ p.cr.gen \in Nat /\ cr[o] \in EndpointResource
  BY DEF EInv, EndpointTypeOK, EndpointPass, EndpointResource
<1>3. Idle \in EndpointPass /\ Idle.at = "idle"
  BY IdlePass
<1>4. tag' \in BOOLEAN /\ field' \in (SUBSET AllTypes) \cup {None}
  BY <1>1 DEF EInv, EndpointTypeOK
<1>5. CASE cr' = cr
  BY <1>1, <1>3, <1>4, <1>5, MoveStep DEF Established
<1>6. CASE cr[o] = p.cr /\ cr' = [cr EXCEPT ![o].status = status]
  <2> DEFINE r == [cr[o] EXCEPT !.status = status]
  <2>1. /\ r \in EndpointResource /\ r.status.reason = p.reason /\ r.status.gen = p.cr.gen
        /\ r.gen = cr[o].gen /\ r.live = cr[o].live /\ r.spec = cr[o].spec
    BY <1>2 DEF EndpointResource
  <2>2. cr' = [cr EXCEPT ![o] = r]
    BY <1>6
  <2> HIDE DEF r
  <2>3. /\ Established(cr[o], seen[o], tag, field, p) /\ Goes(cr[o], p, cache[o])
        /\ Stamps(tag, field, cache[o])
    BY DEF EInv, Sound
  <2>4. p.cr.gen <= seen[o].gen
    BY <1>1, <2>3 DEF Established
  <2>5. EndpointTypeOK'
    BY <1>1, <1>3, <2>1, <2>2 DEF EInv, EndpointTypeOK, Advance
  <2>6. Generations'
    BY <1>1, <2>1, <2>2, <2>4 DEF EInv, Generations, EndpointTypeOK
  <2>7. ASSUME NEW x \in Ops PROVE Sound(x)'
    <3>1. CASE x = o
      <4>1. cr'[o] = r /\ pass'[o] = Idle /\ cache'[o] = cache[o]
        BY <1>1, <2>2 DEF Advance, EInv, EndpointTypeOK
      <4>2. cache[o] # None => cache[o].gen \in Nat
        BY DEF EInv, EndpointTypeOK, Client
      <4>3. Goes(r, Idle, cache[o])
        BY <1>1, <1>2, <1>3, <2>1, <2>3, <4>2 DEF Goes
      <4> QED
        BY <1>1, <1>3, <2>3, <3>1, <4>1, <4>3 DEF Sound, Established
    <3>2. CASE x # o
      <4>1. cr'[x] = cr[x] /\ pass'[x] = pass[x]
        BY <1>1, <2>2, <3>2 DEF Advance, EInv, EndpointTypeOK
      <4>2. Sound(x)
        BY DEF EInv
      <4> QED
        BY <1>1, <4>1, <4>2 DEF Sound
    <3> QED
      BY <3>1, <3>2
  <2>8. ASSUME NEW x \in Ops, work'[x] # None
        PROVE  Stamps(tag, field, work[x].client)' /\ (work[x].client.gen >= work[x].since)'
    BY <1>1, <2>8 DEF EInv, Stamps
  <2> QED
    BY <2>5, <2>6, <2>7, <2>8 DEF EInv
<1> QED
  BY <1>5, <1>6 DEF WriteStatus

-----------------------------------------------------------------------------
(* Endpoint: the watches, the object passes, the users and restarts. *)

LEMMA QueueKeeps ==
  ASSUME EInv, UNCHANGED <<cr, seen, secret, known, pass, cache, work, tag, field>>
  PROVE  EInv'
  BY DEF EInv, EndpointTypeOK, Generations, Sound, Established, Goes, Stamps

LEMMA ObserveKeeps == ASSUME EInv, NEW o \in Ops, Observe(o) \/ ObserveSecret(o) PROVE EInv'
<1>1. CASE Observe(o)
  <2>1. /\ cr[o] \in EndpointResource /\ cr' = [cr EXCEPT ![o] = cr[o]]
        /\ seen' = [seen EXCEPT ![o] = cr[o]] /\ seen[o].gen <= cr[o].gen /\ cr[o].gen \in Nat
        /\ cr[o].live => cr[o].spec \in EndpointSpecs
        /\ secret' \in [Ops -> Nat] /\ known' \in [Ops -> Nat]
    BY <1>1 DEF Observe, api, EInv, EndpointTypeOK, Generations, EndpointResource
  <2>2. cr[o].gen <= cr[o].gen /\ UNCHANGED <<pass, cache, work, tag, field>>
    BY <1>1, <2>1 DEF Observe, netbox
  <2> QED
    BY <2>1, <2>2, WatchStep
<1>2. CASE ObserveSecret(o)
  <2>1. /\ cr[o] \in EndpointResource /\ cr' = [cr EXCEPT ![o] = cr[o]]
        /\ seen[o] \in EndpointResource /\ seen' = [seen EXCEPT ![o] = seen[o]]
        /\ seen[o].gen <= cr[o].gen /\ seen[o].gen \in Nat
        /\ cr[o].live => cr[o].spec \in EndpointSpecs
        /\ seen[o].live => seen[o].spec \in EndpointSpecs
        /\ secret' \in [Ops -> Nat] /\ known' \in [Ops -> Nat]
    BY <1>2 DEF ObserveSecret, api, EInv, EndpointTypeOK, Generations, EndpointResource
  <2>2. seen[o].gen <= seen[o].gen /\ UNCHANGED <<pass, cache, work, tag, field>>
    BY <1>2, <2>1 DEF ObserveSecret, netbox
  <2> QED
    BY <2>1, <2>2, WatchStep
<1> QED
  BY <1>1, <1>2

LEMMA ObjectPassKeeps == ASSUME EInv, NEW o \in Ops, ObjectPass(o) PROVE EInv'
<1>1. UNCHANGED <<cr, seen, secret, known, pass, cache, tag, field>>
  BY DEF ObjectPass, Lookup, Write, EndWork, api, informers, netbox
<1>2. CASE Lookup(o)
  <2> DEFINE since == IF cr[o].status.reason = "Ready" THEN cr[o].status.gen ELSE 0
             w == [client |-> cache[o], answer |-> "none", since |-> since]
  <2>1. cache[o] \in Client /\ cache[o].gen \in Nat /\ since \in Nat
    BY <1>2 DEF Lookup, EInv, EndpointTypeOK, EndpointResource, Client
  <2>2. w \in ObjectWork
    BY <2>1 DEF ObjectWork
  <2>3. Goes(cr[o], pass[o], cache[o]) /\ Stamps(tag, field, cache[o]) /\ cache[o] # None
    BY <1>2 DEF EInv, Sound, Lookup
  <2>4. Stamps(tag, field, w.client) /\ w.client.gen >= w.since
    BY <2>1, <2>3 DEF Goes
  <2> QED
    BY <1>1, <1>2, <2>2, <2>4, WorkStep DEF Lookup
<1>3. CASE Write(o)
  <2>1. work[o] \in ObjectWork /\ work[o] # None
    BY <1>3 DEF Write, EInv, EndpointTypeOK
  <2>2. PICK answer \in {"suppressed", "denied", "rejected", "written"} :
          work' = [work EXCEPT ![o].answer = answer]
    BY <1>3 DEF Write
  <2> DEFINE w == [work[o] EXCEPT !.answer = answer]
  <2>3. /\ w \in ObjectWork /\ w.client = work[o].client /\ w.since = work[o].since
        /\ work' = [work EXCEPT ![o] = w]
    BY <2>1, <2>2 DEF ObjectWork
  <2>4. Stamps(tag, field, work[o].client) /\ work[o].client.gen >= work[o].since
    BY <2>1 DEF EInv
  <2> HIDE DEF w
  <2> QED
    BY <1>1, <2>3, <2>4, WorkStep
<1>4. CASE EndWork(o)
  BY <1>1, <1>4, WorkStep DEF EndWork
<1> QED
  BY <1>2, <1>3, <1>4 DEF ObjectPass

LEMMA UsersKeep == ASSUME EInv, NEW o \in Ops, Users(o) PROVE EInv'
<1>1. /\ cr[o] \in EndpointResource /\ seen[o] \in EndpointResource
      /\ cr[o].gen \in Nat /\ seen[o].gen \in Nat /\ seen[o].gen <= cr[o].gen
      /\ cr[o].status.gen <= seen[o].gen
      /\ cr[o].live => cr[o].spec \in EndpointSpecs
      /\ seen[o].live => seen[o].spec \in EndpointSpecs
      /\ cr = [cr EXCEPT ![o] = cr[o]] /\ seen = [seen EXCEPT ![o] = seen[o]]
      /\ secret \in [Ops -> Nat] /\ known \in [Ops -> Nat]
  BY DEF EInv, EndpointTypeOK, Generations, EndpointResource
<1>2. CASE EditSpec(o)
  <2>1. PICK spec \in Specs : cr' = [cr EXCEPT ![o].gen = @ + 1, ![o].spec = spec]
    BY <1>2 DEF EditSpec
  <2> DEFINE g == cr[o].gen + 1
             r == [cr[o] EXCEPT !.gen = g, !.spec = spec]
  <2>5. spec \in EndpointSpecs
    BY EndpointAssumption
  <2>2. /\ r \in EndpointResource /\ r.gen = cr[o].gen + 1 /\ r.status = cr[o].status
        /\ r.spec \in EndpointSpecs
    <3>1. g \in Nat
      BY <1>1
    <3> HIDE DEF g
    <3>2. r \in EndpointResource /\ r.gen = g /\ r.status = cr[o].status /\ r.spec = spec
      BY <1>1, <2>5, <3>1 DEF EndpointResource
    <3> QED
      BY <2>5, <3>2 DEF g
  <2>3. cr' = [cr EXCEPT ![o] = r]
    BY <2>1 DEF EInv, EndpointTypeOK
  <2> HIDE DEF r
  <2>4. seen[o].gen <= r.gen /\ seen[o].gen <= seen[o].gen
    BY <1>1, <2>2
  <2>6. UNCHANGED <<seen, secret, known, pass, cache, work, tag, field>>
    BY <1>2 DEF EditSpec, informers, netbox
  <2> QED
    BY <1>1, <2>2, <2>3, <2>4, <2>6, WatchStep
<1>3. CASE DeleteEndpoint(o)
  <2> DEFINE r == [cr[o] EXCEPT !.live = FALSE]
  <2>1. /\ r \in EndpointResource /\ r.gen = cr[o].gen /\ r.status = cr[o].status /\ ~r.live
        /\ cr' = [cr EXCEPT ![o] = r]
    BY <1>1, <1>3 DEF EndpointResource, DeleteEndpoint
  <2> HIDE DEF r
  <2> QED
    <3>1. seen[o].gen <= seen[o].gen /\ UNCHANGED <<seen, secret, known, pass, cache, work, tag, field>>
      BY <1>1, <1>3 DEF DeleteEndpoint, informers, netbox
    <3> QED
      BY <1>1, <2>1, <3>1, WatchStep
<1>4. CASE Rotate(o) \/ DeleteSecret(o)
  <2>1. secret' \in [Ops -> Nat] /\ UNCHANGED <<cr, seen, known, pass, cache, work, tag, field>>
    BY <1>1, <1>4 DEF Rotate, DeleteSecret, informers, netbox
  <2> QED
    BY <1>1, <2>1, WatchStep
<1>5. CASE Revoke(o)
  BY <1>5, QueueKeeps DEF Revoke, informers, netbox
<1>6. CASE Restart(o)
  <2>1. /\ seen' = [seen EXCEPT ![o] = cr[o]] /\ known' \in [Ops -> Nat]
        /\ pass' = [pass EXCEPT ![o] = Idle] /\ cache' = [cache EXCEPT ![o] = None]
        /\ work' = [work EXCEPT ![o] = None] /\ UNCHANGED <<cr, secret, tag, field>>
    BY <1>1, <1>6 DEF Restart, api, netbox
  <2>2. EndpointTypeOK'
    BY <1>1, <2>1, IdlePass DEF EInv, EndpointTypeOK
  <2>3. Generations'
    BY <1>1, <2>1 DEF EInv, EndpointTypeOK, Generations, EndpointResource
  <2>4. ASSUME NEW x \in Ops PROVE Sound(x)'
    <3>1. CASE x = o
      <4>1. cr'[o] = cr[o] /\ pass'[o] = Idle /\ cache'[o] = None
        BY <2>1 DEF EInv, EndpointTypeOK
      <4> QED
        BY <3>1, <4>1, IdlePass DEF Sound, Established, Goes, Stamps, Writes
    <3>2. CASE x # o
      <4>1. cr'[x] = cr[x] /\ pass'[x] = pass[x] /\ cache'[x] = cache[x] /\ seen'[x] = seen[x]
        BY <2>1, <3>2 DEF EInv, EndpointTypeOK
      <4>2. Sound(x)
        BY DEF EInv
      <4> QED
        BY <2>1, <4>1, <4>2 DEF Sound
    <3> QED
      BY <3>1, <3>2
  <2>5. ASSUME NEW x \in Ops, work'[x] # None
        PROVE  Stamps(tag, field, work[x].client)' /\ (work[x].client.gen >= work[x].since)'
    <3>1. x # o /\ work'[x] = work[x]
      BY <2>1, <2>5 DEF EInv, EndpointTypeOK
    <3> QED
      BY <2>1, <2>5, <3>1 DEF EInv, Stamps
  <2> QED
    BY <2>2, <2>3, <2>4, <2>5 DEF EInv
<1> QED
  BY <1>2, <1>3, <1>4, <1>5, <1>6 DEF Users

-----------------------------------------------------------------------------
(* Endpoint: the theorems. *)

LEMMA EndpointInitInv == EndpointInit => EInv
<1> SUFFICES ASSUME EndpointInit PROVE EInv
  OBVIOUS
<1>1. PICK s \in Starts :
        /\ tag = s.tag /\ field = s.field
        /\ cr = [o \in Ops |-> IF s.spec[o] = None THEN NoEndpoint
                               ELSE [NoEndpoint EXCEPT !.live = TRUE, !.gen = 1, !.spec = s.spec[o]]]
  BY DEF EndpointInit
<1>2. /\ seen = cr /\ secret = [o \in Ops |-> 1] /\ known = secret
      /\ pass = [o \in Ops |-> Idle] /\ cache = [o \in Ops |-> None]
      /\ work = [o \in Ops |-> None]
  BY DEF EndpointInit
<1>3. ASSUME NEW o \in Ops
      PROVE  /\ cr[o] \in EndpointResource /\ cr[o].status.gen = 0 /\ cr[o].gen \in Nat
             /\ cr[o].live => cr[o].spec \in EndpointSpecs
  <2>1. CASE s.spec[o] = None
    BY <1>1, <2>1, IdlePass DEF NoEndpoint
  <2>2. CASE s.spec[o] # None
    <3>1. s.spec[o] \in EndpointSpecs
      BY <2>2, EndpointAssumption
    <3> QED
      BY <1>1, <2>2, <3>1 DEF NoEndpoint, EndpointResource, EndpointReasons
  <2> QED
    BY <2>1, <2>2
<1>4. EndpointTypeOK
  <2>1. cr \in [Ops -> EndpointResource]
    BY <1>1, <1>3
  <2> QED
    <3>1. secret \in [Ops -> Nat] /\ known \in [Ops -> Nat]
      BY <1>2
    <3>2. pass \in [Ops -> EndpointPass] /\ cache \in [Ops -> Client \cup {None}]
          /\ work \in [Ops -> ObjectWork \cup {None}]
      BY <1>2, IdlePass
    <3>3. tag \in BOOLEAN /\ field \in (SUBSET AllTypes) \cup {None}
      <4>1. field # None => field \in {c.field : c \in Starts} \ {None}
        BY <1>1
      <4>2. field # None => field \subseteq AllTypes
        BY <4>1 DEF AllTypes
      <4> QED
        BY <1>1, <4>2, EndpointAssumption
    <3> QED
      BY <1>2, <1>3, <2>1, <3>1, <3>2, <3>3 DEF EndpointTypeOK
<1>5. Generations
  <2> SUFFICES ASSUME NEW o \in Ops
               PROVE  cr[o].status.gen <= seen[o].gen /\ seen[o].gen <= cr[o].gen
    BY DEF Generations
  <2>1. cr[o].status.gen = 0 /\ cr[o].gen \in Nat /\ seen[o] = cr[o]
    BY <1>2, <1>3
  <2> QED
    BY <2>1
<1>6. \A o \in Ops : Sound(o) /\ work[o] = None
  BY <1>2, IdlePass DEF Sound, Established, Goes, Stamps, Writes
<1> QED
  BY <1>4, <1>5, <1>6 DEF EInv

LEMMA EndpointNextInv == EInv /\ [EndpointNext]_endpointVars => EInv'
<1>1. ASSUME EInv, NEW o \in Ops, Controller(o) PROVE EInv'
  BY <1>1, StartKeeps, ProbeKeeps, FindTagKeeps, MakeTagKeeps, FindFieldKeeps, MakeFieldKeeps,
     WidenKeeps, PutKeeps, WriteStatusKeeps DEF Controller
<1>2. ASSUME EInv, NEW o \in Ops, Requeue(o) PROVE EInv'
  BY <1>2, QueueKeeps DEF Requeue, api, informers, netbox
<1>3. ASSUME EInv, UNCHANGED endpointVars PROVE EInv'
  BY <1>3, QueueKeeps DEF endpointVars
<1> QED
  BY <1>1, <1>2, <1>3, ObserveKeeps, ObjectPassKeeps, UsersKeep DEF EndpointNext

\* Once an endpoint reports a generation ready, every client that is handed out is of that
\* generation or of a later one (netboxendpoint_controller.go Reconcile, clientcache.go put),
\* whatever edits, failures, lagging informers and restarts come in between.
THEOREM ServesWhatIsReported == EndpointSpec => []ReportedIsServed
<1>1. EInv => ReportedIsServed
  BY DEF EInv, Sound, Goes, ReportedIsServed
<1> QED
  BY <1>1, EndpointInitInv, EndpointNextInv, PTL DEF EndpointSpec

\* A client that can write for an endpoint that asks for stamps stamps, and the definitions it
\* stamps with are in NetBox (provenance/bootstrap.go, Reconcile's provision).
THEOREM StampsWhatItWrites == EndpointSpec => []WritesAreStamped
<1>1. EInv => WritesAreStamped
  BY DEF EInv, Sound, Stamps, WritesAreStamped
<1> QED
  BY <1>1, EndpointInitInv, EndpointNextInv, PTL DEF EndpointSpec

-----------------------------------------------------------------------------
(* Sweep: the records. *)

RowKeys == {KeyOf[u] : u \in Uids} \cup UNION {{s[i].key : i \in DOMAIN s} : s \in Strays}

RowUids == Uids \cup UNION {{s[i].uid : i \in DOMAIN s} : s \in Strays}

NetBoxRow == [key : RowKeys, uid : RowUids, owner : {"ours", "none", "foreign"}]

KindResource == [state : {"new", "live", "terminating", "gone"}, id : 0..MaxRow]

Finding == [age : Nat, reason : {"Orphaned", "Suspected", "Unattributed"}]

SweepResource ==
  [suspend : BOOLEAN, suspended : BOOLEAN, ready : {"Unknown", "Refused", "Complete"},
   findings : [Rows -> Finding \cup {Absent}]]

SweepRun ==
  [at : {"idle", "list", "publish"}, of : SweepResource \cup {Absent}, ids : SUBSET Rows,
   uids : SUBSET Uids, offset : Nat, page : Nat, listed : [Rows -> NetBoxRow \cup {Absent}]]

-----------------------------------------------------------------------------
(* Sweep: what is called Orphaned. *)

\* A finding is not older than the history of the runs that found it unclaimed.
Aged(f, a) ==
  \A i \in Rows : f[i] # Absent =>
    /\ a[i] # Absent /\ f[i].age <= a[i]
    /\ f[i].reason = "Orphaned" => f[i].age >= GracePeriod

ReportInv ==
  /\ sweep \in SweepResource /\ alone \in [Rows -> Nat \cup {Absent}]
  /\ run \in SweepRun
  /\ Aged(sweep.findings, alone)

-----------------------------------------------------------------------------
(* Sweep: what is claimed. *)

SweepTypeOK ==
  /\ rows \in [Rows -> NetBoxRow \cup {Absent}]
  /\ crs \in [Uids -> KindResource] /\ cached \in [Uids -> KindResource]
  /\ fresh \in Nat \ {0} /\ held \in [Rows -> Nat]

\* At most one resource of a natural key exists, and it alone claims the objects that carry
\* its uid or that it has recorded; NetBox gives no id twice.
Claims ==
  /\ \A u, v \in Uids : Exists(crs[u]) /\ Exists(crs[v]) /\ KeyOf[u] = KeyOf[v] => u = v
  /\ \A u \in Uids : crs[u].id < fresh /\ (crs[u].state = "new" => crs[u].id = 0)
  /\ \A i \in Rows : rows[i] # Absent => i < fresh
  /\ \A i \in Rows : rows[i] # Absent /\ rows[i].uid \in Uids => rows[i].key = KeyOf[rows[i].uid]
  /\ \A u \in Uids, i \in Rows :
       Exists(crs[u]) /\ crs[u].id = i /\ rows[i] # Absent => rows[i].uid = u

\* An object that is held is there with the uid of a resource that exists; held for a tick, the
\* informer has seen that resource, and a run under way has read both as they are.
Holding ==
  \A i \in Rows :
    /\ held[i] > 0 => /\ rows[i] # Absent /\ rows[i].uid \in Uids
                      /\ Exists(crs[rows[i].uid])
    /\ held[i] > 1 => Exists(cached[rows[i].uid])
    /\ held[i] > 1 /\ run.at # "idle" =>
         /\ rows[i].uid \in run.uids
         /\ run.listed[i] # Absent => run.listed[i].uid = rows[i].uid

SInv == ReportInv /\ SweepTypeOK /\ Claims /\ Holding

-----------------------------------------------------------------------------
(* Sweep: the kinds of step. *)

\* What a run under way has read of a held object is what there is.
ReadAsIs(r) ==
  r.at # "idle" => \A i \in Rows : held[i] > 1 =>
    /\ rows[i].uid \in r.uids
    /\ r.listed[i] # Absent => r.listed[i].uid = rows[i].uid

LEMMA NoRunIs == NoRun \in SweepRun /\ NoRun.at = "idle"
  BY DEF NoRun, SweepRun

\* A step of the run.
LEMMA RunStep ==
  ASSUME SInv, UNCHANGED around, NEW r \in SweepRun, run' = r, ReadAsIs(r),
         sweep' \in SweepResource, alone' \in [Rows -> Nat \cup {Absent}],
         Aged(sweep'.findings, alone')
  PROVE  SInv'
<1>1. ReportInv'
  BY DEF SInv, ReportInv
<1>2. SweepTypeOK' /\ Claims'
  BY DEF SInv, around, SweepTypeOK, Claims
<1>3. Holding'
  BY DEF SInv, around, Holding, ReadAsIs
<1> QED
  BY <1>1, <1>2, <1>3 DEF SInv

\* Whoever claims an object that is there is the resource whose uid it carries.
LEMMA ClaimedByUid ==
  ASSUME SweepTypeOK, Claims, NEW i \in Rows, rows[i] # Absent, Claimed(rows, crs, i)
  PROVE  rows[i].uid \in Uids /\ Exists(crs[rows[i].uid])
  BY DEF Claims, Claimed

\* A step around the sweep that takes no object away from the resource that holds it.
LEMMA AroundStep ==
  ASSUME SInv, UNCHANGED <<cached, sweep, run, alone>>, SweepTypeOK', Claims',
         held' = Held(rows', crs'),
         \A i \in Rows : held[i] > 1 /\ rows'[i] # Absent => rows'[i].uid = rows[i].uid
  PROVE  SInv'
<1>1. ReportInv'
  BY DEF SInv, ReportInv
<1>2. ASSUME NEW i \in Rows
      PROVE  /\ held'[i] > 0 => rows'[i] # Absent /\ Claimed(rows', crs', i)
             /\ held'[i] > 1 => held[i] > 1
  BY DEF Held, SInv, SweepTypeOK
<1>3. ASSUME NEW i \in Rows, held'[i] > 0
      PROVE  rows'[i] # Absent /\ rows'[i].uid \in Uids /\ Exists(crs'[rows'[i].uid])
  <2>1. rows'[i] # Absent /\ Claimed(rows', crs', i)
    BY <1>2, <1>3
  <2> QED
    BY <2>1 DEF Claims, Claimed
<1>4. ASSUME NEW i \in Rows, held'[i] > 1
      PROVE  /\ Exists(cached'[rows'[i].uid])
             /\ run'.at # "idle" => /\ rows'[i].uid \in run'.uids
                                    /\ run'.listed[i] # Absent => run'.listed[i].uid = rows'[i].uid
  <2>1. held'[i] > 0 /\ held[i] > 1
    BY <1>2, <1>4 DEF SweepTypeOK
  <2>2. rows'[i].uid = rows[i].uid
    BY <1>3, <2>1
  <2> QED
    BY <2>1, <2>2 DEF SInv, Holding
<1>5. Holding'
  BY <1>3, <1>4 DEF Holding
<1> QED
  BY <1>1, <1>5 DEF SInv

-----------------------------------------------------------------------------
(* Sweep: the steps of a run. *)

LEMMA RefuseIs ==
  ASSUME SInv, NEW read, refuse(read)
  PROVE  /\ run' = NoRun /\ sweep' \in SweepResource /\ sweep'.findings = sweep.findings
  BY DEF SInv, ReportInv, refuse, SweepResource

LEMMA RefuseKeeps == ASSUME SInv, NEW read, refuse(read), UNCHANGED <<around, alone>> PROVE SInv'
  BY RefuseIs, NoRunIs, RunStep DEF ReadAsIs, SInv, ReportInv

LEMMA BeginRunKeeps == ASSUME SInv, BeginRun PROVE SInv'
<1>1. CASE refuse(sweep)
  BY <1>1, RefuseKeeps DEF BeginRun
<1> DEFINE uids == {u \in Uids : Exists(cached[u])}
           ids == {cached[u].id : u \in {v \in Uids : Exists(cached[v])}} \ {0}
           r == [NoRun EXCEPT !.at = "list", !.of = sweep, !.uids = uids, !.ids = ids]
<1>2. CASE run' = r /\ UNCHANGED sweep
  <2>1. uids \in SUBSET Uids
    OBVIOUS
  <2>2. ids \in SUBSET Rows
    BY SweepAssumption DEF SInv, SweepTypeOK, KindResource, Rows
  <2> HIDE DEF uids, ids
  <2>3. /\ r \in SweepRun /\ r.uids = uids /\ r.listed = [i \in Rows |-> Absent]
    BY <2>1, <2>2 DEF SInv, ReportInv, NoRun, SweepRun
  <2> HIDE DEF r
  <2>4. ASSUME NEW i \in Rows, held[i] > 1 PROVE rows[i].uid \in uids
    <3>1. held[i] > 0
      BY <2>4 DEF SInv, SweepTypeOK
    <3> QED
      BY <2>4, <3>1 DEF SInv, Holding, uids
  <2>5. ReadAsIs(r)
    BY <2>3, <2>4 DEF ReadAsIs
  <2> QED
    BY <1>2, <2>3, <2>5, RunStep DEF BeginRun, SInv, ReportInv
<1> QED
  BY <1>1, <1>2 DEF BeginRun

LEMMA SkipRunKeeps == ASSUME SInv, SkipRun PROVE SInv'
<1>1. run' = run /\ run \in SweepRun /\ alone' = alone /\ UNCHANGED around
  BY DEF SkipRun, SInv, ReportInv
<1>2. sweep' \in SweepResource /\ sweep'.findings = sweep.findings
  BY DEF SkipRun, SInv, ReportInv, SweepResource
<1>3. ReadAsIs(run)
  BY DEF SInv, Holding, ReadAsIs
<1> QED
  BY <1>1, <1>2, <1>3, RunStep DEF SInv, ReportInv

LEMMA ListPageKeeps == ASSUME SInv, ListPage PROVE SInv'
<1>1. CASE refuse(run.of)
  BY <1>1, RefuseKeeps DEF ListPage
<1> DEFINE listed == [i \in Rows |-> IF i \in Page THEN rows[i] ELSE run.listed[i]]
           at == IF Cardinality(Listed) > run.offset + pageSize THEN "list" ELSE "publish"
           r == [run EXCEPT !.listed = listed, !.offset = @ + pageSize, !.page = @ + 1, !.at = at]
<1>2. CASE run' = r /\ UNCHANGED sweep /\ run.at = "list"
  <2>1. run \in SweepRun
    BY DEF SInv, ReportInv
  <2>2. listed \in [Rows -> NetBoxRow \cup {Absent}]
    <3>1. run.listed \in [Rows -> NetBoxRow \cup {Absent}] /\ rows \in [Rows -> NetBoxRow \cup {Absent}]
      BY <2>1 DEF SInv, SweepTypeOK, SweepRun
    <3> QED
      BY <3>1
  <2>3. at \in {"list", "publish"}
    OBVIOUS
  <2>4. run.offset + pageSize \in Nat /\ run.page + 1 \in Nat
    BY <2>1, SweepAssumption DEF SweepRun
  <2>5. \A i \in Rows : listed[i] = rows[i] \/ listed[i] = run.listed[i]
    OBVIOUS
  <2> HIDE DEF listed, at
  <2>6. r \in SweepRun /\ r.uids = run.uids /\ r.listed = listed
    BY <2>1, <2>2, <2>3, <2>4 DEF SweepRun
  <2> HIDE DEF r
  <2>7. ReadAsIs(r)
    BY <1>2, <2>5, <2>6 DEF SInv, Holding, ReadAsIs
  <2> QED
    BY <1>2, <2>6, <2>7, RunStep DEF ListPage, SInv, ReportInv
<1> QED
  BY <1>1, <1>2 DEF ListPage

\* What a report says of an object is what the run found, or nothing.
LEMMA ReportIs ==
  ASSUME NEW r, NEW i \in Rows
  PROVE  \/ report(r)[i] = Absent
         \/ i \in Findings(r) /\ report(r)[i] = finding(r, i)
  BY DEF report

LEMMA FindingIs ==
  ASSUME SInv, NEW r \in SweepRun, r.of = sweep, NEW i \in Rows
  PROVE  /\ finding(r, i) \in Finding /\ finding(r, i).age = firstSeen(r, i)
         /\ finding(r, i).reason = "Orphaned" => firstSeen(r, i) >= GracePeriod
         /\ firstSeen(r, i) = IF sweep.findings[i] # Absent THEN sweep.findings[i].age ELSE 0
<1>1. /\ firstSeen(r, i) = IF sweep.findings[i] # Absent THEN sweep.findings[i].age ELSE 0
      /\ firstSeen(r, i) \in Nat
  BY DEF firstSeen, SInv, ReportInv, SweepResource, Finding
<1> QED
  BY <1>1 DEF finding, Finding

LEMMA PublishKeeps == ASSUME SInv, Publish PROVE SInv'
<1>1. run' = NoRun /\ UNCHANGED around
  BY DEF Publish
<1>2. ReadAsIs(NoRun)
  BY NoRunIs DEF ReadAsIs
<1>3. CASE UNCHANGED <<sweep, alone>>
  BY <1>1, <1>2, <1>3, NoRunIs, RunStep DEF SInv, ReportInv
<1>4. CASE /\ sweep = run.of
           /\ sweep' = [sweep EXCEPT !.ready = "Complete", !.suspended = FALSE,
                          !.findings = report(run)]
           /\ alone' = [i \in Rows |-> IF i \notin Findings(run) THEN Absent
                                       ELSE IF alone[i] = Absent THEN 0 ELSE alone[i]]
  <2>1. run \in SweepRun /\ sweep \in SweepResource /\ alone \in [Rows -> Nat \cup {Absent}]
        /\ Aged(sweep.findings, alone)
    BY DEF SInv, ReportInv
  <2>2. report(run) \in [Rows -> Finding \cup {Absent}]
    <3>1. \A i \in Rows : report(run)[i] \in Finding \cup {Absent}
      BY <1>4, <2>1, ReportIs, FindingIs
    <3>2. report(run) = [i \in Rows |-> report(run)[i]]
      BY DEF report
    <3> QED
      BY <3>1, <3>2
  <2>3. sweep' \in SweepResource /\ sweep'.findings = report(run)
    <3> DEFINE f == report(run)
    <3>1. f \in [Rows -> Finding \cup {Absent}] /\ sweep' = [sweep EXCEPT !.ready = "Complete", !.suspended = FALSE, !.findings = f]
      BY <1>4, <2>2
    <3> HIDE DEF f
    <3>2. sweep' \in SweepResource /\ sweep'.findings = f
      BY <2>1, <3>1 DEF SweepResource
    <3> QED
      BY <3>2 DEF f
  <2>4. alone' \in [Rows -> Nat \cup {Absent}]
    BY <1>4, <2>1
  <2>5. ASSUME NEW i \in Rows, report(run)[i] # Absent
        PROVE  /\ alone'[i] # Absent /\ report(run)[i].age <= alone'[i]
               /\ report(run)[i].reason = "Orphaned" => report(run)[i].age >= GracePeriod
    <3>1. i \in Findings(run) /\ report(run)[i] = finding(run, i)
      BY <2>5, ReportIs
    <3>2. alone'[i] = IF alone[i] = Absent THEN 0 ELSE alone[i]
      BY <1>4, <3>1
    <3>3. alone[i] \in Nat \cup {Absent} /\ 0 # Absent
      BY <2>1, SweepAssumption
    <3>4. sweep.findings[i] # Absent => alone[i] # Absent /\ sweep.findings[i].age <= alone[i]
      BY <2>1 DEF Aged
    <3>5. finding(run, i).age = firstSeen(run, i)
          /\ (finding(run, i).reason = "Orphaned" => firstSeen(run, i) >= GracePeriod)
          /\ firstSeen(run, i) = IF sweep.findings[i] # Absent THEN sweep.findings[i].age ELSE 0
      BY <1>4, <2>1, FindingIs
    <3> QED
      BY <3>1, <3>2, <3>3, <3>4, <3>5
  <2>6. Aged(sweep'.findings, alone')
    BY <2>3, <2>5 DEF Aged
  <2> QED
    BY <1>1, <1>2, <2>3, <2>4, <2>6, NoRunIs, RunStep
<1> QED
  BY <1>3, <1>4 DEF Publish

-----------------------------------------------------------------------------
(* Sweep: the surroundings. *)

\* A resource changes its state, among the states it may exist in or for good.
LEMMA StateKeeps ==
  ASSUME SInv, NEW u \in Uids, NEW state \in {"live", "terminating", "gone"},
         crs' = [crs EXCEPT ![u].state = state],
         state \in {"live", "terminating"} =>
           \A v \in Uids : KeyOf[v] = KeyOf[u] /\ v # u => ~Exists(crs[v]),
         Exists(crs[u]) \/ crs[u].state = "new",
         held' = Held(rows, crs'), UNCHANGED <<rows, fresh, cached, sweep, run, alone>>
  PROVE  SInv'
<1>1. crs \in [Uids -> KindResource]
  BY DEF SInv, SweepTypeOK
<1> DEFINE r == [crs[u] EXCEPT !.state = state]
<1>2. /\ r \in KindResource /\ r.state = state /\ r.id = crs[u].id /\ crs' = [crs EXCEPT ![u] = r]
  BY <1>1 DEF KindResource
<1> HIDE DEF r
<1>3. /\ crs'[u] = r /\ \A v \in Uids : v # u => crs'[v] = crs[v]
  BY <1>1, <1>2
<1>4. SweepTypeOK'
  BY <1>1, <1>2 DEF SInv, SweepTypeOK, Held
<1>5. Claims'
  <2>1. \A v \in Uids : crs'[v].id = crs[v].id
    BY <1>2, <1>3
  <2>2. \A v, w \in Uids : Exists(crs'[v]) /\ Exists(crs'[w]) /\ KeyOf[v] = KeyOf[w] => v = w
    BY <1>2, <1>3 DEF SInv, Claims, Exists
  <2>3. \A v \in Uids, i \in Rows :
          Exists(crs'[v]) /\ crs'[v].id = i /\ rows'[i] # Absent => rows'[i].uid = v
    <3> SUFFICES ASSUME NEW v \in Uids, NEW i \in Rows,
                        Exists(crs'[v]), crs'[v].id = i, rows[i] # Absent
                 PROVE  rows[i].uid = v
      OBVIOUS
    <3>1. i # 0
      BY SweepAssumption DEF Rows
    <3>2. crs[v].state # "new"
      BY <2>1, <3>1 DEF SInv, Claims
    <3>3. Exists(crs[v])
      BY <1>3, <3>2 DEF Exists
    <3> QED
      BY <2>1, <3>3 DEF SInv, Claims
  <2>4. \A v \in Uids : crs'[v].id < fresh /\ (crs'[v].state = "new" => crs'[v].id = 0)
    BY <1>2, <1>3 DEF SInv, Claims
  <2> QED
    BY <2>2, <2>3, <2>4 DEF SInv, Claims
<1> QED
  BY <1>4, <1>5, AroundStep

LEMMA CreateCRKeeps == ASSUME SInv, NEW u \in Uids, CreateCR(u) PROVE SInv'
  BY StateKeeps DEF CreateCR

LEMMA DeleteCRKeeps == ASSUME SInv, NEW u \in Uids, DeleteCR(u) \/ RemoveCR(u) PROVE SInv'
<1>1. Exists(crs[u])
  BY DEF DeleteCR, RemoveCR, Exists
<1>2. \A v \in Uids : KeyOf[v] = KeyOf[u] /\ v # u => ~Exists(crs[v])
  BY <1>1 DEF SInv, Claims
<1> QED
  BY <1>1, <1>2, StateKeeps DEF DeleteCR, RemoveCR

LEMMA WriteObjectKeeps == ASSUME SInv, NEW u \in Uids, WriteObject(u) PROVE SInv'
<1>1. /\ rows \in [Rows -> NetBoxRow \cup {Absent}] /\ fresh \in Nat \ {0} /\ Exists(crs[u])
      /\ crs \in [Uids -> KindResource]
  BY DEF SInv, SweepTypeOK, WriteObject, Exists
<1>2. u \in RowUids /\ KeyOf[u] \in RowKeys
  BY DEF RowUids, RowKeys
<1>3. CASE /\ fresh <= MaxRow
           /\ rows' = [rows EXCEPT ![fresh] = [key |-> KeyOf[u], uid |-> u, owner |-> "ours"]]
           /\ fresh' = fresh + 1
  <2> DEFINE r == [key |-> KeyOf[u], uid |-> u, owner |-> "ours"]
  <2>1. r \in NetBoxRow /\ r.uid = u /\ r.key = KeyOf[u]
    BY <1>2 DEF NetBoxRow
  <2> HIDE DEF r
  <2>2. fresh \in Rows /\ rows' = [rows EXCEPT ![fresh] = r]
    BY <1>1, <1>3, SweepAssumption DEF Rows, r
  <2>3. rows[fresh] = Absent
    BY <1>1, <2>2 DEF SInv, Claims, SweepTypeOK
  <2>4. rows'[fresh] = r /\ \A i \in Rows : i # fresh => rows'[i] = rows[i]
    BY <1>1, <2>2
  <2>5. rows' \in [Rows -> NetBoxRow \cup {Absent}] /\ fresh' \in Nat \ {0}
    BY <1>1, <1>3, <2>1, <2>2
  <2>6. SweepTypeOK'
    BY <2>5 DEF SInv, SweepTypeOK, WriteObject, Held
  <2>7. Claims'
    <3>1. \A v \in Uids : crs[v].id < fresh /\ crs[v].id \in Nat
      BY <1>1, SweepAssumption DEF SInv, Claims, KindResource
    <3>2. \A v \in Uids : crs[v].id < fresh'
      BY <1>1, <1>3, <3>1
    <3>3. \A i \in Rows : rows'[i] # Absent => i < fresh'
      BY <1>1, <1>3, <2>4, SweepAssumption DEF SInv, Claims, Rows
    <3>4. \A i \in Rows : rows'[i] # Absent /\ rows'[i].uid \in Uids => rows'[i].key = KeyOf[rows'[i].uid]
      BY <2>1, <2>4 DEF SInv, Claims
    <3>5. \A v \in Uids, i \in Rows :
            Exists(crs[v]) /\ crs[v].id = i /\ rows'[i] # Absent => rows'[i].uid = v
      BY <1>1, <2>4, <3>1 DEF SInv, Claims
    <3> QED
      BY <3>2, <3>3, <3>4, <3>5 DEF SInv, Claims, WriteObject
  <2>8. \A i \in Rows : held[i] > 1 /\ rows'[i] # Absent => rows'[i].uid = rows[i].uid
    <3>1. \A i \in Rows : held[i] > 1 => rows[i] # Absent
      BY DEF SInv, SweepTypeOK, Holding
    <3> QED
      BY <2>3, <2>4, <3>1
  <2> QED
    BY <2>6, <2>7, <2>8, AroundStep DEF WriteObject
<1>4. ASSUME NEW j \in Rows, rows[j] # Absent, rows[j].key = KeyOf[u], rows[j].uid # u,
             rows' = [rows EXCEPT ![j].uid = u, ![j].owner = "ours"], fresh' = fresh
      PROVE  SInv'
  <2> DEFINE r == [rows[j] EXCEPT !.uid = u, !.owner = "ours"]
  <2>1. r \in NetBoxRow /\ r.uid = u /\ r.key = KeyOf[u]
    BY <1>1, <1>2, <1>4 DEF NetBoxRow
  <2>2. rows' = [rows EXCEPT ![j] = r]
    BY <1>1, <1>4
  <2> HIDE DEF r
  <2>3. rows'[j] = r /\ \A i \in Rows : i # j => rows'[i] = rows[i]
    BY <1>1, <2>2
  <2>4. ASSUME NEW v \in Uids, Exists(crs[v]), rows[j].uid = v \/ crs[v].id = j PROVE v = u
    <3>1. rows[j].uid = v
      BY <1>4, <2>4 DEF SInv, Claims
    <3>2. KeyOf[v] = KeyOf[u]
      BY <1>4, <3>1 DEF SInv, Claims
    <3> QED
      BY <1>1, <2>4, <3>2 DEF SInv, Claims
  <2>5. SweepTypeOK'
    BY <1>1, <1>4, <2>1, <2>2 DEF SInv, SweepTypeOK, WriteObject, Held
  <2>6. Claims'
    <3>1. \A i \in Rows : rows'[i] # Absent => i < fresh
      BY <1>4, <2>3 DEF SInv, Claims
    <3>2. \A i \in Rows : rows'[i] # Absent /\ rows'[i].uid \in Uids => rows'[i].key = KeyOf[rows'[i].uid]
      BY <2>1, <2>3 DEF SInv, Claims
    <3>3. \A v \in Uids, i \in Rows :
            Exists(crs[v]) /\ crs[v].id = i /\ rows'[i] # Absent => rows'[i].uid = v
      BY <2>1, <2>3, <2>4 DEF SInv, Claims
    <3> QED
      BY <1>4, <3>1, <3>2, <3>3 DEF SInv, Claims, WriteObject
  <2>7. ~(held[j] > 1)
    <3> SUFFICES ASSUME held[j] > 1 PROVE FALSE
      OBVIOUS
    <3>1. held[j] > 0
      BY DEF SInv, SweepTypeOK
    <3>2. rows[j].uid \in Uids /\ Exists(crs[rows[j].uid])
      BY <3>1 DEF SInv, Holding
    <3> QED
      BY <1>4, <2>4, <3>2
  <2> QED
    BY <2>3, <2>5, <2>6, <2>7, AroundStep DEF WriteObject
<1> QED
  BY <1>3, <1>4 DEF WriteObject

LEMMA RecordIdKeeps == ASSUME SInv, NEW u \in Uids, RecordId(u) PROVE SInv'
<1>1. PICK j \in Rows : /\ rows[j] # Absent /\ rows[j].uid = u
                        /\ crs' = [crs EXCEPT ![u].id = j]
  BY DEF RecordId
<1>2. crs \in [Uids -> KindResource] /\ Exists(crs[u])
  BY DEF SInv, SweepTypeOK, RecordId, Exists
<1> DEFINE r == [crs[u] EXCEPT !.id = j]
<1>3. r \in KindResource /\ r.id = j /\ r.state = crs[u].state /\ crs' = [crs EXCEPT ![u] = r]
  <2>1. j \in 0..MaxRow
    BY SweepAssumption DEF Rows
  <2> QED
    BY <1>1, <1>2, <2>1 DEF KindResource
<1> HIDE DEF r
<1>4. crs'[u] = r /\ \A v \in Uids : v # u => crs'[v] = crs[v]
  BY <1>2, <1>3
<1>5. \A v \in Uids : crs'[v].state = crs[v].state
  BY <1>3, <1>4
<1>6. SweepTypeOK'
  BY <1>2, <1>3 DEF SInv, SweepTypeOK, RecordId, Held
<1>7. Claims'
  <2>1. \A v, w \in Uids : Exists(crs'[v]) /\ Exists(crs'[w]) /\ KeyOf[v] = KeyOf[w] => v = w
    BY <1>5 DEF SInv, Claims, Exists
  <2>2. \A v \in Uids : crs'[v].id < fresh /\ (crs'[v].state = "new" => crs'[v].id = 0)
    BY <1>1, <1>2, <1>3, <1>4 DEF SInv, Claims, Exists
  <2>3. \A v \in Uids, i \in Rows :
          Exists(crs'[v]) /\ crs'[v].id = i /\ rows[i] # Absent => rows[i].uid = v
    BY <1>1, <1>3, <1>4, <1>5 DEF SInv, Claims, Exists
  <2> QED
    BY <2>1, <2>2, <2>3 DEF SInv, Claims, RecordId
<1> QED
  BY <1>6, <1>7, AroundStep DEF RecordId

LEMMA DeleteObjectKeeps == ASSUME SInv, NEW u \in Uids, DeleteObject(u) PROVE SInv'
<1>1. PICK j \in Rows : rows' = [rows EXCEPT ![j] = Absent]
  BY DEF DeleteObject
<1>2. rows \in [Rows -> NetBoxRow \cup {Absent}]
  BY DEF SInv, SweepTypeOK
<1>3. \A i \in Rows : rows'[i] = rows[i] \/ rows'[i] = Absent
  BY <1>1, <1>2
<1>4. SweepTypeOK'
  BY <1>1, <1>2 DEF SInv, SweepTypeOK, DeleteObject, Held
<1>5. Claims'
  BY <1>3 DEF SInv, Claims, DeleteObject
<1> QED
  BY <1>3, <1>4, <1>5, AroundStep DEF DeleteObject

LEMMA InformKeeps == ASSUME SInv, Inform PROVE SInv'
<1>1. ReportInv' /\ SweepTypeOK' /\ Claims'
  BY DEF SInv, ReportInv, SweepTypeOK, Claims, Inform
<1>2. \A i \in Rows : held[i] > 1 => held[i] > 0
  BY DEF SInv, SweepTypeOK
<1>3. Holding'
  BY <1>2 DEF SInv, Holding, Inform
<1> QED
  BY <1>1, <1>3 DEF SInv

LEMMA ToggleSuspendKeeps == ASSUME SInv, ToggleSuspend PROVE SInv'
<1>1. sweep' \in SweepResource /\ sweep'.findings = sweep.findings
  BY DEF SInv, ReportInv, SweepResource, ToggleSuspend
<1>2. run' = run /\ run \in SweepRun /\ UNCHANGED <<around, alone>>
  BY DEF SInv, ReportInv, ToggleSuspend, around
<1>3. ReadAsIs(run)
  BY DEF SInv, Holding, ReadAsIs
<1> QED
  BY <1>1, <1>2, <1>3, RunStep DEF SInv, ReportInv

LEMMA QuietKeeps ==
  ASSUME SInv, UNCHANGED <<rows, fresh, crs, cached, sweep, run, held, alone>> PROVE SInv'
  BY DEF SInv, ReportInv, SweepTypeOK, Claims, Holding

\* A finding ages no faster than the history it is measured by.
LEMMA UpKeeps ==
  ASSUME NEW a \in Nat, NEW b \in Nat, NEW l \in Nat, a <= b
  PROVE  Up(a, l) \in Nat /\ Up(b, l) \in Nat /\ Up(a, l) <= Up(b, l) /\ a <= Up(a, l)
  BY DEF Up

LEMMA TickKeeps == ASSUME SInv, Tick PROVE SInv'
<1>1. /\ sweep \in SweepResource /\ alone \in [Rows -> Nat \cup {Absent}] /\ held \in [Rows -> Nat]
      /\ Aged(sweep.findings, alone) /\ GracePeriod \in Nat
  BY SweepAssumption DEF SInv, ReportInv, SweepTypeOK
<1> DEFINE F(i) == Older(sweep.findings[i])
           f == [i \in Rows |-> F(i)]
<1>2. ASSUME NEW i \in Rows, sweep.findings[i] # Absent
      PROVE  /\ sweep.findings[i] \in Finding /\ F(i) \in Finding
             /\ F(i).age = Up(sweep.findings[i].age, GracePeriod)
             /\ F(i).reason = sweep.findings[i].reason
  <2>1. sweep.findings[i] \in Finding
    BY <1>1, <1>2 DEF SweepResource
  <2>2. Up(sweep.findings[i].age, GracePeriod) \in Nat
    BY <1>1, <2>1 DEF Up, Finding
  <2> QED
    BY <1>2, <2>1, <2>2 DEF Finding, Older
<1>3. f \in [Rows -> Finding \cup {Absent}]
  <2>1. \A i \in Rows : F(i) \in Finding \cup {Absent}
    BY <1>2 DEF Older
  <2> QED
    BY <2>1
<1>4. sweep' = [sweep EXCEPT !.findings = f]
  BY DEF Tick
<1> HIDE DEF f
<1>5. sweep' \in SweepResource /\ sweep'.findings = f
  BY <1>1, <1>3, <1>4 DEF SweepResource
<1>6. alone' \in [Rows -> Nat \cup {Absent}]
  <2>1. \A i \in Rows : alone[i] # Absent => Up(alone[i], GracePeriod) \in Nat
    BY <1>1 DEF Up
  <2> QED
    BY <1>1, <2>1 DEF Tick
<1>7. ASSUME NEW i \in Rows, f[i] # Absent
      PROVE  /\ alone'[i] # Absent /\ f[i].age <= alone'[i]
             /\ f[i].reason = "Orphaned" => f[i].age >= GracePeriod
  <2>1. sweep.findings[i] # Absent /\ f[i] = F(i)
    BY <1>7 DEF f, Older
  <2>2. /\ sweep.findings[i].age \in Nat /\ f[i].reason = sweep.findings[i].reason
        /\ f[i].age = Up(sweep.findings[i].age, GracePeriod)
    BY <1>2, <2>1 DEF Finding
  <2>3. /\ alone[i] \in Nat /\ sweep.findings[i].age <= alone[i]
        /\ sweep.findings[i].reason = "Orphaned" => sweep.findings[i].age >= GracePeriod
    BY <1>1, <2>1 DEF Aged
  <2>4. alone'[i] = Up(alone[i], GracePeriod)
    BY <1>1, <2>1 DEF Tick, Aged
  <2>5. Up(alone[i], GracePeriod) # Absent
    BY <1>1, <2>3, UpKeeps, SweepAssumption
  <2>6. Up(sweep.findings[i].age, GracePeriod) <= Up(alone[i], GracePeriod)
    BY <1>1, <2>2, <2>3, UpKeeps
  <2>7. sweep.findings[i].age >= GracePeriod => Up(sweep.findings[i].age, GracePeriod) >= GracePeriod
    BY <1>1, <2>2 DEF Up
  <2> QED
    BY <2>2, <2>3, <2>4, <2>5, <2>6, <2>7
<1>8. ReportInv'
  <2>1. Aged(f, alone')
    BY <1>7 DEF Aged
  <2>2. run' \in SweepRun
    BY DEF SInv, ReportInv, Tick
  <2> QED
    BY <1>5, <1>6, <2>1, <2>2 DEF ReportInv
<1>9. /\ held' \in [Rows -> Nat]
      /\ \A i \in Rows : held'[i] > 0 => held[i] > 0
  <2>1. \A i \in Rows : held[i] \in Nat /\ Up(held[i], 2) \in Nat
    BY <1>1 DEF Up
  <2> QED
    BY <2>1 DEF Tick
<1>10. SweepTypeOK' /\ Claims'
  BY <1>9 DEF SInv, SweepTypeOK, Claims, Tick
<1>11. Holding'
  <2>1. \A i \in Rows : held'[i] > 1 => held'[i] > 0
    BY <1>9
  <2> QED
    BY <1>9, <2>1 DEF SInv, Holding, Tick
<1> QED
  BY <1>8, <1>10, <1>11 DEF SInv

-----------------------------------------------------------------------------
(* Sweep: the theorems. *)

LEMMA SweepInitInv == SweepInit => SInv
<1> SUFFICES ASSUME SweepInit PROVE SInv
  OBVIOUS
<1>1. PICK s \in {<<>>} \cup Strays :
        /\ rows = [i \in Rows |-> IF i \in DOMAIN s THEN s[i] ELSE Absent]
        /\ fresh = Cardinality(DOMAIN s) + 1
  BY DEF SweepInit
<1>2. PICK n \in 0..MaxRow : DOMAIN s = 1..n
  BY <1>1, SweepAssumption
<1>3. fresh = n + 1
  <2>1. 1 \in Int /\ n \in Int /\ n \in Nat
    BY SweepAssumption
  <2>2. Cardinality(1..n) = IF 1 > n THEN 0 ELSE n - 1 + 1
    BY <2>1, FS_Interval
  <2>3. Cardinality(1..n) = n
    BY <2>1, <2>2
  <2> QED
    BY <1>1, <1>2, <2>3
<1>4. \A i \in DOMAIN s : s[i] \in NetBoxRow /\ s[i].uid \notin Uids
  BY <1>1, SweepAssumption DEF NetBoxRow, RowKeys, RowUids
<1>5. SweepTypeOK
  BY <1>1, <1>3, <1>4, SweepAssumption DEF SweepTypeOK, SweepInit, KindResource
<1>6. Claims
  BY <1>1, <1>2, <1>3, <1>4, SweepAssumption DEF Claims, SweepInit, Exists, Rows
<1>7. Holding
  BY DEF Holding, SweepInit
<1>8. ReportInv
  BY NoRunIs DEF ReportInv, SweepInit, SweepResource, Aged
<1> QED
  BY <1>5, <1>6, <1>7, <1>8 DEF SInv

LEMMA SweepNextInv == SInv /\ [SweepNext]_sweepVars => SInv'
<1>1. ASSUME SInv, SweepPass PROVE SInv'
  BY <1>1, BeginRunKeeps, SkipRunKeeps, ListPageKeeps, RefuseKeeps, PublishKeeps
     DEF SweepPass, ListFails
<1>2. ASSUME SInv, Surroundings PROVE SInv'
  BY <1>2, CreateCRKeeps, WriteObjectKeeps, RecordIdKeeps, DeleteCRKeeps, DeleteObjectKeeps,
     InformKeeps, ToggleSuspendKeeps, QuietKeeps DEF Surroundings, ChangeEndpoint
<1>3. ASSUME SInv, UNCHANGED sweepVars PROVE SInv'
  BY <1>3, QuietKeeps DEF sweepVars
<1> QED
  BY <1>1, <1>2, <1>3, TickKeeps DEF SweepNext

\* What is reported Orphaned was found unclaimed by every completed run for as long as the
\* grace period (netboxsweep_scan.go firstSeen and report), however long the period is and
\* whatever comes between the runs.
THEOREM OrphansAreSettled == SweepSpec => []OrphanedIsSettled
<1>1. SInv => OrphanedIsSettled
  BY SweepAssumption DEF SInv, ReportInv, Aged, OrphanedIsSettled, SweepResource, Finding
<1> QED
  BY <1>1, SweepInitInv, SweepNextInv, PTL DEF SweepSpec

\* A run reports nothing that resources have claimed for a tick and until it ends
\* (netboxsweep_scan.go claims and classify), for any number of resources that follow each other
\* under one natural key and adopt each other's objects.
THEOREM NobodyIsAccused == SweepSpec => AccusesNobody
<1>1. ASSUME SInv, Publish, sweep = run.of, NEW i \in Rows, held[i] > 1
      PROVE  sweep'.findings[i] = Absent
  <2>1. i \notin Findings(run)
    <3> SUFFICES ASSUME run.listed[i] # Absent PROVE classify(run, i) = "claimed"
      BY DEF Findings
    <3>1. run.listed[i].uid \in run.uids
      BY <1>1 DEF SInv, Holding, Publish
    <3> QED
      BY <3>1 DEF classify
  <2>2. report(run)[i] = Absent
    BY <2>1, ReportIs
  <2>3. sweep'.findings = report(run)
    BY <1>1 DEF SInv, ReportInv, SweepResource, Publish
  <2> QED
    BY <2>2, <2>3
<1>2. SInv /\ [SweepNext]_sweepVars =>
        [Publish /\ sweep = run.of =>
           \A i \in Rows : held[i] > 1 => sweep'.findings[i] = Absent]_sweepVars
  BY <1>1
<1> QED
  BY <1>2, SweepInitInv, SweepNextInv, PTL DEF SweepSpec, AccusesNobody
=============================================================================
