------------------------------- MODULE Sweep -------------------------------
(***************************************************************************)
(* NetBoxSweep (internal/controller/netboxsweep_controller.go and          *)
(* netboxsweep_scan.go): a run that looks the endpoint up, lists the       *)
(* resources of a Kind from the informer cache, then the stamped objects   *)
(* of NetBox page by page, and reports the objects no resource claims.  A  *)
(* finding is Suspected until it has been seen for the grace period, then  *)
(* Orphaned; the report holds at most maxFindings of them.  A sweep never  *)
(* writes to NetBox.                                                       *)
(*                                                                         *)
(* Time is counted in ticks, each longer than a run and than the delay of  *)
(* an informer.  Around the sweep, resources come, write the object of     *)
(* their natural key through the endpoint's client, record its id and go,  *)
(* with their object or without it.                                        *)
(***************************************************************************)
EXTENDS FiniteSets, Naturals

CONSTANTS
  Uids, KeyOf,  \* the resources there may be, one after the other, and their natural keys
  Strays,       \* NetBox objects of this cluster's stamp whose resource was never known here
  GracePeriod,  \* ticks before a finding is Orphaned
  maxFindings,  \* how many findings the report holds
  pageSize, maxPages,
  Budgets,      \* how many changes there may be around a sweep
  MaxRow,       \* bound: the last NetBox id
  Absent        \* no object, no finding

Rows == 1..MaxRow

\* A stray carries a uid that is not one of the resources here.
ASSUME SweepAssumption ==
  /\ MaxRow \in Nat /\ GracePeriod \in Nat /\ pageSize \in Nat /\ Absent \notin Nat
  /\ \A s \in Strays :
       /\ \E n \in 0..MaxRow : DOMAIN s = 1..n
       /\ \A i \in DOMAIN s :
            /\ s[i] = [key |-> s[i].key, uid |-> s[i].uid, owner |-> s[i].owner]
            /\ s[i].uid \notin Uids /\ s[i].owner \in {"ours", "none", "foreign"}

VARIABLES
  rows,     \* NetBox: the objects of the Kind: natural key, k8s_uid and k8s_owner
  fresh,    \* NetBox: the next id
  crs,      \* the resources of the Kind, with the id each recorded
  cached,   \* the resources as the informer saw them
  sweep,    \* the NetBoxSweep: spec.suspend, the two conditions, and the findings
  run,      \* the run under way
  gate,     \* what the endpoint lets a run do
  churn,    \* the changes that are left
  held,     \* history: how long each object has been claimed without a break
  alone     \* history: how long every completed run has found it unclaimed

sweepVars == <<rows, fresh, crs, cached, sweep, run, gate, churn, held, alone>>
around == <<rows, fresh, crs, cached, gate, held>>

-----------------------------------------------------------------------------
Exists(resource) == resource.state \in {"live", "terminating"}

NoRun == [at |-> "idle", of |-> Absent, ids |-> {}, uids |-> {}, offset |-> 0, page |-> 0,
          listed |-> [i \in Rows |-> Absent]]

Up(n, limit) == IF n < limit THEN n + 1 ELSE n

\* The resources that claim an object: by the id they recorded or by the uid it carries.
Claimed(objects, resources, i) ==
  \E u \in Uids : Exists(resources[u]) /\ (resources[u].id = i \/ objects[i].uid = u)

\* The history of claims after a step of the surroundings.
Held(objects, resources) ==
  [i \in Rows |-> IF objects[i] = Absent \/ ~Claimed(objects, resources, i) THEN 0
                  ELSE IF held[i] = 0 THEN 1 ELSE held[i]]

SweepInit ==
  /\ churn \in Budgets
  /\ \E objects \in IF churn = 0 THEN {<<>>} ELSE Strays :
       /\ rows = [i \in Rows |-> IF i \in DOMAIN objects THEN objects[i] ELSE Absent]
       /\ fresh = Cardinality(DOMAIN objects) + 1
  /\ crs = [u \in Uids |-> [state |-> "new", id |-> 0]] /\ cached = crs
  /\ sweep = [suspend |-> churn = 0, suspended |-> churn = 0, ready |-> "Unknown",
              findings |-> [i \in Rows |-> Absent]]
  /\ run = NoRun /\ gate = "open"
  /\ held = [i \in Rows |-> 0] /\ alone = [i \in Rows |-> Absent]

Churn == churn > 0 /\ churn' = churn - 1

-----------------------------------------------------------------------------
(* The run. *)

\* refuse: whatever the reason, the findings stay those of the last completed run.  The status
\* lands if the sweep is still the one that was read.
refuse(read) ==
  /\ run' = NoRun
  /\ sweep' = IF sweep # read THEN sweep ELSE [sweep EXCEPT !.ready = "Refused", !.suspended = FALSE]

\* resolveEndpoint refuses without a client, with one that cannot write or does not stamp, all
\* of them "closed", and when drift is off, which does not keep resources from being written.
Gates == {"open", "DriftOff", "closed"}

\* claims: the uids of every resource, terminating ones too, and the ids they recorded.
BeginRun ==
  /\ run.at = "idle" /\ ~sweep.suspend
  /\ \/ gate # "open" /\ refuse(sweep)
     \/ /\ gate = "open"
        /\ run' = [NoRun EXCEPT !.at = "list", !.of = sweep,
                     !.uids = {u \in Uids : Exists(cached[u])},
                     !.ids = {cached[u].id : u \in {v \in Uids : Exists(cached[v])}} \ {0}]
        /\ UNCHANGED sweep
  /\ UNCHANGED <<around, churn, alone>>

\* suspended: nothing runs, and the findings are preserved.
SkipRun ==
  /\ run.at = "idle" /\ sweep.suspend /\ ~sweep.suspended
  /\ sweep' = [sweep EXCEPT !.suspended = TRUE]
  /\ UNCHANGED <<around, run, churn, alone>>

Listed == {i \in Rows : rows[i] # Absent}

Before(i) == Cardinality({j \in Listed : j < i})

Page == {i \in Listed : run.offset <= Before(i) /\ Before(i) < run.offset + pageSize}

\* List: one page, at an offset into the objects there are now; the cap refuses the run.
ListPage ==
  /\ run.at = "list"
  /\ \/ run.page >= maxPages /\ refuse(run.of)
     \/ /\ run.page < maxPages
        /\ run' = [run EXCEPT !.listed = [i \in Rows |-> IF i \in Page THEN rows[i] ELSE @[i]],
                     !.offset = @ + pageSize, !.page = @ + 1,
                     !.at = IF Cardinality(Listed) > run.offset + pageSize THEN "list" ELSE "publish"]
        /\ UNCHANGED sweep
  /\ UNCHANGED <<around, churn, alone>>

\* A request that fails or runs out of time refuses the whole run.
ListFails ==
  /\ run.at = "list" /\ Churn
  /\ refuse(run.of)
  /\ UNCHANGED <<around, alone>>

\* Mutant: a resource claims by the id it recorded only.
classifyIds(r, i) ==
  IF i \in r.ids THEN "claimed"
  ELSE [none |-> "unattributed", foreign |-> "foreign", ours |-> "orphan"][r.listed[i].owner]

\* classify: claims before attribution, by parseOwner.
classify(r, i) ==
  IF i \in r.ids \/ r.listed[i].uid \in r.uids THEN "claimed"
  ELSE [none |-> "unattributed", foreign |-> "foreign", ours |-> "orphan"][r.listed[i].owner]

\* The listed objects that are findings.
Findings(r) ==
  {i \in Rows : r.listed[i] # Absent /\ classify(r, i) \in {"orphan", "unattributed"}}

\* Mutant: the second sighting is enough.
firstSeenTwice(r, i) == IF r.of.findings[i] # Absent THEN GracePeriod ELSE 0

\* Mutant: every run dates its findings anew.
firstSeenNow(r, i) == 0

\* firstSeen is carried over from the report the run has read.
firstSeen(r, i) == IF r.of.findings[i] # Absent THEN r.of.findings[i].age ELSE 0

finding(r, i) ==
  [age |-> firstSeen(r, i),
   reason |-> IF classify(r, i) = "unattributed" THEN "Unattributed"
              ELSE IF firstSeen(r, i) >= GracePeriod THEN "Orphaned" ELSE "Suspected"]

Rank == [Orphaned |-> 0, Suspected |-> 1, Unattributed |-> 2]

\* report: Orphaned first, then Suspected, then Unattributed, each by id, up to the cap.
report(r) ==
  LET found == Findings(r)
      rank(i) == Rank[finding(r, i).reason]
      ahead(i) == {j \in found : rank(j) < rank(i) \/ (rank(j) = rank(i) /\ j < i)}
  IN  [i \in Rows |-> IF i \in found /\ Cardinality(ahead(i)) < maxFindings
                      THEN finding(r, i) ELSE Absent]

\* complete: the report and the condition, unless the sweep was edited meanwhile.
Publish ==
  /\ run.at = "publish" /\ run' = NoRun
  /\ IF sweep # run.of THEN UNCHANGED <<sweep, alone>>
     ELSE /\ sweep' = [sweep EXCEPT !.ready = "Complete", !.suspended = FALSE, !.findings = report(run)]
          /\ alone' = [i \in Rows |->
               IF i \notin Findings(run) THEN Absent ELSE IF alone[i] = Absent THEN 0 ELSE alone[i]]
  /\ UNCHANGED <<around, churn>>

-----------------------------------------------------------------------------
(* The surroundings. *)

\* The client of an object pass writes, and stamps.
MayWrite == gate \in {"open", "DriftOff"}

CreateCR(u) ==
  /\ Churn /\ crs[u].state = "new"
  /\ \A v \in Uids : KeyOf[v] = KeyOf[u] => ~Exists(crs[v]) /\ (v < u => crs[v].state # "new")
  /\ crs' = [crs EXCEPT ![u].state = "live"]
  /\ held' = Held(rows, crs')
  /\ UNCHANGED <<rows, fresh, cached, sweep, run, gate, alone>>

\* The object of the resource's natural key is created, or adopted with a new stamp.
WriteObject(u) ==
  /\ MayWrite /\ crs[u].state = "live"
  /\ LET there == {i \in Rows : rows[i] # Absent /\ rows[i].key = KeyOf[u]}
     IN  \/ /\ there = {} /\ crs[u].id = 0 /\ fresh <= MaxRow
            /\ rows' = [rows EXCEPT ![fresh] = [key |-> KeyOf[u], uid |-> u, owner |-> "ours"]]
            /\ fresh' = fresh + 1
         \/ /\ \E i \in there : rows[i].uid # u /\ rows' = [rows EXCEPT ![i].uid = u, ![i].owner = "ours"]
            /\ UNCHANGED fresh
  /\ held' = Held(rows', crs)
  /\ UNCHANGED <<crs, cached, sweep, run, gate, churn, alone>>

\* RecordID, a status write of its own.
RecordId(u) ==
  /\ crs[u].state = "live"
  /\ \E i \in Rows : /\ rows[i] # Absent /\ rows[i].uid = u /\ crs[u].id # i
                     /\ crs' = [crs EXCEPT ![u].id = i]
  /\ held' = Held(rows, crs')
  /\ UNCHANGED <<rows, fresh, cached, sweep, run, gate, churn, alone>>

DeleteCR(u) ==
  /\ Churn /\ crs[u].state = "live" /\ crs' = [crs EXCEPT ![u].state = "terminating"]
  /\ held' = Held(rows, crs')
  /\ UNCHANGED <<rows, fresh, cached, sweep, run, gate, alone>>

\* The finalizer deletes the object first.
DeleteObject(u) ==
  /\ MayWrite /\ crs[u].state = "terminating"
  /\ \E i \in Rows : /\ rows[i] # Absent /\ rows[i].uid = u
                     /\ rows' = [rows EXCEPT ![i] = Absent]
  /\ held' = Held(rows', crs)
  /\ UNCHANGED <<fresh, crs, cached, sweep, run, gate, churn, alone>>

\* The resource goes; with Retain, or with the operator down, its object stays.
RemoveCR(u) ==
  /\ crs[u].state = "terminating" /\ crs' = [crs EXCEPT ![u].state = "gone"]
  /\ held' = Held(rows, crs')
  /\ UNCHANGED <<rows, fresh, cached, sweep, run, gate, churn, alone>>

Inform ==
  /\ cached # crs /\ cached' = crs
  /\ UNCHANGED <<rows, fresh, crs, sweep, run, gate, churn, held, alone>>

ToggleSuspend ==
  /\ Churn /\ sweep' = [sweep EXCEPT !.suspend = ~@]
  /\ UNCHANGED <<rows, fresh, crs, cached, run, gate, held, alone>>

\* The endpoint is edited, fails or recovers.
ChangeEndpoint ==
  /\ Churn /\ gate' \in Gates \ {gate}
  /\ UNCHANGED <<rows, fresh, crs, cached, sweep, run, held, alone>>

Older(f) == IF f = Absent THEN Absent ELSE [f EXCEPT !.age = Up(@, GracePeriod)]

\* A tick: informers are up to date by then, and no run takes that long.
Tick ==
  /\ run.at = "idle" /\ cached = crs
  /\ sweep' = [sweep EXCEPT !.findings = [i \in Rows |-> Older(sweep.findings[i])]]
  /\ held' = [i \in Rows |-> IF held[i] = 0 THEN 0 ELSE Up(held[i], 2)]
  /\ alone' = [i \in Rows |-> IF alone[i] = Absent THEN Absent ELSE Up(alone[i], GracePeriod)]
  /\ UNCHANGED <<rows, fresh, crs, cached, run, gate, churn>>

SweepPass == BeginRun \/ SkipRun \/ ListPage \/ ListFails \/ Publish

Surroundings ==
  \/ \E u \in Uids :
       \/ CreateCR(u) \/ WriteObject(u) \/ RecordId(u) \/ DeleteCR(u) \/ DeleteObject(u)
       \/ RemoveCR(u)
  \/ Inform \/ ToggleSuspend \/ ChangeEndpoint

SweepNext == SweepPass \/ Surroundings \/ Tick

SweepSpec == SweepInit /\ [][SweepNext]_sweepVars

\* Runs are scheduled, informers deliver, and time passes however many runs there are.
SweepFairness ==
  WF_sweepVars(SweepPass) /\ WF_sweepVars(Inform) /\ SF_sweepVars(Tick)

-----------------------------------------------------------------------------
\* No false accusation: a run reports no object that resources, by id or by uid, have claimed
\* for a tick and without a break until the run ends, though the resources come from a cache
\* that lags, an id is recorded after the object is written, and claims are listed before the
\* objects.
AccusesNobody ==
  [][Publish /\ sweep = run.of =>
       \A i \in Rows : held[i] > 1 => sweep'.findings[i] = Absent]_sweepVars

\* An object is called Orphaned only if every completed run over the grace period found it
\* unclaimed: a claim in between, or a page that skipped it, starts the clock again.
OrphanedIsSettled ==
  \A i \in Rows : sweep.findings[i] # Absent /\ sweep.findings[i].reason = "Orphaned" =>
    alone[i] # Absent /\ alone[i] >= GracePeriod

Orphans ==
  {i \in Listed : rows[i].owner = "ours" /\ ~Claimed(rows, crs, i)}

Unclaimed == {i \in Listed : rows[i].owner # "foreign" /\ ~Claimed(rows, crs, i)}

\* An object whose resource is gone for good is reported Orphaned, and stays reported, whatever
\* moved between the pages, as long as the sweep is not suspended, its endpoint serves, the
\* listing stays within the page cap, and the report holds all there is to report.
LeftBehindIsReported ==
  \A i \in Rows :
    <>[](/\ i \in Orphans /\ ~sweep.suspend /\ gate = "open"
         /\ Cardinality(Listed) <= maxPages * pageSize
         /\ Cardinality(Unclaimed) <= maxFindings)
      => <>[](sweep.findings[i] # Absent /\ sweep.findings[i].reason = "Orphaned")

-----------------------------------------------------------------------------
\* SweepSummary: the true count of everything the last run saw, whatever the cap did, so an
\* object unclaimed for longer than the grace period is not counted as suspected.
TrueCounts ==
  [][Publish /\ sweep = run.of =>
       \A i \in Findings(run) : classify(run, i) = "orphan" /\ alone[i] = GracePeriod
                               => finding(run, i).reason = "Orphaned"]_sweepVars
=============================================================================
