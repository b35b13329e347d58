------------------------------ MODULE Identity ------------------------------
(***************************************************************************)
(* How a resource of any Kind finds its one NetBox object.  A pass of the  *)
(* engine reads the spec, resolves its references, and waits while one     *)
(* that is not deferred is missing.  It then fetches the object by the     *)
(* recorded id, or looks it up by the first natural-key candidate that     *)
(* applies and matches, and creates it when none does.  What a create may  *)
(* not carry yet is patched by a later pass.                               *)
(*                                                                         *)
(* The create and the write of its id are two steps: the answer can be     *)
(* lost and the process can die between them, and the object is then found *)
(* again by its natural key alone.                                         *)
(*                                                                         *)
(* A NetBox row is the set of columns that carry the value the spec gives  *)
(* them.  References resolve and are lost in any order.                    *)
(***************************************************************************)
EXTENDS Descriptors, Naturals

CONSTANTS
  KindOf,     \* the registered descriptors, by Kind
  SchemaOf,   \* the spec fields each Kind's CRD admits
  InlineOf,   \* the spec fields a Kind turns into child resources
  MaxRows,    \* bound: objects the resource's passes may create
  MaxFaults   \* bound: lost answers, crashes, objects deleted in NetBox

\* A candidate that matches every column against its own spec field.
Straight(k) == \A c \in DOMAIN k.match : k.match[c] = c

\* Two candidates that one spec can make apply.
Coexist(k, l) == k.null \cap Range(l.match) = {} /\ l.null \cap Range(k.match) = {}

\* Beyond what Validate asks of a descriptor: candidates that apply to one spec match the same
\* deferred references, and one that matches crosswise comes with a straight one.
StableKeys(d) ==
  /\ \A k, l \in Range(d.keys) : Coexist(k, l) =>
       Range(k.match) \cap DOMAIN d.deferred = Range(l.match) \cap DOMAIN d.deferred
  /\ \A k \in Range(d.keys) : \E s \in Range(d.keys) :
       Straight(s) /\ Range(s.match) = Range(k.match) /\ s.null = k.null

ASSUME KindsAssumption ==
  \A k \in DOMAIN KindOf : Validate(KindOf[k]) /\ StableKeys(KindOf[k])

ASSUME BoundsAssumption == MaxRows \in Nat /\ MaxFaults \in Nat

VARIABLES
  kind,    \* the resource's Kind
  spec,    \* the spec fields its user set, and those set to nothing
  usable,  \* the references whose targets resolve now
  rows,    \* the NetBox objects of this Kind made for it, by id
  made,    \* how many were ever made
  id,      \* status.id; 0 while none is recorded
  pass,    \* the running pass
  ready,   \* the Ready condition's reason
  faults   \* faults so far

vars == <<kind, spec, usable, rows, made, id, pass, ready, faults>>

Idle == [at |-> "idle", resolved |-> {}, found |-> 0, live |-> {}]

Reasons == {"Unknown", "WaitingForRef", "WaitingForKey", "Invalid", "Failed",
            "Conflict", "DeferredFieldPending", "Ready"}

-----------------------------------------------------------------------------
(* The specs a user may write.  Fields no candidate reads and nothing defers
   behave alike, so they are all absent or all present. *)

KeyFields(d) == UNION {SpecFields(k) : k \in Range(d.keys)}

Focus(k) == KeyFields(KindOf[k]) \cup DOMAIN KindOf[k].deferred

Admitted(k) ==
  LET s == SchemaOf[k]
      Rest == s.optional \ Focus(k)
      Unset == {s.always \cup chosen \cup rest :
                  chosen \in SUBSET (s.optional \cap Focus(k)), rest \in {{}, Rest}}
  IN  {[declared |-> d, empty |-> e] :
         d \in {d \in Unset : s.oneOf = {} \/ s.oneOf \cap d # {}},
         e \in SUBSET (Emptiable(s) \cap Focus(k))}

Specs(k) == {s \in Admitted(k) : s.empty \subseteq s.declared}

\* Whatever else its user sets, a spec that sets to nothing no field which a candidate pins to
\* null gives one candidate its values: fields that are set, none of them deferred.
ASSUME SpecsAreKeyed ==
  \A k \in DOMAIN KindOf : \A s \in Specs(k) :
    LET d == KindOf[k]
        own == s.declared \ (InlineOf[k] \cup {d.duplicate})
    IN  \/ \E key \in Range(d.keys) : key.null \cap s.empty # {}
        \/ \E key \in Range(d.keys) :
             /\ Range(key.match) \subseteq own \ (s.empty \cup DOMAIN d.deferred)
             /\ key.null \cap own = {}

-----------------------------------------------------------------------------
(* What a pass makes of the spec: specOf, dropInlineChildren, desired. *)

desc == KindOf[kind]

\* The fields that are about this object rather than about its children or its lookup.
Declared == spec.declared \ (InlineOf[kind] \cup {desc.duplicate})

Values == Declared \ spec.empty

Unmapped == Declared \ Fields(desc)

ToResolve == Values \cap (RefFields(desc) \cup DOMAIN desc.unions)

ResolvedNow == (Values \cap desc.plain) \cup (ToResolve \cap usable)

\* Mutant: a missing reference never withholds the write.
BlockedNone == {}

\* An unresolved reference withholds the write, unless the Kind defers that field.
BlockedRefs == (ToResolve \ usable) \ DOMAIN desc.deferred

\* Mutant: the create carries the plain columns, and a later PATCH the references.
createPlain(resolved) == resolved \cap desc.plain

\* Mutant: the create carries whatever has resolved.
createAll(resolved) == resolved

\* The create leaves out every field that is always deferred.
createPayload(resolved) ==
  {f \in resolved : ~(f \in DOMAIN desc.deferred /\ desc.deferred[f] = "Always")}

\* NetBox refuses a create that carries a column only an existing object can hold: an
\* address becomes a device's primary address after it is assigned to that device.
NetBoxTakes(payload) ==
  \A f \in payload \cap DOMAIN desc.deferred : desc.deferred[f] # "Always"

\* NetBox's answer to a lookup; the two ends of a link are never the same interface.
Matches(k, row) ==
  /\ \A c \in DOMAIN k.match : k.match[c] = c /\ c \in row
  /\ k.null \cap row = {}

Hits(k) == {r \in DOMAIN rows : Matches(k, rows[r])}

-----------------------------------------------------------------------------
Init ==
  /\ kind \in DOMAIN KindOf
  /\ spec \in Specs(kind)
  /\ usable = {} /\ rows = Nothing /\ made = 0 /\ id = 0
  /\ pass = Idle /\ ready = "Unknown" /\ faults = 0

-----------------------------------------------------------------------------
(* The pass. *)

End(reason) ==
  /\ pass' = Idle /\ ready' = reason

\* build: a spec field nothing maps stops the pass, and a missing reference makes it wait.
Build ==
  /\ pass.at = "idle"
  /\ UNCHANGED <<kind, spec, usable, rows, made, id, faults>>
  /\ \/ Unmapped # {} /\ End("Invalid")
     \/ Unmapped = {} /\ BlockedRefs # {} /\ End("WaitingForRef")
     \/ /\ Unmapped = {} /\ BlockedRefs = {}
        /\ pass' = [Idle EXCEPT !.at = "locate", !.resolved = ResolvedNow]
        /\ UNCHANGED ready

\* locate and lookup: by id while the object is there, else by each candidate in turn.
Locate ==
  /\ pass.at = "locate"
  /\ UNCHANGED <<kind, spec, usable, rows, made, faults>>
  /\ LET candidates == Candidates(desc, Declared, pass.resolved)
         found == {i \in candidates : Hits(desc.keys[i]) # {}}
         first == Hits(desc.keys[CHOOSE i \in found : \A j \in found : i <= j])
     IN  \/ /\ id \in DOMAIN rows
            /\ pass' = [pass EXCEPT !.at = "update", !.found = id]
            /\ UNCHANGED <<id, ready>>
         \/ /\ id \notin DOMAIN rows /\ id' = 0
            /\ \/ candidates = {} /\ End("WaitingForKey")
               \/ /\ candidates # {} /\ found = {}
                  /\ pass' = [pass EXCEPT !.at = "create"] /\ UNCHANGED ready
               \/ /\ found # {} /\ Cardinality(first) > 1
                  /\ End("Conflict")
               \/ /\ found # {} /\ Cardinality(first) = 1
                  /\ pass' = [pass EXCEPT !.at = "update",
                                          !.found = CHOOSE r \in first : TRUE]
                  /\ UNCHANGED ready

\* create: NetBox makes the object or refuses it; its answer may never arrive.
Create ==
  /\ pass.at = "create" /\ made < MaxRows
  /\ UNCHANGED <<kind, spec, usable, id>>
  /\ LET payload == createPayload(pass.resolved)
     IN  \/ /\ ~NetBoxTakes(payload) /\ End("Failed")
            /\ UNCHANGED <<rows, made, faults>>
         \/ /\ NetBoxTakes(payload)
            /\ made' = made + 1
            /\ rows' = [r \in DOMAIN rows \cup {made + 1} |-> IF r <= made THEN rows[r] ELSE payload]
            /\ \/ /\ pass' = [pass EXCEPT !.at = "record", !.found = made + 1, !.live = payload]
                  /\ UNCHANGED <<ready, faults>>
               \/ faults < MaxFaults /\ faults' = faults + 1 /\ End("Failed")

\* update: a PATCH of every column that differs; the object may be gone by then.
Update ==
  /\ pass.at = "update"
  /\ UNCHANGED <<kind, spec, usable, made, id, faults>>
  /\ \/ /\ pass.found \notin DOMAIN rows /\ End("Failed") /\ UNCHANGED rows
     \/ /\ pass.found \in DOMAIN rows
        /\ LET row == rows[pass.found] \cup pass.resolved
           IN  /\ rows' = [rows EXCEPT ![pass.found] = row]
               /\ pass' = [pass EXCEPT !.at = "record", !.live = row]
        /\ UNCHANGED ready

\* Mutant: a field that is always deferred is not looked for in the object.
RecordEarly ==
  /\ pass.at = "record" /\ id' = pass.found
  /\ End(IF ToResolve \ pass.resolved # {} THEN "WaitingForRef" ELSE "Ready")
  /\ UNCHANGED <<kind, spec, usable, rows, made, faults>>

\* settle and finish: the id, and whether every deferred field has arrived.
Record ==
  /\ pass.at = "record"
  /\ id' = pass.found
  /\ LET pending == (Values \cap DOMAIN desc.deferred) \ pass.live
     IN  End(IF ToResolve \ pass.resolved # {} THEN "WaitingForRef"
             ELSE IF pending # {} THEN "DeferredFieldPending"
             ELSE "Ready")
  /\ UNCHANGED <<kind, spec, usable, rows, made, faults>>

-----------------------------------------------------------------------------
(* What happens around it. *)

\* A target becomes usable; the references no candidate reads do so together.  A pass works
\* from the references it resolved when it began, so a change during it is one after it.
Resolve ==
  /\ pass.at = "idle"
  /\ \E f \in ToResolve \ usable :
       usable' = usable \cup (IF f \in Focus(kind) THEN {f} ELSE ToResolve \ Focus(kind))
  /\ UNCHANGED <<kind, spec, rows, made, id, pass, ready, faults>>

\* A target fails, is deleted, or is no longer granted.
Lose ==
  /\ pass.at = "idle"
  /\ \E f \in usable :
       usable' = usable \ (IF f \in Focus(kind) THEN {f} ELSE ToResolve \ Focus(kind))
  /\ UNCHANGED <<kind, spec, rows, made, id, pass, ready, faults>>

Fault == faults < MaxFaults /\ faults' = faults + 1 /\ UNCHANGED <<kind, spec, made>>

\* The process dies in mid-pass; nothing but the object's own state survives.
Crash ==
  /\ Fault /\ pass.at # "idle" /\ pass' = Idle
  /\ UNCHANGED <<usable, rows, id, ready>>

\* Somebody deletes the object in NetBox.
Vanish ==
  /\ Fault /\ \E r \in DOMAIN rows : rows' = Restrict(rows, DOMAIN rows \ {r})
  /\ UNCHANGED <<usable, id, pass, ready>>

Pass == Build \/ Locate \/ Create \/ Update \/ Record

Next == Pass \/ Resolve \/ Lose \/ Crash \/ Vanish

Spec == Init /\ [][Next]_vars

\* Every pass ends in a requeue or an error the workqueue retries, so passes never stop.
FairSpec == Spec /\ WF_vars(Pass)

-----------------------------------------------------------------------------
(* Properties. *)

\* At no time are there two NetBox objects for one resource, whatever its Kind and spec: not
\* after a lost answer or a crash, and not while references come and go (generic.go lookup,
\* deferred.go createPayload, registry.go validateDeferred).
OneRow == Cardinality(DOMAIN rows) <= 1

\* Ready=True is reported only of an object that carries every field the user set, deferred
\* ones included (status.go ready, deferred.go settle).
ReadyMeansCarried ==
  ready = "Ready" /\ id \in DOMAIN rows => Values \subseteq rows[id]

\* The only specs that leave an object without a natural key are those that set a field to
\* nothing which a candidate pins to null (naturalkey.go Applicable).
Emptied == \E k \in Range(desc.keys) : k.null \cap spec.empty # {}

Keyed == ready = "WaitingForKey" => Emptied

\* A union a user wrote as {} says the column is null, so a candidate that pins it to null
\* applies: docs/reference says so of a MAC address and of a wireless LAN.
EmptyUnionKeyed == ready = "WaitingForKey" => spec.empty \cap DOMAIN desc.unions = {}

\* Once its references stay usable, every such resource gets its object and becomes Ready.
Identified ==
  <>[](ToResolve \subseteq usable) => <>[](ready = "Ready" \/ Emptied)
=============================================================================
