---------------------------- MODULE Descriptors -----------------------------
(***************************************************************************)
(* The registry's vocabulary (internal/registry): a Kind is a descriptor,  *)
(* a value that says which spec fields it has, which of them are           *)
(* references and to what, which columns identify its NetBox object, and   *)
(* which fields wait for a second write.  The reconcile engine interprets  *)
(* descriptors; no Kind has code of its own.                               *)
(*                                                                         *)
(* A column is named by the spec field that writes it, and a generic       *)
(* foreign key (a type column and an id column, always written and matched *)
(* together) by the one spec field that holds the union.                   *)
(***************************************************************************)
EXTENDS FiniteSets, Functions, Sequences, TLC

None == "None"

\* No fields: the empty function.
Nothing == << >>

\* One natural-key candidate: the columns it matches, each against the value of a spec
\* field, and the columns it pins to null.
KeyOn(match, null) == [match |-> match, null |-> null]

\* The usual candidate: every column is matched against its own spec field.
Key(match, null) == KeyOn([f \in match |-> f], null)

\* A polymorphic reference: its members and their target Kinds, the object types NetBox
\* accepts, the targets whose deletion takes this object along, and whether it is a list.
Union(members, cascades, list) == [members |-> members, cascades |-> cascades, list |-> list]

\* A descriptor; what a Kind does not state is its zero value.
Descriptor(fields) ==
  fields @@ [plain |-> {}, one |-> Nothing, many |-> Nothing, unions |-> Nothing,
             nullable |-> {}, keys |-> << >>, deferred |-> Nothing, cascades |-> {},
             containment |-> None, updates |-> "Patch", recreateOn |-> {},
             duplicate |-> None, reserved |-> None, dataLoss |-> FALSE]

\* What a CRD's schema admits of a spec: the fields that are always set (required, or given
\* a default), the ones that may be, the ones that may be set to nothing ("" or []), the
\* unions, and a set of references of which one must be set.
Schema(always, optional, emptiable) ==
  [always |-> always, optional |-> optional, emptiable |-> emptiable,
   unions |-> Nothing, oneOf |-> {}]

\* A union struct's members, and how many of them must be set.
Choice(members, least) == [members |-> members, least |-> least]

WithUnions(schema, unions) == [schema EXCEPT !.unions = unions]

WithOneOf(schema, fields) == [schema EXCEPT !.oneOf = fields]

\* A struct embedded in the spec.
Including(embedded, schema) ==
  [schema EXCEPT !.always = @ \cup embedded.always,
                 !.optional = @ \cup embedded.optional,
                 !.emptiable = @ \cup embedded.emptiable]

\* The fields a user may set to nothing: a union that needs no member may be written {}.
Emptiable(schema) ==
  schema.emptiable \cup {u \in DOMAIN schema.unions : schema.unions[u].least = 0}

-----------------------------------------------------------------------------
\* Field.Class.Ref() and the unions: the spec fields the resolver has to resolve.
RefFields(d) == DOMAIN d.one \cup DOMAIN d.many

Fields(d) == d.plain \cup RefFields(d) \cup DOMAIN d.unions

Targets(d, f) ==
  CASE f \in DOMAIN d.one    -> {d.one[f]}
    [] f \in DOMAIN d.many   -> {d.many[f]}
    [] f \in DOMAIN d.unions -> Range(d.unions[f].members)
    [] OTHER                 -> {}

\* The spec fields a candidate reads, matched and pinned alike.
SpecFields(k) == Range(k.match) \cup k.null

\* A candidate matches only on fields that hold a value now, and pins a column to null only
\* when its field was never declared.
Applicable(k, declared, resolved) ==
  /\ Range(k.match) \subseteq resolved
  /\ k.null \cap declared = {}

\* The candidates to try, by their place in the list.
Candidates(d, declared, resolved) ==
  {i \in DOMAIN d.keys : Applicable(d.keys[i], declared, resolved)}

\* The Kinds this one is contained in: its owner reference and its garbage collection.
ContainmentTargets(d) == Targets(d, d.containment)

CascadesFrom(d, f, target) ==
  IF f \in DOMAIN d.unions THEN target \in d.unions[f].cascades ELSE f \in d.cascades

-----------------------------------------------------------------------------
\* Descriptor.Validate, which the operator runs over every descriptor before it starts.
ValidKeys(d) ==
  /\ d.keys # << >>
  /\ \A k \in Range(d.keys) :
       /\ DOMAIN k.match # {}
       /\ DOMAIN k.match \cap k.null = {}
       /\ SpecFields(k) \subseteq Fields(d)
       /\ SpecFields(k) \cap DOMAIN d.many = {}

\* A field the create never carries cannot be one the object is found by.
ValidDeferred(d) ==
  /\ Range(d.deferred) \subseteq {"Always", "IfUnresolved"}
  /\ \A f \in DOMAIN d.deferred, k \in Range(d.keys) :
       d.deferred[f] = "Always" => f \notin DOMAIN k.match

ValidFields(d) ==
  /\ d.plain \cup RefFields(d) # {}
  /\ d.plain \cap RefFields(d) = {} /\ DOMAIN d.one \cap DOMAIN d.many = {}
  /\ d.cascades \subseteq RefFields(d)
  /\ d.reserved \in Fields(d) \cup {None}

\* Containment is a reference to one object whose deletion NetBox cascades.
ValidContainment(d) ==
  d.containment # None =>
    /\ d.containment \in DOMAIN d.one \cup DOMAIN d.unions
    /\ \E t \in ContainmentTargets(d) : CascadesFrom(d, d.containment, t)

ValidUnions(d) ==
  \A u \in DOMAIN d.unions :
    /\ u \notin d.plain \cup RefFields(d)
    /\ DOMAIN d.unions[u].members # {}

ValidUpdates(d) ==
  /\ d.updates \in {"Patch", "Recreate"}
  /\ d.recreateOn # {} => d.updates = "Recreate"

Validate(d) ==
  /\ ValidKeys(d)
  /\ ValidDeferred(d)
  /\ ValidFields(d)
  /\ ValidContainment(d)
  /\ ValidUnions(d)
  /\ ValidUpdates(d)
=============================================================================
