---------------------------- MODULE InlineKinds -----------------------------
(***************************************************************************)
(* What the inline lists of a spec may say, and the child each entry is    *)
(* rendered to (api/v1alpha1, the files named _inline).  Children models   *)
(* what the materialiser does with them.                                   *)
(*                                                                         *)
(* An entry that sets an optional field to nothing does not set it: the    *)
(* apply drops it.  So an entry has no emptiable fields.                   *)
(***************************************************************************)
EXTENDS Catalogue

\* A child's spec: the fields that name its parent or a sibling, whatever the entry says, and
\* the ones that are taken from a field of the entry.
Rendered(kind, key, entry, fixed, from) ==
  [kind |-> kind, key |-> key, entry |-> entry, fixed |-> fixed, from |-> from]

Same(fields) == [f \in fields |-> f]

-----------------------------------------------------------------------------
(* A device's interfaces and their addresses. *)

InlineInterface ==
  Schema({"name", "type"},
         {"label", "enabled", "mgmtOnly", "mtu", "speed", "duplex", "mode", "poeMode", "poeType",
          "lag", "parent", "bridge", "untaggedVLANRef", "taggedVLANs", "vrfRef",
          "description", "addresses"}, {})

InlineIPAddress == Schema({"address"}, {"status", "vrfRef", "dnsName"}, {})

\* A sibling is named by its key in the entry, and by its derived name in the child.
siblingInterfaceRef == [lagRef |-> "lag", parentRef |-> "parent", bridgeRef |-> "bridge"]

deviceInterface ==
  Rendered("Interface", "name", InlineInterface, {"deviceRef"},
           siblingInterfaceRef
             @@ Same({"name", "type", "label", "enabled", "mgmtOnly", "mtu", "speed", "duplex",
                      "mode", "poeMode", "poeType", "untaggedVLANRef", "taggedVLANs", "vrfRef",
                      "description"}))

deviceAddress ==
  Rendered("IPAddress", "address", InlineIPAddress, {"assignedObject"},
           Same({"address", "status", "vrfRef", "dnsName"}))

-----------------------------------------------------------------------------
(* A virtual machine's interfaces, their addresses, and its disks. *)

InlineVMInterface ==
  Schema({"name"}, {"enabled", "mtu", "mode", "vrfRef", "untaggedVLANRef", "taggedVLANs",
                    "description", "addresses"}, {})

\* An entry that states its address; the other form, InlineAddressClaim, states a prefix to
\* claim one from and nothing else, and yields a claim (ClaimEngine).
InlineVMAddress ==
  Schema({"address"}, {"primary", "status", "role", "vrfRef", "dnsName", "description"}, {})

InlineVirtualDisk == Schema({"name", "size"}, {"description"}, {})

vmInterface ==
  Rendered("VMInterface", "name", InlineVMInterface, {"virtualMachineRef"},
           Same({"name", "enabled", "mtu", "mode", "vrfRef", "untaggedVLANRef", "taggedVLANs",
                 "description"}))

vmAddress ==
  Rendered("IPAddress", "address", InlineVMAddress, {"assignedObject"},
           Same({"address", "vrfRef", "status", "role", "dnsName", "description"}))

virtualDisk ==
  Rendered("VirtualDisk", "name", InlineVirtualDisk, {"virtualMachineRef"},
           Same({"name", "size", "description"}))

-----------------------------------------------------------------------------
(* A translation policy's rules. *)

InlineVLANTranslationRule == Schema({"localVID", "remoteVID"}, {"description"}, {})

translationRule ==
  Rendered("VLANTranslationRule", "localVID", InlineVLANTranslationRule, {"policyRef"},
           Same({"localVID", "remoteVID", "description"}))

InlineChildren ==
  {deviceInterface, deviceAddress, vmInterface, vmAddress, virtualDisk, translationRule}

\* The key fields a child declares, over what its entry may leave out.
Declares(r) ==
  LET keyed == UNION {SpecFields(k) : k \in Range(Registry[r.kind].keys)}
  IN  {(r.fixed \cup {f \in DOMAIN r.from : r.from[f] \in r.entry.always \cup some}) \cap keyed :
         some \in SUBSET {f \in r.entry.optional : \E c \in keyed \cap DOMAIN r.from : r.from[c] = f}}

\* The child's CRD takes every field that is written, and every one it requires is written;
\* the status of an address is the CRD's own default.
Fits(r) ==
  LET schema == Schemas[r.kind]
      written == r.fixed \cup DOMAIN r.from
  IN  /\ written \subseteq schema.always \cup schema.optional
      /\ schema.always \ {"status"}
           \subseteq r.fixed \cup {f \in DOMAIN r.from : r.from[f] \in r.entry.always}
      /\ Range(r.from) \subseteq r.entry.always \cup r.entry.optional

\* Whatever the entry leaves out, its child can be found.
Findable(r) == \A d \in Declares(r) : Candidates(Registry[r.kind], d, d) # {}

\* A candidate that reads the entry's key tells two entries of one list apart.
Tells(r, i) == r.key \in Range(Registry[r.kind].keys[i].match)

\* A child's deletion follows its parent's.
Contained(r) == Registry[r.kind].containment \in r.fixed \cup {None}

\* Every child an inline entry yields is one its Kind admits, finds and contains
\* (dcim_device_inline.go, virtualization_virtualmachine_inline.go,
\* ipam_vlantranslationpolicy_inline.go).
ASSUME InlineEntriesFit == \A r \in InlineChildren : Fits(r) /\ Findable(r) /\ Contained(r)

\* Two entries of one list are two objects.  Only a translation rule may also be found by
\* something other than its key: by its remote VID, which another entry may take over.
ASSUME EntriesAreApart ==
  \A r \in InlineChildren \ {translationRule} :
    \A d \in Declares(r) : \A i \in Candidates(Registry[r.kind], d, d) : Tells(r, i)

-----------------------------------------------------------------------------
(* The reference a virtual machine's spec derives from its own inline addresses. *)

primaryRefField(a) == IF a.v6 THEN "primaryIP6Ref" ELSE "primaryIP4Ref"

inlinePrimaries(vm) == {a \in vm.addresses : a.primary}

\* The CRD's own rule: at most one primary of a family on each interface.
AdmittedVM(vm) ==
  \A a, b \in inlinePrimaries(vm) : a.on = b.on /\ a.v6 = b.v6 => a = b

\* DerivedRefs: two primaries of one family, or one besides an explicit reference, are refused.
Clash(vm) ==
  \/ \E a, b \in inlinePrimaries(vm) : a # b /\ a.v6 = b.v6
  \/ \E a \in inlinePrimaries(vm) : primaryRefField(a) \in vm.explicit

DerivedRefs(vm) ==
  IF Clash(vm) THEN [err |-> "Conflict", refs |-> {}]
  ELSE [err |-> None,
        refs |-> {[field |-> primaryRefField(a), child |-> <<a.on, a.address>>] :
                    a \in inlinePrimaries(vm)}]

\* Two interfaces, with two IPv4 addresses and an IPv6 one to choose from.
SmallVMs ==
  LET entries == {e \in [on : {"eth0", "eth1"}, address : {"a4", "b4", "c6"}, v6 : BOOLEAN,
                         primary : BOOLEAN] : e.v6 = (e.address = "c6")}
  IN  {vm \in [addresses : {s \in SUBSET entries : Cardinality(s) <= 4},
               explicit : SUBSET {"primaryIP4Ref", "primaryIP6Ref"}] : AdmittedVM(vm)}

\* A derived reference waits for a child that waits for the machine itself: the machine must
\* be created without it, and no column may be written twice.
ASSUME DerivedRefsDefer ==
  \A vm \in SmallVMs :
    LET d == DerivedRefs(vm)
    IN  /\ \A x, y \in d.refs : x.field = y.field => x = y
        /\ \A x \in d.refs :
             /\ x.field \notin vm.explicit
             /\ Registry["VirtualMachine"].deferred[x.field] = "Always"
             /\ Registry["VirtualMachine"].one[x.field] = vmAddress.kind
=============================================================================
