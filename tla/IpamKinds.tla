----------------------------- MODULE IpamKinds ------------------------------
(* The Kinds of NetBox's ipam app: addresses, prefixes, VLANs and what they belong to. *)
EXTENDS Scopes

\* At most one of these members.
IPAssignment ==
  Choice({"interfaceRef", "vmInterfaceRef", "fhrpGroupRef"}, 0)

\* Exactly one of these members.
FHRPInterface ==
  Choice({"interfaceRef", "vmInterfaceRef"}, 1)

\* Exactly one of these members.
ServiceParent ==
  Choice({"deviceRef", "virtualMachineRef", "fhrpGroupRef"}, 1)

\* The interface a group is assigned to.
fhrpInterfaceFK ==
  Union([interfaceRef |-> "Interface", vmInterfaceRef |-> "VMInterface"],
        {"Interface", "VMInterface"}, FALSE)

\* What a service runs on.
serviceParentFK ==
  Union([deviceRef |-> "Device", virtualMachineRef |-> "VirtualMachine",
         fhrpGroupRef |-> "FHRPGroup"],
        {"Device", "VirtualMachine", "FHRPGroup"}, FALSE)

\* Aggregate is found by prefix and rirRef.
NetBoxAggregateSpec ==
  Schema({"prefix", "rirRef"},
         {"tenantRef", "dateAdded", "description", "comments"},
         {"dateAdded", "description", "comments"})
ipamAggregateDescriptor ==
  Descriptor([
    plain |-> {"prefix", "dateAdded", "description", "comments"},
    nullable |-> {"dateAdded"}, one |-> [rirRef |-> "RIR", tenantRef |-> "Tenant"],
    keys |-> << Key({"prefix", "rirRef"}, {}) >>])

\* ASN is found by asn.
NetBoxASNSpec ==
  Schema({"asn", "rirRef"},
         {"roleRef", "tenantRef", "description", "comments"},
         {"description", "comments"})
ipamASNDescriptor ==
  Descriptor([
    plain |-> {"asn", "description", "comments"},
    one |-> [rirRef |-> "RIR", roleRef |-> "Role", tenantRef |-> "Tenant"],
    keys |-> << Key({"asn"}, {}) >>])

\* ASNRange is found by slug.
NetBoxASNRangeSpec ==
  Schema({"name", "slug", "rirRef", "start", "end"},
         {"tenantRef", "description", "comments"},
         {"description", "comments"})
ipamASNRangeDescriptor ==
  Descriptor([
    plain |-> {"name", "slug", "start", "end", "description", "comments"},
    one |-> [rirRef |-> "RIR", tenantRef |-> "Tenant"], keys |-> << Key({"slug"}, {}) >>])

\* FHRPGroup is found by protocol and groupId.
NetBoxFHRPGroupSpec ==
  Schema({"groupId", "protocol"},
         {"name", "authType", "description", "comments"},
         {"name", "description", "comments"})
ipamFHRPGroupDescriptor ==
  Descriptor([
    plain |-> {"groupId", "protocol", "name", "authType", "description", "comments"},
    keys |-> << Key({"protocol", "groupId"}, {}) >>])

\* FHRPGroupAssignment is found by interface and groupRef.
NetBoxFHRPGroupAssignmentSpec ==
  WithUnions(Schema({"interface", "groupRef", "priority"},
                    {},
                    {}), [interface |-> FHRPInterface])
ipamFHRPGroupAssignmentDescriptor ==
  Descriptor([
    plain |-> {"priority"}, one |-> [groupRef |-> "FHRPGroup"],
    cascades |-> {"groupRef"}, keys |-> << Key({"interface", "groupRef"}, {}) >>,
    unions |-> [interface |-> fhrpInterfaceFK], containment |-> "groupRef"])

\* IPAddress is found by address and vrfRef, else by address with no vrfRef.
NetBoxIPAddressSpec ==
  WithUnions(Schema({"address", "status"},
                    {"allowDuplicate", "vrfRef", "role", "assignedObject",
                     "natInsideRef", "dnsName", "description", "comments"},
                    {"role", "dnsName", "description", "comments"}), [assignedObject |-> IPAssignment])
ipamIPAddressDescriptor ==
  Descriptor([
    plain |-> {"address", "status", "role", "dnsName", "description", "comments"},
    one |-> [vrfRef |-> "VRF", natInsideRef |-> "IPAddress"],
    keys |-> << Key({"address", "vrfRef"}, {}), Key({"address"}, {"vrfRef"}) >>,
    unions |-> [assignedObject |-> Union([interfaceRef |-> "Interface", vmInterfaceRef |-> "VMInterface", fhrpGroupRef |-> "FHRPGroup"],
                {}, FALSE)],
    duplicate |-> "allowDuplicate"])

\* IPRange is found by startAddress, endAddress and vrfRef, else by startAddress and
\* endAddress with no vrfRef.
NetBoxIPRangeSpec ==
  Schema({"startAddress", "endAddress", "status"},
         {"vrfRef", "tenantRef", "roleRef", "markPopulated", "markUtilized",
          "description", "comments"},
         {"description", "comments"})
ipamIPRangeDescriptor ==
  Descriptor([
    plain |-> {"startAddress", "endAddress", "status", "markPopulated", "markUtilized",
               "description", "comments"},
    one |-> [vrfRef |-> "VRF", tenantRef |-> "Tenant", roleRef |-> "Role"],
    keys |-> << Key({"startAddress", "endAddress", "vrfRef"}, {}),
                Key({"startAddress", "endAddress"}, {"vrfRef"}) >>])

\* Prefix is found by prefix and vrfRef, else by prefix with no vrfRef.
NetBoxPrefixSpec ==
  WithUnions(Schema({"prefix", "status"},
                    {"scope", "vrfRef", "vlanRef", "roleRef", "isPool", "markUtilized",
                     "description", "comments"},
                    {"description", "comments"}), [scope |-> ScopeRef])
ipamPrefixDescriptor ==
  Descriptor([
    plain |-> {"prefix", "status", "isPool", "markUtilized", "description", "comments"},
    one |-> [vrfRef |-> "VRF", vlanRef |-> "VLAN", roleRef |-> "Role"],
    keys |-> << Key({"prefix", "vrfRef"}, {}), Key({"prefix"}, {"vrfRef"}) >>,
    unions |-> [scope |-> ScopeFK], containment |-> "scope"])

\* RIR is found by slug.
NetBoxRIRSpec ==
  Schema({"name", "slug"},
         {"isPrivate", "description", "comments"},
         {"description", "comments"})
ipamRIRDescriptor ==
  Descriptor([
    plain |-> {"name", "slug", "isPrivate", "description", "comments"},
    keys |-> << Key({"slug"}, {}) >>])

\* Role is found by slug.
NetBoxRoleSpec ==
  Schema({"name", "slug"},
         {"weight", "description", "comments"},
         {"description", "comments"})
ipamRoleDescriptor ==
  Descriptor([
    plain |-> {"name", "slug", "weight", "description", "comments"},
    keys |-> << Key({"slug"}, {}) >>])

\* RouteTarget is found by name.
NetBoxRouteTargetSpec ==
  Schema({"name"},
         {"description", "comments"},
         {"description", "comments"})
ipamRouteTargetDescriptor ==
  Descriptor([
    plain |-> {"name", "description", "comments"}, keys |-> << Key({"name"}, {}) >>])

\* Service is found by parent, name and protocol.
NetBoxServiceSpec ==
  WithUnions(Schema({"parent", "name", "protocol", "ports"},
                    {"ipAddresses", "description", "comments"},
                    {"ipAddresses", "description", "comments"}), [parent |-> ServiceParent])
ipamServiceDescriptor ==
  Descriptor([
    plain |-> {"name", "protocol", "ports", "description", "comments"},
    many |-> [ipAddresses |-> "IPAddress"],
    keys |-> << Key({"parent", "name", "protocol"}, {}) >>,
    unions |-> [parent |-> serviceParentFK], containment |-> "parent"])

\* ServiceTemplate is found by name.
NetBoxServiceTemplateSpec ==
  Schema({"name", "protocol", "ports"},
         {"description", "comments"},
         {"description", "comments"})
ipamServiceTemplateDescriptor ==
  Descriptor([
    plain |-> {"name", "protocol", "ports", "description", "comments"},
    keys |-> << Key({"name"}, {}) >>])

\* VLAN is found by groupRef and vid, else by siteRef and vid with no groupRef, else by
\* vid with no groupRef or siteRef.
NetBoxVLANSpec ==
  Schema({"vid", "name", "status"},
         {"siteRef", "groupRef", "tenantRef", "roleRef", "qinqSVLANRef", "qinqRole",
          "description", "comments"},
         {"description", "comments"})
ipamVLANDescriptor ==
  Descriptor([
    plain |-> {"vid", "name", "status", "qinqRole", "description", "comments"},
    one |-> [siteRef |-> "Site", groupRef |-> "VLANGroup", tenantRef |-> "Tenant",
             roleRef |-> "Role", qinqSVLANRef |-> "VLAN"],
    keys |-> << Key({"groupRef", "vid"}, {}), Key({"siteRef", "vid"}, {"groupRef"}),
                Key({"vid"}, {"groupRef", "siteRef"}) >>,
    deferred |-> [qinqSVLANRef |-> "Always"]])

\* VLANGroup is found by scope and slug, else by slug with no scope.
NetBoxVLANGroupSpec ==
  WithUnions(Schema({"name", "slug"},
                    {"scope", "vidRanges", "tenantRef", "description", "comments"},
                    {"vidRanges", "description", "comments"}), [scope |-> ScopeRef])
ipamVLANGroupDescriptor ==
  Descriptor([
    plain |-> {"name", "slug", "vidRanges", "description", "comments"},
    one |-> [tenantRef |-> "Tenant"],
    keys |-> << Key({"scope", "slug"}, {}), Key({"slug"}, {"scope"}) >>,
    unions |-> [scope |-> ScopeFK], containment |-> "scope"])

\* VLANTranslationPolicy is found by name.
NetBoxVLANTranslationPolicySpec ==
  Schema({"name"},
         {"description", "comments", "rules"},
         {"description", "comments", "rules"})
ipamVLANTranslationPolicyDescriptor ==
  Descriptor([
    plain |-> {"name", "description", "comments"}, keys |-> << Key({"name"}, {}) >>])

\* VLANTranslationRule is found by policyRef and localVID, else by policyRef and
\* remoteVID.
NetBoxVLANTranslationRuleSpec ==
  Schema({"policyRef", "localVID", "remoteVID"},
         {"description"},
         {"description"})
ipamVLANTranslationRuleDescriptor ==
  Descriptor([
    plain |-> {"localVID", "remoteVID", "description"},
    one |-> [policyRef |-> "VLANTranslationPolicy"], cascades |-> {"policyRef"},
    keys |-> << Key({"policyRef", "localVID"}, {}), Key({"policyRef", "remoteVID"}, {}) >>,
    containment |-> "policyRef"])

\* VRF is found by rd, else by name with no rd.
NetBoxVRFSpec ==
  Schema({"name"},
         {"rd", "enforceUnique", "importTargets", "exportTargets", "description",
          "comments"},
         {"rd", "importTargets", "exportTargets", "description", "comments"})
ipamVRFDescriptor ==
  Descriptor([
    plain |-> {"name", "rd", "enforceUnique", "description", "comments"},
    many |-> [importTargets |-> "RouteTarget", exportTargets |-> "RouteTarget"],
    keys |-> << Key({"rd"}, {}), Key({"name"}, {"rd"}) >>])
=============================================================================
