------------------------ MODULE VirtualizationKinds -------------------------
(* The Kinds of NetBox's virtualization app: clusters, virtual machines and their parts. *)
EXTENDS Scopes

\* Cluster is found by groupRef and name, else by name with no groupRef.
NetBoxClusterSpec ==
  WithUnions(Schema({"name", "typeRef", "status"},
                    {"groupRef", "scope", "tenantRef", "description", "comments"},
                    {"description", "comments"}), [scope |-> ScopeRef])
virtualizationClusterDescriptor ==
  Descriptor([
    plain |-> {"name", "status", "description", "comments"},
    one |-> [typeRef |-> "ClusterType", groupRef |-> "ClusterGroup", tenantRef |-> "Tenant"],
    keys |-> << Key({"groupRef", "name"}, {}), Key({"name"}, {"groupRef"}) >>,
    unions |-> [scope |-> ScopeFK], containment |-> "scope"])

\* ClusterGroup is found by slug.
NetBoxClusterGroupSpec ==
  Schema({"name", "slug"},
         {"description"},
         {"description"})
virtualizationClusterGroupDescriptor ==
  Descriptor([
    plain |-> {"name", "slug", "description"}, keys |-> << Key({"slug"}, {}) >>])

\* ClusterType is found by slug.
NetBoxClusterTypeSpec ==
  Schema({"name", "slug"},
         {"description"},
         {"description"})
virtualizationClusterTypeDescriptor ==
  Descriptor([
    plain |-> {"name", "slug", "description"}, keys |-> << Key({"slug"}, {}) >>])

\* VirtualDisk is found by virtualMachineRef and name.
NetBoxVirtualDiskSpec ==
  Schema({"virtualMachineRef", "name", "size"},
         {"description"},
         {"description"})
virtualizationVirtualDiskDescriptor ==
  Descriptor([
    plain |-> {"name", "size", "description"},
    one |-> [virtualMachineRef |-> "VirtualMachine"], cascades |-> {"virtualMachineRef"},
    keys |-> << Key({"virtualMachineRef", "name"}, {}) >>,
    containment |-> "virtualMachineRef"])

\* VirtualMachine is found by name, clusterRef and tenantRef, else by name and
\* clusterRef with no tenantRef, else by name, deviceRef and tenantRef with no
\* clusterRef, else by name and deviceRef with no clusterRef or tenantRef, else by name
\* and siteRef with no clusterRef or deviceRef.
NetBoxVirtualMachineSpec ==
  WithOneOf(Schema({"name", "status", "startOnBoot"},
                   {"clusterRef", "siteRef", "deviceRef", "roleRef", "platformRef",
                    "tenantRef", "vcpus", "memory", "disk", "serial", "primaryIP4Ref",
                    "primaryIP6Ref", "description", "comments", "localContextData",
                    "interfaces", "disks"},
                   {"vcpus", "serial", "description", "comments", "interfaces",
                    "disks"}), {"clusterRef", "siteRef", "deviceRef"})
virtualizationVirtualMachineKeys ==
  << Key({"name", "clusterRef", "tenantRef"}, {}),
     Key({"name", "clusterRef"}, {"tenantRef"}),
     Key({"name", "deviceRef", "tenantRef"}, {"clusterRef"}),
     Key({"name", "deviceRef"}, {"clusterRef", "tenantRef"}),
     Key({"name", "siteRef"}, {"clusterRef", "deviceRef"}) >>
virtualizationVirtualMachineDescriptor ==
  Descriptor([
    plain |-> {"name", "status", "startOnBoot", "vcpus", "memory", "disk", "serial",
               "description", "comments", "localContextData"},
    nullable |-> {"vcpus"},
    one |-> [clusterRef |-> "Cluster", siteRef |-> "Site", deviceRef |-> "Device",
             roleRef |-> "DeviceRole", platformRef |-> "Platform", tenantRef |-> "Tenant",
             primaryIP4Ref |-> "IPAddress", primaryIP6Ref |-> "IPAddress"],
    keys |-> virtualizationVirtualMachineKeys,
    deferred |-> [primaryIP4Ref |-> "Always", primaryIP6Ref |-> "Always"]])

\* VMInterface is found by virtualMachineRef and name.
NetBoxVMInterfaceSpec ==
  Schema({"virtualMachineRef", "name"},
         {"enabled", "mtu", "mode", "parentRef", "bridgeRef", "untaggedVLANRef",
          "taggedVLANs", "qinqSVLANRef", "vrfRef", "vlanTranslationPolicyRef",
          "description"},
         {"taggedVLANs", "description"})
virtualizationVMInterfaceDescriptor ==
  Descriptor([
    plain |-> {"name", "enabled", "mtu", "mode", "description"},
    one |-> [virtualMachineRef |-> "VirtualMachine", parentRef |-> "VMInterface",
             bridgeRef |-> "VMInterface", untaggedVLANRef |-> "VLAN",
             qinqSVLANRef |-> "VLAN", vrfRef |-> "VRF",
             vlanTranslationPolicyRef |-> "VLANTranslationPolicy"],
    many |-> [taggedVLANs |-> "VLAN"], cascades |-> {"virtualMachineRef"},
    keys |-> << Key({"virtualMachineRef", "name"}, {}) >>,
    deferred |-> [parentRef |-> "IfUnresolved", bridgeRef |-> "IfUnresolved",
                  qinqSVLANRef |-> "IfUnresolved"],
    containment |-> "virtualMachineRef"])
=============================================================================
