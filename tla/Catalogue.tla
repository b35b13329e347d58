----------------------------- MODULE Catalogue ------------------------------
(***************************************************************************)
(* Every Kind the operator ships: its descriptor and its CRD's schema, and *)
(* what has to hold between them and between Kinds.                        *)
(***************************************************************************)
EXTENDS DcimKinds, IpamKinds, CircuitsKinds, TenancyKinds,
        VirtualizationKinds, VpnKinds, ExtrasKinds, WirelessKinds, FiniteSetsExt, Integers

\* The registry as the init functions fill it.
Registry ==
  [Cable |-> dcimCableDescriptor, CableBundle |-> dcimCableBundleDescriptor,
   Device |-> dcimDeviceDescriptor, DeviceRole |-> dcimDeviceRoleDescriptor,
   DeviceType |-> dcimDeviceTypeDescriptor, Interface |-> dcimInterfaceDescriptor,
   Location |-> dcimLocationDescriptor, MACAddress |-> dcimMACAddressDescriptor,
   Manufacturer |-> dcimManufacturerDescriptor, Module |-> dcimModuleDescriptor,
   ModuleBay |-> dcimModuleBayDescriptor, ModuleType |-> dcimModuleTypeDescriptor,
   ModuleTypeProfile |-> dcimModuleTypeProfileDescriptor,
   Platform |-> dcimPlatformDescriptor, PowerFeed |-> dcimPowerFeedDescriptor,
   PowerPanel |-> dcimPowerPanelDescriptor, Rack |-> dcimRackDescriptor,
   RackGroup |-> dcimRackGroupDescriptor,
   RackReservation |-> dcimRackReservationDescriptor, RackRole |-> dcimRackRoleDescriptor,
   RackType |-> dcimRackTypeDescriptor, Region |-> dcimRegionDescriptor,
   Site |-> dcimSiteDescriptor, SiteGroup |-> dcimSiteGroupDescriptor,
   Aggregate |-> ipamAggregateDescriptor, ASN |-> ipamASNDescriptor,
   ASNRange |-> ipamASNRangeDescriptor, FHRPGroup |-> ipamFHRPGroupDescriptor,
   FHRPGroupAssignment |-> ipamFHRPGroupAssignmentDescriptor,
   IPAddress |-> ipamIPAddressDescriptor, IPRange |-> ipamIPRangeDescriptor,
   Prefix |-> ipamPrefixDescriptor, RIR |-> ipamRIRDescriptor,
   Role |-> ipamRoleDescriptor, RouteTarget |-> ipamRouteTargetDescriptor,
   Service |-> ipamServiceDescriptor, ServiceTemplate |-> ipamServiceTemplateDescriptor,
   VLAN |-> ipamVLANDescriptor, VLANGroup |-> ipamVLANGroupDescriptor,
   VLANTranslationPolicy |-> ipamVLANTranslationPolicyDescriptor,
   VLANTranslationRule |-> ipamVLANTranslationRuleDescriptor, VRF |-> ipamVRFDescriptor,
   Circuit |-> circuitsCircuitDescriptor, CircuitType |-> circuitsCircuitTypeDescriptor,
   Provider |-> circuitsProviderDescriptor,
   ProviderAccount |-> circuitsProviderAccountDescriptor,
   ProviderNetwork |-> circuitsProviderNetworkDescriptor,
   Contact |-> tenancyContactDescriptor,
   ContactAssignment |-> tenancyContactAssignmentDescriptor,
   ContactGroup |-> tenancyContactGroupDescriptor,
   ContactRole |-> tenancyContactRoleDescriptor, Tenant |-> tenancyTenantDescriptor,
   TenantGroup |-> tenancyTenantGroupDescriptor,
   Cluster |-> virtualizationClusterDescriptor,
   ClusterGroup |-> virtualizationClusterGroupDescriptor,
   ClusterType |-> virtualizationClusterTypeDescriptor,
   VirtualDisk |-> virtualizationVirtualDiskDescriptor,
   VirtualMachine |-> virtualizationVirtualMachineDescriptor,
   VMInterface |-> virtualizationVMInterfaceDescriptor,
   IKEPolicy |-> vpnIKEPolicyDescriptor, IKEProposal |-> vpnIKEProposalDescriptor,
   IPSecPolicy |-> vpnIPSecPolicyDescriptor, IPSecProfile |-> vpnIPSecProfileDescriptor,
   IPSecProposal |-> vpnIPSecProposalDescriptor, L2VPN |-> vpnL2VPNDescriptor,
   Tunnel |-> vpnTunnelDescriptor, TunnelGroup |-> vpnTunnelGroupDescriptor,
   ConfigContext |-> extrasConfigContextDescriptor,
   ConfigContextProfile |-> extrasConfigContextProfileDescriptor,
   ConfigTemplate |-> extrasConfigTemplateDescriptor,
   CustomField |-> extrasCustomFieldDescriptor,
   CustomFieldChoiceSet |-> extrasCustomFieldChoiceSetDescriptor,
   CustomLink |-> extrasCustomLinkDescriptor,
   ExportTemplate |-> extrasExportTemplateDescriptor,
   SavedFilter |-> extrasSavedFilterDescriptor, Tag |-> extrasTagDescriptor,
   WirelessLAN |-> wirelessWirelessLANDescriptor,
   WirelessLANGroup |-> wirelessWirelessLANGroupDescriptor,
   WirelessLink |-> wirelessWirelessLinkDescriptor]

\* The spec struct of each Kind.
Schemas ==
  [Cable |-> NetBoxCableSpec, CableBundle |-> NetBoxCableBundleSpec,
   Device |-> NetBoxDeviceSpec, DeviceRole |-> NetBoxDeviceRoleSpec,
   DeviceType |-> NetBoxDeviceTypeSpec, Interface |-> NetBoxInterfaceSpec,
   Location |-> NetBoxLocationSpec, MACAddress |-> NetBoxMACAddressSpec,
   Manufacturer |-> NetBoxManufacturerSpec, Module |-> NetBoxModuleSpec,
   ModuleBay |-> NetBoxModuleBaySpec, ModuleType |-> NetBoxModuleTypeSpec,
   ModuleTypeProfile |-> NetBoxModuleTypeProfileSpec, Platform |-> NetBoxPlatformSpec,
   PowerFeed |-> NetBoxPowerFeedSpec, PowerPanel |-> NetBoxPowerPanelSpec,
   Rack |-> NetBoxRackSpec, RackGroup |-> NetBoxRackGroupSpec,
   RackReservation |-> NetBoxRackReservationSpec, RackRole |-> NetBoxRackRoleSpec,
   RackType |-> NetBoxRackTypeSpec, Region |-> NetBoxRegionSpec, Site |-> NetBoxSiteSpec,
   SiteGroup |-> NetBoxSiteGroupSpec, Aggregate |-> NetBoxAggregateSpec,
   ASN |-> NetBoxASNSpec, ASNRange |-> NetBoxASNRangeSpec,
   FHRPGroup |-> NetBoxFHRPGroupSpec,
   FHRPGroupAssignment |-> NetBoxFHRPGroupAssignmentSpec,
   IPAddress |-> NetBoxIPAddressSpec, IPRange |-> NetBoxIPRangeSpec,
   Prefix |-> NetBoxPrefixSpec, RIR |-> NetBoxRIRSpec, Role |-> NetBoxRoleSpec,
   RouteTarget |-> NetBoxRouteTargetSpec, Service |-> NetBoxServiceSpec,
   ServiceTemplate |-> NetBoxServiceTemplateSpec, VLAN |-> NetBoxVLANSpec,
   VLANGroup |-> NetBoxVLANGroupSpec,
   VLANTranslationPolicy |-> NetBoxVLANTranslationPolicySpec,
   VLANTranslationRule |-> NetBoxVLANTranslationRuleSpec, VRF |-> NetBoxVRFSpec,
   Circuit |-> NetBoxCircuitSpec, CircuitType |-> NetBoxCircuitTypeSpec,
   Provider |-> NetBoxProviderSpec, ProviderAccount |-> NetBoxProviderAccountSpec,
   ProviderNetwork |-> NetBoxProviderNetworkSpec, Contact |-> NetBoxContactSpec,
   ContactAssignment |-> NetBoxContactAssignmentSpec,
   ContactGroup |-> NetBoxContactGroupSpec, ContactRole |-> NetBoxContactRoleSpec,
   Tenant |-> NetBoxTenantSpec, TenantGroup |-> NetBoxTenantGroupSpec,
   Cluster |-> NetBoxClusterSpec, ClusterGroup |-> NetBoxClusterGroupSpec,
   ClusterType |-> NetBoxClusterTypeSpec, VirtualDisk |-> NetBoxVirtualDiskSpec,
   VirtualMachine |-> NetBoxVirtualMachineSpec, VMInterface |-> NetBoxVMInterfaceSpec,
   IKEPolicy |-> NetBoxIKEPolicySpec, IKEProposal |-> NetBoxIKEProposalSpec,
   IPSecPolicy |-> NetBoxIPSecPolicySpec, IPSecProfile |-> NetBoxIPSecProfileSpec,
   IPSecProposal |-> NetBoxIPSecProposalSpec, L2VPN |-> NetBoxL2VPNSpec,
   Tunnel |-> NetBoxTunnelSpec, TunnelGroup |-> NetBoxTunnelGroupSpec,
   ConfigContext |-> NetBoxConfigContextSpec,
   ConfigContextProfile |-> NetBoxConfigContextProfileSpec,
   ConfigTemplate |-> NetBoxConfigTemplateSpec, CustomField |-> NetBoxCustomFieldSpec,
   CustomFieldChoiceSet |-> NetBoxCustomFieldChoiceSetSpec,
   CustomLink |-> NetBoxCustomLinkSpec, ExportTemplate |-> NetBoxExportTemplateSpec,
   SavedFilter |-> NetBoxSavedFilterSpec, Tag |-> NetBoxTagSpec,
   WirelessLAN |-> NetBoxWirelessLANSpec, WirelessLANGroup |-> NetBoxWirelessLANGroupSpec,
   WirelessLink |-> NetBoxWirelessLinkSpec]

AllKinds == DOMAIN Registry

\* An object whose deletion destroys data elsewhere is never deleted with another one.
ASSUME LossIsNeverContained ==
  \A k \in AllKinds :
    Registry[k].dataLoss => Registry[k].containment = None /\ Registry[k].cascades = {}

\* No object is found by a field that may be left out of its create.
ASSUME KeysAreNotDeferred ==
  \A k \in AllKinds : \A f \in DOMAIN Registry[k].deferred, key \in Range(Registry[k].keys) :
    f \notin Range(key.match)

\* The Kinds each Kind can wait for, through fields that are not deferred: in one step, and in up
\* to 2^7 of them, more than there are Kinds.
Awaited ==
  [k \in AllKinds |->
     LET d == Registry[k]
         F == (RefFields(d) \cup DOMAIN d.unions) \ DOMAIN d.deferred
     IN  AllKinds \cap UNION {Targets(d, f) : f \in F}]

AwaitedInSteps ==
  FoldSet(LAMBDA i, R : [k \in AllKinds |-> R[k] \cup UNION {R[j] : j \in R[k]}], Awaited, 1..7)

\* No ring of Kinds passes through a union that is not deferred: the walk for a cycle follows none.
ASSUME UnionsAreOnNoRing ==
  \E R \in {AwaitedInSteps} :
    \A k \in AllKinds : \A u \in DOMAIN Registry[k].unions \ DOMAIN Registry[k].deferred :
      \A t \in Targets(Registry[k], u) \cap AllKinds : t # k /\ k \notin R[t]

\* The spec fields that declare child resources of their own.
InlineFields ==
  [k \in AllKinds |-> CASE k = "Device"                -> {"interfaces"}
                       [] k = "VirtualMachine"        -> {"interfaces", "disks"}
                       [] k = "VLANTranslationPolicy" -> {"rules"}
                       [] OTHER                       -> {}]
=============================================================================
