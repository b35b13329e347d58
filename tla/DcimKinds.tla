----------------------------- MODULE DcimKinds ------------------------------
(* The Kinds of NetBox's dcim app: sites, racks, devices, interfaces and cables. *)
EXTENDS Descriptors

\* The dimensions a rack type and a rack share.
RackDimensions ==
  Schema({"width", "uHeight", "startingUnit"},
         {"descUnits", "outerWidth", "outerHeight", "outerDepth", "outerUnit",
          "mountingDepth", "maxWeight", "weight", "weightUnit"},
         {"outerUnit", "weight", "weightUnit"})
rackBaseFields == {"width", "uHeight", "startingUnit", "descUnits", "outerWidth",
  "outerHeight", "outerDepth", "outerUnit", "mountingDepth", "maxWeight", "weight",
  "weightUnit"}
rackBaseNullable == {"outerUnit", "weight", "weightUnit"}

\* Exactly one of these members.
CableTerminationTarget ==
  Choice({"interfaceRef", "consolePortRef", "consoleServerPortRef", "powerPortRef",
          "powerOutletRef", "frontPortRef", "rearPortRef", "powerFeedRef",
          "circuitTerminationRef"}, 1)

\* One end of a cable: a list of ports, none of which takes the cable along.
cableTerminationFK ==
  Union([interfaceRef |-> "Interface", consolePortRef |-> "ConsolePort",
         consoleServerPortRef |-> "ConsoleServerPort", powerPortRef |-> "PowerPort",
         powerOutletRef |-> "PowerOutlet", frontPortRef |-> "FrontPort",
         rearPortRef |-> "RearPort", powerFeedRef |-> "PowerFeed",
         circuitTerminationRef |-> "CircuitTermination"],
        {}, TRUE)

\* At most one of these members.
MACAssignment ==
  Choice({"interfaceRef", "vmInterfaceRef"}, 0)

\* Cable is found by aTerminations and bTerminations.
NetBoxCableSpec ==
  WithUnions(Schema({"aTerminations", "bTerminations", "status"},
                    {"type", "profile", "tenantRef", "bundleRef", "label", "color",
                     "length", "lengthUnit", "description", "comments"},
                    {"type", "label", "color", "length", "lengthUnit", "description",
                     "comments"}), [aTerminations |-> CableTerminationTarget, bTerminations |-> CableTerminationTarget])
dcimCableDescriptor ==
  Descriptor([
    plain |-> {"type", "status", "profile", "label", "color", "length", "lengthUnit",
               "description", "comments"},
    nullable |-> {"type", "length", "lengthUnit"},
    one |-> [tenantRef |-> "Tenant", bundleRef |-> "CableBundle"],
    keys |-> << Key({"aTerminations", "bTerminations"}, {}) >>,
    unions |-> [aTerminations |-> cableTerminationFK, bTerminations |-> cableTerminationFK],
    updates |-> "Recreate", recreateOn |-> {"aTerminations", "bTerminations"}])

\* CableBundle is found by name.
NetBoxCableBundleSpec ==
  Schema({"name"},
         {"description", "comments"},
         {"description", "comments"})
dcimCableBundleDescriptor ==
  Descriptor([
    plain |-> {"name", "description", "comments"}, keys |-> << Key({"name"}, {}) >>])

\* Device is found by assetTag, else by name, siteRef and tenantRef, else by name and
\* siteRef with no tenantRef.
NetBoxDeviceSpec ==
  Schema({"name", "deviceTypeRef", "roleRef", "siteRef", "status"},
         {"tenantRef", "platformRef", "clusterRef", "serial", "assetTag", "airflow",
          "latitude", "longitude", "primaryIP4Ref", "primaryIP6Ref", "oobIPRef",
          "description", "comments", "localContextData", "interfaces"},
         {"serial", "assetTag", "airflow", "latitude", "longitude", "description",
          "comments", "interfaces"})
dcimDeviceFields ==
  [plain |-> {"name", "serial", "assetTag", "status", "airflow", "description", "comments",
              "localContextData", "latitude", "longitude"},
   nullable |-> {"assetTag", "latitude", "longitude"},
   one |-> [deviceTypeRef |-> "DeviceType", roleRef |-> "DeviceRole", siteRef |-> "Site",
            tenantRef |-> "Tenant", platformRef |-> "Platform", clusterRef |-> "Cluster",
            primaryIP4Ref |-> "IPAddress", primaryIP6Ref |-> "IPAddress",
            oobIPRef |-> "IPAddress"]]

dcimDeviceKeys ==
  << Key({"assetTag"}, {}), Key({"name", "siteRef", "tenantRef"}, {}),
     Key({"name", "siteRef"}, {"tenantRef"}) >>
dcimDeviceDescriptor ==
  Descriptor([
    keys |-> dcimDeviceKeys,
    deferred |-> [primaryIP4Ref |-> "Always", primaryIP6Ref |-> "Always",
                  oobIPRef |-> "Always"]] @@ dcimDeviceFields)

\* DeviceRole is found by parentRef and slug, else by slug with no parentRef.
NetBoxDeviceRoleSpec ==
  Schema({"name", "slug", "color"},
         {"parentRef", "vmRole", "description"},
         {"description"})
dcimDeviceRoleDescriptor ==
  Descriptor([
    plain |-> {"name", "slug", "color", "vmRole", "description"},
    one |-> [parentRef |-> "DeviceRole"], cascades |-> {"parentRef"},
    keys |-> << Key({"parentRef", "slug"}, {}), Key({"slug"}, {"parentRef"}) >>,
    containment |-> "parentRef"])

\* DeviceType is found by manufacturerRef and slug, else by manufacturerRef and model.
NetBoxDeviceTypeSpec ==
  Schema({"manufacturerRef", "model", "slug", "uHeight"},
         {"defaultPlatformRef", "partNumber", "excludeFromUtilization", "isFullDepth",
          "subdeviceRole", "airflow", "description", "comments"},
         {"partNumber", "subdeviceRole", "airflow", "description", "comments"})
dcimDeviceTypeDescriptor ==
  Descriptor([
    plain |-> {"model", "slug", "partNumber", "uHeight", "excludeFromUtilization",
               "isFullDepth", "subdeviceRole", "airflow", "description", "comments"},
    nullable |-> {"subdeviceRole", "airflow"},
    one |-> [manufacturerRef |-> "Manufacturer", defaultPlatformRef |-> "Platform"],
    keys |-> << Key({"manufacturerRef", "slug"}, {}),
                Key({"manufacturerRef", "model"}, {}) >>])

\* Interface is found by deviceRef and name.
NetBoxInterfaceSpec ==
  Schema({"deviceRef", "name", "type"},
         {"label", "enabled", "mgmtOnly", "markConnected", "mtu", "speed", "duplex",
          "wwn", "mode", "rfRole", "rfChannel", "rfChannelFrequency", "rfChannelWidth",
          "txPower", "poeMode", "poeType", "lagRef", "parentRef", "bridgeRef",
          "untaggedVLANRef", "taggedVLANs", "qinqSVLANRef", "vrfRef",
          "vlanTranslationPolicyRef", "description"},
         {"label", "wwn", "rfChannelFrequency", "rfChannelWidth", "taggedVLANs",
          "description"})
dcimInterfaceFields ==
  [plain |-> {"name", "label", "type", "enabled", "mgmtOnly", "markConnected", "mtu",
              "speed", "duplex", "wwn", "mode", "rfRole", "rfChannel", "poeMode",
              "poeType", "description", "rfChannelFrequency", "rfChannelWidth", "txPower"},
   nullable |-> {"rfChannelFrequency", "rfChannelWidth"},
   one |-> [deviceRef |-> "Device", lagRef |-> "Interface", parentRef |-> "Interface",
            bridgeRef |-> "Interface", untaggedVLANRef |-> "VLAN", qinqSVLANRef |-> "VLAN",
            vrfRef |-> "VRF", vlanTranslationPolicyRef |-> "VLANTranslationPolicy"],
   many |-> [taggedVLANs |-> "VLAN"],
   cascades |-> {"deviceRef"}]
dcimInterfaceDescriptor ==
  Descriptor([
    keys |-> << Key({"deviceRef", "name"}, {}) >>,
    deferred |-> [lagRef |-> "IfUnresolved", parentRef |-> "IfUnresolved",
                  bridgeRef |-> "IfUnresolved", qinqSVLANRef |-> "IfUnresolved"],
    containment |-> "deviceRef"] @@ dcimInterfaceFields)

\* Location is found by siteRef, parentRef and name, else by siteRef and name with no
\* parentRef.
NetBoxLocationSpec ==
  Schema({"name", "slug", "siteRef", "status"},
         {"parentRef", "facility", "description"},
         {"facility", "description"})
dcimLocationDescriptor ==
  Descriptor([
    plain |-> {"name", "slug", "status", "facility", "description"},
    one |-> [siteRef |-> "Site", parentRef |-> "Location"],
    cascades |-> {"siteRef", "parentRef"},
    keys |-> << Key({"siteRef", "parentRef", "name"}, {}),
                Key({"siteRef", "name"}, {"parentRef"}) >>,
    containment |-> "siteRef"])

\* MACAddress is found by assignedObject and macAddress, else by macAddress with no
\* assignedObject.
NetBoxMACAddressSpec ==
  WithUnions(Schema({"macAddress"},
                    {"assignedObject", "description", "comments"},
                    {"description", "comments"}), [assignedObject |-> MACAssignment])
dcimMACAddressDescriptor ==
  Descriptor([
    plain |-> {"macAddress", "description", "comments"},
    keys |-> << Key({"assignedObject", "macAddress"}, {}),
                Key({"macAddress"}, {"assignedObject"}) >>,
    unions |-> [assignedObject |-> Union([interfaceRef |-> "Interface", vmInterfaceRef |-> "VMInterface"],
                {"Interface", "VMInterface"}, FALSE)],
    containment |-> "assignedObject"])

\* Manufacturer is found by slug.
NetBoxManufacturerSpec ==
  Schema({"name", "slug"},
         {"description"},
         {"description"})
dcimManufacturerDescriptor ==
  Descriptor([
    plain |-> {"name", "slug", "description"}, keys |-> << Key({"slug"}, {}) >>])

\* Module is found by moduleBayRef.
NetBoxModuleSpec ==
  Schema({"deviceRef", "moduleBayRef", "moduleTypeRef"},
         {"status", "serial", "assetTag", "description", "comments"},
         {"serial", "assetTag", "description", "comments"})
dcimModuleFields ==
  [plain |-> {"status", "serial", "assetTag", "description", "comments"},
   nullable |-> {"assetTag"},
   one |-> [deviceRef |-> "Device", moduleBayRef |-> "ModuleBay",
            moduleTypeRef |-> "ModuleType"],
   cascades |-> {"deviceRef", "moduleBayRef"}]
dcimModuleDescriptor ==
  Descriptor([
    keys |-> << Key({"moduleBayRef"}, {}) >>, containment |-> "moduleBayRef"] @@ dcimModuleFields)

\* ModuleBay is found by deviceRef, moduleRef and name, else by deviceRef and name with
\* no moduleRef.
NetBoxModuleBaySpec ==
  Schema({"deviceRef", "name"},
         {"moduleRef", "label", "position", "enabled", "description"},
         {"label", "position", "description"})
dcimModuleBayFields ==
  [plain |-> {"name", "label", "position", "enabled", "description"},
   one |-> [deviceRef |-> "Device", moduleRef |-> "Module"],
   cascades |-> {"deviceRef", "moduleRef"}]
dcimModuleBayKeys ==
  << Key({"deviceRef", "moduleRef", "name"}, {}),
     Key({"deviceRef", "name"}, {"moduleRef"}) >>
dcimModuleBayDescriptor ==
  Descriptor([
    keys |-> dcimModuleBayKeys, containment |-> "deviceRef"] @@ dcimModuleBayFields)

\* ModuleType is found by manufacturerRef and model.
NetBoxModuleTypeSpec ==
  Schema({"manufacturerRef", "model"},
         {"profileRef", "partNumber", "airflow", "attributes", "weight", "weightUnit",
          "description", "comments"},
         {"partNumber", "airflow", "weight", "weightUnit", "description", "comments"})
dcimModuleTypeFields ==
  [plain |-> {"model", "partNumber", "airflow", "attributes", "weight", "weightUnit",
              "description", "comments"},
   nullable |-> {"airflow", "weight", "weightUnit"},
   one |-> [manufacturerRef |-> "Manufacturer", profileRef |-> "ModuleTypeProfile"]]
dcimModuleTypeDescriptor ==
  Descriptor([
    keys |-> << Key({"manufacturerRef", "model"}, {}) >>] @@ dcimModuleTypeFields)

\* ModuleTypeProfile is found by name.
NetBoxModuleTypeProfileSpec ==
  Schema({"name"},
         {"schema", "description", "comments"},
         {"description", "comments"})
dcimModuleTypeProfileDescriptor ==
  Descriptor([
    plain |-> {"name", "schema", "description", "comments"},
    keys |-> << Key({"name"}, {}) >>])

\* Platform is found by manufacturerRef and slug, else by slug with no manufacturerRef.
NetBoxPlatformSpec ==
  Schema({"name", "slug"},
         {"manufacturerRef", "parentRef", "description"},
         {"description"})
dcimPlatformDescriptor ==
  Descriptor([
    plain |-> {"name", "slug", "description"},
    one |-> [manufacturerRef |-> "Manufacturer", parentRef |-> "Platform"],
    cascades |-> {"parentRef"},
    keys |-> << Key({"manufacturerRef", "slug"}, {}), Key({"slug"}, {"manufacturerRef"}) >>,
    deferred |-> [parentRef |-> "IfUnresolved"], containment |-> "parentRef"])

\* PowerFeed is found by powerPanelRef and name.
NetBoxPowerFeedSpec ==
  Schema({"name", "powerPanelRef", "status", "type", "supply", "phase"},
         {"rackRef", "tenantRef", "voltage", "amperage", "maxUtilization",
          "markConnected", "description", "comments"},
         {"description", "comments"})
dcimPowerFeedFields ==
  [plain |-> {"name", "status", "type", "supply", "phase", "voltage", "amperage",
              "maxUtilization", "markConnected", "description", "comments"},
   one |-> [powerPanelRef |-> "PowerPanel", rackRef |-> "Rack", tenantRef |-> "Tenant"]]
dcimPowerFeedDescriptor ==
  Descriptor([
    keys |-> << Key({"powerPanelRef", "name"}, {}) >>] @@ dcimPowerFeedFields)

\* PowerPanel is found by siteRef and name.
NetBoxPowerPanelSpec ==
  Schema({"name", "siteRef"},
         {"locationRef", "description", "comments"},
         {"description", "comments"})
dcimPowerPanelDescriptor ==
  Descriptor([
    plain |-> {"name", "description", "comments"},
    one |-> [siteRef |-> "Site", locationRef |-> "Location"],
    keys |-> << Key({"siteRef", "name"}, {}) >>])

\* Rack is found by locationRef and name, else by siteRef and name with no locationRef,
\* else by locationRef and facilityID.
NetBoxRackSpec ==
  Including(RackDimensions, Schema({"name", "siteRef", "status"},
                                   {"locationRef", "groupRef", "rackTypeRef", "roleRef",
                                    "tenantRef", "formFactor", "airflow", "facilityID",
                                    "serial", "assetTag", "description", "comments"},
                                   {"formFactor", "airflow", "facilityID", "serial",
                                    "assetTag", "description", "comments"}))
dcimRackFields ==
  [plain |-> rackBaseFields \cup {"name", "facilityID", "status", "formFactor", "airflow",
             "serial", "assetTag", "description", "comments"},
   nullable |-> rackBaseNullable \cup {"formFactor", "airflow"},
   one |-> [siteRef |-> "Site", locationRef |-> "Location", groupRef |-> "RackGroup",
            rackTypeRef |-> "RackType", roleRef |-> "RackRole", tenantRef |-> "Tenant"]]
dcimRackKeys ==
  << Key({"locationRef", "name"}, {}), Key({"siteRef", "name"}, {"locationRef"}),
     Key({"locationRef", "facilityID"}, {}) >>
dcimRackDescriptor ==
  Descriptor([
    keys |-> dcimRackKeys] @@ dcimRackFields)

\* RackGroup is found by slug.
NetBoxRackGroupSpec ==
  Schema({"name", "slug"},
         {"description", "comments"},
         {"description", "comments"})
dcimRackGroupDescriptor ==
  Descriptor([
    plain |-> {"name", "slug", "description", "comments"},
    keys |-> << Key({"slug"}, {}) >>])

\* RackReservation is found by rackRef and description.
NetBoxRackReservationSpec ==
  Schema({"rackRef", "units", "userID", "description", "status"},
         {"tenantRef", "comments"},
         {"comments"})
dcimRackReservationDescriptor ==
  Descriptor([
    plain |-> {"units", "userID", "description", "status", "comments"},
    one |-> [rackRef |-> "Rack", tenantRef |-> "Tenant"], cascades |-> {"rackRef"},
    keys |-> << Key({"rackRef", "description"}, {}) >>, containment |-> "rackRef"])

\* RackRole is found by slug.
NetBoxRackRoleSpec ==
  Schema({"name", "slug", "color"},
         {"description", "comments"},
         {"description", "comments"})
dcimRackRoleDescriptor ==
  Descriptor([
    plain |-> {"name", "slug", "color", "description", "comments"},
    keys |-> << Key({"slug"}, {}) >>])

\* RackType is found by manufacturerRef and slug, else by manufacturerRef and model.
NetBoxRackTypeSpec ==
  Including(RackDimensions, Schema({"manufacturerRef", "model", "slug", "formFactor"},
                                   {"description", "comments"},
                                   {"description", "comments"}))
dcimRackTypeFields ==
  [plain |-> rackBaseFields \cup {"model", "slug", "formFactor", "description", "comments"},
   nullable |-> rackBaseNullable,
   one |-> [manufacturerRef |-> "Manufacturer"]]
dcimRackTypeDescriptor ==
  Descriptor([
    keys |-> << Key({"manufacturerRef", "slug"}, {}),
                Key({"manufacturerRef", "model"}, {}) >>] @@ dcimRackTypeFields)

\* Region is found by parentRef and name, else by name with no parentRef.
NetBoxRegionSpec ==
  Schema({"name", "slug"},
         {"parentRef", "description"},
         {"description"})
dcimRegionDescriptor ==
  Descriptor([
    plain |-> {"name", "slug", "description"}, one |-> [parentRef |-> "Region"],
    cascades |-> {"parentRef"},
    keys |-> << Key({"parentRef", "name"}, {}), Key({"name"}, {"parentRef"}) >>,
    containment |-> "parentRef"])

\* Site is found by slug.
NetBoxSiteSpec ==
  Schema({"name", "slug", "status"},
         {"facility", "asns", "physicalAddress", "shippingAddress", "latitude",
          "longitude", "description", "comments"},
         {"facility", "asns", "physicalAddress", "shippingAddress", "latitude",
          "longitude", "description", "comments"})
dcimSiteDescriptor ==
  Descriptor([
    plain |-> {"name", "slug", "status", "facility", "physicalAddress", "shippingAddress",
               "latitude", "longitude", "description", "comments"},
    nullable |-> {"latitude", "longitude"}, many |-> [asns |-> "ASN"],
    keys |-> << Key({"slug"}, {}) >>])

\* SiteGroup is found by parentRef and name, else by name with no parentRef.
NetBoxSiteGroupSpec ==
  Schema({"name", "slug"},
         {"parentRef", "description"},
         {"description"})
dcimSiteGroupDescriptor ==
  Descriptor([
    plain |-> {"name", "slug", "description"}, one |-> [parentRef |-> "SiteGroup"],
    cascades |-> {"parentRef"},
    keys |-> << Key({"parentRef", "name"}, {}), Key({"name"}, {"parentRef"}) >>,
    containment |-> "parentRef"])
=============================================================================
