--------------------------- MODULE WirelessKinds ----------------------------
(* The Kinds of NetBox's wireless app: wireless LANs and links. *)
EXTENDS Scopes

\* WirelessLAN is found by scope, tenantRef and ssid, else by scope and ssid with no
\* tenantRef, else by tenantRef and ssid with no scope, else by ssid with no scope or
\* tenantRef.
NetBoxWirelessLANSpec ==
  WithUnions(Schema({"ssid", "status"},
                    {"groupRef", "vlanRef", "scope", "tenantRef", "authType",
                     "authCipher", "description", "comments"},
                    {"description", "comments"}), [scope |-> ScopeRef])
wirelessWirelessLANDescriptor ==
  Descriptor([
    plain |-> {"ssid", "status", "authType", "authCipher", "description", "comments"},
    one |-> [groupRef |-> "WirelessLANGroup", vlanRef |-> "VLAN", tenantRef |-> "Tenant"],
    keys |-> << Key({"scope", "tenantRef", "ssid"}, {}),
                Key({"scope", "ssid"}, {"tenantRef"}),
                Key({"tenantRef", "ssid"}, {"scope"}),
                Key({"ssid"}, {"scope", "tenantRef"}) >>,
    unions |-> [scope |-> ScopeFK], containment |-> "scope"])

\* WirelessLANGroup is found by slug.
NetBoxWirelessLANGroupSpec ==
  Schema({"name", "slug"},
         {"parentRef", "description", "comments"},
         {"description", "comments"})
wirelessWirelessLANGroupDescriptor ==
  Descriptor([
    plain |-> {"name", "slug", "description", "comments"},
    one |-> [parentRef |-> "WirelessLANGroup"], cascades |-> {"parentRef"},
    keys |-> << Key({"slug"}, {}) >>, deferred |-> [parentRef |-> "IfUnresolved"],
    containment |-> "parentRef"])

\* WirelessLink is found by interfaceARef and interfaceBRef, else by interfaceBRef and
\* interfaceARef.
NetBoxWirelessLinkSpec ==
  Schema({"interfaceARef", "interfaceBRef", "status"},
         {"ssid", "tenantRef", "distance", "distanceUnit", "authType", "authCipher",
          "description", "comments"},
         {"ssid", "distance", "description", "comments"})
wirelessWirelessLinkDescriptor ==
  Descriptor([
    plain |-> {"ssid", "status", "authType", "authCipher", "description", "comments",
               "distance", "distanceUnit"},
    nullable |-> {"distance"},
    one |-> [interfaceARef |-> "Interface", interfaceBRef |-> "Interface",
             tenantRef |-> "Tenant"],
    keys |-> << Key({"interfaceARef", "interfaceBRef"}, {}),
                KeyOn([interfaceARef |-> "interfaceBRef", interfaceBRef |-> "interfaceARef"], {}) >>])
=============================================================================
