------------------------------ MODULE VpnKinds ------------------------------
(* The Kinds of NetBox's vpn app: tunnels and the policies they use. *)
EXTENDS Descriptors

\* IKEPolicy is found by name.
NetBoxIKEPolicySpec ==
  Schema({"name", "version"},
         {"mode", "proposals", "description", "comments"},
         {"mode", "description", "comments"})
vpnIKEPolicyDescriptor ==
  Descriptor([
    plain |-> {"name", "version", "mode", "description", "comments"},
    nullable |-> {"mode"}, many |-> [proposals |-> "IKEProposal"],
    keys |-> << Key({"name"}, {}) >>])

\* IKEProposal is found by name.
NetBoxIKEProposalSpec ==
  Schema({"name", "authenticationMethod", "encryptionAlgorithm", "group"},
         {"authenticationAlgorithm", "saLifetime", "description", "comments"},
         {"authenticationAlgorithm", "description", "comments"})
vpnIKEProposalDescriptor ==
  Descriptor([
    plain |-> {"name", "authenticationMethod", "encryptionAlgorithm",
               "authenticationAlgorithm", "group", "saLifetime", "description", "comments"},
    nullable |-> {"authenticationAlgorithm"}, keys |-> << Key({"name"}, {}) >>])

\* IPSecPolicy is found by name.
NetBoxIPSecPolicySpec ==
  Schema({"name"},
         {"proposals", "pfsGroup", "description", "comments"},
         {"description", "comments"})
vpnIPSecPolicyDescriptor ==
  Descriptor([
    plain |-> {"name", "pfsGroup", "description", "comments"},
    many |-> [proposals |-> "IPSecProposal"], keys |-> << Key({"name"}, {}) >>])

\* IPSecProfile is found by name.
NetBoxIPSecProfileSpec ==
  Schema({"name", "mode", "ikePolicyRef", "ipsecPolicyRef"},
         {"description", "comments"},
         {"description", "comments"})
vpnIPSecProfileDescriptor ==
  Descriptor([
    plain |-> {"name", "mode", "description", "comments"},
    one |-> [ikePolicyRef |-> "IKEPolicy", ipsecPolicyRef |-> "IPSecPolicy"],
    keys |-> << Key({"name"}, {}) >>])

\* IPSecProposal is found by name.
NetBoxIPSecProposalSpec ==
  Schema({"name"},
         {"encryptionAlgorithm", "authenticationAlgorithm", "saLifetimeSeconds",
          "saLifetimeData", "description", "comments"},
         {"encryptionAlgorithm", "authenticationAlgorithm", "description", "comments"})
vpnIPSecProposalDescriptor ==
  Descriptor([
    plain |-> {"name", "encryptionAlgorithm", "authenticationAlgorithm",
               "saLifetimeSeconds", "saLifetimeData", "description", "comments"},
    nullable |-> {"encryptionAlgorithm", "authenticationAlgorithm"},
    keys |-> << Key({"name"}, {}) >>])

\* L2VPN is found by slug.
NetBoxL2VPNSpec ==
  Schema({"name", "slug", "type", "status"},
         {"identifier", "importTargets", "exportTargets", "tenantRef", "description",
          "comments"},
         {"importTargets", "exportTargets", "description", "comments"})
vpnL2VPNDescriptor ==
  Descriptor([
    plain |-> {"name", "slug", "type", "status", "identifier", "description", "comments"},
    one |-> [tenantRef |-> "Tenant"],
    many |-> [importTargets |-> "RouteTarget", exportTargets |-> "RouteTarget"],
    keys |-> << Key({"slug"}, {}) >>])

\* Tunnel is found by groupRef and name, else by name with no groupRef.
NetBoxTunnelSpec ==
  Schema({"name", "status", "encapsulation"},
         {"groupRef", "ipsecProfileRef", "tenantRef", "tunnelId", "description",
          "comments"},
         {"description", "comments"})
vpnTunnelFields ==
  [plain |-> {"name", "status", "encapsulation", "tunnelId", "description", "comments"},
   one |-> [groupRef |-> "TunnelGroup", ipsecProfileRef |-> "IPSecProfile",
            tenantRef |-> "Tenant"]]
vpnTunnelKeys ==
  << Key({"groupRef", "name"}, {}), Key({"name"}, {"groupRef"}) >>
vpnTunnelDescriptor ==
  Descriptor([
    keys |-> vpnTunnelKeys] @@ vpnTunnelFields)

\* TunnelGroup is found by slug.
NetBoxTunnelGroupSpec ==
  Schema({"name", "slug"},
         {"description", "comments"},
         {"description", "comments"})
vpnTunnelGroupDescriptor ==
  Descriptor([
    plain |-> {"name", "slug", "description", "comments"},
    keys |-> << Key({"slug"}, {}) >>])
=============================================================================
