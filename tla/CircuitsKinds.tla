--------------------------- MODULE CircuitsKinds ----------------------------
(* The Kinds of NetBox's circuits app: providers and circuits. *)
EXTENDS Descriptors

\* Circuit is found by providerRef and cid.
NetBoxCircuitSpec ==
  Schema({"cid", "providerRef", "typeRef", "status"},
         {"providerAccountRef", "tenantRef", "installDate", "terminationDate",
          "commitRate", "distance", "distanceUnit", "description", "comments"},
         {"installDate", "terminationDate", "distance", "description", "comments"})
circuitsCircuitFields ==
  [plain |-> {"cid", "status", "installDate", "terminationDate", "commitRate", "distance",
              "distanceUnit", "description", "comments"},
   nullable |-> {"installDate", "terminationDate", "distance"},
   one |-> [providerRef |-> "Provider", typeRef |-> "CircuitType",
            providerAccountRef |-> "ProviderAccount", tenantRef |-> "Tenant"]]
circuitsCircuitDescriptor ==
  Descriptor([
    keys |-> << Key({"providerRef", "cid"}, {}) >>] @@ circuitsCircuitFields)

\* CircuitType is found by slug.
NetBoxCircuitTypeSpec ==
  Schema({"name", "slug"},
         {"color", "description", "comments"},
         {"color", "description", "comments"})
circuitsCircuitTypeDescriptor ==
  Descriptor([
    plain |-> {"name", "slug", "color", "description", "comments"},
    keys |-> << Key({"slug"}, {}) >>])

\* Provider is found by slug.
NetBoxProviderSpec ==
  Schema({"name", "slug"},
         {"asns", "description", "comments"},
         {"asns", "description", "comments"})
circuitsProviderDescriptor ==
  Descriptor([
    plain |-> {"name", "slug", "description", "comments"}, many |-> [asns |-> "ASN"],
    keys |-> << Key({"slug"}, {}) >>])

\* ProviderAccount is found by providerRef and account.
NetBoxProviderAccountSpec ==
  Schema({"providerRef", "account"},
         {"name", "description", "comments"},
         {"name", "description", "comments"})
circuitsProviderAccountDescriptor ==
  Descriptor([
    plain |-> {"account", "name", "description", "comments"},
    one |-> [providerRef |-> "Provider"],
    keys |-> << Key({"providerRef", "account"}, {}) >>])

\* ProviderNetwork is found by providerRef and name.
NetBoxProviderNetworkSpec ==
  Schema({"providerRef", "name"},
         {"serviceId", "description", "comments"},
         {"serviceId", "description", "comments"})
circuitsProviderNetworkDescriptor ==
  Descriptor([
    plain |-> {"name", "serviceId", "description", "comments"},
    one |-> [providerRef |-> "Provider"],
    keys |-> << Key({"providerRef", "name"}, {}) >>])
=============================================================================
