---------------------------- MODULE TenancyKinds ----------------------------
(* The Kinds of NetBox's tenancy app: tenants and contacts. *)
EXTENDS Descriptors

\* Exactly one of these members.
ContactAssignmentTarget ==
  Choice({"regionRef", "siteGroupRef", "siteRef", "locationRef", "deviceRef",
          "prefixRef", "ipAddressRef", "tenantRef", "clusterRef", "clusterGroupRef",
          "virtualMachineRef"}, 1)

\* What a contact is assigned to.
contactAssignmentTargetFK ==
  Union([regionRef |-> "Region", siteGroupRef |-> "SiteGroup", siteRef |-> "Site",
         locationRef |-> "Location", deviceRef |-> "Device", prefixRef |-> "Prefix",
         ipAddressRef |-> "IPAddress", tenantRef |-> "Tenant", clusterRef |-> "Cluster",
         clusterGroupRef |-> "ClusterGroup", virtualMachineRef |-> "VirtualMachine"],
        {"Region", "SiteGroup", "Site", "Location", "Device", "Prefix", "IPAddress",
         "Tenant", "Cluster", "ClusterGroup", "VirtualMachine"}, FALSE)

\* Contact is found by name.
NetBoxContactSpec ==
  Schema({"name"},
         {"groups", "title", "phone", "email", "address", "link", "description",
          "comments"},
         {"groups", "title", "phone", "email", "address", "link", "description",
          "comments"})
tenancyContactDescriptor ==
  Descriptor([
    plain |-> {"name", "title", "phone", "email", "address", "link", "description",
               "comments"},
    many |-> [groups |-> "ContactGroup"], keys |-> << Key({"name"}, {}) >>])

\* ContactAssignment is found by objectRef, contactRef and roleRef.
NetBoxContactAssignmentSpec ==
  WithUnions(Schema({"objectRef", "contactRef", "roleRef"},
                    {"priority"},
                    {"priority"}), [objectRef |-> ContactAssignmentTarget])
tenancyContactAssignmentDescriptor ==
  Descriptor([
    plain |-> {"priority"},
    one |-> [contactRef |-> "Contact", roleRef |-> "ContactRole"],
    keys |-> << Key({"objectRef", "contactRef", "roleRef"}, {}) >>,
    unions |-> [objectRef |-> contactAssignmentTargetFK], containment |-> "objectRef"])

\* ContactGroup is found by parentRef and name, else by name with no parentRef.
NetBoxContactGroupSpec ==
  Schema({"name", "slug"},
         {"parentRef", "description", "comments"},
         {"description", "comments"})
tenancyContactGroupDescriptor ==
  Descriptor([
    plain |-> {"name", "slug", "description", "comments"},
    one |-> [parentRef |-> "ContactGroup"], cascades |-> {"parentRef"},
    keys |-> << Key({"parentRef", "name"}, {}), Key({"name"}, {"parentRef"}) >>,
    containment |-> "parentRef"])

\* ContactRole is found by slug.
NetBoxContactRoleSpec ==
  Schema({"name", "slug"},
         {"description", "comments"},
         {"description", "comments"})
tenancyContactRoleDescriptor ==
  Descriptor([
    plain |-> {"name", "slug", "description", "comments"},
    keys |-> << Key({"slug"}, {}) >>])

\* Tenant is found by groupRef and slug, else by slug with no groupRef.
NetBoxTenantSpec ==
  Schema({"name", "slug"},
         {"groupRef", "description", "comments"},
         {"description", "comments"})
tenancyTenantDescriptor ==
  Descriptor([
    plain |-> {"name", "slug", "description", "comments"},
    one |-> [groupRef |-> "TenantGroup"],
    keys |-> << Key({"groupRef", "slug"}, {}), Key({"slug"}, {"groupRef"}) >>])

\* TenantGroup is found by slug.
NetBoxTenantGroupSpec ==
  Schema({"name", "slug"},
         {"parentRef", "description"},
         {"description"})
tenancyTenantGroupDescriptor ==
  Descriptor([
    plain |-> {"name", "slug", "description"}, one |-> [parentRef |-> "TenantGroup"],
    cascades |-> {"parentRef"}, keys |-> << Key({"slug"}, {}) >>,
    deferred |-> [parentRef |-> "IfUnresolved"], containment |-> "parentRef"])
=============================================================================
