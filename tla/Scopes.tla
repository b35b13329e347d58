------------------------------- MODULE Scopes -------------------------------
(* The scope several Kinds share: a region, a site group, a site or a location. *)
EXTENDS Descriptors

\* At most one of these members.
ScopeRef ==
  Choice({"regionRef", "siteGroupRef", "siteRef", "locationRef"}, 0)

\* Every Kind with a scope states that each member's deletion takes it along.
ScopeFK ==
  Union([regionRef |-> "Region", siteGroupRef |-> "SiteGroup", siteRef |-> "Site",
         locationRef |-> "Location"],
        {"Region", "SiteGroup", "Site", "Location"}, FALSE)
=============================================================================
