---------------------------- MODULE ExtrasKinds -----------------------------
(* The Kinds of NetBox's extras app: tags, custom fields and contexts. *)
EXTENDS Descriptors

\* ConfigContext is found by name.
NetBoxConfigContextSpec ==
  Schema({"name", "data", "weight", "isActive"},
         {"profileRef", "regions", "siteGroups", "sites", "locations", "deviceTypes",
          "roles", "platforms", "clusterTypes", "clusterGroups", "clusters",
          "tenantGroups", "tenants", "tags", "description"},
         {"regions", "siteGroups", "sites", "locations", "deviceTypes", "roles",
          "platforms", "clusterTypes", "clusterGroups", "clusters", "tenantGroups",
          "tenants", "tags", "description"})
extrasConfigContextDescriptor ==
  Descriptor([
    plain |-> {"name", "data", "weight", "isActive", "description"},
    one |-> [profileRef |-> "ConfigContextProfile"],
    many |-> [regions |-> "Region", siteGroups |-> "SiteGroup", sites |-> "Site",
              locations |-> "Location", deviceTypes |-> "DeviceType",
              roles |-> "DeviceRole", platforms |-> "Platform",
              clusterTypes |-> "ClusterType", clusterGroups |-> "ClusterGroup",
              clusters |-> "Cluster", tenantGroups |-> "TenantGroup", tenants |-> "Tenant",
              tags |-> "Tag"],
    keys |-> << Key({"name"}, {}) >>])

\* ConfigContextProfile is found by name.
NetBoxConfigContextProfileSpec ==
  Schema({"name"},
         {"schema", "description", "comments"},
         {"description", "comments"})
extrasConfigContextProfileDescriptor ==
  Descriptor([
    plain |-> {"name", "schema", "description", "comments"},
    keys |-> << Key({"name"}, {}) >>])

\* ConfigTemplate is found by name.
NetBoxConfigTemplateSpec ==
  Schema({"name", "templateCode", "asAttachment", "debug"},
         {"environmentParams", "description", "mimeType", "fileName", "fileExtension"},
         {"description", "mimeType", "fileName", "fileExtension"})
extrasConfigTemplateDescriptor ==
  Descriptor([
    plain |-> {"name", "description", "debug", "templateCode", "mimeType", "fileName",
               "fileExtension", "asAttachment", "environmentParams"},
    keys |-> << Key({"name"}, {}) >>])

\* CustomField is found by name.
NetBoxCustomFieldSpec ==
  Schema({"name", "objectTypes", "type", "required", "unique", "isCloneable",
          "filterLogic", "uiVisible", "uiEditable", "searchWeight", "weight"},
         {"relatedObjectType", "relatedObjectFilter", "choiceSetRef", "label",
          "groupName", "description", "comments", "default", "validationMinimum",
          "validationMaximum", "validationRegex", "validationSchema"},
         {"relatedObjectType", "label", "groupName", "description", "comments",
          "validationMinimum", "validationMaximum", "validationRegex"})
extrasCustomFieldDescriptor ==
  Descriptor([
    plain |-> {"name", "label", "groupName", "description", "comments", "type",
               "filterLogic", "uiVisible", "uiEditable", "required", "unique",
               "isCloneable", "searchWeight", "weight", "validationRegex",
               "validationMinimum", "validationMaximum", "objectTypes", "relatedObjectType",
               "default", "relatedObjectFilter", "validationSchema"},
    nullable |-> {"validationMinimum", "validationMaximum", "relatedObjectType"},
    one |-> [choiceSetRef |-> "CustomFieldChoiceSet"], keys |-> << Key({"name"}, {}) >>,
    reserved |-> "name", dataLoss |-> TRUE])

\* CustomFieldChoiceSet is found by name.
NetBoxCustomFieldChoiceSetSpec ==
  Schema({"name", "orderAlphabetically"},
         {"description", "baseChoices", "extraChoices", "choiceColors"},
         {"description", "baseChoices", "extraChoices"})
extrasCustomFieldChoiceSetDescriptor ==
  Descriptor([
    plain |-> {"name", "description", "baseChoices", "extraChoices", "choiceColors",
               "orderAlphabetically"},
    nullable |-> {"baseChoices"}, keys |-> << Key({"name"}, {}) >>])

\* CustomLink is found by name.
NetBoxCustomLinkSpec ==
  Schema({"name", "objectTypes", "linkText", "linkUrl", "buttonClass", "enabled",
          "newWindow", "weight"},
         {"groupName"},
         {"groupName"})
extrasCustomLinkDescriptor ==
  Descriptor([
    plain |-> {"name", "linkText", "linkUrl", "groupName", "buttonClass", "enabled",
               "newWindow", "weight", "objectTypes"},
    keys |-> << Key({"name"}, {}) >>])

\* ExportTemplate is found by name.
NetBoxExportTemplateSpec ==
  Schema({"name", "objectTypes", "templateCode", "asAttachment"},
         {"environmentParams", "description", "mimeType", "fileName", "fileExtension"},
         {"description", "mimeType", "fileName", "fileExtension"})
extrasExportTemplateDescriptor ==
  Descriptor([
    plain |-> {"name", "description", "templateCode", "mimeType", "fileName",
               "fileExtension", "asAttachment", "environmentParams", "objectTypes"},
    keys |-> << Key({"name"}, {}) >>])

\* SavedFilter is found by slug, else by name.
NetBoxSavedFilterSpec ==
  Schema({"name", "slug", "objectTypes", "parameters", "enabled", "shared", "weight"},
         {"description"},
         {"description"})
extrasSavedFilterDescriptor ==
  Descriptor([
    plain |-> {"name", "slug", "description", "enabled", "shared", "weight", "objectTypes",
               "parameters"},
    keys |-> << Key({"slug"}, {}), Key({"name"}, {}) >>])

\* Tag is found by slug.
NetBoxTagSpec ==
  Schema({"name", "slug", "color", "weight"},
         {"description", "objectTypes"},
         {"description", "objectTypes"})
extrasTagDescriptor ==
  Descriptor([
    plain |-> {"name", "slug", "color", "description", "weight", "objectTypes"},
    keys |-> << Key({"slug"}, {}) >>, reserved |-> "slug"])
=============================================================================
