SPECIFICATION FairSpec
CONSTANTS
  KindOf <- Registry
  SchemaOf <- Schemas
  InlineOf <- InlineFields
  MaxRows = 2
  MaxFaults = 1
INVARIANTS OneRow ReadyMeansCarried Keyed
PROPERTY Identified
CHECK_DEADLOCK FALSE
