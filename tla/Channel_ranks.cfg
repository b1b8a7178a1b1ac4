SPECIFICATION Spec
CONSTANTS
  Thread = {"h1"}
  Fields <- MessageFields
  Uses <- MessageUses
  UsedAs <- MessageUsedAs
  Sends <- RanksOnly
INVARIANTS
  FieldsAsDescribed
CHECK_DEADLOCK FALSE
