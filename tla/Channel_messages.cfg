SPECIFICATION FairSpec
CONSTANTS
  Thread = {"h1", "h2"}
  Fields <- MessageFields
  Uses <- MessageUses
  UsedAs <- MessageUsedAs
  Sends <- EveryMessage
INVARIANTS
  TypeOK
  InStep
  FieldsAsDescribed
PROPERTIES
  QueueSpec
  EverySentHandled
CHECK_DEADLOCK FALSE
