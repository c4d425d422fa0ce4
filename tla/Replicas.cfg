SPECIFICATION Spec
CONSTANTS
  Letters = 4
  Replicas = {1, 2}
  Admin = 1
  Settings <- AllSettings
INVARIANTS  InsertedInPlace  WritersOnly
PROPERTY MovesKeepElements
CHECK_DEADLOCK FALSE
