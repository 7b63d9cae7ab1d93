\* One trigger with the code's three attempts, and a restart of any process.
SPECIFICATION FairSpec
CONSTANTS
  Triggers = {t1}
  MaxUploadAttempts = 3
  MaxWindow = 2
  MaxRestarts = 1
  Callers = {"organizer_admin", "other_role", "other_org"}
INVARIANTS
  TypeOK
  ObjectIsFrozenWindow
  AnsweredClipWasRecorded
  RejectionLeavesNothing
  FailClosed
  MetadataHasItsObject
  MemoryStoreHasNoOrphans
PROPERTIES
  ImplementsDelivery
  EveryTriggerAnswered
