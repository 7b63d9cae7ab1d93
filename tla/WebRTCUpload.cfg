\* One trigger, a retry, clips of two chunks, and a restart of any process.
SPECIFICATION FairSpec
CONSTANTS
  Triggers = {t1}
  MaxUploadAttempts = 2
  MaxWindow = 2
  MaxRestarts = 1
  Callers = {"organizer_admin", "other_role"}
  Chunks = 2
INVARIANTS
  LossyTransferStoresNothing
  AckMeansRecorded
PROPERTIES
  ImplementsDelivery
  OpenedConnectionCloses
