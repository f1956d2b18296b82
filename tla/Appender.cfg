SPECIFICATION FairSpec
CONSTANTS
  NumServers = 2
  MaxRetryCount = 3
  DefaultSpaceReservationSize = 2
  PreferredAppendSize = 2
  MinWriteQueueEntrySize = 1
  Thresholds = {0, 2}
  PreAllocationFlag = TRUE
  MaxRecords = 3
  MaxOpens = 1
  MaxDenied = 1
INVARIANTS
  RecordsOnce
  SpaceReserved
  PendingDriven
PROPERTIES
  CloseCompletes
CHECK_DEADLOCK FALSE
