SPECIFICATION FairSpec
CONSTANTS
  Procs = {p1}
  MaxAttempts = 1
  Retryable = {}
  Policies <- Unguarded
  MayExpire = TRUE
  MayAbort = TRUE
  MaxToolWrites = 0
  MaxCrashes = 1
  MaxStoreFaults = 0
  MaxPublishFaults = 0
PROPERTIES BootCompletes
CHECK_DEADLOCK FALSE
