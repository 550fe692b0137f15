SPECIFICATION Spec
CONSTANTS
  Procs = {p1}
  MaxAttempts = 2
  Retryable = {"FAILED","TIMEOUT","CANCELLED","CONFLICT"}
  Policies <- IfSafe
  MayExpire = TRUE
  MayAbort = FALSE
  MaxToolWrites = 0
  MaxCrashes = 0
  MaxStoreFaults = 0
  MaxPublishFaults = 0
INVARIANTS CompletedIsDurable
CHECK_DEADLOCK FALSE
