SPECIFICATION Spec
CONSTANTS
  Procs = {p1}
  MaxAttempts = 1
  Retryable = {}
  Policies <- IfSafe
  MayExpire = FALSE
  MayAbort = TRUE
  MaxToolWrites = 1
  MaxCrashes = 1
  MaxStoreFaults = 0
  MaxPublishFaults = 0
INVARIANTS CancelledNeverCompletes
CHECK_DEADLOCK FALSE
