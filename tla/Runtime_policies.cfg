SPECIFICATION Spec
CONSTANTS
  Procs = {p1}
  MaxAttempts = 2
  Retryable = {"FAILED"}
  Policies <- Various
  MayExpire = TRUE
  MayAbort = TRUE
  MaxToolWrites = 1
  MaxCrashes = 1
  MaxStoreFaults = 0
  MaxPublishFaults = 0
INVARIANTS InvocationsBounded
PROPERTIES DeferredIsUntouched
CHECK_DEADLOCK FALSE
