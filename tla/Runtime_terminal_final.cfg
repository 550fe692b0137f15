SPECIFICATION Spec
CONSTANTS
  Procs = {p1}
  MaxAttempts = 1
  Retryable = {}
  Policies <- IfSafe
  MayExpire = TRUE
  MayAbort = FALSE
  MaxToolWrites = 1
  MaxCrashes = 1
  MaxStoreFaults = 0
  MaxPublishFaults = 0
PROPERTIES TerminalIsFinal
CHECK_DEADLOCK FALSE
