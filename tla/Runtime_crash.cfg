SPECIFICATION Spec
CONSTANTS
  Procs = {p1}
  MaxAttempts = 1
  Retryable = {}
  Policies <- IfSafe
  MayExpire = FALSE
  MayAbort = TRUE
  MaxToolWrites = 1
  MaxCrashes = 2
  MaxStoreFaults = 1
  MaxPublishFaults = 1
INVARIANTS TypeOK DurableLifecycle WriteAhead TerminalInv
PROPERTIES RecordGrows
CHECK_DEADLOCK FALSE
