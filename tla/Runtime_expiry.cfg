SPECIFICATION FairSpec
CONSTANTS
  Procs = {p1}
  MaxAttempts = 1
  Retryable = {}
  Policies <- IfSafe
  MayExpire = TRUE
  MayAbort = TRUE
  MaxToolWrites = 0
  MaxCrashes = 2
  MaxStoreFaults = 0
  MaxPublishFaults = 0
INVARIANTS AnswerKept
PROPERTIES Answered BootCompletes ResultNotRecomputed
CHECK_DEADLOCK FALSE
