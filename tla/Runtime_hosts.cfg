SPECIFICATION Spec
CONSTANTS
  Procs = {p1,p2}
  MaxAttempts = 1
  Retryable = {}
  Policies <- Manual
  MayExpire = FALSE
  MayAbort = FALSE
  MaxToolWrites = 0
  MaxCrashes = 0
  MaxStoreFaults = 0
  MaxPublishFaults = 0
SYMMETRY ProcSymmetry
PROPERTIES ArtifactsKept
CHECK_DEADLOCK FALSE
