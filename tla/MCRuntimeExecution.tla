-------------------------- MODULE MCRuntimeExecution --------------------------
(* RuntimeExecution for TLC: the recovery policies of the runs, and host    *)
(* processes as a symmetric set.                                            *)
EXTENDS RuntimeExecution, TLC

Bundle(onRestart, failIfExpired, failIfCancelled) ==
  [onRestart |-> onRestart, failIfExpired |-> failIfExpired,
   failIfCancelled |-> failIfCancelled]

IfSafe    == {DEFAULT_RECOVERY_POLICY}
Manual    == {Bundle("manual-recovery", TRUE, TRUE)}
Unguarded == {Bundle("resume-if-safe", TRUE, FALSE)}
Various   == {Bundle("resume-immediately", TRUE, TRUE),
              Bundle("resume-if-safe", FALSE, TRUE),
              Bundle("manual-recovery", FALSE, FALSE)}

ProcSymmetry == Permutations(Procs)

=============================================================================
