-------------------------------- MODULE Workflow --------------------------------
(***************************************************************************)
(* One run of createWorkflow() (packages/multi-agent/src/simple): a graph   *)
(* of steps, checkpointed round by round in a CheckpointStore, held for     *)
(* approvals, driven by run(), resume() and approve().  Nothing keeps two   *)
(* calls from driving the run at a time, each on its own copy.  A step has  *)
(* its side effect through runEffect() of effect-ledger.ts, under a key of  *)
(* its own.                                                                 *)
(***************************************************************************)
EXTENDS Naturals, FiniteSets

CONSTANTS
  Steps,
  DependsOn,         \* [Steps -> SUBSET Steps]
  Gated,             \* the steps whose approval.requiredWhen holds
  MaxDrives,         \* bound: calls of run(), resume() and approve()
  Overlapping,       \* may a call begin before the calls before it returned?
  MaxWorkflowFaults  \* bound: failing steps and crashes

ASSUME WorkflowAssumption ==
  /\ DependsOn \in [Steps -> SUBSET Steps]
  /\ Gated \subseteq Steps
  /\ MaxDrives \in Nat
  /\ Overlapping \in BOOLEAN

VARIABLES
  checkpoint,     \* the store: the OrchestrationCheckpoint of the run
  drives,         \* the calls, each with its copy of the checkpoint
  phase,          \* [Drives -> [Steps -> how far that drive is with that step]]
  effectLedger,   \* [Steps -> the EffectRecord's status]
  aborted,        \* drives whose own signal or the workflow's is aborted
  performed,      \* history: [Steps -> how often its effect has happened]
  grantedSteps,   \* history: steps whose approval was granted
  workflowFaults

stepVars == <<phase, effectLedger, performed>>
workflowVars == <<checkpoint, drives, stepVars, aborted, grantedSteps, workflowFaults>>

Drives == 1 .. MaxDrives
NoDrive == 0

\* pending: the drive that issued the pendingApproval, whose identifier is new
OrchestrationCheckpoint ==
  [status : {"none", "running", "waiting", "completed", "failed", "cancelled"},
   completedSteps : SUBSET Steps, approvals : SUBSET Steps,
   pending : Drives \cup {NoDrive}, currentStep : SUBSET Steps]
Drive ==
  [at : {"unused", "loop", "round", "approving", "rejecting", "returned", "lost"},
   copy : OrchestrationCheckpoint]

NoRound == [s \in Steps |-> "idle"]
NoCheckpoint == [status |-> "none", completedSteps |-> {}, approvals |-> {},
                 pending |-> NoDrive, currentStep |-> {}]

WorkflowInit ==
  /\ checkpoint = NoCheckpoint
  /\ drives = [d \in Drives |-> [at |-> "unused", copy |-> NoCheckpoint]]
  /\ phase = [d \in Drives |-> NoRound]
  /\ effectLedger = [s \in Steps |-> "none"]
  /\ aborted = {}
  /\ performed = [s \in Steps |-> 0]
  /\ grantedSteps = {}
  /\ workflowFaults = 0

InFlight(d) == drives[d].at \in {"loop", "round", "approving", "rejecting"}
NextCall(d) ==
  /\ drives[d].at = "unused"
  /\ \A e \in Drives :
       IF e < d THEN drives[e].at # "unused" /\ (Overlapping \/ ~InFlight(e))
       ELSE drives[e].at = "unused"
DriveGoes(d, place, copy) == drives' = [drives EXCEPT ![d] = [at |-> place, copy |-> copy]]
Saves(d, place, copy) == checkpoint' = copy /\ DriveGoes(d, place, copy)

----------------------------------------------------------------------------
(* The calls *)

RunWorkflow(d) ==
  /\ NextCall(d) /\ checkpoint.status = "none"
  /\ Saves(d, "loop", [NoCheckpoint EXCEPT !.status = "running"])
  /\ UNCHANGED <<stepVars, aborted, grantedSteps, workflowFaults>>

\* whatever the status, unless the run is completed
ResumeWorkflow(d) ==
  /\ NextCall(d) /\ checkpoint.status \notin {"none", "completed"}
  /\ DriveGoes(d, "loop", [checkpoint EXCEPT !.status = "running"])
  /\ UNCHANGED <<checkpoint, stepVars, aborted, grantedSteps, workflowFaults>>

\* the run is checked and copied, and only then is the decision saved
ApproveWorkflow(d, decision) ==
  /\ NextCall(d) /\ checkpoint.status = "waiting"
  /\ DriveGoes(d, decision, checkpoint)
  /\ UNCHANGED <<checkpoint, stepVars, aborted, grantedSteps, workflowFaults>>

ApprovesRun(d) ==
  /\ drives[d].at = "approving"
  /\ LET c == drives[d].copy
     IN /\ Saves(d, "loop", [c EXCEPT !.status = "running", !.pending = NoDrive,
                               !.approvals = @ \cup c.currentStep])
        /\ grantedSteps' = grantedSteps \cup c.currentStep
  /\ UNCHANGED <<stepVars, aborted, workflowFaults>>

RejectsRun(d) ==
  /\ drives[d].at = "rejecting"
  /\ Saves(d, "returned", [drives[d].copy EXCEPT !.status = "failed", !.pending = NoDrive])
  /\ UNCHANGED <<stepVars, aborted, grantedSteps, workflowFaults>>

\* cancel() aborts the controller of the workflow, which is never replaced; the
\* caller of run() or resume() aborts its own signal
CancelWorkflow(ds) ==
  /\ ds \in {Drives} \cup {{d} : d \in Drives} /\ ~ds \subseteq aborted
  /\ \E d \in ds : InFlight(d)
  /\ aborted' = aborted \cup ds
  /\ UNCHANGED <<checkpoint, drives, stepVars, grantedSteps, workflowFaults>>

----------------------------------------------------------------------------
(* #drive *)

Ready(c) == {s \in Steps \ c.completedSteps : DependsOn[s] \subseteq c.completedSteps}
Held(c) == (Ready(c) \cap Gated) \ c.approvals

AsksApproval(d, s) ==
  LET c == drives[d].copy
  IN /\ drives[d].at = "loop" /\ d \notin aborted /\ s \in Held(c)
     /\ Saves(d, "returned", [c EXCEPT !.status = "waiting", !.pending = d, !.currentStep = {s}])
     /\ UNCHANGED <<stepVars, aborted, grantedSteps, workflowFaults>>

\* every ready step is called in one go, and its runEffect reads the ledger: a
\* completed record answers it at once
StartsRound(d) ==
  LET c == drives[d].copy
  IN /\ drives[d].at = "loop" /\ d \notin aborted /\ Held(c) = {} /\ Ready(c) # {}
     /\ DriveGoes(d, "round", c)
     /\ phase' = [phase EXCEPT ![d] = [s \in Steps |->
          IF s \notin Ready(c) THEN phase[d][s]
          ELSE IF effectLedger[s] = "completed" THEN "done" ELSE "begins"]]
     /\ UNCHANGED <<checkpoint, effectLedger, performed, aborted, grantedSteps,
                    workflowFaults>>

\* also where steps are left whose dependencies never complete
CompletesRun(d) ==
  LET c == drives[d].copy
  IN /\ drives[d].at = "loop" /\ d \notin aborted /\ Ready(c) = {}
     /\ Saves(d, "returned", [c EXCEPT !.status = "completed"])
     /\ UNCHANGED <<stepVars, aborted, grantedSteps, workflowFaults>>

\* the settlements of Promise.all: the slots of this drive are free again
RoundOf(d) == {s \in Steps : phase[d][s] # "idle" /\ s \in Ready(drives[d].copy)}

CompletesRound(d) ==
  /\ drives[d].at = "round"
  /\ \A s \in RoundOf(d) : phase[d][s] = "done"
  /\ Saves(d, "loop", [drives[d].copy EXCEPT !.completedSteps = @ \cup RoundOf(d)])
  /\ phase' = [phase EXCEPT ![d] = NoRound]
  /\ UNCHANGED <<effectLedger, performed, aborted, grantedSteps, workflowFaults>>

\* Seeded bug: only an aborted drive saves how it ended.
Caught_OnlyAborted(d) ==
  /\ \/ drives[d].at = "loop" /\ d \in aborted
     \/ drives[d].at = "round" /\ \E s \in RoundOf(d) : phase[d][s] = "failed"
  /\ IF d \in aborted THEN Saves(d, "returned", [drives[d].copy EXCEPT !.status = "cancelled"])
     ELSE DriveGoes(d, "returned", drives[d].copy) /\ UNCHANGED checkpoint
  /\ UNCHANGED <<stepVars, aborted, grantedSteps, workflowFaults>>

\* the catch: an aborted signal at the head of the loop, or the first step of
\* the round that fails; the steps beside it run on
Caught(d) ==
  /\ \/ drives[d].at = "loop" /\ d \in aborted
     \/ drives[d].at = "round" /\ \E s \in RoundOf(d) : phase[d][s] = "failed"
  /\ Saves(d, "returned", [drives[d].copy EXCEPT
       !.status = IF d \in aborted THEN "cancelled" ELSE "failed"])
  /\ UNCHANGED <<stepVars, aborted, grantedSteps, workflowFaults>>

----------------------------------------------------------------------------
(* runEffect: it has read the ledger *)

Moves(d, s, from, to) == phase[d][s] = from /\ phase' = [phase EXCEPT ![d][s] = to]

BeginsEffect(d, s) ==
  /\ Moves(d, s, "begins", "executes")
  /\ effectLedger' = [effectLedger EXCEPT ![s] = IF @ = "completed" THEN @ ELSE "started"]
  /\ UNCHANGED <<checkpoint, drives, performed, aborted, grantedSteps, workflowFaults>>

\* execute() returns: the effect has happened, and its record does not say so yet
Executes(d, s) ==
  /\ Moves(d, s, "executes", "happened")
  /\ performed' = [performed EXCEPT ![s] = @ + 1]
  /\ UNCHANGED <<checkpoint, drives, effectLedger, aborted, grantedSteps, workflowFaults>>

CompletesEffect(d, s) ==
  /\ Moves(d, s, "happened", "done")
  /\ effectLedger' = [effectLedger EXCEPT ![s] = "completed"]
  /\ UNCHANGED <<checkpoint, drives, performed, aborted, grantedSteps, workflowFaults>>

\* execute() or complete() throws: fail(), whatever the record says meanwhile
FailsEffect(d, s) ==
  /\ workflowFaults < MaxWorkflowFaults
  /\ workflowFaults' = workflowFaults + 1
  /\ \E from \in {"executes", "happened"} : Moves(d, s, from, "failed")
  /\ effectLedger' = [effectLedger EXCEPT ![s] = "failed"]
  /\ UNCHANGED <<checkpoint, drives, performed, aborted, grantedSteps>>

\* a store and a ledger that outlive the process: external to this code
WorkflowCrash ==
  /\ workflowFaults < MaxWorkflowFaults
  /\ workflowFaults' = workflowFaults + 1
  /\ \E d \in Drives : InFlight(d)
  /\ drives' = [d \in Drives |-> IF InFlight(d) THEN [drives[d] EXCEPT !.at = "lost"]
                                 ELSE drives[d]]
  /\ phase' = [d \in Drives |-> NoRound]
  /\ aborted' = {}
  /\ UNCHANGED <<checkpoint, effectLedger, performed, grantedSteps>>

WorkflowNext ==
  \/ \E d \in Drives :
       \/ RunWorkflow(d) \/ ResumeWorkflow(d) \/ ApprovesRun(d) \/ RejectsRun(d)
       \/ \E decision \in {"approving", "rejecting"} : ApproveWorkflow(d, decision)
       \/ StartsRound(d) \/ CompletesRun(d) \/ CompletesRound(d) \/ Caught(d)
       \/ \E s \in Steps :
            \/ AsksApproval(d, s) \/ BeginsEffect(d, s) \/ Executes(d, s)
            \/ CompletesEffect(d, s) \/ FailsEffect(d, s)
  \/ \E ds \in SUBSET Drives : CancelWorkflow(ds)
  \/ WorkflowCrash

WorkflowSpec == WorkflowInit /\ [][WorkflowNext]_workflowVars

----------------------------------------------------------------------------
(* Properties *)

WorkflowTypeOK ==
  /\ checkpoint \in OrchestrationCheckpoint
  /\ drives \in [Drives -> Drive]
  /\ phase \in [Drives -> [Steps ->
                  {"idle", "begins", "executes", "happened", "done", "failed"}]]
  /\ effectLedger \in [Steps -> {"none", "started", "completed", "failed"}]
  /\ aborted \subseteq Drives /\ grantedSteps \subseteq Steps
  /\ performed \in [Steps -> Nat]

Produced == {s \in Steps : performed[s] > 0}

(* What a run has recorded as completed has really run: across overlapping     *)
(* drives that overwrite each other's checkpoint, failures, approvals and       *)
(* crashes, each completed step has returned its text, and a run that is        *)
(* completed has run every step.                                                *)
CompletedHasRun ==
  /\ checkpoint.completedSteps \subseteq Produced
  /\ checkpoint.status = "completed" => Produced = Steps

(* A step is called only when all it depends on has run, and a gated one only   *)
(* when somebody approved it, whichever drive calls it and from whichever copy. *)
CalledInOrder ==
  \A d \in Drives, s \in Steps :
    phase[d][s] # "idle" => /\ DependsOn[s] \subseteq Produced
                            /\ s \in Gated => s \in grantedSteps

(* A run is not left running by nobody: when no call is in flight the stored     *)
(* status says how the last one ended, unless a crash took one.                  *)
NoOrphanRun ==
  /\ \A d \in Drives : drives[d].at # "lost" /\ ~InFlight(d)
  => checkpoint.status # "running"

(* "Run an external side effect once per idempotency key" (effect-ledger.ts,    *)
(* of runEffect()): once it has happened it is not repeated.  Refuted by two drives *)
(* that both find no record, and by a crash before complete().                    *)
EffectOnce == \A s \in Steps : performed[s] <= 1

(* What overlapping drives of one run, its failures and crashes leave behind        *)
(* (create-workflow.ts 160-420).                                                     *)
WorkflowInv == WorkflowTypeOK /\ CompletedHasRun /\ CalledInOrder /\ NoOrphanRun

=============================================================================
