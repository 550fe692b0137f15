--------------------------- MODULE RuntimeExecution ---------------------------
(***************************************************************************)
(* One execution of RuntimeOrchestrator, from execute() through crashes    *)
(* and boot recovery to its terminal checkpoint.                           *)
(*                                                                         *)
(* Each host process runs at most one main coroutine for the execution:    *)
(* execute() when the request arrives there, recoverIncomplete() at boot.  *)
(* The main coroutine starts delegated work (#runDelegatedStages) in a     *)
(* worker and races it against a timer and the caller's signal. The loser  *)
(* of the race is not stopped: it goes on writing checkpoints.             *)
(*                                                                         *)
(* A step is what runs between two awaits. A checkpoint write is two       *)
(* steps: the store, which the revision guards, and the load after it,     *)
(* which returns whatever is durable by then.                              *)
(***************************************************************************)
EXTENDS Lifecycle

CONSTANTS
  Procs,            \* host processes sharing the checkpoint store
  MaxAttempts,      \* RuntimePolicy.maxAttempts
  Retryable,        \* the errors RuntimePolicy.isRetryable accepts
  Policies,         \* the recovery policies policies.get may answer with
  MayExpire,        \* can the deadline pass?
  MayAbort,         \* can the caller abort its signal?
  MaxToolWrites,    \* bound: persistToolLoop calls per invocation
  MaxCrashes,       \* bound: process crashes
  MaxStoreFaults,   \* bound: checkpoint stores that fail
  MaxPublishFaults  \* bound: fact publications that fail

ErrorCode == {"FAILED", "TIMEOUT", "CANCELLED", "CONFLICT"}

RecoveryPolicyBundle ==
  [onRestart : {"resume-immediately", "resume-if-safe", "manual-recovery"},
   failIfExpired : BOOLEAN, failIfCancelled : BOOLEAN]
DEFAULT_RECOVERY_POLICY ==
  [onRestart |-> "resume-if-safe", failIfExpired |-> TRUE, failIfCancelled |-> TRUE]

ASSUME RuntimeAssumption ==
  /\ MaxAttempts \in Nat \ {0}
  /\ Retryable \subseteq ErrorCode
  /\ Policies # {} /\ Policies \subseteq RecoveryPolicyBundle
  /\ {MayExpire, MayAbort} \subseteq BOOLEAN
  /\ {MaxToolWrites, MaxCrashes, MaxStoreFaults, MaxPublishFaults} \subseteq Nat

VARIABLES
  ckpt,     \* the durable checkpoint
  policy,   \* the recovery policy configured for this execution
  expired,  \* has deadlineAt passed?
  aborted,  \* aborted[p]: the caller's signal for the execute() running in p
  mgr,      \* mgr[p]: histories of the two ExecutionStateManagers p may use
  main,     \* main[p]: locals of the main coroutine of p
  pc, cur,  \* pc[t], cur[t]: control point and `checkpoint` variable of t
  op,       \* op[t]: the checkpoint t is storing and where it goes on
  loc,      \* loc[w]: locals of worker w
  answer,   \* what the caller of execute() was told
  invoked,  \* number of capability.invoke calls so far
  finals,   \* number of runtime.execution.<terminal> facts published
  budget    \* faults the environment may still inject

store == <<ckpt, policy>>   \* what outlives a process
local == <<main, pc, cur, op, loc, mgr>>
env   == <<expired, aborted, budget>>
ghost == <<answer, invoked, finals>>
vars  == <<ckpt, policy, expired, aborted, mgr, main, pc, cur, op, loc, answer,
           invoked, finals, budget>>

-----------------------------------------------------------------------------
Main(p)   == <<p, 0>>
Workers   == Procs \X (1 .. MaxAttempts)
Threads   == Procs \X (0 .. MaxAttempts)
Slot      == {"run", "end"}   \* the manager of the run, that of #recoveryTerminalize

MainLabel ==
  {"down", "idle", "authorize", "schedule", "attempt", "run", "await", "retry",
   "backoff", "succeeded", "completed", "catch", "fail", "cancelled", "reach",
   "terminalize", "answer", "recover", "resume", "resumeRun", "resumed",
   "resumeCatch", "resumeFail", "bootCheck", "finished"}
WorkerLabel ==
  {"off", "enter", "plan", "planning", "work", "working", "ready", "invoke",
   "invoking", "invoked", "return", "done"}
Label == MainLabel \cup WorkerLabel \cup {"store", "reload"}

NoOp   == [rec |-> seedCheckpoint, fact |-> FALSE, then |-> "off"]
NoMain == [kind |-> "none", attempt |-> 0, handler |-> "down", err |-> "none",
           value |-> NoResult, target |-> "none", slot |-> "run", late |-> FALSE]
NoLoc  == [from |-> "accepted", reinvoke |-> TRUE, plan |-> FALSE, work |-> FALSE,
           call |-> NoResult, writes |-> 0]

Init ==
  /\ ckpt = seedCheckpoint
  /\ policy \in Policies
  /\ expired = FALSE
  /\ aborted = [p \in Procs |-> FALSE]
  /\ mgr = [p \in Procs |-> [s \in Slot |-> <<"created">>]]
  /\ main = [p \in Procs |-> NoMain]
  /\ pc = [t \in Threads |-> IF t[2] = 0 THEN "down" ELSE "off"]
  /\ cur = [t \in Threads |-> seedCheckpoint]
  /\ op = [t \in Threads |-> NoOp]
  /\ loc = [w \in Workers |-> NoLoc]
  /\ answer = [kind |-> "unsent", value |-> NoResult]
  /\ invoked = 0
  /\ finals = 0
  /\ budget = [crash |-> MaxCrashes, store |-> MaxStoreFaults,
               publish |-> MaxPublishFaults]

-----------------------------------------------------------------------------
(* Building blocks. *)

(* `(await checkpoints.load(id)) ?? checkpoint` *)
Loaded(t) == IF ckpt.rev = 0 THEN cur[t] ELSE ckpt

StateOf(p, s) == Last(mgr[p][s])

(* An exception in t. In the main coroutine it reaches the innermost catch; *)
(* a catch block that only swallows errors keeps the original one. In a     *)
(* worker it settles the race if the main coroutine is still awaiting it.   *)
Awaited(t) == pc[Main(t[1])] = "await" /\ main[t[1]].attempt = t[2]

Throw(t, e) ==
  LET p == t[1]
      kept == t[2] = 0 /\ main[p].handler = "answer"
      heard == t[2] = 0 \/ Awaited(t)
  IN  /\ pc' = [u \in Threads |->
                  IF u = Main(p) /\ heard THEN main[p].handler
                  ELSE IF u = t THEN "done" ELSE pc[u]]
      /\ main' = [main EXCEPT ![p].err = IF heard /\ ~kept THEN e ELSE @]

(* A post-invoke checkpoint without a result is refused before it is stored. *)
Unbacked(c) == c.stage = "post-invoke" /\ ~hasValidCapabilityResult(c)

(* Issue checkpoints.store(c), then continue at k.                          *)
CallStore(t, c, fact, k) ==
  /\ pc' = [pc EXCEPT ![t] = "store"]
  /\ op' = [op EXCEPT ![t] = [rec |-> c, fact |-> fact, then |-> k]]
  /\ UNCHANGED main

upsert(t, c, k) ==
  IF Unbacked(c) THEN Throw(t, "FAILED") /\ UNCHANGED op
  ELSE CallStore(t, Normalized(c), FALSE, k)

(* The manager moves before the store is attempted.                         *)
transitionAndCheckpoint(t, s, c, next, stage, k) ==
  LET p == t[1]
      history == Append(mgr[p][s], next)
      rec == Normalized(Stamped([c EXCEPT !.stage = stage], history))
  IN  IF next \in transitions[StateOf(p, s)]
      THEN /\ mgr' = [mgr EXCEPT ![p][s] = history]
           /\ IF Unbacked(rec) THEN Throw(t, "FAILED") /\ UNCHANGED op
              ELSE CallStore(t, rec, TRUE, k)
      ELSE Throw(t, "FAILED") /\ UNCHANGED <<mgr, op>>

Goto(t, k) == pc' = [pc EXCEPT ![t] = k]

-----------------------------------------------------------------------------
(* The checkpoint store and the fact publisher, for every thread. *)

(* Seeded bug: last writer wins, no revision check.                         *)
StoreCommits_Blind(t) ==
  /\ pc[t] = "store"
  /\ ckpt' = [op[t].rec EXCEPT !.rev = ckpt.rev + 1]
  /\ Goto(t, "reload")
  /\ UNCHANGED <<policy, env, ghost, main, cur, op, loc, mgr>>

StoreCommits(t) ==
  /\ pc[t] = "store"
  /\ op[t].rec.rev = ckpt.rev
  /\ ckpt' = [op[t].rec EXCEPT !.rev = @ + 1]
  /\ Goto(t, "reload")
  /\ UNCHANGED <<policy, env, ghost, main, cur, op, loc, mgr>>

StoreConflicts(t) ==
  /\ pc[t] = "store"
  /\ op[t].rec.rev # ckpt.rev
  /\ Throw(t, "CONFLICT")
  /\ UNCHANGED <<store, env, ghost, cur, op, loc, mgr>>

(* A store that fails for another reason; the write may have been applied.  *)
StoreFails(t) ==
  /\ pc[t] = "store"
  /\ budget.store > 0
  /\ budget' = [budget EXCEPT !.store = @ - 1]
  /\ \/ UNCHANGED ckpt
     \/ /\ op[t].rec.rev = ckpt.rev
        /\ ckpt' = [op[t].rec EXCEPT !.rev = @ + 1]
  /\ Throw(t, "FAILED")
  /\ UNCHANGED <<policy, expired, aborted, ghost, cur, op, loc, mgr>>

Reload(t) ==
  /\ pc[t] = "reload"
  /\ cur' = [cur EXCEPT ![t] = ckpt]
  /\ Goto(t, op[t].then)
  /\ finals' = IF op[t].fact /\ isTerminalState(op[t].rec.state)
               THEN finals + 1 ELSE finals
  /\ op' = [op EXCEPT ![t] = NoOp]
  /\ UNCHANGED <<store, env, answer, invoked, main, loc, mgr>>

(* events.publish rejects: the write is durable, the caller sees an error.  *)
PublishFails(t) ==
  /\ pc[t] = "reload"
  /\ op[t].fact
  /\ budget.publish > 0
  /\ budget' = [budget EXCEPT !.publish = @ - 1]
  /\ Throw(t, "FAILED")
  /\ op' = [op EXCEPT ![t] = NoOp]
  /\ UNCHANGED <<store, expired, aborted, ghost, cur, loc, mgr>>

-----------------------------------------------------------------------------
(* execute() *)

Start(p) ==
  /\ pc[Main(p)] = "idle"
  /\ answer.kind = "unsent"
  /\ answer' = [answer EXCEPT !.kind = "pending"]
  /\ main' = [main EXCEPT ![p] = [NoMain EXCEPT !.kind = "execute", !.handler = "catch"]]
  /\ mgr' = [mgr EXCEPT ![p]["run"] = <<"created", "initializing">>]
  /\ pc' = [pc EXCEPT ![Main(p)] = "store"]
  /\ cur' = [cur EXCEPT ![Main(p)] = seedCheckpoint]
  /\ op' = [op EXCEPT ![Main(p)] =
              [rec |-> Stamped(seedCheckpoint, <<"created", "initializing">>),
               fact |-> TRUE, then |-> "authorize"]]
  /\ UNCHANGED <<store, env, loc, invoked, finals>>

(* security.authorize and policies.get: denied, failed, or the policy is    *)
(* snapshotted into the checkpoint.                                         *)
Authorize(p) ==
  LET t == Main(p) IN
  /\ pc[t] = "authorize"
  /\ \/ Throw(t, "FAILED") /\ UNCHANGED op
     \/ upsert(t, Stamped([cur[t] EXCEPT !.snapshot = TRUE], mgr[p]["run"]),
               "schedule")
  /\ UNCHANGED <<store, env, ghost, cur, loc, mgr>>

(* ConcurrencyManager.run: refused at the limit, which other executions     *)
(* decide.                                                                  *)
Schedule(p) ==
  LET t == Main(p) IN
  /\ pc[t] = "schedule"
  /\ \/ Throw(t, "FAILED")
     \/ Goto(t, "attempt") /\ UNCHANGED main
  /\ UNCHANGED <<store, env, ghost, cur, op, loc, mgr>>

(* The work callback of RetryManager.run, up to timeout.run. What it stores  *)
(* was stored before, so #upsert does not refuse it.                        *)
Attempt(p) ==
  LET t == Main(p) IN
  /\ pc[t] = "attempt"
  /\ main' = [main EXCEPT ![p].attempt = @ + 1, ![p].handler = "retry"]
  /\ cur' = [cur EXCEPT ![t] = Loaded(t)]
  /\ pc' = [pc EXCEPT ![t] = "store"]
  /\ op' = [op EXCEPT ![t] = [rec |-> Normalized(Loaded(t)), fact |-> FALSE,
                              then |-> "run"]]
  /\ UNCHANGED <<store, env, ghost, loc, mgr>>

StartWorker(p, i, from, reinvoke) ==
  LET t == Main(p) IN
  /\ pc' = [pc EXCEPT ![t] = "await", ![<<p, i>>] = "enter"]
  /\ cur' = [cur EXCEPT ![<<p, i>>] = cur[t]]
  /\ loc' = [loc EXCEPT ![<<p, i>>] = [NoLoc EXCEPT !.from = from,
                                              !.reinvoke = reinvoke]]

Run(p) ==
  /\ pc[Main(p)] = "run"
  /\ StartWorker(p, main[p].attempt, "accepted", TRUE)
  /\ UNCHANGED <<store, env, ghost, main, op, mgr>>

(* Seeded bug: the timer aborts, but only a caller's abort is reported.     *)
TimerFires_Silent(p) ==
  /\ pc[Main(p)] = "await"
  /\ expired /\ aborted[p]
  /\ Throw(Main(p), "CANCELLED")
  /\ UNCHANGED <<store, env, ghost, cur, op, loc, mgr>>

(* The timer of TimeoutManager.run wins the race. The error depends on the  *)
(* signal, which may have been aborted when no listener could hear it.      *)
TimerFires(p) ==
  /\ pc[Main(p)] = "await"
  /\ expired
  /\ Throw(Main(p), IF aborted[p] THEN "CANCELLED" ELSE "TIMEOUT")
  /\ UNCHANGED <<store, env, ghost, cur, op, loc, mgr>>

(* The caller aborts its signal. Only timeout.run listens: an abort at any  *)
(* other time leaves nothing but the flag.                                  *)
Abort(p) ==
  /\ MayAbort
  /\ main[p].kind = "execute"
  /\ answer.kind = "pending"
  /\ ~aborted[p]
  /\ aborted' = [aborted EXCEPT ![p] = TRUE]
  /\ IF pc[Main(p)] = "await"
     THEN Throw(Main(p), "CANCELLED")
     ELSE UNCHANGED <<pc, main>>
  /\ UNCHANGED <<store, expired, budget, ghost, cur, op, loc, mgr>>

(* RetryManager.run: rethrow or recover. *)
Retry(p) ==
  LET t == Main(p)
      again == main[p].attempt < MaxAttempts /\ main[p].err \in Retryable
  IN
  /\ pc[t] = "retry"
  /\ main' = [main EXCEPT ![p].handler = "catch"]
  /\ Goto(t, IF again THEN "backoff" ELSE "catch")
  /\ UNCHANGED <<store, env, ghost, cur, op, loc, mgr>>

Backoff(p) ==
  LET t == Main(p) IN
  /\ pc[t] = "backoff"
  /\ cur' = [cur EXCEPT ![t] = Loaded(t)]
  /\ transitionAndCheckpoint(t, "run", Loaded(t), "recovering", Loaded(t).stage,
                             "attempt")
  /\ UNCHANGED <<store, env, ghost, loc>>

(* Seeded bug: the caller is answered before the terminal checkpoint.       *)
Succeeded_Early(p) ==
  LET t == Main(p) IN
  /\ pc[t] = "succeeded"
  /\ cur' = [cur EXCEPT ![t] = Loaded(t)]
  /\ transitionAndCheckpoint(t, "run",
       [Loaded(t) EXCEPT !.result = main[p].value], "completing", "post-invoke",
       "completed")
  /\ UNCHANGED <<store, env, ghost, loc>>

Succeeded(p) ==
  LET t == Main(p) IN
  /\ pc[t] = "succeeded"
  /\ cur' = [cur EXCEPT ![t] = Loaded(t)]
  /\ transitionAndCheckpoint(t, "run",
       [Loaded(t) EXCEPT !.result = main[p].value], "completing", "post-invoke",
       "terminalize")
  /\ UNCHANGED <<store, env, ghost, loc>>

Completed(p) ==
  /\ pc[Main(p)] = "completed"
  /\ answer' = [kind |-> "completed", value |-> main[p].value]
  /\ Goto(Main(p), "finished")
  /\ UNCHANGED <<store, env, invoked, finals, main, cur, op, loc, mgr>>

(* The catch block of execute(). Errors inside it are swallowed: the caller *)
(* is told the original one whatever became durable.                        *)
Catch(p) ==
  /\ pc[Main(p)] = "catch"
  /\ main' = [main EXCEPT ![p].handler = "answer",
                          ![p].target = IF main[p].err = "CANCELLED"
                                        THEN "cancelling" ELSE "failed"]
  /\ Goto(Main(p), "fail")
  /\ UNCHANGED <<store, env, ghost, cur, op, loc, mgr>>

Fail(p) ==
  LET t == Main(p)
      c == Loaded(t)
  IN
  /\ pc[t] = "fail"
  /\ cur' = [cur EXCEPT ![t] = c]
  /\ IF main[p].err = "CANCELLED"
     THEN upsert(t, [c EXCEPT !.cancelled = TRUE], "cancelled")
     ELSE /\ Goto(t, IF isTerminalState(StateOf(p, "run")) THEN "answer" ELSE "reach")
          /\ UNCHANGED <<main, op>>
  /\ UNCHANGED <<store, env, ghost, loc, mgr>>

Cancelled(p) ==
  LET t == Main(p) IN
  /\ pc[t] = "cancelled"
  /\ Goto(t, IF isTerminalState(StateOf(p, "run")) THEN "answer" ELSE "reach")
  /\ UNCHANGED <<store, env, ghost, main, cur, op, loc, mgr>>

(* Seeded bug: the error reaches the caller as it was thrown.               *)
Answer_RawError(p) ==
  /\ pc[Main(p)] = "answer"
  /\ answer' = [kind |-> main[p].err, value |-> NoResult]
  /\ Goto(Main(p), "finished")
  /\ UNCHANGED <<store, env, invoked, finals, main, cur, op, loc, mgr>>

Answer(p) ==
  /\ pc[Main(p)] = "answer"
  /\ answer' = [kind |-> IF main[p].err = "CANCELLED" THEN "cancelled" ELSE "failed",
                value |-> NoResult]
  /\ Goto(Main(p), "finished")
  /\ UNCHANGED <<store, env, invoked, finals, main, cur, op, loc, mgr>>

-----------------------------------------------------------------------------
(* #reachState and #terminalize, for execute() and for recovery. *)

(* The next transition on the way from state s to the target. *)
NextHop(s, target) ==
  IF target \in transitions[s] THEN target
  ELSE IF "recovering" \in transitions[s] THEN "recovering"
  ELSE IF target = "completing" /\ "executing" \in transitions[s] THEN "executing"
  ELSE "none"

(* Seeded bug: the loop does not notice that it is already there.           *)
Reach_NoArrival(p) ==
  LET t == Main(p)
      s == main[p].slot
      target == main[p].target
      hop == NextHop(StateOf(p, s), target)
      c == [cur[t] EXCEPT !.cancelled = @ \/ hop = "cancelling"]
  IN
  /\ pc[t] = "reach"
  /\ transitionAndCheckpoint(t, s, c, hop, c.stage,
       IF hop = target THEN "terminalize" ELSE "reach")
  /\ UNCHANGED <<store, env, ghost, cur, loc>>

Reach(p) ==
  LET t == Main(p)
      s == main[p].slot
      target == main[p].target
      hop == NextHop(StateOf(p, s), target)
      c == [cur[t] EXCEPT !.cancelled = @ \/ hop = "cancelling"]
  IN
  /\ pc[t] = "reach"
  /\ IF StateOf(p, s) = target
     THEN Goto(t, "terminalize") /\ UNCHANGED <<main, op, mgr>>
     ELSE transitionAndCheckpoint(t, s, c, hop, c.stage,
            IF hop = target THEN "terminalize" ELSE "reach")
  /\ UNCHANGED <<store, env, ghost, cur, loc>>

FinalState(target) ==
  CASE target = "completing" -> "completed"
    [] target = "cancelling" -> "cancelled"
    [] OTHER                 -> "failed"

(* Seeded bug: the terminal patch overrides the result.                     *)
Terminalize_DropsResult(p) ==
  LET t == Main(p)
      s == main[p].slot
      k == IF main[p].kind # "execute" THEN "finished"
           ELSE IF main[p].target = "completing" THEN "completed" ELSE "answer"
  IN
  /\ pc[t] = "terminalize"
  /\ transitionAndCheckpoint(t, s, [cur[t] EXCEPT !.result = NoResult],
                             FinalState(main[p].target), "terminal", k)
  /\ UNCHANGED <<store, env, ghost, cur, loc>>

Terminalize(p) ==
  LET t == Main(p)
      s == main[p].slot
      target == main[p].target
      c == [cur[t] EXCEPT !.result = IF target = "completing" THEN main[p].value ELSE @,
                          !.cancelled = @ \/ target = "cancelling"]
      k == IF main[p].kind # "execute" THEN "finished"
           ELSE IF target = "completing" THEN "completed" ELSE "answer"
  IN
  /\ pc[t] = "terminalize"
  /\ IF StateOf(p, s) = FinalState(target)
     THEN upsert(t, Stamped(c, mgr[p][s]), k) /\ UNCHANGED mgr
     ELSE transitionAndCheckpoint(t, s, c, FinalState(target), "terminal", k)
  /\ UNCHANGED <<store, env, ghost, cur, loc>>

Finished(p) ==
  /\ pc[Main(p)] = "finished"
  /\ Goto(Main(p), "idle")
  /\ main' = [main EXCEPT ![p] = NoMain]
  /\ cur' = [cur EXCEPT ![Main(p)] = seedCheckpoint]
  /\ UNCHANGED <<store, env, ghost, op, loc, mgr>>

-----------------------------------------------------------------------------
(* Boot recovery: recoverIncomplete(), #recoverOne(), #resumeCheckpoint(). *)

(* A process boots: an incomplete checkpoint is examined, with the time of  *)
(* the boot as its clock.                                                   *)
Boot(p) ==
  LET incomplete == ckpt.rev > 0 /\ ~ckpt.terminal IN
  /\ pc[Main(p)] = "down"
  /\ Goto(Main(p), IF incomplete THEN "recover" ELSE "idle")
  /\ main' = [main EXCEPT ![p] = IF incomplete
                                 THEN [NoMain EXCEPT !.kind = "recover",
                                                     !.handler = "bootCheck",
                                                     !.late = expired]
                                 ELSE NoMain]
  /\ cur' = [cur EXCEPT ![Main(p)] = IF incomplete THEN ckpt ELSE @]
  /\ UNCHANGED <<store, env, ghost, op, loc, mgr>>

(* The policy in force for a checkpoint: DEFAULT_RECOVERY_POLICY until the  *)
(* admission step has stored its snapshot.                                  *)
recoveryPolicyOf(c) == IF c.snapshot THEN policy ELSE DEFAULT_RECOVERY_POLICY

(* Seeded bug: manual recovery is not a reason to leave a checkpoint alone. *)
Decision_Automatic(c, late) ==
  LET r == recoveryPolicyOf(c) IN
  IF c.terminal THEN "ignore"
  ELSE IF r.failIfCancelled /\ c.cancelled THEN "cancelling"
  ELSE IF r.failIfExpired /\ late THEN "failed"
  ELSE IF isResumeSafeStage(c.stage) THEN "resume" ELSE "failed"

(* What #recoverOne does with a checkpoint: leave it, resume it, or drive it *)
(* to a target state. The tests are tried in this order.                     *)
Decision(c, late) ==
  LET r == recoveryPolicyOf(c) IN
  IF c.terminal THEN "ignore"
  ELSE IF r.failIfCancelled /\ c.cancelled THEN "cancelling"
  ELSE IF r.failIfExpired /\ late THEN "failed"
  ELSE IF r.onRestart = "manual-recovery" THEN "ignore"
  ELSE IF c.stage = "post-invoke" /\ ~hasValidCapabilityResult(c) THEN "failed"
  ELSE IF r.onRestart = "resume-if-safe" /\ ~isResumeSafeStage(c.stage) THEN "failed"
  ELSE "resume"

(* The recovery gate, one action per outcome. *)
RecoverIgnores(p) ==
  LET t == Main(p) IN
  /\ pc[t] = "recover"
  /\ Decision(Loaded(t), main[p].late) = "ignore"
  /\ Goto(t, "finished")
  /\ UNCHANGED <<store, env, ghost, main, cur, op, loc, mgr>>

RecoverTerminalizes(p) ==
  LET t == Main(p)
      d == Decision(Loaded(t), main[p].late)
  IN
  /\ pc[t] = "recover"
  /\ d \in {"cancelling", "failed"}
  /\ cur' = [cur EXCEPT ![t] = Loaded(t)]
  /\ mgr' = [mgr EXCEPT ![p]["end"] = Loaded(t).history]
  /\ main' = [main EXCEPT ![p].slot = "end", ![p].target = d]
  /\ Goto(t, "reach")
  /\ UNCHANGED <<store, env, ghost, op, loc>>

RecoverResumes(p) ==
  LET t == Main(p) IN
  /\ pc[t] = "recover"
  /\ Decision(Loaded(t), main[p].late) = "resume"
  /\ cur' = [cur EXCEPT ![t] = Loaded(t)]
  /\ mgr' = [mgr EXCEPT ![p]["run"] = Loaded(t).history]
  /\ main' = [main EXCEPT ![p].handler = "resumeCatch", ![p].attempt = 1]
  /\ Goto(t, "resume")
  /\ UNCHANGED <<store, env, ghost, op, loc>>

Resume(p) ==
  LET t == Main(p) IN
  /\ pc[t] = "resume"
  /\ IF "recovering" \in transitions[StateOf(p, "run")]
     THEN transitionAndCheckpoint(t, "run", cur[t], "recovering", cur[t].stage,
                                  "resumeRun")
     ELSE Goto(t, "resumeRun") /\ UNCHANGED <<main, op, mgr>>
  /\ UNCHANGED <<store, env, ghost, cur, loc>>

ResumeRun(p) ==
  /\ pc[Main(p)] = "resumeRun"
  /\ StartWorker(p, main[p].attempt, cur[Main(p)].stage,
                 recoveryPolicyOf(cur[Main(p)]).onRestart = "resume-immediately")
  /\ UNCHANGED <<store, env, ghost, main, op, mgr>>

Resumed(p) ==
  LET t == Main(p) IN
  /\ pc[t] = "resumed"
  /\ cur' = [cur EXCEPT ![t] = Loaded(t)]
  /\ Goto(t, IF isTerminalState(StateOf(p, "run")) THEN "finished" ELSE "reach")
  /\ UNCHANGED <<store, env, ghost, main, op, loc, mgr>>

(* The catch block of #resumeCheckpoint: an OCC loser stops; anything else  *)
(* is terminalized with a manager rebuilt from the durable history.         *)
ResumeCatch(p) ==
  LET t == Main(p)
      c == Loaded(t)
      lost == main[p].err = "CONFLICT" \/ c.terminal
  IN
  /\ pc[t] = "resumeCatch"
  /\ cur' = [cur EXCEPT ![t] = IF main[p].err = "CONFLICT" THEN @ ELSE c]
  /\ IF lost
     THEN Goto(t, "finished") /\ UNCHANGED <<main, mgr>>
     ELSE /\ mgr' = [mgr EXCEPT ![p]["end"] = c.history]
          /\ main' = [main EXCEPT ![p].slot = "end", ![p].handler = "bootCheck",
                                  ![p].target = "failed"]
          /\ Goto(t, "reach")
  /\ UNCHANGED <<store, env, ghost, op, loc>>

StopProcess(p) ==
  /\ pc' = [t \in Threads |-> IF t[1] # p THEN pc[t]
                              ELSE IF t[2] = 0 THEN "down" ELSE "off"]
  /\ main' = [main EXCEPT ![p] = NoMain]
  /\ cur' = [t \in Threads |-> IF t[1] = p THEN seedCheckpoint ELSE cur[t]]
  /\ op' = [t \in Threads |-> IF t[1] = p THEN NoOp ELSE op[t]]
  /\ loc' = [w \in Workers |-> IF w[1] = p THEN NoLoc ELSE loc[w]]
  /\ mgr' = [mgr EXCEPT ![p] = [s \in Slot |-> <<"created">>]]
  /\ aborted' = [aborted EXCEPT ![p] = FALSE]

(* An error in #recoveryTerminalize: a conflict is an occ-lost outcome, any *)
(* other error rejects recoverIncomplete and the host refuses to start.     *)
BootCheck(p) ==
  /\ pc[Main(p)] = "bootCheck"
  /\ IF main[p].err = "CONFLICT"
     THEN Goto(Main(p), "finished") /\ UNCHANGED <<main, cur, op, loc, mgr, aborted>>
     ELSE StopProcess(p)
  /\ UNCHANGED <<store, expired, budget, ghost>>

(* #publishRecoveryFact rejects, before the decision, before the resume or  *)
(* after #recoveryTerminalize: recoverIncomplete rejects, the boot fails.   *)
RecoveryFactFails(p) ==
  LET k == pc[Main(p)] IN
  /\ main[p].kind = "recover"
  /\ \/ k = "recover" /\ ~Loaded(Main(p)).terminal
     \/ k = "resume"
     \/ /\ k = "finished"
        /\ main[p].target \in {"failed", "cancelling"}
        /\ main[p].err # "CONFLICT"
  /\ budget.publish > 0
  /\ budget' = [budget EXCEPT !.publish = @ - 1]
  /\ StopProcess(p)
  /\ UNCHANGED <<store, expired, ghost>>

-----------------------------------------------------------------------------
(* Delegated work: #runDelegatedStages in worker w. *)

(* Seeded bug: a resume at post-invoke does not restore the result.         *)
Enter_IgnoresResult(w) ==
  LET c == Loaded(w) IN
  /\ pc[w] = "enter"
  /\ cur' = [cur EXCEPT ![w] = c]
  /\ loc' = [loc EXCEPT ![w].plan = c.plan, ![w].work = c.work]
  /\ IF StateOf(w[1], "run") = "recovering"
     THEN transitionAndCheckpoint(w, "run", c,
            IF c.plan THEN "executing" ELSE "planning", c.stage, "plan")
     ELSE Goto(w, "plan") /\ UNCHANGED <<main, op, mgr>>
  /\ UNCHANGED <<store, env, ghost>>

Enter(w) ==
  LET p == w[1]
      c == Loaded(w)
  IN
  /\ pc[w] = "enter"
  /\ cur' = [cur EXCEPT ![w] = c]
  /\ loc' = [loc EXCEPT ![w].plan = c.plan, ![w].work = c.work,
                        ![w].call = IF loc[w].from = "post-invoke" THEN c.result ELSE @]
  /\ IF loc[w].from = "post-invoke"
     THEN /\ IF c.stage \in {"post-invoke", "terminal"} /\ hasValidCapabilityResult(c)
             THEN Goto(w, "return") /\ UNCHANGED main
             ELSE Throw(w, "FAILED")
          /\ UNCHANGED <<op, mgr>>
     ELSE IF StateOf(p, "run") = "recovering"
     THEN transitionAndCheckpoint(w, "run", c,
            IF c.plan THEN "executing" ELSE "planning", c.stage, "plan")
     ELSE Goto(w, "plan") /\ UNCHANGED <<main, op, mgr>>
  /\ UNCHANGED <<store, env, ghost>>

PlanStage(w) ==
  LET p == w[1] IN
  /\ pc[w] = "plan"
  /\ IF loc[w].plan
     THEN Goto(w, "work") /\ UNCHANGED <<main, op, mgr>>
     ELSE IF loc[w].from \in {"post-planning", "post-workflow", "pre-invoke"}
     THEN Throw(w, "FAILED") /\ UNCHANGED <<op, mgr>>
     ELSE IF "planning" \in transitions[StateOf(p, "run")]
     THEN transitionAndCheckpoint(w, "run", cur[w], "planning", cur[w].stage,
                                  "planning")
     ELSE Goto(w, "planning") /\ UNCHANGED <<main, op, mgr>>
  /\ UNCHANGED <<store, env, ghost, cur, loc>>

(* planning.plan answers or throws. *)
Planning(w) ==
  /\ pc[w] = "planning"
  /\ \/ /\ upsert(w, Stamped([cur[w] EXCEPT !.plan = TRUE, !.stage = "post-planning"],
                             mgr[w[1]]["run"]), "work")
        /\ loc' = [loc EXCEPT ![w].plan = TRUE]
     \/ Throw(w, "FAILED") /\ UNCHANGED <<op, loc>>
  /\ UNCHANGED <<store, env, ghost, cur, mgr>>

WorkStage(w) ==
  LET p == w[1] IN
  /\ pc[w] = "work"
  /\ IF loc[w].work
     THEN Goto(w, "ready") /\ UNCHANGED <<main, op, mgr>>
     ELSE IF loc[w].from \in {"post-workflow", "pre-invoke"}
     THEN Throw(w, "FAILED") /\ UNCHANGED <<op, mgr>>
     ELSE IF "executing" \in transitions[StateOf(p, "run")]
     THEN transitionAndCheckpoint(w, "run", cur[w], "executing", "post-planning",
                                  "working")
     ELSE Goto(w, "working") /\ UNCHANGED <<main, op, mgr>>
  /\ UNCHANGED <<store, env, ghost, cur, loc>>

(* workflow.execute answers or throws. *)
Working(w) ==
  /\ pc[w] = "working"
  /\ \/ /\ upsert(w, Stamped([cur[w] EXCEPT !.plan = loc[w].plan, !.work = TRUE,
                                            !.stage = "post-workflow"],
                             mgr[w[1]]["run"]), "ready")
        /\ loc' = [loc EXCEPT ![w].work = TRUE]
     \/ Throw(w, "FAILED") /\ UNCHANGED <<op, loc>>
  /\ UNCHANGED <<store, env, ghost, cur, mgr>>

(* Seeded bug: no checkpoint before the call.                               *)
Ready_NoCheckpoint(w) ==
  /\ pc[w] = "ready"
  /\ Goto(w, "invoke")
  /\ UNCHANGED <<store, env, ghost, main, cur, op, loc, mgr>>

Ready(w) ==
  /\ pc[w] = "ready"
  /\ upsert(w, Stamped([cur[w] EXCEPT !.plan = loc[w].plan, !.work = loc[w].work,
                                      !.stage = "pre-invoke"],
                       mgr[w[1]]["run"]), "invoke")
  /\ UNCHANGED <<store, env, ghost, cur, loc, mgr>>

(* Call the capability, unless the resume started at pre-invoke under a     *)
(* policy that forbids invoking again.                                      *)
Invoke(w) ==
  /\ pc[w] = "invoke"
  /\ IF loc[w].from = "pre-invoke" /\ ~loc[w].reinvoke
     THEN Throw(w, "FAILED") /\ UNCHANGED <<invoked, loc>>
     ELSE /\ invoked' = invoked + 1
          /\ loc' = [loc EXCEPT ![w].call = invoked + 1]
          /\ Goto(w, "invoking") /\ UNCHANGED main
  /\ UNCHANGED <<store, env, answer, finals, cur, op, mgr>>

InvokeReturns(w) ==
  /\ pc[w] = "invoking"
  /\ \/ Goto(w, "invoked") /\ UNCHANGED main
     \/ Throw(w, "FAILED")
  /\ UNCHANGED <<store, env, ghost, cur, op, loc, mgr>>

(* persistToolLoop, called by the capability while it runs. *)
PersistToolLoop(w) ==
  /\ pc[w] = "invoking"
  /\ loc[w].writes < MaxToolWrites
  /\ loc' = [loc EXCEPT ![w].writes = @ + 1]
  /\ upsert(w, Loaded(w), "invoking")
  /\ UNCHANGED <<store, env, ghost, cur, mgr>>

(* The capability has answered: store the result on top of whatever         *)
(* checkpoint is durable now.                                               *)
Invoked(w) ==
  /\ pc[w] = "invoked"
  /\ upsert(w, Stamped([Loaded(w) EXCEPT !.plan = loc[w].plan, !.work = loc[w].work,
                                         !.result = loc[w].call,
                                         !.stage = "post-invoke"],
                       mgr[w[1]]["run"]), "return")
  /\ UNCHANGED <<store, env, ghost, cur, loc, mgr>>

Return(w) ==
  LET p == w[1] IN
  /\ pc[w] = "return"
  /\ pc' = [u \in Threads |->
              IF u = Main(p) /\ Awaited(w)
              THEN IF main[p].kind = "execute" THEN "succeeded" ELSE "resumed"
              ELSE IF u = w THEN "done" ELSE pc[u]]
  /\ main' = IF Awaited(w)
             THEN [main EXCEPT ![p].value = loc[w].call, ![p].target = "completing",
                               ![p].handler = IF @ = "retry" THEN "catch" ELSE @]
             ELSE main
  /\ UNCHANGED <<store, env, ghost, cur, op, loc, mgr>>

-----------------------------------------------------------------------------
(* The environment. *)

Expire ==
  /\ MayExpire
  /\ answer.kind # "unsent"
  /\ ~expired
  /\ expired' = TRUE
  /\ UNCHANGED <<store, local, aborted, budget, ghost>>

Crash(p) ==
  /\ pc[Main(p)] # "down"
  /\ budget.crash > 0
  /\ budget' = [budget EXCEPT !.crash = @ - 1]
  /\ StopProcess(p)
  /\ UNCHANGED <<store, expired, ghost>>

StoreStep(t) ==
  StoreCommits(t) \/ StoreConflicts(t) \/ StoreFails(t) \/ Reload(t) \/ PublishFails(t)

ExecuteStep(p) ==
  \/ Authorize(p) \/ Schedule(p) \/ Attempt(p) \/ Run(p) \/ TimerFires(p)
  \/ Retry(p) \/ Backoff(p) \/ Succeeded(p) \/ Completed(p) \/ Catch(p)
  \/ Fail(p) \/ Cancelled(p) \/ Answer(p)

FinishStep(p) == Reach(p) \/ Terminalize(p) \/ Finished(p)

RecoverStep(p) ==
  \/ RecoverIgnores(p) \/ RecoverTerminalizes(p) \/ RecoverResumes(p)
  \/ Resume(p) \/ ResumeRun(p) \/ Resumed(p) \/ ResumeCatch(p)
  \/ BootCheck(p) \/ RecoveryFactFails(p)

WorkerStep(w) ==
  \/ Enter(w) \/ PlanStage(w) \/ Planning(w) \/ WorkStage(w) \/ Working(w)
  \/ Ready(w) \/ Invoke(w) \/ InvokeReturns(w) \/ PersistToolLoop(w)
  \/ Invoked(w) \/ Return(w)

Next ==
  \/ \E p \in Procs : \/ Boot(p) \/ Start(p) \/ Abort(p) \/ Crash(p)
                      \/ ExecuteStep(p) \/ FinishStep(p) \/ RecoverStep(p)
  \/ \E t \in Threads : StoreStep(t)
  \/ \E w \in Workers : WorkerStep(w)
  \/ Expire

Spec == Init /\ [][Next]_vars

-----------------------------------------------------------------------------
(* Properties. *)

MainLocals ==
  [kind : {"none", "execute", "recover"}, attempt : Nat, handler : Label,
   err : ErrorCode \cup {"none"}, value : Nat,
   target : {"none", "failed", "cancelling", "completing"}, slot : Slot,
   late : BOOLEAN]
WorkerLocals ==
  [from : ExecutionStage, reinvoke : BOOLEAN, plan : BOOLEAN, work : BOOLEAN,
   call : Nat, writes : Nat]
StoreCall == [rec : ExecutionCheckpoint, fact : BOOLEAN, then : Label]

TypeOK ==
  /\ ckpt \in ExecutionCheckpoint
  /\ policy \in Policies
  /\ expired \in BOOLEAN
  /\ aborted \in [Procs -> BOOLEAN]
  /\ mgr \in [Procs -> [Slot -> Seq(ExecutionState)]]
  /\ main \in [Procs -> MainLocals]
  /\ pc \in [Threads -> Label]
  /\ cur \in [Threads -> ExecutionCheckpoint]
  /\ op \in [Threads -> StoreCall]
  /\ loc \in [Workers -> WorkerLocals]
  /\ answer \in [kind : {"unsent", "pending", "completed", "failed", "cancelled"},
                 value : Nat]
  /\ invoked \in Nat
  /\ finals \in Nat
  /\ budget \in [crash : Nat, store : Nat, publish : Nat]

LegalPath(h) ==
  /\ h # <<>>
  /\ h[1] = "created"
  /\ \A i \in 1 .. Len(h) - 1 : h[i + 1] \in transitions[h[i]]

(* The durable record is a legal lifecycle: its history is a path of the    *)
(* transition table that ends in its state, and its terminal flag agrees    *)
(* with that state, whichever coroutines of whichever process wrote the     *)
(* pieces (#transitionAndCheckpoint, #upsert, fromHistory). Its stage is    *)
(* "terminal" then; the converse fails, see TerminalIsFinal.                *)
Lawful(c) ==
  /\ LegalPath(c.history)
  /\ c.state = Last(c.history)
  /\ c.terminal = isTerminalState(c.state)
  /\ c.terminal => c.stage = "terminal"
DurableLifecycle == Lawful(ckpt)

(* What keeps it so, and the inductive invariant of the proofs: every copy  *)
(* a coroutine holds or is about to store is lawful, and every manager has  *)
(* walked the table.                                                        *)
LifecycleInv ==
  /\ Lawful(ckpt)
  /\ \A t \in Threads : Lawful(cur[t]) /\ Lawful(op[t].rec)
  /\ \A p \in Procs, s \in Slot : LegalPath(mgr[p][s])

(* An execution is recorded as completing or completed only with the        *)
(* capability result that its caller, or a later recovery, reads from it.   *)
CompletedHasResult ==
  ckpt.state \in {"completing", "completed"} => hasValidCapabilityResult(ckpt)

(* Write-ahead of the unsafe boundary: while a capability runs, the         *)
(* checkpoint that a crash would leave behind says so.                      *)
WriteAhead ==
  \A w \in Workers : pc[w] \in {"invoking", "invoked"} =>
    ckpt.plan /\ ckpt.work /\ ckpt.stage \in {"pre-invoke", "post-invoke", "terminal"}

(* Crashes and recoveries never call the capability more often than the     *)
(* attempts of execute() did; under resume-immediately each crash may cost  *)
(* one call more.                                                           *)
InvocationsBounded ==
  invoked <= MaxAttempts + (IF policy.onRestart = "resume-immediately"
                            THEN MaxCrashes - budget.crash ELSE 0)

(* Once its result is durable, a capability is not called again.            *)
ResultNotRecomputed ==
  [][hasValidCapabilityResult(ckpt) => invoked' = invoked]_vars

(* A terminal checkpoint keeps its state and its history.                   *)
TerminalIsFinal ==
  [][ckpt.terminal => /\ ckpt'.state = ckpt.state
                      /\ ckpt'.history = ckpt.history]_ckpt

(* The durable history only grows.                                          *)
HistoryAppendOnly == [][IsPrefix(ckpt.history, ckpt'.history)]_ckpt

(* What the caller was told to be completed is durable, with that result.   *)
CompletedIsDurable ==
  answer.kind = "completed" =>
    ckpt.state = "completed" /\ ckpt.result = answer.value

(* A caller told of a cancellation is not contradicted by a completion.     *)
CancelledNeverCompletes ==
  answer.kind = "cancelled" => ckpt.state # "completed"

(* One terminal fact per execution.                                         *)
OneTerminalFact == finals <= 1

(* Nothing the pipeline has made durable is lost: a plan, a workflow work    *)
(* item, a capability result, a cancellation mark or the policy snapshot,   *)
(* whichever coroutine writes next from whichever copy it holds.            *)
Kept(c, d) ==
  /\ c.plan => d.plan
  /\ c.work => d.work
  /\ c.snapshot => d.snapshot
  /\ c.cancelled => d.cancelled
  /\ hasValidCapabilityResult(c) => hasValidCapabilityResult(d)
ArtifactsKept == [][Kept(ckpt, ckpt')]_ckpt

(* A caller told of a failure is not contradicted by a completion.          *)
FailedNeverCompletes ==
  answer.kind = "failed" => ckpt.state # "completed"

(* Under manual-recovery a restarted host leaves an interrupted execution   *)
(* alone: once its policy is durable, its request gone with its process,    *)
(* and unless it was cancelled or has expired, its checkpoint stays as is.  *)
Deferred ==
  /\ policy.onRestart = "manual-recovery" /\ ckpt.snapshot
  /\ ~(policy.failIfCancelled /\ ckpt.cancelled)
  /\ ~(policy.failIfExpired /\ expired)
  /\ answer.kind = "pending" /\ \A p \in Procs : main[p].kind # "execute"
DeferredIsUntouched == [][Deferred => UNCHANGED ckpt]_vars

(* The event loop runs the coroutines of a live process, the host is        *)
(* restarted when it is down, and the clock advances. Nothing obliges the   *)
(* delegated ports to answer, nor a worker to be scheduled.                 *)
Fairness ==
  /\ \A p \in Procs :
       WF_vars(\/ Boot(p) \/ ExecuteStep(p) \/ FinishStep(p)
               \/ RecoverStep(p) \/ StoreStep(Main(p)))
  /\ WF_vars(Expire)
FairSpec == Spec /\ Fairness

(* Every execute() ends, with an answer or with its process, even when a    *)
(* delegated port never answers.                                            *)
Answered ==
  \A p \in Procs : main[p].kind = "execute" ~> main[p].kind # "execute"

(* A host that is down comes up: whatever checkpoint was left behind, boot  *)
(* recovery gets past it.                                                   *)
BootCompletes ==
  \A p \in Procs : pc[Main(p)] = "down" ~> pc[Main(p)] = "idle"

(* An execution ends once, and if it completes with the result its           *)
(* capability returned (runtime.ts 781-809, 1191-1212).                      *)
TerminalInv == OneTerminalFact /\ CompletedHasResult

(* Where no timer abandons a worker, the durable record of an execution only *)
(* grows, crashes and failing stores included, and once terminal it stays     *)
(* what it is (the OCC of adapters.ts 45-88 and #upsert).                     *)
RecordGrows == TerminalIsFinal /\ HistoryAppendOnly /\ ArtifactsKept

(* What the caller was told is what the checkpoint says, then and after       *)
(* recovery (runtime.ts 301-316, 617-711).                                    *)
AnswerKept == CompletedIsDurable /\ FailedNeverCompletes

=============================================================================
