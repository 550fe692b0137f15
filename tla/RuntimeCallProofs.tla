------------------------- MODULE RuntimeCallProofs -------------------------
(***************************************************************************)
(* For one host, deadlines included, where an abandoned attempt is not     *)
(* retried: a capability runs only while the durable stage says that it    *)
(* may (WriteAhead).  At most one worker runs then; what it knows of is    *)
(* durable and the other way round, and nothing that is stored over its    *)
(* pre-invoke checkpoint takes it back.  Where no policy forces a retry,   *)
(* it is not called more often than RetryManager attempts                  *)
(* (InvocationsBounded): what is on record of a call keeps a recovery from *)
(* calling again.  Where there is one attempt, it is not called again once *)
(* its result is durable (ResultNotRecomputed).                            *)
(***************************************************************************)
EXTENDS RuntimeGrowProofs

-----------------------------------------------------------------------------
(* One host: a call of the capability is on record before it is made.       *)

(* RetryManager.run does not start an attempt beside an abandoned one.      *)
AbandonedIsFinal == {"TIMEOUT", "CANCELLED"} \cap Retryable = {}

(* Where a main coroutine is not as long as a worker runs, other than to    *)
(* start it, and where it is when the worker may have been abandoned.       *)
Before == {"down", "authorize", "schedule", "attempt", "run", "backoff", "recover",
           "resume", "resumeRun"}
Leaves(k, o, m) == /\ k \notin Before
                   /\ k \in {"store", "reload"} => o.then \notin Before
                   /\ k = "retry" => m.err \notin Retryable
                   /\ m.handler = "retry" => k \in {"await", "retry"}
LeavesOK == Leaves(pc[Main(Host)], op[Main(Host)], main[Host])
SoleInv == /\ \A w, v \in Workers : Alive(w) /\ Alive(v) => v = w
           /\ WorkerAlive => LeavesOK /\ answer.kind # "unsent"
           /\ Unsent(ckpt)

(* A coroutine that runs.                                                   *)
Acts(t) == IF t = Main(Host) THEN pc[t] \notin {"down", "idle"} ELSE Alive(t)

(* Every copy of the durable revision stays the durable checkpoint.         *)
LEMMA ExactNext ==
  ASSUME OneHost, IInv, RecordInv, Exact(ckpt), [Next]_vars
  PROVE  Exact(ckpt)'
<1>0. Procs = {Host} /\ \A t \in Threads : Loaded(t) = ckpt
  BY HostFacts, LoadedIs
<1>1. ASSUME NEW t \in Threads, StoreStep(t)
      PROVE  Exact(ckpt)'
  <2>1. CASE ckpt' = ckpt
    <3>1. cur' = cur \/ cur' = [cur EXCEPT ![t] = ckpt]
      BY <1>1 DEF StoreStep, StoreCommits, StoreConflicts, StoreFails, Reload, PublishFails
    <3>2. \A u \in Threads : cur'[u] \in {cur[u], ckpt}
      BY <3>1 DEF IInv, CurOK
    <3>3. QED
      BY <2>1, <3>2, CopiesExact
  <2>2. CASE ckpt' # ckpt
    <3>1. op[t].rec.rev = ckpt.rev /\ ckpt' = [op[t].rec EXCEPT !.rev = @ + 1] /\ cur' = cur
      BY <1>1, <2>2 DEF StoreStep, StoreCommits, StoreConflicts, StoreFails, Reload,
         PublishFails, store
    <3>2. /\ op[t].rec \in ExecutionCheckpoint /\ ckpt.rev \in Nat
          /\ \A u \in Threads : cur[u].rev \in Nat /\ cur[u].rev <= ckpt.rev
      BY Typed, NoneNewer DEF ExecutionCheckpoint
    <3>3. ckpt'.rev = ckpt.rev + 1
      BY <3>1, <3>2 DEF ExecutionCheckpoint
    <3>4. QED
      BY <3>1, <3>2, <3>3 DEF Exact
  <2>3. QED
    BY <2>1, <2>2
<1>2. ASSUME ckpt' = ckpt, NEW t \in Threads,
             \/ cur' = cur \/ cur' = [cur EXCEPT ![t] = Loaded(t)]
             \/ \E u \in Threads : cur' = [cur EXCEPT ![t] = cur[u]]
             \/ cur' = [cur EXCEPT ![t] = seedCheckpoint] \/ cur' = [cur EXCEPT ![t] = ckpt]
      PROVE  Exact(ckpt)'
  <2>1. \A v \in Threads : \/ cur'[v] \in {ckpt, seedCheckpoint}
                           \/ \E u \in Threads : cur'[v] = cur[u]
    BY <1>0, <1>2 DEF IInv, CurOK
  <2>2. QED
    BY <1>2, <2>1, CopiesExact
<1>3. ASSUME ckpt' = ckpt, StopProcess(Host)
      PROVE  Exact(ckpt)'
  <2>1. \A v \in Threads : cur'[v] \in {cur[v], seedCheckpoint}
    BY <1>3 DEF StopProcess
  <2>2. QED
    BY <1>3, <2>1, CopiesExact
<1>m. Main(Host) \in Threads /\ \A w \in Workers : w \in Threads
  BY HostFacts
<1>s. ASSUME NEW i, NEW from, NEW b, StartWorker(Host, i, from, b), ckpt' = ckpt
      PROVE  Exact(ckpt)'
  <2>1. cur' = [cur EXCEPT ![<<Host, i>>] = cur[Main(Host)]]
    BY <1>s DEF StartWorker
  <2>2. \A v \in Threads : cur'[v] \in {cur[v], cur[Main(Host)]}
    BY <2>1 DEF IInv, CurOK
  <2>3. QED
    BY <1>m, <1>s, <2>2, CopiesExact
<1>4. CASE Boot(Host) \/ Start(Host) \/ Abort(Host) \/ Expire
  <2>1. /\ ckpt' = ckpt
        /\ \/ cur' = cur \/ cur' = [cur EXCEPT ![Main(Host)] = ckpt]
           \/ cur' = [cur EXCEPT ![Main(Host)] = seedCheckpoint]
           \/ cur' = [cur EXCEPT ![Main(Host)] = cur[Main(Host)]]
    BY <1>4 DEF Boot, Start, Abort, Expire, store, local
  <2>2. QED
    BY <1>2, <1>m, <2>1
<1>5. CASE Crash(Host)
  BY <1>3, <1>5 DEF Crash, store
<1>6. CASE ExecuteStep(Host)
  <2>1. /\ ckpt' = ckpt
        /\ \/ cur' = cur \/ cur' = [cur EXCEPT ![Main(Host)] = Loaded(Main(Host))]
           \/ StartWorker(Host, main[Host].attempt, "accepted", TRUE)
    BY <1>6 DEF ExecuteStep, Authorize, Schedule, Attempt, Run, TimerFires, Retry, Backoff,
         Succeeded, Completed, Catch, Fail, Cancelled, Answer, store
  <2>2. QED
    BY <1>2, <1>m, <1>s, <2>1
<1>7. CASE FinishStep(Host)
  <2>1. /\ ckpt' = ckpt
        /\ cur' = cur \/ cur' = [cur EXCEPT ![Main(Host)] = seedCheckpoint]
    BY <1>7 DEF FinishStep, Reach, Terminalize, Finished, store
  <2>2. QED
    BY <1>2, <1>m, <2>1
<1>8. CASE RecoverStep(Host)
  <2>1. /\ ckpt' = ckpt
        /\ \/ cur' = cur \/ cur' = [cur EXCEPT ![Main(Host)] = Loaded(Main(Host))]
           \/ cur' = [cur EXCEPT ![Main(Host)] = cur[Main(Host)]]
           \/ \E b, from : StartWorker(Host, main[Host].attempt, from, b)
           \/ StopProcess(Host)
    BY <1>8 DEF RecoverStep, RecoverIgnores, RecoverTerminalizes, RecoverResumes, Resume,
         ResumeRun, Resumed, ResumeCatch, BootCheck, RecoveryFactFails, store
  <2>2. QED
    BY <1>2, <1>3, <1>m, <1>s, <2>1
<1>9. ASSUME NEW w \in Workers, WorkerStep(w)
      PROVE  Exact(ckpt)'
  <2>1. ckpt' = ckpt /\ (cur' = cur \/ cur' = [cur EXCEPT ![w] = Loaded(w)])
    BY <1>9 DEF WorkerStep, Enter, PlanStage, Planning, WorkStage, Working, Ready, Invoke,
           InvokeReturns, PersistToolLoop, Invoked, Return, store
  <2>2. QED
    BY <1>2, <1>m, <2>1
<1>10. CASE UNCHANGED vars
  BY <1>2, <1>10, <1>m DEF vars
<1>11. QED
  BY <1>0, <1>1, <1>4, <1>5, <1>6, <1>7, <1>8, <1>9, <1>10 DEF Next

-----------------------------------------------------------------------------
(* At most one worker.                                                      *)

LEMMA ActorAsked ==
  ASSUME OneHost, IInv, DeferInv, SoleInv, NEW t \in Threads, Acts(t)
  PROVE  answer.kind # "unsent"
<1>1. CASE t = Main(Host)
  BY <1>1 DEF Acts, DeferInv, KindsOK, Kinds, SoleInv, Unsent
<1>2. CASE t # Main(Host)
  BY <1>2, HostFacts DEF Acts, SoleInv, WorkerAlive
<1>3. QED
  BY <1>1, <1>2

LEMMA SoleMove ==
  ASSUME OneHost, IInv, DeferInv, SoleInv, NEW t \in Threads, Acts(t), 
         answer.kind # "unsent" => answer'.kind # "unsent",
         \A w \in Workers : Alive(w)' => Alive(w),
         WorkerAlive /\ WorkerAlive' /\ LeavesOK => LeavesOK'
  PROVE  SoleInv'
<1>1. answer.kind # "unsent" /\ answer'.kind # "unsent"
  BY ActorAsked
<1>2. Unsent(ckpt)'
  BY <1>1 DEF Unsent
<1>3. WorkerAlive' => WorkerAlive
  BY DEF WorkerAlive
<1>4. QED
  BY <1>1, <1>2, <1>3 DEF SoleInv

LEMMA ThrowSole ==
  ASSUME OneHost, IInv, DeferInv, SoleInv, NEW t \in Threads, NEW e, Throw(t, e),
         Acts(t), t = Main(Host) => pc[t] # "retry",
         t = Main(Host) /\ pc[t] = "await" => e \notin Retryable,
         answer.kind # "unsent" => answer'.kind # "unsent"
  PROVE  SoleInv'
<1> DEFINE M == Main(Host)
<1>0. /\ M \in Threads /\ M = Main(Host)' /\ t[1] = Host /\ Host \in Procs /\ M[2] = 0
      /\ main[Host] \in MainLocals /\ (t = M \/ t \in Workers)
  BY HostFacts, Typed DEF Main, Workers, Threads
<1>1. /\ pc'[M] = IF t = M \/ Awaited(t) THEN main[Host].handler ELSE pc[M]
      /\ \A w \in Workers : pc'[w] = IF w = t THEN "done" ELSE pc[w]
      /\ main'[Host].handler = main[Host].handler
  BY ThrowHere
<1>2. \A w \in Workers : Alive(w)' => Alive(w) /\ w # t
  BY <1>1 DEF Alive
<1>3. t # M => ~WorkerAlive'
  BY <1>0, <1>1, <1>2 DEF WorkerAlive, SoleInv, Acts
<1>4. ASSUME t = M, WorkerAlive, LeavesOK
      PROVE  LeavesOK'
  <2>1. Leaves(pc[M], op[M], main[Host]) /\ pc[M] \notin {"down", "idle"}
    BY <1>4 DEF LeavesOK, Acts
  <2>2. main[Host].handler \in {"catch", "retry", "answer", "bootCheck", "resumeCatch"}
    BY <2>1, KindIs DEF DeferInv, KindsOK, Kinds
  <2>3. pc'[M] = main[Host].handler
    BY <1>1, <1>4
  <2>4. main[Host].handler = "retry" => main'[Host].err \notin Retryable
    <3>1. SUFFICES ASSUME main[Host].handler = "retry" PROVE main'[Host].err \notin Retryable
      OBVIOUS
    <3>2. pc[M] = "await"
      BY <1>4, <2>1, <3>1 DEF Leaves
    <3>3. main' = [main EXCEPT ![Host] = [main[Host] EXCEPT !.err = e]]
      BY <1>0, <1>4, <3>1 DEF Throw
    <3>4. main'[Host].err = e
      BY <1>0, <3>3 DEF IInv, MainOK, MainLocals
    <3>5. QED
      BY <1>4, <3>2, <3>4
  <2>5. Leaves(pc'[M], op'[M], main'[Host])
    BY <1>1, <2>2, <2>3, <2>4 DEF Leaves, Before
  <2>6. QED
    BY <1>0, <2>5 DEF LeavesOK
<1>5. QED
  BY <1>2, <1>3, <1>4, SoleMove

(* A coroutine moves, with or without a store call.                         *)
LEMMA GotoSole ==
  ASSUME OneHost, IInv, DeferInv, SoleInv, NEW t \in Threads, NEW k, Acts(t),
         pc' = [pc EXCEPT ![t] = k],
         answer.kind # "unsent" => answer'.kind # "unsent",
         t # Main(Host) => main'[Host] = main[Host] /\ op'[Main(Host)] = op[Main(Host)],
         t = Main(Host) /\ WorkerAlive /\ LeavesOK => Leaves(k, op'[t], main'[Host])
  PROVE  SoleInv'
<1> DEFINE M == Main(Host)
<1>0. /\ M \in Threads /\ M = Main(Host)' /\ (t = M \/ t \in Workers)
      /\ \A w \in Workers : w \in Threads /\ w # M
  BY HostFacts DEF Main
<1>1. \A u \in Threads : pc'[u] = IF u = t THEN k ELSE pc[u]
  BY DEF IInv, PcOK
<1>2. \A w \in Workers : Alive(w)' => Alive(w)
  BY <1>0, <1>1 DEF Alive, Acts
<1>3. WorkerAlive /\ LeavesOK => Leaves(pc'[M], op'[M], main'[Host])
  BY <1>0, <1>1 DEF LeavesOK
<1>4. WorkerAlive /\ LeavesOK => LeavesOK'
  BY <1>0, <1>3 DEF LeavesOK
<1>5. QED
  BY <1>2, <1>4, SoleMove

LEMMA CallStoreSole ==
  ASSUME OneHost, IInv, DeferInv, SoleInv, NEW t \in Threads, NEW c, NEW fact, NEW k, Acts(t),
         CallStore(t, c, fact, k), answer' = answer,
         t = Main(Host) => pc[t] \notin {"await", "retry"},
         t = Main(Host) /\ WorkerAlive => k \notin Before
  PROVE  SoleInv'
<1>0. Main(Host) \in Threads
  BY HostFacts
<1>1. /\ pc' = [pc EXCEPT ![t] = "store"] /\ main' = main
      /\ op'[t].then = k /\ \A u \in Threads : u # t => op'[u] = op[u]
  BY DEF CallStore, IInv, OpOK
<1>2. t = Main(Host) /\ WorkerAlive /\ LeavesOK => Leaves("store", op'[t], main'[Host])
  BY <1>1 DEF LeavesOK, Leaves, Before
<1>3. QED
  BY <1>0, <1>1, <1>2, GotoSole

LEMMA UpsertSole ==
  ASSUME OneHost, IInv, DeferInv, SoleInv, NEW t \in Threads, NEW c, NEW k, Acts(t),
         upsert(t, c, k), answer' = answer,
         t = Main(Host) => pc[t] \notin {"await", "retry"},
         t = Main(Host) /\ WorkerAlive => k \notin Before
  PROVE  SoleInv'
<1>1. CASE Throw(t, "FAILED")
  BY <1>1, ThrowSole
<1>2. CASE CallStore(t, Normalized(c), FALSE, k)
  BY <1>2, CallStoreSole
<1>3. QED
  BY <1>1, <1>2 DEF upsert

LEMMA TransitionSole ==
  ASSUME OneHost, IInv, DeferInv, SoleInv, NEW t \in Threads, NEW s, NEW c, NEW next,
         NEW stage, NEW k, Acts(t), transitionAndCheckpoint(t, s, c, next, stage, k),
         answer' = answer,
         t = Main(Host) => pc[t] \notin {"await", "retry"},
         t = Main(Host) /\ WorkerAlive => k \notin Before
  PROVE  SoleInv'
<1>1. CASE Throw(t, "FAILED")
  BY <1>1, ThrowSole
<1>2. CASE \E r : CallStore(t, r, TRUE, k)
  BY <1>2, CallStoreSole
<1>3. QED
  BY <1>1, <1>2 DEF transitionAndCheckpoint

LEMMA StopSole ==
  ASSUME OneHost, IInv, SoleInv, StopProcess(Host), UNCHANGED <<ckpt, answer>>
  PROVE  SoleInv'
<1>1. \A w \in Workers : pc'[w] = "off"
  BY HostFacts DEF StopProcess, Threads, Workers
<1>2. main'[Host] = NoMain /\ NoMain.kind = "none"
  BY HostFacts DEF StopProcess, IInv, MainOK, NoMain
<1>3. ~WorkerAlive' /\ \A w \in Workers : ~Alive(w)'
  BY <1>1 DEF WorkerAlive, Alive
<1>4. Unsent(ckpt)'
  BY <1>2 DEF SoleInv, Unsent
<1>5. QED
  BY <1>3, <1>4 DEF SoleInv

LEMMA StoreStepSole ==
  ASSUME OneHost, IInv, DeferInv, SoleInv, NEW t \in Threads, StoreStep(t)
  PROVE  SoleInv'
<1> DEFINE M == Main(Host)
<1>0. M \in Threads /\ (t # M => t \in Workers)
  BY HostFacts
<1>1. pc[t] \in {"store", "reload"} /\ Acts(t) /\ answer' = answer
  BY DEF StoreStep, StoreCommits, StoreConflicts, StoreFails, Reload, PublishFails,
         Acts, Alive, ghost
<1>2. CASE StoreCommits(t)
  <2>1. /\ pc' = [pc EXCEPT ![t] = "reload"] /\ op' = op /\ main' = main /\ pc[t] = "store"
    BY <1>2 DEF StoreCommits, Goto
  <2>2. t = M /\ LeavesOK => Leaves("reload", op'[t], main'[Host])
    BY <2>1 DEF LeavesOK, Leaves, Before
  <2>3. QED
    BY <1>1, <2>1, <2>2, GotoSole
<1>3. CASE StoreConflicts(t) \/ StoreFails(t) \/ PublishFails(t)
  <2>1. \E e : Throw(t, e)
    BY <1>3 DEF StoreConflicts, StoreFails, PublishFails
  <2>2. QED
    BY <1>1, <2>1, ThrowSole
<1>4. CASE Reload(t)
  <2>1. /\ pc' = [pc EXCEPT ![t] = op[t].then] /\ main' = main
        /\ op' = [op EXCEPT ![t] = NoOp] /\ pc[t] = "reload"
    BY <1>4 DEF Reload, Goto
  <2>2. \A u \in Threads : u # t => op'[u] = op[u]
    BY <2>1 DEF IInv, OpOK
  <2>3. t = M => op[t].then \in AfterStore
    BY <2>1 DEF DeferInv, KindsOK, Kinds
  <2>4. t = M /\ LeavesOK => Leaves(op[t].then, op'[t], main'[Host])
    BY <2>1, <2>3 DEF LeavesOK, Leaves, AfterStore
  <2>5. QED
    BY <1>0, <1>1, <2>1, <2>2, <2>4, GotoSole
<1>5. QED
  BY <1>2, <1>3, <1>4 DEF StoreStep

(* The only worker starts.                                                  *)
LEMMA StartWorkerSole ==
  ASSUME OneHost, IInv, DeferInv, SoleInv, NEW i, NEW from, NEW b,
         StartWorker(Host, i, from, b),
         pc[Main(Host)] \in {"run", "resumeRun"}, answer' = answer
  PROVE  SoleInv'
<1> DEFINE M == Main(Host)
<1>0. /\ M \in Threads /\ M = Main(Host)' /\ \A w \in Workers : w \in Threads /\ w # M
  BY HostFacts DEF Main
<1>1. ~WorkerAlive /\ answer.kind # "unsent"
  BY <1>0, ActorAsked DEF SoleInv, LeavesOK, Leaves, Before, Acts
<1>2. /\ <<Host, i>> # M => pc'[M] = "await"
      /\ \A w \in Workers : w # <<Host, i>> => pc'[w] = pc[w]
  BY <1>0 DEF StartWorker, IInv, PcOK
<1>3. \A w \in Workers : Alive(w)' => w = <<Host, i>>
  BY <1>1, <1>2 DEF Alive, WorkerAlive
<1>4. WorkerAlive' => Leaves(pc'[M], op'[M], main'[Host])
  <2>1. WorkerAlive' => <<Host, i>> # M
    BY <1>0, <1>3 DEF WorkerAlive
  <2>2. QED
    BY <1>2, <2>1 DEF Leaves, Before
<1>5. (WorkerAlive' => LeavesOK') /\ answer'.kind # "unsent"
  BY <1>0, <1>1, <1>4 DEF LeavesOK
<1>6. Unsent(ckpt)'
  BY <1>5 DEF Unsent
<1>7. \A w, v \in Workers : Alive(w)' /\ Alive(v)' => v = w
  BY <1>3
<1>8. QED
  BY <1>5, <1>6, <1>7 DEF SoleInv

LEMMA ExecuteStepSole ==
  ASSUME OneHost, AbandonedIsFinal, IInv, DeferInv, SoleInv, ExecuteStep(Host)
  PROVE  SoleInv'
<1> DEFINE t == Main(Host)
<1>0. /\ t \in Threads /\ Host \in Procs /\ main[Host] \in MainLocals /\ t = <<Host, 0>>
  BY HostFacts, Typed DEF Main
<1>1. Acts(t) /\ (answer.kind # "unsent" => answer'.kind # "unsent")
  <2>1. Acts(t)
    BY DEF Acts, ExecuteStep, Authorize, Schedule, Attempt, Run, TimerFires, Retry, Backoff,
           Succeeded, Completed, Catch, Fail, Cancelled, Answer
  <2>2. answer' = answer \/ Completed(Host) \/ Answer(Host)
    BY DEF ExecuteStep, Authorize, Schedule, Attempt, Run, TimerFires, Retry, Backoff,
           Succeeded, Catch, Fail, Cancelled, ghost
  <2>3. Completed(Host) => answer'.kind = "completed"
    BY DEF Completed
  <2>4. Answer(Host) => answer'.kind \in {"cancelled", "failed"}
    BY DEF Answer
  <2>5. QED
    BY <2>1, <2>2, <2>3, <2>4
<1>b. pc[t] \in Before /\ LeavesOK => ~WorkerAlive
  BY DEF LeavesOK, Leaves
<1>n. LeavesOK /\ WorkerAlive /\ pc[t] \notin {"await", "retry"} => main[Host].handler # "retry"
  BY DEF LeavesOK, Leaves
<1>t. ASSUME NEW e, Throw(t, e), pc[t] # "retry", pc[t] = "await" => e \notin Retryable
      PROVE  SoleInv'
  BY <1>0, <1>1, <1>t, ThrowSole
<1>m. ASSUME NEW k, pc' = [pc EXCEPT ![t] = k],
             WorkerAlive /\ LeavesOK => Leaves(k, op'[t], main'[Host])
      PROVE  SoleInv'
  BY <1>0, <1>1, <1>m, GotoSole
<1>2. CASE Authorize(Host) \/ Schedule(Host) \/ Attempt(Host)
  <2>1. pc[t] \in Before
    BY <1>2 DEF Authorize, Schedule, Attempt, Before
  <2>2. \/ \E c : upsert(t, c, "schedule") /\ answer' = answer
        \/ Throw(t, "FAILED")
        \/ \E k : pc' = [pc EXCEPT ![t] = k]
    BY <1>2 DEF Authorize, Schedule, Attempt, Goto, ghost
  <2>3. ~(WorkerAlive /\ LeavesOK) /\ (WorkerAlive => LeavesOK)
    BY <1>b, <2>1 DEF SoleInv
  <2>4. CASE \E c : upsert(t, c, "schedule") /\ answer' = answer
    BY <1>0, <1>1, <2>1, <2>3, <2>4, UpsertSole DEF Before
  <2>5. QED
    BY <1>m, <1>t, <2>1, <2>2, <2>3, <2>4 DEF Before
<1>3. CASE Run(Host)
  <2>1. /\ StartWorker(Host, main[Host].attempt, "accepted", TRUE) /\ pc[t] = "run"
        /\ answer' = answer
    BY <1>3 DEF Run, ghost
  <2>2. QED
    BY <2>1, StartWorkerSole
<1>4. CASE TimerFires(Host)
  <2>1. PICK e \in {"CANCELLED", "TIMEOUT"} : Throw(t, e) /\ pc[t] = "await"
    BY <1>4 DEF TimerFires
  <2>2. QED
    BY <1>t, <2>1 DEF AbandonedIsFinal
<1>5. CASE Retry(Host)
  <2>1. PICK m : m = [main[Host] EXCEPT !.handler = "catch"]
    OBVIOUS
  <2>2. main' = [main EXCEPT ![Host] = m]
    BY <1>5, <2>1 DEF Retry
  <2>3. main'[Host] = m /\ m.handler = "catch"
    BY <1>0, <2>1, <2>2 DEF IInv, MainOK, MainLocals
  <2>4. PICK k \in {"backoff", "catch"} : /\ pc' = [pc EXCEPT ![t] = k] /\ pc[t] = "retry"
                                          /\ k = "backoff" => main[Host].err \in Retryable
    BY <1>5 DEF Retry, Goto
  <2>5. WorkerAlive /\ LeavesOK => Leaves(k, op'[t], main'[Host])
    BY <2>3, <2>4 DEF LeavesOK, Leaves, Before
  <2>6. QED
    BY <1>m, <2>4, <2>5
<1>6. CASE Backoff(Host)
  <2>1. /\ transitionAndCheckpoint(t, "run", Loaded(t), "recovering", Loaded(t).stage, "attempt")
        /\ answer' = answer /\ pc[t] = "backoff"
    BY <1>6 DEF Backoff, ghost
  <2>2. ~WorkerAlive
    BY <1>b, <2>1 DEF SoleInv, Before
  <2>3. QED
    BY <1>0, <1>1, <2>1, <2>2, TransitionSole
<1>7. CASE Succeeded(Host) \/ Fail(Host)
  <2>1. /\ \/ \E c : transitionAndCheckpoint(t, "run", c, "completing", "post-invoke", "terminalize")
           \/ \E c : upsert(t, c, "cancelled")
           \/ \E k \in {"answer", "reach"} : pc' = [pc EXCEPT ![t] = k] /\ main' = main
        /\ answer' = answer /\ pc[t] \in {"succeeded", "fail"}
    BY <1>7 DEF Succeeded, Fail, Goto, ghost
  <2>2. ASSUME NEW k \in {"answer", "reach"}, pc' = [pc EXCEPT ![t] = k], main' = main
        PROVE  SoleInv'
    <3>1. WorkerAlive /\ LeavesOK => Leaves(k, op'[t], main'[Host])
      BY <1>n, <2>1, <2>2 DEF LeavesOK, Leaves, Before
    <3>2. QED
      BY <1>m, <2>2, <3>1
  <2>3. CASE \E c : transitionAndCheckpoint(t, "run", c, "completing", "post-invoke", "terminalize")
    BY <1>0, <1>1, <2>1, <2>3, TransitionSole DEF Before
  <2>4. CASE \E c : upsert(t, c, "cancelled")
    BY <1>0, <1>1, <2>1, <2>4, UpsertSole DEF Before
  <2>5. QED
    BY <2>1, <2>2, <2>3, <2>4
<1>8. CASE Completed(Host) \/ Answer(Host) \/ Cancelled(Host)
  <2>1. PICK k \in {"finished", "answer", "reach"} :
          /\ pc' = [pc EXCEPT ![t] = k] /\ main' = main
          /\ pc[t] \in {"completed", "answer", "cancelled"}
    BY <1>8 DEF Completed, Answer, Cancelled, Goto
  <2>2. WorkerAlive /\ LeavesOK => Leaves(k, op'[t], main'[Host])
    BY <1>n, <2>1 DEF LeavesOK, Leaves, Before
  <2>3. QED
    BY <1>m, <2>1, <2>2
<1>9. CASE Catch(Host)
  <2>1. PICK m : m = [main[Host] EXCEPT !.handler = "answer",
                           !.target = IF main[Host].err = "CANCELLED" THEN "cancelling"
                                      ELSE "failed"]
    OBVIOUS
  <2>2. main' = [main EXCEPT ![Host] = m]
    BY <1>9, <2>1 DEF Catch
  <2>3. main'[Host] = m /\ m.handler = "answer"
    BY <1>0, <2>1, <2>2 DEF IInv, MainOK, MainLocals
  <2>4. pc' = [pc EXCEPT ![t] = "fail"]
    BY <1>9 DEF Catch, Goto
  <2>5. Leaves("fail", op'[t], main'[Host])
    BY <2>3 DEF Leaves, Before
  <2>6. QED
    BY <1>m, <2>4, <2>5
<1>10. QED
  BY <1>2, <1>3, <1>4, <1>5, <1>6, <1>7, <1>8, <1>9 DEF ExecuteStep

LEMMA FinishStepSole ==
  ASSUME OneHost, IInv, DeferInv, SoleInv, FinishStep(Host)
  PROVE  SoleInv'
<1> DEFINE t == Main(Host)
           s == main[Host].slot
<1>0. t \in Threads /\ Host \in Procs
  BY HostFacts
<1>1. Acts(t) /\ answer' = answer /\ pc[t] \in {"reach", "terminalize", "finished"}
  BY DEF Acts, FinishStep, Reach, Terminalize, Finished, ghost
<1>2. CASE Reach(Host)
  <2>1. PICK k \in {"terminalize", "reach"} :
          \/ pc' = [pc EXCEPT ![t] = "terminalize"] /\ main' = main
          \/ \E c, hop : transitionAndCheckpoint(t, s, c, hop, c.stage, k)
    BY <1>2 DEF Reach, Goto
  <2>2. CASE pc' = [pc EXCEPT ![t] = "terminalize"] /\ main' = main
    <3>1. WorkerAlive /\ LeavesOK => Leaves("terminalize", op'[t], main'[Host])
      BY <1>1, <2>2 DEF LeavesOK, Leaves, Before
    <3>2. QED
      BY <1>0, <1>1, <2>2, <3>1, GotoSole
  <2>3. CASE \E c, hop : transitionAndCheckpoint(t, s, c, hop, c.stage, k)
    <3>1. k \notin Before
      BY DEF Before
    <3>2. QED
      BY <1>0, <1>1, <2>3, <3>1, TransitionSole
  <2>4. QED
    BY <2>1, <2>2, <2>3
<1>3. CASE Terminalize(Host)
  <2>1. PICK k \in {"finished", "completed", "answer"} :
          \/ \E c : upsert(t, c, k)
          \/ \E c, next : transitionAndCheckpoint(t, s, c, next, "terminal", k)
    BY <1>3 DEF Terminalize
  <2>2. k \notin Before
    BY DEF Before
  <2>3. CASE \E c : upsert(t, c, k)
    BY <1>0, <1>1, <2>2, <2>3, UpsertSole
  <2>4. CASE \E c, next : transitionAndCheckpoint(t, s, c, next, "terminal", k)
    BY <1>0, <1>1, <2>2, <2>4, TransitionSole
  <2>5. QED
    BY <2>1, <2>3, <2>4
<1>4. CASE Finished(Host)
  <2>1. pc' = [pc EXCEPT ![t] = "idle"] /\ main'[Host] = NoMain
    BY <1>0, <1>4 DEF Finished, Goto, IInv, MainOK
  <2>2. Leaves("idle", op'[t], main'[Host])
    BY <2>1 DEF Leaves, Before, NoMain
  <2>3. QED
    BY <1>0, <1>1, <2>1, <2>2, GotoSole
<1>5. QED
  BY <1>2, <1>3, <1>4 DEF FinishStep

LEMMA RecoverStepSole ==
  ASSUME OneHost, IInv, DeferInv, SoleInv, RecoverStep(Host)
  PROVE  SoleInv'
<1> DEFINE t == Main(Host)
<1>0. t \in Threads /\ Host \in Procs /\ main[Host] \in MainLocals /\ t = <<Host, 0>>
  BY HostFacts, Typed DEF Main
<1>1. UNCHANGED <<ckpt, answer>>
  BY DEF RecoverStep, RecoverIgnores, RecoverTerminalizes, RecoverResumes, Resume, ResumeRun,
         Resumed, ResumeCatch, BootCheck, RecoveryFactFails, store, ghost
<1>m. ASSUME NEW k, pc' = [pc EXCEPT ![t] = k], Acts(t),
             WorkerAlive /\ LeavesOK => Leaves(k, op'[t], main'[Host])
      PROVE  SoleInv'
  BY <1>0, <1>1, <1>m, GotoSole
<1>2. CASE RecoverIgnores(Host) \/ RecoverTerminalizes(Host) \/ RecoverResumes(Host)
  <2>1. PICK k : pc' = [pc EXCEPT ![t] = k] /\ pc[t] = "recover"
    BY <1>2 DEF RecoverIgnores, RecoverTerminalizes, RecoverResumes, Goto
  <2>2. Acts(t) /\ ~LeavesOK
    BY <2>1 DEF Acts, LeavesOK, Leaves, Before
  <2>3. QED
    BY <1>m, <2>1, <2>2
<1>3. CASE Resume(Host)
  <2>1. /\ \/ \E c : transitionAndCheckpoint(t, "run", c, "recovering", c.stage, "resumeRun")
           \/ pc' = [pc EXCEPT ![t] = "resumeRun"]
        /\ pc[t] = "resume"
    BY <1>3 DEF Resume, Goto
  <2>2. Acts(t) /\ ~LeavesOK /\ ~WorkerAlive
    BY <2>1 DEF Acts, LeavesOK, Leaves, Before, SoleInv
  <2>3. CASE \E c : transitionAndCheckpoint(t, "run", c, "recovering", c.stage, "resumeRun")
    BY <1>0, <1>1, <2>1, <2>2, <2>3, TransitionSole
  <2>4. QED
    BY <1>m, <2>1, <2>2, <2>3
<1>4. CASE ResumeRun(Host)
  <2>1. PICK from, b : StartWorker(Host, main[Host].attempt, from, b) /\ pc[t] = "resumeRun"
    BY <1>4 DEF ResumeRun
  <2>2. QED
    BY <1>1, <2>1, StartWorkerSole
<1>5. CASE Resumed(Host) \/ RecoverIgnores(Host)
  <2>1. PICK k \in {"finished", "reach"} :
          /\ pc' = [pc EXCEPT ![t] = k] /\ main' = main
          /\ pc[t] \in {"resumed", "recover"}
    BY <1>5 DEF Resumed, RecoverIgnores, Goto
  <2>2. WorkerAlive /\ LeavesOK => Leaves(k, op'[t], main'[Host])
    BY <2>1 DEF LeavesOK, Leaves, Before
  <2>3. QED
    BY <1>m, <2>1, <2>2 DEF Acts
<1>6. CASE ResumeCatch(Host)
  <2>1. PICK k \in {"finished", "reach"} : pc' = [pc EXCEPT ![t] = k]
    BY <1>6 DEF ResumeCatch, Goto
  <2>2. main'[Host].handler \in {main[Host].handler, "bootCheck"} /\ pc[t] = "resumeCatch"
    <3>1. PICK m : m = [main[Host] EXCEPT !.slot = "end", !.handler = "bootCheck",
                                          !.target = "failed"]
      OBVIOUS
    <3>2. main' = main \/ main' = [main EXCEPT ![Host] = m]
      BY <1>6, <3>1 DEF ResumeCatch
    <3>3. main'[Host] \in {main[Host], m}
      BY <1>0, <3>2 DEF IInv, MainOK
    <3>4. m.handler = "bootCheck"
      BY <1>0, <3>1 DEF MainLocals
    <3>5. QED
      BY <1>6, <3>3, <3>4 DEF ResumeCatch
  <2>3. WorkerAlive /\ LeavesOK => Leaves(k, op'[t], main'[Host])
    BY <2>1, <2>2 DEF LeavesOK, Leaves, Before
  <2>4. QED
    BY <1>m, <2>1, <2>2, <2>3 DEF Acts
<1>7. CASE BootCheck(Host)
  <2>1. /\ \/ pc' = [pc EXCEPT ![t] = "finished"] /\ main' = main
           \/ StopProcess(Host)
        /\ pc[t] = "bootCheck"
    BY <1>7 DEF BootCheck, Goto
  <2>2. CASE pc' = [pc EXCEPT ![t] = "finished"] /\ main' = main
    <3>1. WorkerAlive /\ LeavesOK => Leaves("finished", op'[t], main'[Host])
      BY <2>1, <2>2 DEF LeavesOK, Leaves, Before
    <3>2. QED
      BY <1>m, <2>1, <2>2, <3>1 DEF Acts
  <2>3. QED
    BY <1>1, <2>1, <2>2, StopSole
<1>8. CASE RecoveryFactFails(Host)
  BY <1>1, <1>8, StopSole DEF RecoveryFactFails
<1>9. QED
  BY <1>2, <1>3, <1>4, <1>5, <1>6, <1>7, <1>8 DEF RecoverStep

(* A step of a worker moves no other thread, or ends the worker.            *)
LEMMA WorkerMoves ==
  ASSUME OneHost, IInv, NEW w \in Workers, WorkerStep(w)
  PROVE  /\ Alive(w) /\ UNCHANGED <<ckpt, answer>>
         /\ \A v \in Workers : v # w => pc'[v] = pc[v] /\ loc'[v] = loc[v]
         /\ \A t \in Threads : t # w => op'[t] = op[t]
         /\ \/ pc'[w] = "done" /\ op'[w] = op[w]
            \/ main' = main /\ pc'[Main(Host)] = pc[Main(Host)]
<1> DEFINE M == Main(Host)
<1>0. w \in Threads /\ w[1] = Host /\ w # M /\ M \in Threads /\ \A v \in Workers : v \in Threads
  BY HostFacts
<1>1. Alive(w) /\ UNCHANGED <<ckpt, answer>>
  BY DEF WorkerStep, Enter, PlanStage, Planning, WorkStage, Working, Ready, Invoke,
         InvokeReturns, PersistToolLoop, Invoked, Return, store, ghost, Alive
<1> DEFINE Fails == (\E e : Throw(w, e)) /\ op' = op
           Moves == main' = main /\ \E k : pc' = [pc EXCEPT ![w] = k]
           Issues == Moves /\ \E o : op' = [op EXCEPT ![w] = o]
<1>u. \A c, k : upsert(w, c, k) => Fails \/ Issues
  BY DEF upsert, CallStore
<1>v. \A s, c, next, stage, k :
        transitionAndCheckpoint(w, s, c, next, stage, k) => Fails \/ Issues
  <2> SUFFICES ASSUME NEW s, NEW c, NEW next, NEW stage, NEW k,
                      transitionAndCheckpoint(w, s, c, next, stage, k)
               PROVE  Fails \/ Issues
    OBVIOUS
  <2>1. \/ Throw(w, "FAILED") /\ op' = op
        \/ \E rec : CallStore(w, rec, TRUE, k)
    BY DEF transitionAndCheckpoint
  <2>2. QED
    BY <2>1 DEF CallStore
<1>w. Fails \/ Issues \/ (op' = op /\ (Moves \/ Return(w)))
  <2> HIDE DEF Fails, Issues
  <2>1. \A e : Throw(w, e) /\ op' = op => Fails
    BY DEF Fails
  <2>2. CASE Enter(w) \/ PlanStage(w) \/ WorkStage(w)
    BY <1>v, <2>1, <2>2 DEF Enter, PlanStage, WorkStage, Goto
  <2>3. CASE Planning(w) \/ Working(w) \/ Ready(w) \/ PersistToolLoop(w) \/ Invoked(w)
    BY <1>u, <2>1, <2>3 DEF Planning, Working, Ready, PersistToolLoop, Invoked
  <2>4. CASE Invoke(w) \/ InvokeReturns(w) \/ Return(w)
    BY <2>1, <2>4 DEF Invoke, InvokeReturns, Return, Goto
  <2>5. QED
    BY <2>2, <2>3, <2>4 DEF WorkerStep
<1>2. op' = op \/ \E o : op' = [op EXCEPT ![w] = o]
  BY <1>w
<1>3. \A t \in Threads : t # w => op'[t] = op[t]
  BY <1>2 DEF IInv, OpOK
<1>4. loc' = loc \/ \E l : loc' = [loc EXCEPT ![w] = l]
  BY DEF WorkerStep, Enter, PlanStage, Planning, WorkStage, Working, Ready, Invoke,
         InvokeReturns, PersistToolLoop, Invoked, Return
<1>5. \A v \in Workers : v # w => loc'[v] = loc[v]
  BY <1>4 DEF IInv, LocOK
<1>6. (((\E e : Throw(w, e)) \/ Return(w)) /\ op' = op) \/ Moves
  BY <1>w
<1>7. CASE (\E e : Throw(w, e)) /\ op' = op
  BY <1>0, <1>1, <1>3, <1>5, <1>7, ThrowHere
<1>8. CASE Return(w)
  <2>1. op' = op /\ \A v \in Workers : pc'[v] = IF v = w THEN "done" ELSE pc[v]
    BY <1>0, <1>8, HostFacts DEF Return
  <2>2. QED
    BY <1>1, <1>3, <1>5, <2>1
<1>9. CASE \E k : pc' = [pc EXCEPT ![w] = k] /\ main' = main
  <2>1. \A t \in Threads : t # w => pc'[t] = pc[t]
    BY <1>9 DEF IInv, PcOK
  <2>2. QED
    BY <1>0, <1>1, <1>3, <1>5, <1>9, <2>1
<1>10. QED
  BY <1>6, <1>7, <1>8, <1>9

LEMMA WorkerStepSole ==
  ASSUME OneHost, IInv, DeferInv, SoleInv, NEW w \in Workers, WorkerStep(w)
  PROVE  SoleInv'
<1> DEFINE M == Main(Host)
<1>0. /\ w \in Threads /\ w # M /\ M \in Threads /\ M = Main(Host)'
      /\ Alive(w) /\ answer' = answer
      /\ \A v \in Workers : v # w => pc'[v] = pc[v]
      /\ op'[M] = op[M]
      /\ \/ pc'[w] = "done"
         \/ main' = main /\ pc'[M] = pc[M]
  BY WorkerMoves, HostFacts DEF Main
<1>1. \A v \in Workers : Alive(v)' => Alive(v)
  BY <1>0 DEF Alive
<1>2. pc'[w] = "done" => ~WorkerAlive'
  BY <1>0 DEF WorkerAlive, Alive, SoleInv
<1>3. WorkerAlive' /\ LeavesOK => LeavesOK'
  BY <1>0, <1>2 DEF LeavesOK
<1>4. QED
  BY <1>0, <1>1, <1>3, SoleMove DEF Acts

LEMMA EnvironmentSole ==
  ASSUME OneHost, AbandonedIsFinal, IInv, DeferInv, SoleInv,
         Boot(Host) \/ Start(Host) \/ Abort(Host) \/ Expire
  PROVE  SoleInv'
<1> DEFINE t == Main(Host)
<1>0. /\ t \in Threads /\ Host \in Procs /\ t = Main(Host)'
      /\ \A w \in Workers : w \in Threads /\ w # t
  BY HostFacts DEF Main
<1>1. ckpt' = ckpt
  BY DEF Boot, Start, Abort, Expire, store
<1>2. CASE Boot(Host)
  <2>1. /\ pc[t] = "down" /\ answer' = answer /\ \A w \in Workers : pc'[w] = pc[w]
    BY <1>0, <1>2 DEF Boot, Goto, ghost, IInv, PcOK
  <2>2. ~WorkerAlive
    BY <2>1 DEF SoleInv, LeavesOK, Leaves, Before
  <2>3. ~WorkerAlive' /\ \A w \in Workers : ~Alive(w)'
    BY <2>1, <2>2 DEF WorkerAlive, Alive
  <2>4. answer.kind = "unsent" => main'[Host].kind = "none"
    <3>1. SUFFICES ASSUME answer.kind = "unsent" PROVE main'[Host].kind = "none"
      OBVIOUS
    <3>2. ckpt.rev = 0
      BY <3>1 DEF SoleInv, Unsent
    <3>3. main' = [main EXCEPT ![Host] = NoMain]
      BY <1>2, <3>2 DEF Boot
    <3>4. QED
      BY <1>0, <3>3 DEF IInv, MainOK, NoMain
  <2>5. QED
    BY <1>1, <2>1, <2>3, <2>4 DEF SoleInv, Unsent
<1>3. CASE Start(Host)
  <2>1. /\ answer.kind = "unsent" /\ answer'.kind = "pending"
        /\ \A w \in Workers : pc'[w] = pc[w]
    BY <1>0, <1>3 DEF Start, IInv, PcOK, GhostOK
  <2>2. ~WorkerAlive
    BY <2>1 DEF SoleInv
  <2>3. ~WorkerAlive' /\ \A w \in Workers : ~Alive(w)'
    BY <2>1, <2>2 DEF WorkerAlive, Alive
  <2>4. QED
    BY <2>1, <2>3 DEF SoleInv, Unsent
<1>4. CASE Abort(Host)
  <2>1. answer' = answer /\ main[Host].kind = "execute"
    BY <1>4 DEF Abort, ghost
  <2>2. CASE pc[t] = "await"
    <3>1. Throw(t, "CANCELLED") /\ Acts(t)
      BY <1>4, <2>2 DEF Abort, Acts
    <3>2. QED
      BY <1>0, <2>1, <2>2, <3>1, ThrowSole DEF AbandonedIsFinal
  <2>3. CASE pc[t] # "await"
    <3>1. pc' = pc /\ main' = main /\ op' = op
      BY <1>4, <2>3 DEF Abort
    <3>2. QED
      BY <1>1, <2>1, <3>1 DEF SoleInv, WorkerAlive, Alive, LeavesOK, Unsent, Main
  <2>4. QED
    BY <2>2, <2>3
<1>5. CASE Expire
  <2>1. answer' = answer /\ pc' = pc /\ main' = main /\ op' = op
    BY <1>5 DEF Expire, local, ghost
  <2>2. QED
    BY <1>1, <2>1 DEF SoleInv, WorkerAlive, Alive, LeavesOK, Unsent, Main
<1>6. QED
  BY <1>2, <1>3, <1>4, <1>5

LEMMA SoleInit ==
  ASSUME OneHost, Init
  PROVE  SoleInv /\ Exact(ckpt)
<1>0. Host \in Procs /\ \A w \in Workers : w \in Threads /\ w[2] # 0
  BY HostFacts
<1>1. /\ \A w \in Workers : ~Alive(w)
      /\ ckpt = seedCheckpoint /\ \A t \in Threads : cur[t] = seedCheckpoint
      /\ main[Host] = NoMain
  BY <1>0 DEF Init, Alive
<1>2. NoMain.kind = "none" /\ seedCheckpoint.rev = 0
  BY DEF NoMain, seedCheckpoint
<1>3. QED
  BY <1>1, <1>2 DEF SoleInv, WorkerAlive, Unsent, Exact

LEMMA SoleNext ==
  ASSUME OneHost, AbandonedIsFinal, IInv, DeferInv, SoleInv, [Next]_vars
  PROVE  SoleInv'
<1>0. Procs = {Host}
  BY HostFacts
<1>1. CASE UNCHANGED vars
  BY <1>1 DEF vars, SoleInv, WorkerAlive, Alive, LeavesOK, Unsent, Main
<1>2. CASE Boot(Host) \/ Start(Host) \/ Abort(Host) \/ Expire
  BY <1>2, EnvironmentSole
<1>3. CASE Crash(Host)
  <2>1. StopProcess(Host) /\ UNCHANGED <<ckpt, answer>>
    BY <1>3 DEF Crash, store, ghost
  <2>2. QED
    BY <2>1, StopSole
<1>4. CASE ExecuteStep(Host)
  BY <1>4, ExecuteStepSole
<1>5. CASE FinishStep(Host)
  BY <1>5, FinishStepSole
<1>6. CASE RecoverStep(Host)
  BY <1>6, RecoverStepSole
<1>7. CASE \E t \in Threads : StoreStep(t)
  BY <1>7, StoreStepSole
<1>8. CASE \E w \in Workers : WorkerStep(w)
  BY <1>8, WorkerStepSole
<1>9. QED
  BY <1>0, <1>1, <1>2, <1>3, <1>4, <1>5, <1>6, <1>7, <1>8 DEF Next

-----------------------------------------------------------------------------
(* What is on record when a worker calls the capability.                    *)

CallStages == {"pre-invoke", "post-invoke", "terminal"}
Called(c)  == c.plan /\ c.work /\ c.stage \in CallStages

(* What a checkpoint c that is stored over d by a coroutine with locals l   *)
(* keeps, and what it may have that d has not.                              *)
Adds(d, c, l) == /\ Called(d) => Called(c)
                 /\ c.plan => d.plan \/ l.plan
                 /\ c.work => d.work \/ l.work
Locals(t)   == IF t \in Workers THEN loc[t] ELSE NoLoc
Sends(d, t) == pc[t] = "store" /\ op[t].rec.rev = d.rev => Adds(d, op[t].rec, Locals(t))

(* A worker knows of what is durable, does not redo it, and a call that it  *)
(* makes is on record, in the checkpoint c that it stores first or durably. *)
Knows(d, l) == (d.plan => l.plan) /\ (d.work => l.work)
Heads(d, c, k, l) == /\ k \notin {"store", "reload"}
                     /\ k = "planning" => ~l.plan
                     /\ k = "working" => ~l.work
                     /\ k \in {"invoking", "invoked"} => Called(d)
                     /\ k = "invoke" => Called(c)
Aware(d, k, o, l) == /\ k # "enter" => Knows(d, l)
                     /\ k = "store" => Heads(d, o.rec, o.then, l)
                     /\ k = "reload" => Heads(d, d, o.then, l)
                     /\ k \notin {"store", "reload"} => Heads(d, d, k, l)
WriteInv(d) == /\ \A t \in Threads : Sends(d, t)
               /\ \A w \in Workers : Alive(w) => Aware(d, pc[w], op[w], loc[w])

-----------------------------------------------------------------------------

LEMMA AddsFrom ==
  ASSUME NEW d \in ExecutionCheckpoint, NEW c \in ExecutionCheckpoint,
         NEW e \in ExecutionCheckpoint, NEW l,
         c.rev = d.rev => c = d,
         e.rev = c.rev, e.plan = c.plan, e.work = c.work, e.stage \in {c.stage} \cup CallStages,
         e.rev = d.rev
  PROVE  Adds(d, e, l)
BY DEF Adds, Called

LEMMA NormalizedAdds ==
  ASSUME NEW c \in ExecutionCheckpoint
  PROVE  /\ Normalized(c) \in ExecutionCheckpoint /\ Normalized(c).rev = c.rev
         /\ Normalized(c).plan = c.plan /\ Normalized(c).work = c.work
         /\ Normalized(c).stage \in {c.stage, "terminal"}
         /\ Called(c) => Called(Normalized(c))
         /\ \A d, l : Adds(d, c, l) => Adds(d, Normalized(c), l)
<1>1. /\ Normalized(c) \in ExecutionCheckpoint /\ Normalized(c).rev = c.rev
      /\ Normalized(c).plan = c.plan /\ Normalized(c).work = c.work
      /\ Normalized(c).stage \in {c.stage, "terminal"}
  <2>1. Normalized(c) \in ExecutionCheckpoint /\ Normalized(c).rev = c.rev
    BY NormalizedFields
  <2>2. QED
    BY <2>1 DEF Normalized, ExecutionCheckpoint
<1>2. Called(c) => Called(Normalized(c))
  BY <1>1 DEF Called, CallStages
<1>3. \A d, l : Adds(d, c, l) => Adds(d, Normalized(c), l)
  BY <1>1, <1>2 DEF Adds
<1>4. QED
  BY <1>1, <1>2, <1>3

LEMMA StampedAdds ==
  ASSUME NEW c \in ExecutionCheckpoint, NEW h \in Seq(ExecutionState), LegalPath(h)
  PROVE  /\ Stamped(c, h) \in ExecutionCheckpoint
         /\ \A f \in {"rev", "plan", "work", "stage", "result"} : Stamped(c, h)[f] = c[f]
<1>1. Stamped(c, h) \in ExecutionCheckpoint
  BY StampedPath
<1>2. QED
  BY <1>1 DEF Stamped, ExecutionCheckpoint

(* A step of t that commits nothing.                                        *)
LEMMA StayWrites ==
  ASSUME OneHost, IInv, WriteInv(ckpt), ckpt' = ckpt, NEW t \in Threads,
         \A w \in Workers : w # t => pc'[w] = pc[w] /\ op'[w] = op[w] /\ loc'[w] = loc[w],
         t # Main(Host) /\ pc'[Main(Host)] = "store" =>
           pc[Main(Host)] = "store" /\ op'[Main(Host)] = op[Main(Host)],
         pc'[t] = "store" /\ op'[t].rec.rev = ckpt.rev => Adds(ckpt, op'[t].rec, Locals(t)'),
         t \in Workers /\ Alive(t)' => Aware(ckpt, pc'[t], op'[t], loc'[t])
  PROVE  WriteInv(ckpt)'
<1> DEFINE M == Main(Host)
<1>0. /\ M \in Threads /\ M \notin Workers
      /\ \A u \in Threads : u = M \/ u \in Workers
  BY HostFacts
<1>1. ASSUME NEW u \in Threads PROVE Sends(ckpt, u)'
  <2>1. CASE u = t
    BY <2>1 DEF Sends
  <2>2. CASE u # t
    <3>1. pc'[u] = "store" => pc[u] = "store" /\ op'[u] = op[u]
      BY <1>0, <2>2
    <3>2. Locals(u)' = Locals(u)
      BY <2>2 DEF Locals
    <3>3. Sends(ckpt, u)
      BY DEF WriteInv
    <3>4. QED
      BY <3>1, <3>2, <3>3 DEF Sends
  <2>3. QED
    BY <2>1, <2>2
<1>2. ASSUME NEW w \in Workers, Alive(w)'
      PROVE  Aware(ckpt', pc'[w], op'[w], loc'[w])
  <2>1. CASE w = t
    BY <1>2, <2>1
  <2>2. CASE w # t
    BY <1>2, <2>2 DEF WriteInv, Alive
  <2>3. QED
    BY <2>1, <2>2
<1>3. QED
  BY <1>1, <1>2 DEF WriteInv

(* A step of t that commits what it stores.                                 *)
LEMMA CommitWrites ==
  ASSUME OneHost, IInv, RecordInv, SoleInv, WriteInv(ckpt), NEW t \in Threads,
         pc[t] = "store", op[t].rec.rev = ckpt.rev, ckpt' = [op[t].rec EXCEPT !.rev = @ + 1],
         op' = op, loc' = loc, pc'[t] # "store",
         t \in Workers => pc'[t] \in {"reload", "done"},
         \A w \in Workers : w # t => pc'[w] = pc[w],
         pc'[Main(Host)] = "store" => pc[Main(Host)] = "store"
  PROVE  WriteInv(ckpt)'
<1> DEFINE M == Main(Host)
           c == op[t].rec
<1>0. /\ M \in Threads /\ M \notin Workers
      /\ \A u \in Threads : u = M \/ u \in Workers
  BY HostFacts
<1>1. /\ c \in ExecutionCheckpoint /\ c.rev \in Nat
      /\ ckpt \in ExecutionCheckpoint /\ ckpt.rev \in Nat
      /\ \A u \in Threads : op[u].rec.rev \in Nat /\ op[u].rec.rev <= ckpt.rev
  BY Typed, NoneNewer DEF ExecutionCheckpoint
<1>2. /\ ckpt'.rev = ckpt.rev + 1 /\ ckpt'.plan = c.plan /\ ckpt'.work = c.work
      /\ ckpt'.stage = c.stage
  BY <1>1 DEF ExecutionCheckpoint
<1>3. Called(ckpt) => Called(ckpt')
  BY <1>2 DEF WriteInv, Sends, Adds, Called
<1>4. /\ ckpt'.plan => ckpt.plan \/ Locals(t).plan
      /\ ckpt'.work => ckpt.work \/ Locals(t).work
  BY <1>2 DEF WriteInv, Sends, Adds
<1>5. ASSUME NEW u \in Threads PROVE Sends(ckpt, u)'
  BY <1>1, <1>2 DEF Sends
<1>6. ASSUME NEW w \in Workers, Alive(w)'
      PROVE  Aware(ckpt', pc'[w], op'[w], loc'[w])
  <2>1. Alive(w) /\ Aware(ckpt, pc[w], op[w], loc[w])
    BY <1>6 DEF WriteInv, Alive
  <2>2. pc[w] # "enter" => Knows(ckpt', loc[w])
    <3>1. SUFFICES ASSUME pc[w] # "enter" PROVE Knows(ckpt', loc[w])
      OBVIOUS
    <3>2. Knows(ckpt, loc[w])
      BY <2>1, <3>1 DEF Aware
    <3>3. t \in Workers => t = w
      BY <2>1 DEF SoleInv, Alive
    <3>4. ~NoLoc.plan /\ ~NoLoc.work
      BY DEF NoLoc
    <3>5. QED
      BY <1>4, <3>2, <3>3, <3>4 DEF Knows, Locals
  <2>3. CASE w = t
    <3>1. Heads(ckpt, c, op[t].then, loc[t]) /\ pc'[t] = "reload"
      BY <1>6, <2>1, <2>3 DEF Aware, Alive
    <3>2. Called(c) => Called(ckpt')
      BY <1>2 DEF Called
    <3>3. Heads(ckpt', ckpt', op[t].then, loc[t])
      BY <1>3, <3>1, <3>2 DEF Heads
    <3>4. QED
      BY <2>2, <2>3, <3>1, <3>3 DEF Aware
  <2>4. CASE w # t
    <3>1. \A e, k, l : /\ Heads(ckpt, e, k, l) => Heads(ckpt', e, k, l)
                       /\ Heads(ckpt, ckpt, k, l) => Heads(ckpt', ckpt', k, l)
      BY <1>3 DEF Heads
    <3>2. QED
      BY <2>1, <2>2, <2>4, <3>1 DEF Aware
  <2>5. QED
    BY <2>3, <2>4
<1>7. QED
  BY <1>5, <1>6 DEF WriteInv

(* An exception stores nothing and ends a worker.                           *)
LEMMA ThrowWrites ==
  ASSUME OneHost, IInv, RecordInv, WriteInv(ckpt), NEW t \in Threads, NEW e, Throw(t, e),
         ckpt' = ckpt, \A u \in Threads : u # t => op'[u] = op[u],
         \A w \in Workers : w # t => loc'[w] = loc[w]
  PROVE  WriteInv(ckpt)'
<1> DEFINE M == Main(Host)
<1>0. /\ M \in Threads /\ M \notin Workers /\ Host \in Procs
      /\ \A u \in Threads : u = M \/ u \in Workers
      /\ \A w \in Workers : w \in Threads
  BY HostFacts
<1>1. /\ pc'[M] = IF t = M \/ Awaited(t) THEN main[Host].handler ELSE pc[M]
      /\ \A w \in Workers : pc'[w] = IF w = t THEN "done" ELSE pc[w]
  BY ThrowHere
<1>2. main[Host].handler # "store"
  BY <1>0 DEF RecordInv, MainsOK, MainFact, Handlers
<1>3. pc'[t] # "store" /\ (t \in Workers => ~Alive(t)')
  BY <1>0, <1>1, <1>2 DEF Alive
<1>4. QED
  BY <1>0, <1>1, <1>2, <1>3, StayWrites

LEMMA GotoWrites ==
  ASSUME OneHost, IInv, WriteInv(ckpt), NEW t \in Threads, NEW k,
         pc' = [pc EXCEPT ![t] = k], k # "store",
         ckpt' = ckpt, \A u \in Threads : u # t => op'[u] = op[u],
         \A w \in Workers : w # t => loc'[w] = loc[w],
         t \in Workers => Aware(ckpt, k, op'[t], loc'[t])
  PROVE  WriteInv(ckpt)'
<1>0. Main(Host) \in Threads /\ \A w \in Workers : w \in Threads
  BY HostFacts
<1>1. \A u \in Threads : pc'[u] = IF u = t THEN k ELSE pc[u]
  BY DEF IInv, PcOK
<1>2. QED
  BY <1>0, <1>1, StayWrites

LEMMA CallStoreWrites ==
  ASSUME OneHost, IInv, WriteInv(ckpt), NEW t \in Threads, NEW c, NEW fact, NEW k,
         CallStore(t, c, fact, k), ckpt' = ckpt,
         \A w \in Workers : w # t => loc'[w] = loc[w],
         c.rev = ckpt.rev => Adds(ckpt, c, Locals(t)'),
         t \in Workers => Knows(ckpt, loc'[t]) /\ Heads(ckpt, c, k, loc'[t])
  PROVE  WriteInv(ckpt)'
<1>0. Main(Host) \in Threads /\ \A w \in Workers : w \in Threads
  BY HostFacts
<1>1. /\ \A u \in Threads : pc'[u] = IF u = t THEN "store" ELSE pc[u]
      /\ op'[t].rec = c /\ op'[t].then = k /\ \A u \in Threads : u # t => op'[u] = op[u]
  BY DEF CallStore, IInv, OpOK, PcOK
<1>2. t \in Workers => Aware(ckpt, pc'[t], op'[t], loc'[t])
  BY <1>1 DEF Aware
<1>3. QED
  BY <1>0, <1>1, <1>2, StayWrites

LEMMA UpsertWrites ==
  ASSUME OneHost, IInv, RecordInv, WriteInv(ckpt), NEW t \in Threads,
         NEW c \in ExecutionCheckpoint, NEW k, upsert(t, c, k), ckpt' = ckpt,
         \A w \in Workers : w # t => loc'[w] = loc[w],
         c.rev = ckpt.rev => Adds(ckpt, c, Locals(t)'),
         t \in Workers => Knows(ckpt, loc'[t]) /\ Heads(ckpt, c, k, loc'[t])
  PROVE  WriteInv(ckpt)'
<1>1. CASE Throw(t, "FAILED") /\ op' = op
  BY <1>1, ThrowWrites
<1>2. CASE CallStore(t, Normalized(c), FALSE, k)
  <2>1. /\ Normalized(c).rev = c.rev /\ (Called(c) => Called(Normalized(c)))
        /\ \A d, l : Adds(d, c, l) => Adds(d, Normalized(c), l)
    BY NormalizedAdds
  <2>2. t \in Workers => Heads(ckpt, Normalized(c), k, loc'[t])
    BY <2>1 DEF Heads
  <2>3. QED
    BY <1>2, <2>1, <2>2, CallStoreWrites
<1>3. QED
  BY <1>1, <1>2 DEF upsert

LEMMA TransitionWrites ==
  ASSUME OneHost, IInv, RecordInv, WriteInv(ckpt), NEW t \in Threads, NEW s \in Slot,
         NEW c \in ExecutionCheckpoint, NEW next, NEW stage \in ExecutionStage, NEW k,
         transitionAndCheckpoint(t, s, c, next, stage, k), ckpt' = ckpt,
         \A w \in Workers : w # t => loc'[w] = loc[w],
         c.rev = ckpt.rev => Adds(ckpt, [c EXCEPT !.stage = stage], Locals(t)'),
         t \in Workers => Knows(ckpt, loc'[t]) /\ k \notin {"store", "reload", "invoke", "invoking", "invoked"},
         t \in Workers /\ k = "planning" => ~loc'[t].plan,
         t \in Workers /\ k = "working" => ~loc'[t].work
  PROVE  WriteInv(ckpt)'
<1> DEFINE p == t[1]
           h == mgr[p][s]
           history == Append(h, next)
<1>0. p \in Procs /\ h \in Seq(ExecutionState) /\ LegalPath(h)
  BY ThreadFacts DEF IInv, MgrOK
<1>1. PICK b : b = [c EXCEPT !.stage = stage]
  OBVIOUS
<1>2. b \in ExecutionCheckpoint /\ b.rev = c.rev
  BY <1>1 DEF ExecutionCheckpoint
<1>3. CASE Throw(t, "FAILED") /\ op' = op
  BY <1>3, ThrowWrites
<1>4. CASE /\ next \in transitions[StateOf(p, s)]
           /\ CallStore(t, Normalized(Stamped(b, history)), TRUE, k)
  <2>1. history \in Seq(ExecutionState) /\ LegalPath(history)
    BY <1>0, <1>4, LegalStep DEF StateOf
  <2>2. PICK d : d = Stamped(b, history)
    OBVIOUS
  <2>3. /\ d \in ExecutionCheckpoint
        /\ \A f \in {"rev", "plan", "work", "stage", "result"} : d[f] = b[f]
    BY <1>2, <2>1, <2>2, StampedAdds
  <2>4. c.rev = ckpt.rev => Adds(ckpt, b, Locals(t)')
    BY <1>1
  <2>5. d.rev = ckpt.rev => Adds(ckpt, d, Locals(t)')
    BY <1>2, <2>3, <2>4 DEF Adds, Called
  <2>6. Normalized(d).rev = d.rev /\ \A e, l : Adds(e, d, l) => Adds(e, Normalized(d), l)
    BY <2>3, NormalizedAdds
  <2>7. t \in Workers => Heads(ckpt, Normalized(d), k, loc'[t])
    BY DEF Heads
  <2>8. CallStore(t, Normalized(d), TRUE, k)
    BY <1>4, <2>2
  <2>9. QED
    BY <2>5, <2>6, <2>7, <2>8, CallStoreWrites
<1>5. QED
  BY <1>1, <1>3, <1>4 DEF transitionAndCheckpoint

(* The main coroutine stores what it read, under another history.           *)
Derived(c, b) == c.rev = b.rev /\ c.plan = b.plan /\ c.work = b.work

LEMMA MainReads ==
  ASSUME OneHost, IInv, RecordInv, Exact(ckpt), NEW t \in Threads
  PROVE  /\ Loaded(t) = ckpt
         /\ Loaded(t) \in ExecutionCheckpoint /\ cur[t] \in ExecutionCheckpoint
         /\ ckpt \in ExecutionCheckpoint /\ (cur[t].rev = ckpt.rev => cur[t] = ckpt)
BY LoadedIs, Typed DEF Exact

LEMMA MainUpserts ==
  ASSUME OneHost, IInv, RecordInv, Exact(ckpt), WriteInv(ckpt), NEW c \in ExecutionCheckpoint,
         NEW b \in {cur[Main(Host)], Loaded(Main(Host))}, Derived(c, b),
         c.stage \in {b.stage} \cup CallStages, NEW k,
         upsert(Main(Host), c, k), UNCHANGED <<ckpt, loc>>
  PROVE  WriteInv(ckpt)'
<1> DEFINE t == Main(Host)
<1>0. t \in Threads /\ t \notin Workers
  BY HostFacts
<1>1. b \in ExecutionCheckpoint /\ ckpt \in ExecutionCheckpoint /\ (b.rev = ckpt.rev => b = ckpt)
  BY <1>0, MainReads
<1>2. c.rev = ckpt.rev => Adds(ckpt, c, Locals(t)')
  BY <1>1, AddsFrom DEF Derived
<1>3. QED
  BY <1>0, <1>2, UpsertWrites

LEMMA MainTransitions ==
  ASSUME OneHost, IInv, RecordInv, Exact(ckpt), WriteInv(ckpt), NEW c \in ExecutionCheckpoint,
         NEW b \in {cur[Main(Host)], Loaded(Main(Host))}, Derived(c, b),
         NEW stage \in ExecutionStage, stage \in {b.stage} \cup CallStages, NEW k,
         NEW s \in Slot, NEW next,
         transitionAndCheckpoint(Main(Host), s, c, next, stage, k), UNCHANGED <<ckpt, loc>>
  PROVE  WriteInv(ckpt)'
<1> DEFINE t == Main(Host)
<1>0. t \in Threads /\ t \notin Workers
  BY HostFacts
<1>1. b \in ExecutionCheckpoint /\ ckpt \in ExecutionCheckpoint /\ (b.rev = ckpt.rev => b = ckpt)
  BY <1>0, MainReads
<1>2. PICK e : e = [c EXCEPT !.stage = stage]
  OBVIOUS
<1>3. e \in ExecutionCheckpoint /\ Derived(e, b) /\ e.stage = stage
  BY <1>2 DEF ExecutionCheckpoint, Derived
<1>4. c.rev = ckpt.rev => Adds(ckpt, e, Locals(t)')
  BY <1>1, <1>3, AddsFrom DEF Derived
<1>5. QED
  BY <1>0, <1>2, <1>4, TransitionWrites

LEMMA StopWrites ==
  ASSUME OneHost, IInv, StopProcess(Host)
  PROVE  WriteInv(ckpt)'
<1>1. \A t \in Threads : pc'[t] \in {"down", "off"}
  BY HostFacts DEF StopProcess
<1>2. \A w \in Workers : pc'[w] = "off"
  BY HostFacts DEF StopProcess, Threads, Workers
<1>3. QED
  BY <1>1, <1>2 DEF WriteInv, Sends, Alive

LEMMA StartWorkerWrites ==
  ASSUME OneHost, IInv, WriteInv(ckpt), NEW i, NEW from, NEW b,
         StartWorker(Host, i, from, b), UNCHANGED <<ckpt, op>>
  PROVE  WriteInv(ckpt)'
<1> DEFINE M == Main(Host)
           w == <<Host, i>>
<1>0. /\ M \in Threads /\ M \notin Workers
      /\ \A v \in Workers : v \in Threads /\ v # M
  BY HostFacts
<1>1. /\ pc'[M] \in {"await", "enter"}
      /\ \A v \in Workers : pc'[v] = IF v = w THEN "enter" ELSE pc[v]
      /\ \A v \in Workers : v # w => loc'[v] = loc[v]
  BY <1>0 DEF StartWorker, IInv, PcOK, LocOK
<1>2. \A l : Aware(ckpt, "enter", op[w], l)
  BY DEF Aware, Heads
<1>3. CASE w \in Workers
  BY <1>0, <1>1, <1>2, <1>3, StayWrites DEF Alive
<1>4. CASE w \notin Workers
  <2>1. \A v \in Workers : pc'[v] = pc[v] /\ op'[v] = op[v] /\ loc'[v] = loc[v]
    BY <1>1, <1>4
  <2>2. QED
    BY <1>0, <1>1, <2>1, StayWrites
<1>5. QED
  BY <1>3, <1>4

LEMMA StoreStepWrites ==
  ASSUME OneHost, IInv, RecordInv, DeferInv, SoleInv, WriteInv(ckpt), NEW t \in Threads, StoreStep(t)
  PROVE  WriteInv(ckpt)'
<1> DEFINE M == Main(Host)
<1>0. /\ M \in Threads /\ Host \in Procs /\ (t # M => t \in Workers) /\ M \notin Workers
      /\ \A w \in Workers : w \in Threads
  BY HostFacts
<1>1. main[Host].handler # "store"
  BY <1>0 DEF RecordInv, MainsOK, MainFact, Handlers
<1>2. CASE StoreCommits(t)
  <2>1. /\ pc[t] = "store" /\ op[t].rec.rev = ckpt.rev /\ ckpt' = [op[t].rec EXCEPT !.rev = @ + 1]
        /\ op' = op /\ loc' = loc /\ pc' = [pc EXCEPT ![t] = "reload"]
    BY <1>2 DEF StoreCommits, Goto
  <2>2. \A u \in Threads : pc'[u] = IF u = t THEN "reload" ELSE pc[u]
    BY <2>1 DEF IInv, PcOK
  <2>3. QED
    BY <1>0, <2>1, <2>2, CommitWrites
<1>3. CASE StoreConflicts(t)
  BY <1>3, ThrowWrites DEF StoreConflicts, store
<1>4. CASE StoreFails(t)
  <2>1. /\ pc[t] = "store" /\ Throw(t, "FAILED") /\ op' = op /\ loc' = loc
        /\ \/ ckpt' = ckpt
           \/ op[t].rec.rev = ckpt.rev /\ ckpt' = [op[t].rec EXCEPT !.rev = @ + 1]
    BY <1>4 DEF StoreFails
  <2>2. /\ pc'[M] = IF t = M \/ Awaited(t) THEN main[Host].handler ELSE pc[M]
        /\ \A w \in Workers : pc'[w] = IF w = t THEN "done" ELSE pc[w]
    BY <2>1, ThrowHere
  <2>3. /\ pc'[t] # "store" /\ (t \in Workers => pc'[t] \in {"reload", "done"})
        /\ \A w \in Workers : w # t => pc'[w] = pc[w]
        /\ pc'[M] = "store" => pc[M] = "store"
    BY <1>0, <1>1, <2>2
  <2>4. CASE ckpt' = ckpt
    BY <2>1, <2>4, ThrowWrites
  <2>5. QED
    BY <2>1, <2>3, <2>4, CommitWrites
<1>5. CASE Reload(t)
  <2>1. /\ pc[t] = "reload" /\ pc' = [pc EXCEPT ![t] = op[t].then] /\ ckpt' = ckpt /\ loc' = loc
        /\ op' = [op EXCEPT ![t] = NoOp]
    BY <1>5 DEF Reload, Goto, store
  <2>2. \A u \in Threads : u # t => op'[u] = op[u]
    BY <2>1 DEF IInv, OpOK
  <2>3. t \in Workers => Knows(ckpt, loc[t]) /\ Heads(ckpt, ckpt, op[t].then, loc[t])
    BY <2>1 DEF WriteInv, Aware, Alive
  <2>4. op[t].then \notin {"store", "reload"}
    <3>1. t = M => op[t].then \in AfterStore
      BY <2>1 DEF DeferInv, KindsOK, Kinds
    <3>2. QED
      BY <1>0, <2>3, <3>1 DEF AfterStore, Heads
  <2>5. t \in Workers => Aware(ckpt, op[t].then, op'[t], loc'[t])
    BY <2>1, <2>3, <2>4 DEF Aware
  <2>6. QED
    BY <1>0, <2>1, <2>2, <2>4, <2>5, GotoWrites
<1>6. CASE PublishFails(t)
  <2>1. Throw(t, "FAILED") /\ ckpt' = ckpt /\ op' = [op EXCEPT ![t] = NoOp] /\ loc' = loc
    BY <1>6 DEF PublishFails, store
  <2>2. \A u \in Threads : u # t => op'[u] = op[u]
    BY <2>1 DEF IInv, OpOK
  <2>3. QED
    BY <2>1, <2>2, ThrowWrites
<1>7. QED
  BY <1>2, <1>3, <1>4, <1>5, <1>6 DEF StoreStep

LEMMA ExecuteStepWrites ==
  ASSUME OneHost, IInv, RecordInv, Exact(ckpt), WriteInv(ckpt), ExecuteStep(Host)
  PROVE  WriteInv(ckpt)'
<1> DEFINE t == Main(Host)
<1>0. /\ t \in Threads /\ t \notin Workers /\ Host \in Procs /\ "run" \in Slot
      /\ main[Host] \in MainLocals /\ t[1] = Host
      /\ \A w \in Workers : w \in Threads /\ w # t
  BY HostFacts, Typed DEF Slot
<1>1. ckpt' = ckpt
  BY DEF ExecuteStep, Authorize, Schedule, Attempt, Run, TimerFires, Retry, Backoff,
         Succeeded, Completed, Catch, Fail, Cancelled, Answer, store
<1>2. /\ Loaded(t) = ckpt /\ Loaded(t) \in ExecutionCheckpoint /\ cur[t] \in ExecutionCheckpoint
      /\ ckpt \in ExecutionCheckpoint
  BY <1>0, MainReads
<1>g. ASSUME NEW k, Goto(t, k), k # "store", op' = op, loc' = loc
      PROVE  WriteInv(ckpt)'
  BY <1>0, <1>1, <1>g, GotoWrites DEF Goto
<1>t. ASSUME NEW e, Throw(t, e), op' = op, loc' = loc
      PROVE  WriteInv(ckpt)'
  BY <1>0, <1>1, <1>t, ThrowWrites
<1>3. CASE Authorize(Host)
  <2>1. PICK c : c = [cur[t] EXCEPT !.snapshot = TRUE]
    OBVIOUS
  <2>2. c \in ExecutionCheckpoint /\ Derived(c, cur[t]) /\ c.stage = cur[t].stage
    BY <1>2, <2>1 DEF ExecutionCheckpoint, Derived
  <2>3. PICK d : d = Stamped(c, mgr[Host]["run"])
    OBVIOUS
  <2>4. mgr[Host]["run"] \in Seq(ExecutionState) /\ LegalPath(mgr[Host]["run"])
    BY <1>0 DEF IInv, MgrOK
  <2>5. d \in ExecutionCheckpoint /\ Derived(d, cur[t]) /\ d.stage = cur[t].stage
    BY <2>2, <2>3, <2>4, StampedAdds DEF Derived
  <2>6. /\ \/ Throw(t, "FAILED") /\ op' = op
           \/ upsert(t, d, "schedule")
        /\ loc' = loc
    BY <1>3, <2>1, <2>3 DEF Authorize
  <2>7. QED
    BY <1>1, <1>t, <2>5, <2>6, MainUpserts
<1>4. CASE Attempt(Host)
  <2>1. PICK c : c = Normalized(Loaded(t))
    OBVIOUS
  <2>2. /\ pc' = [pc EXCEPT ![t] = "store"] /\ loc' = loc
        /\ op' = [op EXCEPT ![t] = [rec |-> c, fact |-> FALSE, then |-> "run"]]
    BY <1>4, <2>1 DEF Attempt
  <2>3. op'[t].rec = c /\ \A u \in Threads : u # t => op'[u] = op[u]
    BY <1>0, <2>2 DEF IInv, OpOK
  <2>4. \A u \in Threads : u # t => pc'[u] = pc[u]
    BY <2>2 DEF IInv, PcOK
  <2>5. /\ c \in ExecutionCheckpoint /\ Derived(c, Loaded(t))
        /\ c.stage \in {Loaded(t).stage, "terminal"}
    BY <1>2, <2>1, NormalizedAdds DEF Derived
  <2>6. c.rev = ckpt.rev => Adds(ckpt, c, Locals(t)')
    BY <1>2, <2>5, AddsFrom DEF Derived, CallStages
  <2>7. QED
    BY <1>0, <1>1, <2>2, <2>3, <2>4, <2>6, StayWrites
<1>5. CASE Run(Host)
  BY <1>1, <1>5, StartWorkerWrites DEF Run
<1>6. CASE TimerFires(Host)
  BY <1>6, <1>t DEF TimerFires
<1>7. CASE Backoff(Host)
  <2>1. /\ transitionAndCheckpoint(t, "run", Loaded(t), "recovering", Loaded(t).stage, "attempt")
        /\ loc' = loc
    BY <1>7 DEF Backoff
  <2>2. Loaded(t).stage \in ExecutionStage /\ Derived(Loaded(t), Loaded(t))
    BY <1>2 DEF ExecutionCheckpoint, Derived
  <2>3. QED
    BY <1>0, <1>1, <1>2, <2>1, <2>2, MainTransitions
<1>8. CASE Succeeded(Host)
  <2>1. PICK c : c = [Loaded(t) EXCEPT !.result = main[Host].value]
    OBVIOUS
  <2>2. c \in ExecutionCheckpoint /\ Derived(c, Loaded(t))
    BY <1>0, <1>2, <2>1 DEF ExecutionCheckpoint, MainLocals, Derived
  <2>3. /\ transitionAndCheckpoint(t, "run", c, "completing", "post-invoke", "terminalize")
        /\ loc' = loc
    BY <1>8, <2>1 DEF Succeeded
  <2>4. "post-invoke" \in CallStages /\ "post-invoke" \in ExecutionStage
    BY DEF CallStages, ExecutionStage
  <2>5. QED
    BY <1>0, <1>1, <2>2, <2>3, <2>4, MainTransitions
<1>9. CASE Fail(Host)
  <2>1. PICK c : c = [Loaded(t) EXCEPT !.cancelled = TRUE]
    OBVIOUS
  <2>2. c \in ExecutionCheckpoint /\ Derived(c, Loaded(t)) /\ c.stage = Loaded(t).stage
    BY <1>2, <2>1 DEF ExecutionCheckpoint, Derived
  <2>3. /\ \/ upsert(t, c, "cancelled")
           \/ \E k \in {"answer", "reach"} : Goto(t, k) /\ op' = op
        /\ loc' = loc
    BY <1>9, <2>1 DEF Fail
  <2>4. QED
    BY <1>1, <1>g, <2>2, <2>3, MainUpserts
<1>10. CASE Schedule(Host) \/ Retry(Host) \/ Completed(Host) \/ Answer(Host) \/ Catch(Host)
            \/ Cancelled(Host)
  <2>1. /\ \/ \E k \in {"attempt", "backoff", "catch", "finished", "fail", "answer", "reach"} :
                Goto(t, k)
           \/ Throw(t, "FAILED")
        /\ op' = op /\ loc' = loc
    BY <1>10 DEF Schedule, Retry, Completed, Answer, Catch, Cancelled
  <2>2. QED
    BY <1>g, <1>t, <2>1
<1>11. QED
  BY <1>3, <1>4, <1>5, <1>6, <1>7, <1>8, <1>9, <1>10 DEF ExecuteStep

LEMMA FinishStepWrites ==
  ASSUME OneHost, IInv, RecordInv, Exact(ckpt), WriteInv(ckpt), FinishStep(Host)
  PROVE  WriteInv(ckpt)'
<1> DEFINE t == Main(Host)
           s == main[Host].slot
           target == main[Host].target
<1>0. /\ t \in Threads /\ t \notin Workers /\ Host \in Procs /\ s \in Slot
      /\ main[Host] \in MainLocals /\ t[1] = Host
      /\ mgr[Host][s] \in Seq(ExecutionState) /\ LegalPath(mgr[Host][s])
  BY HostFacts, Typed DEF IInv, MgrOK
<1>1. ckpt' = ckpt
  BY DEF FinishStep, Reach, Terminalize, Finished, store
<1>2. cur[t] \in ExecutionCheckpoint /\ cur[t].stage \in ExecutionStage
  BY <1>0, MainReads DEF ExecutionCheckpoint
<1>g. ASSUME NEW k, Goto(t, k), k # "store", op' = op, loc' = loc
      PROVE  WriteInv(ckpt)'
  BY <1>0, <1>1, <1>g, GotoWrites DEF Goto
<1>3. CASE Reach(Host)
  <2> DEFINE hop == NextHop(StateOf(Host, s), target)
             k == IF hop = target THEN "terminalize" ELSE "reach"
  <2>1. PICK c : c = [cur[t] EXCEPT !.cancelled = @ \/ hop = "cancelling"]
    OBVIOUS
  <2>2. /\ \/ Goto(t, "terminalize") /\ op' = op
           \/ transitionAndCheckpoint(t, s, c, hop, c.stage, k)
        /\ loc' = loc
    BY <1>3, <2>1 DEF Reach
  <2>3. c \in ExecutionCheckpoint /\ Derived(c, cur[t]) /\ c.stage = cur[t].stage
    <3>1. (cur[t].cancelled \/ hop = "cancelling") \in BOOLEAN
      OBVIOUS
    <3>2. QED
      BY <1>2, <2>1, <3>1 DEF ExecutionCheckpoint, Derived
  <2> HIDE DEF k, hop
  <2>4. CASE transitionAndCheckpoint(t, s, c, hop, c.stage, k)
    BY <1>0, <1>1, <1>2, <2>2, <2>3, <2>4, MainTransitions
  <2>5. QED
    BY <1>g, <2>2, <2>4
<1>4. CASE Terminalize(Host)
  <2> DEFINE k == IF main[Host].kind # "execute" THEN "finished"
                  ELSE IF target = "completing" THEN "completed" ELSE "answer"
  <2>1. PICK c : c = [cur[t] EXCEPT !.result = IF target = "completing" THEN main[Host].value
                                               ELSE @,
                                    !.cancelled = @ \/ target = "cancelling"]
    OBVIOUS
  <2>2. /\ \/ upsert(t, Stamped(c, mgr[Host][s]), k)
           \/ transitionAndCheckpoint(t, s, c, FinalState(target), "terminal", k)
        /\ loc' = loc
    BY <1>4, <2>1 DEF Terminalize
  <2>3. c \in ExecutionCheckpoint /\ Derived(c, cur[t]) /\ c.stage = cur[t].stage
    <3>1. (cur[t].cancelled \/ target = "cancelling") \in BOOLEAN
      OBVIOUS
    <3>2. (IF target = "completing" THEN main[Host].value ELSE cur[t].result) \in Nat
      BY <1>0, <1>2 DEF ExecutionCheckpoint, MainLocals
    <3>3. QED
      BY <1>2, <2>1, <3>1, <3>2 DEF ExecutionCheckpoint, Derived
  <2> HIDE DEF k
  <2>4. CASE upsert(t, Stamped(c, mgr[Host][s]), k)
    <3>1. PICK d : d = Stamped(c, mgr[Host][s])
      OBVIOUS
    <3>2. d \in ExecutionCheckpoint /\ Derived(d, cur[t]) /\ d.stage = cur[t].stage
      BY <1>0, <2>3, <3>1, StampedAdds DEF Derived
    <3>3. upsert(t, d, k)
      BY <2>4, <3>1
    <3>4. QED
      BY <1>1, <2>2, <3>2, <3>3, MainUpserts
  <2>5. CASE transitionAndCheckpoint(t, s, c, FinalState(target), "terminal", k)
    <3>1. "terminal" \in CallStages /\ "terminal" \in ExecutionStage
      BY DEF CallStages, ExecutionStage
    <3>2. QED
      BY <1>0, <1>1, <2>2, <2>3, <2>5, <3>1, MainTransitions
  <2>6. QED
    BY <2>2, <2>4, <2>5
<1>5. CASE Finished(Host)
  BY <1>5, <1>g DEF Finished
<1>6. QED
  BY <1>3, <1>4, <1>5 DEF FinishStep

LEMMA RecoverStepWrites ==
  ASSUME OneHost, IInv, RecordInv, Exact(ckpt), WriteInv(ckpt), RecoverStep(Host)
  PROVE  WriteInv(ckpt)'
<1> DEFINE t == Main(Host)
<1>0. t \in Threads /\ t \notin Workers /\ Host \in Procs /\ "run" \in Slot
  BY HostFacts DEF Slot
<1>1. ckpt' = ckpt
  BY DEF RecoverStep, RecoverIgnores, RecoverTerminalizes, RecoverResumes, Resume, ResumeRun,
         Resumed, ResumeCatch, BootCheck, RecoveryFactFails, store
<1>2. cur[t] \in ExecutionCheckpoint /\ cur[t].stage \in ExecutionStage
  BY <1>0, MainReads DEF ExecutionCheckpoint
<1>g. ASSUME NEW k, Goto(t, k), k # "store", op' = op, loc' = loc
      PROVE  WriteInv(ckpt)'
  BY <1>0, <1>1, <1>g, GotoWrites DEF Goto
<1>3. CASE RecoverIgnores(Host) \/ RecoverTerminalizes(Host) \/ RecoverResumes(Host)
           \/ Resumed(Host) \/ ResumeCatch(Host)
  <2>1. /\ \E k \in {"finished", "reach", "resume"} : Goto(t, k)
        /\ op' = op /\ loc' = loc
    BY <1>3 DEF RecoverIgnores, RecoverTerminalizes, RecoverResumes, Resumed, ResumeCatch
  <2>2. QED
    BY <1>g, <2>1
<1>4. CASE Resume(Host)
  <2>1. /\ \/ transitionAndCheckpoint(t, "run", cur[t], "recovering", cur[t].stage, "resumeRun")
           \/ Goto(t, "resumeRun") /\ op' = op
        /\ loc' = loc
    BY <1>4 DEF Resume
  <2>2. Derived(cur[t], cur[t])
    BY DEF Derived
  <2>3. QED
    BY <1>0, <1>1, <1>2, <1>g, <2>1, <2>2, MainTransitions
<1>5. CASE ResumeRun(Host)
  <2>1. \E from, b : StartWorker(Host, main[Host].attempt, from, b) /\ op' = op
    BY <1>5 DEF ResumeRun
  <2>2. QED
    BY <1>1, <2>1, StartWorkerWrites
<1>6. CASE BootCheck(Host)
  <2>1. \/ Goto(t, "finished") /\ op' = op /\ loc' = loc
        \/ StopProcess(Host)
    BY <1>6 DEF BootCheck
  <2>2. QED
    BY <1>g, <2>1, StopWrites
<1>7. CASE RecoveryFactFails(Host)
  BY <1>7, StopWrites DEF RecoveryFactFails
<1>8. QED
  BY <1>3, <1>4, <1>5, <1>6, <1>7 DEF RecoverStep

(* What a running worker may build on.                                      *)
LEMMA WorkerReads ==
  ASSUME OneHost, IInv, RecordInv, Exact(ckpt), WriteInv(ckpt), NEW w \in Workers, Alive(w)
  PROVE  /\ w \in Threads /\ w[1] = Host /\ Host \in Procs /\ loc[w] \in WorkerLocals
         /\ Loaded(w) = ckpt /\ ckpt \in ExecutionCheckpoint
         /\ cur[w] \in ExecutionCheckpoint /\ (cur[w].rev = ckpt.rev => cur[w] = ckpt)
         /\ Aware(ckpt, pc[w], op[w], loc[w])
         /\ Holds(IF pc[w] \in {"store", "reload"} THEN op[w].then ELSE pc[w], loc[w])
         /\ mgr[Host]["run"] \in Seq(ExecutionState) /\ LegalPath(mgr[Host]["run"])
<1>1. w \in Threads /\ w[1] = Host /\ Host \in Procs /\ "run" \in Slot
  BY HostFacts DEF Slot
<1>2. loc[w] \in WorkerLocals
  BY DEF IInv, LocOK
<1>3. Holds(IF pc[w] \in {"store", "reload"} THEN op[w].then ELSE pc[w], loc[w])
  BY DEF RecordInv, WorkersOK, WorkerFact
<1>4. mgr[Host]["run"] \in Seq(ExecutionState) /\ LegalPath(mgr[Host]["run"])
  BY <1>1 DEF IInv, MgrOK
<1>5. QED
  BY <1>1, <1>2, <1>3, <1>4, MainReads DEF WriteInv

LEMMA WorkerStepWrites ==
  ASSUME OneHost, IInv, RecordInv, Exact(ckpt), WriteInv(ckpt), NEW w \in Workers,
         WorkerStep(w)
  PROVE  WriteInv(ckpt)'
<1> DEFINE l == loc[w]
           h == mgr[Host]["run"]
<1>0. /\ Alive(w) /\ ckpt' = ckpt
      /\ \A v \in Workers : v # w => pc'[v] = pc[v] /\ loc'[v] = loc[v]
      /\ \A t \in Threads : t # w => op'[t] = op[t]
  BY WorkerMoves
<1>1. /\ w \in Threads /\ w[1] = Host /\ Host \in Procs /\ l \in WorkerLocals
      /\ Loaded(w) = ckpt /\ ckpt \in ExecutionCheckpoint
      /\ cur[w] \in ExecutionCheckpoint /\ (cur[w].rev = ckpt.rev => cur[w] = ckpt)
      /\ Aware(ckpt, pc[w], op[w], l)
      /\ Holds(IF pc[w] \in {"store", "reload"} THEN op[w].then ELSE pc[w], l)
      /\ h \in Seq(ExecutionState) /\ LegalPath(h)
  BY <1>0, WorkerReads
<1>2. "run" \in Slot /\ cur[w].stage \in ExecutionStage /\ ckpt.stage \in ExecutionStage
      /\ [cur[w] EXCEPT !.stage = @] = cur[w] /\ [ckpt EXCEPT !.stage = @] = ckpt
  BY <1>1 DEF Slot, ExecutionCheckpoint
<1>3. Locals(w)' = loc'[w]
  BY DEF Locals
<1>k. loc' = loc => Locals(w)' = l /\ (pc[w] # "enter" => Knows(ckpt, loc'[w]))
  BY <1>1, <1>3 DEF Aware
<1>g. ASSUME NEW k, pc' = [pc EXCEPT ![w] = k], k \notin {"store", "reload"},
             k # "enter" => Knows(ckpt, loc'[w]), Heads(ckpt, ckpt, k, loc'[w])
      PROVE  WriteInv(ckpt)'
  <2>1. Aware(ckpt, k, op'[w], loc'[w])
    BY <1>g DEF Aware
  <2>2. QED
    BY <1>0, <1>1, <1>g, <2>1, GotoWrites
<1>t. ASSUME NEW e, Throw(w, e)
      PROVE  WriteInv(ckpt)'
  BY <1>0, <1>1, <1>t, ThrowWrites
<1>s. ASSUME NEW c \in ExecutionCheckpoint, NEW k, upsert(w, Stamped(c, h), k),
             c.rev = ckpt.rev => Adds(ckpt, c, loc'[w]), Knows(ckpt, loc'[w]),
             Heads(ckpt, c, k, loc'[w])
      PROVE  WriteInv(ckpt)'
  <2>1. PICK d : d = Stamped(c, h)
    OBVIOUS
  <2>2. d \in ExecutionCheckpoint /\ Derived(d, c) /\ d.stage = c.stage
    BY <1>1, <2>1, StampedAdds DEF Derived
  <2>3. d.rev = ckpt.rev => Adds(ckpt, d, Locals(w)')
    BY <1>3, <1>s, <2>2 DEF Adds, Called, Derived
  <2>4. Heads(ckpt, d, k, loc'[w])
    BY <1>s, <2>2 DEF Heads, Called, Derived
  <2>5. upsert(w, d, k)
    BY <1>s, <2>1
  <2>6. QED
    BY <1>0, <1>1, <1>s, <2>2, <2>3, <2>4, <2>5, UpsertWrites
<1>4. CASE Enter(w)
  <2>1. PICK m : m = [l EXCEPT !.plan = ckpt.plan, !.work = ckpt.work,
                               !.call = IF l.from = "post-invoke" THEN ckpt.result ELSE @]
    OBVIOUS
  <2>2. loc' = [loc EXCEPT ![w] = m]
    BY <1>1, <1>4, <2>1 DEF Enter
  <2>3. loc'[w] = m
    BY <2>2 DEF IInv, LocOK
  <2>4. m.plan = ckpt.plan /\ m.work = ckpt.work
    BY <1>1, <2>1 DEF WorkerLocals
  <2>5. Knows(ckpt, loc'[w]) /\ Adds(ckpt, ckpt, loc'[w])
    BY <2>3, <2>4 DEF Knows, Adds
  <2>6. \/ \E k \in {"return", "plan"} : pc' = [pc EXCEPT ![w] = k]
        \/ Throw(w, "FAILED")
        \/ \E next : transitionAndCheckpoint(w, "run", ckpt, next, ckpt.stage, "plan")
    BY <1>1, <1>4 DEF Enter, Goto
  <2>7. \A k \in {"return", "plan"} : Heads(ckpt, ckpt, k, loc'[w])
    BY DEF Heads
  <2>8. CASE \E next : transitionAndCheckpoint(w, "run", ckpt, next, ckpt.stage, "plan")
    BY <1>0, <1>1, <1>2, <1>3, <2>5, <2>8, TransitionWrites
  <2>9. QED
    BY <1>g, <1>t, <2>5, <2>6, <2>7, <2>8
<1>5. CASE PlanStage(w)
  <2>1. /\ pc[w] = "plan" /\ loc' = loc
        /\ \/ pc' = [pc EXCEPT ![w] = "work"]
           \/ pc' = [pc EXCEPT ![w] = "planning"] /\ ~l.plan
           \/ Throw(w, "FAILED")
           \/ /\ transitionAndCheckpoint(w, "run", cur[w], "planning", cur[w].stage, "planning")
              /\ ~l.plan
    BY <1>5 DEF PlanStage, Goto
  <2>2. Heads(ckpt, ckpt, "work", loc'[w]) /\ (~l.plan => Heads(ckpt, ckpt, "planning", loc'[w]))
    BY <2>1 DEF Heads
  <2>3. cur[w].rev = ckpt.rev => Adds(ckpt, [cur[w] EXCEPT !.stage = cur[w].stage], Locals(w)')
    BY <1>1, <1>2 DEF Adds
  <2>4. CASE /\ transitionAndCheckpoint(w, "run", cur[w], "planning", cur[w].stage, "planning")
             /\ ~l.plan
    BY <1>0, <1>1, <1>2, <1>k, <2>1, <2>3, <2>4, TransitionWrites
  <2>5. QED
    BY <1>g, <1>k, <1>t, <2>1, <2>2, <2>4
<1>6. CASE Planning(w)
  <2>1. PICK c : c = [cur[w] EXCEPT !.plan = TRUE, !.stage = "post-planning"]
    OBVIOUS
  <2>2. /\ c \in ExecutionCheckpoint /\ c.rev = cur[w].rev /\ c.work = cur[w].work
    BY <1>1, <2>1 DEF ExecutionCheckpoint, ExecutionStage
  <2>3. /\ pc[w] = "planning"
        /\ \/ upsert(w, Stamped(c, h), "work") /\ loc' = [loc EXCEPT ![w].plan = TRUE]
           \/ Throw(w, "FAILED")
    BY <1>1, <1>6, <2>1 DEF Planning
  <2>4. Knows(ckpt, l) /\ ~l.plan
    BY <1>1, <2>3 DEF Aware, Heads
  <2>5. CASE upsert(w, Stamped(c, h), "work") /\ loc' = [loc EXCEPT ![w].plan = TRUE]
    <3>1. loc'[w] = [l EXCEPT !.plan = TRUE]
      BY <2>5 DEF IInv, LocOK
    <3>2. loc'[w].plan /\ loc'[w].work = l.work
      BY <1>1, <3>1 DEF WorkerLocals
    <3>3. Knows(ckpt, loc'[w]) /\ ~Called(ckpt) /\ Heads(ckpt, c, "work", loc'[w])
      BY <2>4, <3>2 DEF Knows, Called, Heads
    <3>4. c.rev = ckpt.rev => Adds(ckpt, c, loc'[w])
      BY <1>1, <2>2, <3>2, <3>3 DEF Adds
    <3>5. QED
      BY <1>s, <2>2, <2>5, <3>3, <3>4
  <2>6. QED
    BY <1>t, <2>3, <2>5
<1>7. CASE WorkStage(w)
  <2>1. /\ pc[w] = "work" /\ loc' = loc
        /\ \/ pc' = [pc EXCEPT ![w] = "ready"]
           \/ pc' = [pc EXCEPT ![w] = "working"] /\ ~l.work
           \/ Throw(w, "FAILED")
           \/ /\ transitionAndCheckpoint(w, "run", cur[w], "executing", "post-planning", "working")
              /\ ~l.work
    BY <1>7 DEF WorkStage, Goto
  <2>2. Heads(ckpt, ckpt, "ready", loc'[w]) /\ (~l.work => Heads(ckpt, ckpt, "working", loc'[w]))
    BY <2>1 DEF Heads
  <2>3. CASE /\ transitionAndCheckpoint(w, "run", cur[w], "executing", "post-planning", "working")
             /\ ~l.work
    <3>1. Knows(ckpt, l) /\ ~Called(ckpt)
      BY <1>1, <2>1, <2>3 DEF Aware, Knows, Called
    <3>2. PICK c : c = [cur[w] EXCEPT !.stage = "post-planning"]
      OBVIOUS
    <3>3. c.plan = cur[w].plan /\ c.work = cur[w].work /\ "post-planning" \in ExecutionStage
      BY <1>1, <3>2 DEF ExecutionCheckpoint, ExecutionStage
    <3>4. cur[w].rev = ckpt.rev => Adds(ckpt, c, Locals(w)')
      BY <1>1, <3>1, <3>3 DEF Adds
    <3>5. QED
      BY <1>0, <1>1, <1>2, <1>k, <2>1, <2>3, <3>2, <3>3, <3>4, TransitionWrites
  <2>4. QED
    BY <1>g, <1>k, <1>t, <2>1, <2>2, <2>3
<1>8. CASE Working(w)
  <2>1. PICK c : c = [cur[w] EXCEPT !.plan = l.plan, !.work = TRUE, !.stage = "post-workflow"]
    OBVIOUS
  <2>2. c \in ExecutionCheckpoint /\ c.rev = cur[w].rev /\ c.plan = l.plan
    BY <1>1, <2>1 DEF ExecutionCheckpoint, ExecutionStage, WorkerLocals
  <2>3. /\ pc[w] = "working"
        /\ \/ upsert(w, Stamped(c, h), "ready") /\ loc' = [loc EXCEPT ![w].work = TRUE]
           \/ Throw(w, "FAILED")
    BY <1>1, <1>8, <2>1 DEF Working
  <2>4. Knows(ckpt, l) /\ ~l.work
    BY <1>1, <2>3 DEF Aware, Heads
  <2>5. CASE upsert(w, Stamped(c, h), "ready") /\ loc' = [loc EXCEPT ![w].work = TRUE]
    <3>1. loc'[w] = [l EXCEPT !.work = TRUE]
      BY <2>5 DEF IInv, LocOK
    <3>2. loc'[w].work /\ loc'[w].plan = l.plan
      BY <1>1, <3>1 DEF WorkerLocals
    <3>3. Knows(ckpt, loc'[w]) /\ ~Called(ckpt) /\ Heads(ckpt, c, "ready", loc'[w])
      BY <2>4, <3>2 DEF Knows, Called, Heads
    <3>4. c.rev = ckpt.rev => Adds(ckpt, c, loc'[w])
      BY <2>2, <3>2, <3>3 DEF Adds
    <3>5. QED
      BY <1>s, <2>2, <2>5, <3>3, <3>4
  <2>6. QED
    BY <1>t, <2>3, <2>5
<1>9. CASE Ready(w)
  <2>1. PICK c : c = [cur[w] EXCEPT !.plan = l.plan, !.work = l.work, !.stage = "pre-invoke"]
    OBVIOUS
  <2>2. /\ c \in ExecutionCheckpoint /\ c.plan = l.plan /\ c.work = l.work
        /\ c.stage = "pre-invoke"
    BY <1>1, <2>1 DEF ExecutionCheckpoint, ExecutionStage, WorkerLocals
  <2>3. upsert(w, Stamped(c, h), "invoke") /\ loc' = loc /\ pc[w] = "ready"
    BY <1>1, <1>9, <2>1 DEF Ready
  <2>4. l.plan /\ l.work
    BY <1>1, <2>3 DEF Holds
  <2>5. Called(c) /\ Adds(ckpt, c, loc'[w]) /\ Heads(ckpt, c, "invoke", loc'[w])
    BY <2>2, <2>3, <2>4 DEF Called, CallStages, Adds, Heads
  <2>6. QED
    BY <1>k, <1>s, <2>2, <2>3, <2>5
<1>10. CASE Invoke(w) \/ InvokeReturns(w)
  <2>1. /\ \/ Throw(w, "FAILED")
           \/ \E k \in {"invoking", "invoked"} : pc' = [pc EXCEPT ![w] = k]
        /\ pc[w] \in {"invoke", "invoking"}
    BY <1>10 DEF Invoke, InvokeReturns, Goto
  <2>2. loc'[w].plan = l.plan /\ loc'[w].work = l.work
    <3>1. loc' = loc \/ loc' = [loc EXCEPT ![w] = [l EXCEPT !.call = invoked + 1]]
      BY <1>10 DEF Invoke, InvokeReturns
    <3>2. loc'[w] = l \/ loc'[w] = [l EXCEPT !.call = invoked + 1]
      BY <3>1 DEF IInv, LocOK
    <3>3. QED
      BY <1>1, <3>2 DEF WorkerLocals
  <2>3. Knows(ckpt, l) /\ Called(ckpt)
    BY <1>1, <2>1 DEF Aware, Heads
  <2>4. /\ Knows(ckpt, loc'[w])
        /\ \A k \in {"invoking", "invoked"} : Heads(ckpt, ckpt, k, loc'[w])
    BY <2>2, <2>3 DEF Knows, Heads
  <2>5. QED
    BY <1>g, <1>t, <2>1, <2>4
<1>11. CASE PersistToolLoop(w)
  <2>1. upsert(w, ckpt, "invoking") /\ pc[w] = "invoking"
    BY <1>1, <1>11 DEF PersistToolLoop
  <2>2. loc'[w].plan = l.plan /\ loc'[w].work = l.work
    <3>1. loc' = [loc EXCEPT ![w] = [l EXCEPT !.writes = l.writes + 1]]
      BY <1>11 DEF PersistToolLoop
    <3>2. loc'[w] = [l EXCEPT !.writes = l.writes + 1]
      BY <3>1 DEF IInv, LocOK
    <3>3. QED
      BY <1>1, <3>2 DEF WorkerLocals
  <2>3. Knows(ckpt, l) /\ Called(ckpt)
    BY <1>1, <2>1 DEF Aware, Heads
  <2>4. /\ Knows(ckpt, loc'[w]) /\ Heads(ckpt, ckpt, "invoking", loc'[w])
        /\ Adds(ckpt, ckpt, loc'[w])
    BY <2>2, <2>3 DEF Knows, Heads, Adds
  <2>5. QED
    BY <1>0, <1>1, <1>3, <2>1, <2>4, UpsertWrites
<1>12. CASE Invoked(w)
  <2>1. PICK c : c = [ckpt EXCEPT !.plan = l.plan, !.work = l.work, !.result = l.call,
                                  !.stage = "post-invoke"]
    OBVIOUS
  <2>2. /\ c \in ExecutionCheckpoint /\ c.plan = l.plan /\ c.work = l.work
        /\ c.stage = "post-invoke"
    <3>1. l.plan \in BOOLEAN /\ l.work \in BOOLEAN /\ l.call \in Nat
      BY <1>1 DEF WorkerLocals
    <3>2. ckpt \in ExecutionCheckpoint
      BY <1>1
    <3>3. PICK plan, work, result : plan = l.plan /\ work = l.work /\ result = l.call
      OBVIOUS
    <3>4. plan \in BOOLEAN /\ work \in BOOLEAN /\ result \in Nat
      BY <3>1, <3>3
    <3>5. c = [ckpt EXCEPT !.plan = plan, !.work = work, !.result = result,
                           !.stage = "post-invoke"]
      BY <2>1, <3>3
    <3>6. /\ c \in ExecutionCheckpoint /\ c.plan = plan /\ c.work = work
          /\ c.stage = "post-invoke"
      BY <3>2, <3>4, <3>5 DEF ExecutionCheckpoint, ExecutionStage
    <3>7. QED
      BY <3>3, <3>6
  <2>3. upsert(w, Stamped(c, h), "return") /\ loc' = loc /\ pc[w] = "invoked"
    BY <1>1, <1>12, <2>1 DEF Invoked
  <2>4. l.plan /\ l.work
    BY <1>1, <2>3 DEF Holds
  <2>5. Adds(ckpt, c, loc'[w]) /\ Heads(ckpt, c, "return", loc'[w])
    BY <2>2, <2>3, <2>4 DEF Called, CallStages, Adds, Heads
  <2>6. QED
    BY <1>k, <1>s, <2>2, <2>3, <2>5
<1>13. CASE Return(w)
  <2>1. /\ pc'[w] = "done" /\ op' = op
        /\ pc'[Main(Host)] = pc[Main(Host)] \/ pc'[Main(Host)] \in {"succeeded", "resumed"}
    BY <1>1, <1>13, HostFacts DEF Return
  <2>2. QED
    BY <1>0, <1>1, <2>1, StayWrites, HostFacts DEF Alive
<1>14. QED
  BY <1>4, <1>5, <1>6, <1>7, <1>8, <1>9, <1>10, <1>11, <1>12, <1>13 DEF WorkerStep

LEMMA EnvironmentWrites ==
  ASSUME OneHost, IInv, RecordInv, SoleInv, Exact(ckpt), WriteInv(ckpt),
         Boot(Host) \/ Start(Host) \/ Abort(Host) \/ Expire
  PROVE  WriteInv(ckpt)'
<1> DEFINE t == Main(Host)
<1>0. t \in Threads /\ t \notin Workers /\ Host \in Procs
  BY HostFacts
<1>1. ckpt' = ckpt /\ loc' = loc
  BY DEF Boot, Start, Abort, Expire, store, local
<1>2. CASE Boot(Host)
  <2>1. \E k \in {"recover", "idle"} : pc' = [pc EXCEPT ![t] = k] /\ op' = op
    BY <1>2 DEF Boot, Goto
  <2>2. QED
    BY <1>0, <1>1, <2>1, GotoWrites
<1>3. CASE Start(Host)
  <2>1. PICK h : h = <<"created", "initializing">>
    OBVIOUS
  <2>2. /\ answer.kind = "unsent"
        /\ pc' = [pc EXCEPT ![t] = "store"]
        /\ op' = [op EXCEPT ![t] = [rec |-> Stamped(seedCheckpoint, h), fact |-> TRUE,
                                    then |-> "authorize"]]
    BY <1>3, <2>1 DEF Start
  <2>3. \A w \in Workers : w # t /\ pc'[w] = pc[w] /\ op'[w] = op[w]
    BY <1>0, <2>2, HostFacts DEF IInv, PcOK, OpOK
  <2>4. op'[t].rec = Stamped(seedCheckpoint, h)
    BY <1>0, <2>2 DEF IInv, OpOK
  <2>5. /\ Stamped(seedCheckpoint, h).plan = FALSE
        /\ Stamped(seedCheckpoint, h).work = FALSE
    BY DEF Stamped, seedCheckpoint
  <2>6. ckpt = seedCheckpoint
    BY <2>2 DEF SoleInv, Unsent, Exact
  <2>7. ~Called(ckpt)
    BY <2>6 DEF Called, seedCheckpoint
  <2>8. Adds(ckpt, op'[t].rec, Locals(t)')
    BY <2>4, <2>5, <2>7 DEF Adds
  <2>9. QED
    BY <1>0, <1>1, <2>3, <2>8, StayWrites
<1>4. CASE Abort(Host)
  <2>1. /\ op' = op
        /\ Throw(t, "CANCELLED") \/ pc' = pc
    BY <1>4 DEF Abort
  <2>2. CASE Throw(t, "CANCELLED")
    BY <1>0, <1>1, <2>1, <2>2, ThrowWrites
  <2>3. CASE pc' = pc
    BY <1>1, <2>1, <2>3 DEF WriteInv, Sends, Locals, Alive, Aware
  <2>4. QED
    BY <2>1, <2>2, <2>3
<1>5. CASE Expire
  BY <1>1, <1>5 DEF Expire, local, WriteInv, Sends, Locals, Alive, Aware
<1>6. QED
  BY <1>2, <1>3, <1>4, <1>5

LEMMA WriteNext ==
  ASSUME OneHost, IInv, RecordInv, DeferInv, SoleInv, Exact(ckpt), WriteInv(ckpt),
         [Next]_vars
  PROVE  WriteInv(ckpt)'
<1>0. Procs = {Host}
  BY HostFacts
<1>1. CASE UNCHANGED vars
  BY <1>1 DEF vars, WriteInv, Sends, Locals, Alive, Aware
<1>2. CASE Boot(Host) \/ Start(Host) \/ Abort(Host) \/ Expire
  BY <1>2, EnvironmentWrites
<1>3. CASE Crash(Host)
  BY <1>3, StopWrites DEF Crash
<1>4. CASE ExecuteStep(Host)
  BY <1>4, ExecuteStepWrites
<1>5. CASE FinishStep(Host)
  BY <1>5, FinishStepWrites
<1>6. CASE RecoverStep(Host)
  BY <1>6, RecoverStepWrites
<1>7. CASE \E t \in Threads : StoreStep(t)
  BY <1>7, StoreStepWrites
<1>8. CASE \E w \in Workers : WorkerStep(w)
  BY <1>8, WorkerStepWrites
<1>9. QED
  BY <1>0, <1>1, <1>2, <1>3, <1>4, <1>5, <1>6, <1>7, <1>8 DEF Next

LEMMA WriteInit ==
  ASSUME OneHost, Init
  PROVE  WriteInv(ckpt)
<1>1. \A w \in Workers : w \in Threads /\ w[2] # 0
  BY HostFacts
<1>2. /\ \A t \in Threads : pc[t] \in {"down", "off"}
      /\ \A w \in Workers : pc[w] = "off"
  BY <1>1 DEF Init
<1>3. QED
  BY <1>2 DEF WriteInv, Sends, Alive

(* WriteAhead, for one host (runtime.ts 1005-1037): while a capability runs,   *)
(* the checkpoint that a crash would leave behind has a plan, a work item    *)
(* and a stage at or past pre-invoke, whatever crashes, boots, stores that   *)
(* fail, deadlines and aborts came before, provided that RetryManager does   *)
(* not start an attempt beside one that a timer or an abort has abandoned.   *)
THEOREM CallsAreOnRecord ==
  ASSUME OneHost, AbandonedIsFinal
  PROVE  Spec => []WriteAhead
<1> DEFINE Inv == IInv /\ RecordInv /\ DeferInv /\ SoleInv /\ Exact(ckpt) /\ WriteInv(ckpt)
<1>1. Init => Inv
  BY InitInv, RecordInit, DeferInit, SoleInit, WriteInit
<1>2. Inv /\ [Next]_vars => Inv'
  BY NextInv, RecordNext, DeferNext, SoleNext, ExactNext, WriteNext
<1>3. Inv => WriteAhead
  <2> SUFFICES ASSUME Inv, NEW w \in Workers, pc[w] \in {"invoking", "invoked"}
               PROVE  Called(ckpt)
    BY DEF WriteAhead, Called, CallStages
  <2>1. Alive(w)
    BY DEF Alive
  <2>2. QED
    BY <2>1 DEF WriteInv, Aware, Heads
<1>4. QED
  BY <1>1, <1>2, <1>3, PTL DEF Spec

-----------------------------------------------------------------------------
(* How often the capability is called, where no policy forces a retry.      *)

NeverForced == \A r \in Policies : r.onRestart # "resume-immediately"

(* How many attempts RetryManager has: one, where no failure is retryable.  *)
Limit == IF Retryable = {} THEN 1 ELSE MaxAttempts

LEMMA LimitIs ==
  Limit \in Nat /\ Limit > 0 /\ Limit <= MaxAttempts
BY RuntimeAssumption DEF Limit

(* Where a coroutine is or goes once its checkpoint is stored, and whether  *)
(* a worker has its call of the capability before it.                       *)
Aim(t)  == IF pc[t] \in {"store", "reload"} THEN op[t].then ELSE pc[t]
YetAt   == {"enter", "plan", "planning", "work", "working", "ready", "invoke"}
Yet(w)  == Aim(w) \in YetAt

(* One call more is within the attempts, or it will not be made: the result *)
(* is restored, or the resume refuses to invoke again.                      *)
MayCall(n, k, l) == \/ n < Limit
                    \/ l.from = "post-invoke" /\ k = "enter"
                    \/ l.from = "pre-invoke" /\ ~l.reinvoke

(* An execute() that heads for k in attempt a has made no more calls than   *)
(* that, and fewer before the attempt calls.                                *)
Tries(n, k, a) == /\ n <= a /\ a <= Limit
                  /\ k \in {"authorize", "schedule", "attempt", "backoff"} => a < Limit
                  /\ k = "run" => n < a

(* A recovery that resumes does so from the durable stage.                  *)
Resumes(d, c, k, o) ==
  /\ k \in {"resume", "resumeRun"} => c = d /\ d.stage # "terminal"
  /\ k = "store" /\ o.then = "resumeRun" => o.rec.stage # "terminal"
  /\ k = "reload" /\ o.then = "resumeRun" => d.stage # "terminal"

CountInv(d) ==
  /\ invoked <= Limit
  /\ invoked > 0 => Called(d)
  /\ \A w \in Workers : Yet(w) => MayCall(invoked, pc[w], loc[w])
  /\ main[Host].kind = "execute" =>
       /\ Tries(invoked, Aim(Main(Host)), main[Host].attempt)
       /\ \A w \in Workers : Yet(w) => invoked < main[Host].attempt
  /\ Resumes(d, cur[Main(Host)], pc[Main(Host)], op[Main(Host)])

LEMMA CountTypes ==
  ASSUME OneHost, IInv
  PROVE  /\ invoked \in Nat /\ Limit \in Nat /\ Limit > 0
         /\ main[Host] \in MainLocals /\ main[Host].attempt \in Nat
<1>1. main[Host] \in MainLocals
  BY Typed
<1>2. QED
  BY <1>1, LimitIs DEF IInv, GhostOK, MainLocals

LEMMA YetAlive ==
  ASSUME NEW w \in Workers, Yet(w)
  PROVE  Alive(w)
BY DEF Yet, Aim, YetAt, Alive

(* While a worker runs, the main coroutine neither resumes nor starts one.  *)
LEMMA Alone ==
  ASSUME SoleInv, WorkerAlive
  PROVE  /\ Aim(Main(Host)) \notin Before /\ pc[Main(Host)] \notin Before
         /\ \A d, c : Resumes(d, c, pc[Main(Host)], op[Main(Host)])
BY DEF SoleInv, LeavesOK, Leaves, Before, Aim, Resumes

(* A step of t that calls nothing.                                          *)
LEMMA StayCounts ==
  ASSUME OneHost, IInv, CountInv(ckpt), invoked' = invoked, NEW t \in Threads,
         invoked > 0 => Called(ckpt'),
         \A w \in Workers : w # t => pc'[w] = pc[w] /\ op'[w] = op[w] /\ loc'[w] = loc[w],
         t \in Workers /\ Yet(t)' => MayCall(invoked, pc'[t], loc'[t]),
         main'[Host].kind = "execute" =>
           /\ Tries(invoked, Aim(Main(Host))', main'[Host].attempt)
           /\ \A w \in Workers : Yet(w)' => invoked < main'[Host].attempt,
         Resumes(ckpt', cur'[Main(Host)], pc'[Main(Host)], op'[Main(Host)])
  PROVE  CountInv(ckpt)'
<1>1. \A w \in Workers : w # t => (Yet(w)' <=> Yet(w))
  BY DEF Yet, Aim
<1>2. ASSUME NEW w \in Workers, Yet(w)'
      PROVE  MayCall(invoked', pc'[w], loc'[w])
  <2>1. CASE w = t
    BY <1>2, <2>1
  <2>2. CASE w # t
    BY <1>1, <1>2, <2>2 DEF CountInv
  <2>3. QED
    BY <2>1, <2>2
<1>3. Main(Host)' = Main(Host) /\ Host' = Host
  BY DEF Main, Host
<1>4. /\ invoked' <= Limit
      /\ invoked' > 0 => Called(ckpt')
  BY DEF CountInv
<1>5. main'[Host].kind = "execute" =>
        /\ Tries(invoked', Aim(Main(Host))', main'[Host].attempt)
        /\ \A w \in Workers : Yet(w)' => invoked' < main'[Host].attempt
  OBVIOUS
<1>6. QED
  BY <1>2, <1>3, <1>4, <1>5 DEF CountInv

(* The main coroutine moves.                                                *)
LEMMA MainCounts ==
  ASSUME OneHost, IInv, CountInv(ckpt), invoked' = invoked, ckpt' = ckpt, loc' = loc,
         NEW k, pc' = [pc EXCEPT ![Main(Host)] = k],
         \A w \in Workers : op'[w] = op[w],
         main'[Host].kind = "execute" =>
           /\ Tries(invoked, IF k \in {"store", "reload"} THEN op'[Main(Host)].then ELSE k,
                    main'[Host].attempt)
           /\ \A w \in Workers : Yet(w) => invoked < main'[Host].attempt,
         Resumes(ckpt, cur'[Main(Host)], k, op'[Main(Host)])
  PROVE  CountInv(ckpt)'
<1> DEFINE M == Main(Host)
<1>0. M \in Threads /\ M' = M /\ \A w \in Workers : w \in Threads /\ w # M
  BY HostFacts DEF Main
<1>1. pc'[M] = k /\ \A w \in Workers : pc'[w] = pc[w]
  BY <1>0 DEF IInv, PcOK
<1>2. \A w \in Workers : Yet(w)' <=> Yet(w)
  BY <1>1 DEF Yet, Aim
<1>3. Aim(M)' = IF k \in {"store", "reload"} THEN op'[M].then ELSE k
  BY <1>0, <1>1 DEF Aim
<1>4. invoked > 0 => Called(ckpt')
  BY DEF CountInv
<1>5. M \notin Workers
  BY HostFacts
<1>6. QED
  BY <1>0, <1>1, <1>2, <1>3, <1>4, <1>5, StayCounts

(* A worker moves.                                                          *)
LEMMA WorkerCounts ==
  ASSUME OneHost, IInv, CountInv(ckpt), invoked' = invoked, ckpt' = ckpt, main' = main,
         NEW w \in Workers, pc'[Main(Host)] = pc[Main(Host)],
         op'[Main(Host)] = op[Main(Host)], cur'[Main(Host)] = cur[Main(Host)],
         \A v \in Workers : v # w => pc'[v] = pc[v] /\ op'[v] = op[v] /\ loc'[v] = loc[v],
         Yet(w)' => /\ Yet(w) /\ (pc[w] = "enter" => loc[w].from # "post-invoke")
                    /\ loc'[w].from = loc[w].from /\ loc'[w].reinvoke = loc[w].reinvoke
  PROVE  CountInv(ckpt)'
<1> DEFINE M == Main(Host)
<1>0. w \in Threads /\ M' = M
  BY HostFacts DEF Main
<1>1. Yet(w)' => MayCall(invoked, pc'[w], loc'[w])
  <2>1. Yet(w) => MayCall(invoked, pc[w], loc[w])
    BY DEF CountInv
  <2>2. QED
    BY <2>1 DEF MayCall
<1>2. \A v \in Workers : Yet(v)' => Yet(v)
  BY DEF Yet, Aim
<1>3. Aim(M)' = Aim(M)
  BY <1>0 DEF Aim
<1>4. /\ invoked > 0 => Called(ckpt')
      /\ main'[Host].kind = "execute" =>
           /\ Tries(invoked, Aim(M)', main'[Host].attempt)
           /\ \A v \in Workers : Yet(v)' => invoked < main'[Host].attempt
      /\ Resumes(ckpt', cur'[M], pc'[M], op'[M])
  BY <1>2, <1>3 DEF CountInv
<1>5. QED
  BY <1>0, <1>1, <1>4, StayCounts

(* An exception.                                                            *)
LEMMA ThrowCounts ==
  ASSUME OneHost, IInv, RecordInv, CountInv(ckpt), invoked' = invoked,
         NEW t \in Threads, NEW e, Throw(t, e),
         invoked > 0 => Called(ckpt'),
         \A u \in Threads : u # t => op'[u] = op[u] /\ cur'[u] = cur[u],
         \A w \in Workers : w # t => loc'[w] = loc[w],
         t # Main(Host) => Resumes(ckpt', cur[Main(Host)], pc[Main(Host)], op[Main(Host)])
  PROVE  CountInv(ckpt)'
<1> DEFINE M == Main(Host)
           handler == main[Host].handler
<1>0. /\ M \in Threads /\ M \notin Workers /\ Host \in Procs /\ M' = M
      /\ \A w \in Workers : w \in Threads
  BY HostFacts DEF Main
<1>1. /\ pc'[M] = IF t = M \/ Awaited(t) THEN handler ELSE pc[M]
      /\ \A w \in Workers : pc'[w] = IF w = t THEN "done" ELSE pc[w]
      /\ main'[Host].kind = main[Host].kind /\ main'[Host].attempt = main[Host].attempt
  BY ThrowHere
<1>2. handler \in Handlers
  BY <1>0 DEF RecordInv, MainsOK, MainFact
<1>3. \A w \in Workers : Yet(w)' => Yet(w) /\ w # t
  BY <1>0, <1>1 DEF Yet, Aim, YetAt
<1>4. Aim(M)' = Aim(M) \/ Aim(M)' \in Handlers
  BY <1>0, <1>1, <1>2 DEF Aim, Handlers
<1>5. main'[Host].kind = "execute" =>
        /\ Tries(invoked, Aim(M)', main'[Host].attempt)
        /\ \A w \in Workers : Yet(w)' => invoked < main'[Host].attempt
  BY <1>1, <1>3, <1>4 DEF CountInv, Tries, Handlers
<1>6. Resumes(ckpt', cur'[M], pc'[M], op'[M])
  BY <1>0, <1>1, <1>2 DEF Resumes, Handlers
<1>7. \A w \in Workers : w # t => pc'[w] = pc[w] /\ op'[w] = op[w] /\ loc'[w] = loc[w]
  BY <1>0, <1>1
<1>8. QED
  BY <1>3, <1>5, <1>6, <1>7, StayCounts

(* The main coroutine stores a checkpoint.                                  *)
LEMMA CallStoreCounts ==
  ASSUME OneHost, IInv, CountInv(ckpt), invoked' = invoked, ckpt' = ckpt, loc' = loc,
         NEW c, NEW fact, NEW k, CallStore(Main(Host), c, fact, k),
         k # "resumeRun" \/ c.stage # "terminal",
         main[Host].kind = "execute" => Tries(invoked, k, main[Host].attempt)
  PROVE  CountInv(ckpt)'
<1> DEFINE M == Main(Host)
<1>0. M \in Threads /\ \A w \in Workers : w \in Threads /\ w # M
  BY HostFacts
<1>1. /\ pc' = [pc EXCEPT ![M] = "store"] /\ main' = main
      /\ op'[M].then = k /\ op'[M].rec = c /\ \A w \in Workers : op'[w] = op[w]
  BY <1>0 DEF CallStore, IInv, OpOK
<1>2. main[Host].kind = "execute" => \A w \in Workers : Yet(w) => invoked < main[Host].attempt
  BY DEF CountInv
<1>3. Resumes(ckpt, cur'[M], "store", op'[M])
  BY <1>1 DEF Resumes
<1>4. QED
  BY <1>1, <1>2, <1>3, MainCounts

LEMMA UpsertCounts ==
  ASSUME OneHost, IInv, RecordInv, CountInv(ckpt), UNCHANGED <<invoked, ckpt, loc>>,
         \A u \in Threads : u # Main(Host) => cur'[u] = cur[u],
         NEW c, NEW k, upsert(Main(Host), c, k), k # "resumeRun",
         main[Host].kind = "execute" => Tries(invoked, k, main[Host].attempt)
  PROVE  CountInv(ckpt)'
<1> DEFINE M == Main(Host)
<1>0. M \in Threads /\ (invoked > 0 => Called(ckpt'))
  BY HostFacts DEF CountInv
<1>1. CASE Throw(M, "FAILED") /\ op' = op
  BY <1>0, <1>1, ThrowCounts
<1>2. CASE CallStore(M, Normalized(c), FALSE, k)
  BY <1>2, CallStoreCounts
<1>3. QED
  BY <1>1, <1>2 DEF upsert

LEMMA TransitionCounts ==
  ASSUME OneHost, IInv, RecordInv, CountInv(ckpt), UNCHANGED <<invoked, ckpt, loc>>,
         \A u \in Threads : u # Main(Host) => cur'[u] = cur[u],
         NEW s \in Slot, NEW c \in ExecutionCheckpoint, NEW next, NEW stage, NEW k,
         transitionAndCheckpoint(Main(Host), s, c, next, stage, k),
         k = "resumeRun" => stage # "terminal" /\ ~isTerminalState(next),
         stage \in ExecutionStage,
         main[Host].kind = "execute" => Tries(invoked, k, main[Host].attempt)
  PROVE  CountInv(ckpt)'
<1> DEFINE M == Main(Host)
           p == M[1]
           h == mgr[p][s]
           history == Append(h, next)
<1>0. /\ M \in Threads /\ p \in Procs /\ h \in Seq(ExecutionState) /\ LegalPath(h)
      /\ (invoked > 0 => Called(ckpt'))
  BY HostFacts DEF CountInv, IInv, MgrOK
<1>1. PICK b : b = [c EXCEPT !.stage = stage]
  OBVIOUS
<1>2. b \in ExecutionCheckpoint /\ b.stage = stage
  BY <1>1 DEF ExecutionCheckpoint
<1>3. CASE Throw(M, "FAILED") /\ op' = op
  BY <1>0, <1>3, ThrowCounts
<1>4. CASE /\ next \in transitions[StateOf(p, s)]
           /\ CallStore(M, Normalized(Stamped(b, history)), TRUE, k)
  <2>1. history \in Seq(ExecutionState) /\ LegalPath(history)
    BY <1>0, <1>4, LegalStep DEF StateOf
  <2>2. PICK d : d = Stamped(b, history)
    OBVIOUS
  <2>3. d \in ExecutionCheckpoint /\ d.stage = stage
    BY <1>2, <2>1, <2>2, StampedAdds
  <2>4. d.state = next
    <3>1. Last(history) = next
      BY <1>0, <2>1 DEF Last
    <3>2. QED
      BY <1>2, <2>2, <3>1 DEF Stamped, ExecutionCheckpoint
  <2>5. k # "resumeRun" \/ Normalized(d).stage # "terminal"
    BY <2>3, <2>4 DEF Normalized, ExecutionCheckpoint
  <2>6. CallStore(M, Normalized(d), TRUE, k)
    BY <1>4, <2>2
  <2>7. QED
    BY <2>5, <2>6, CallStoreCounts
<1>5. QED
  BY <1>1, <1>3, <1>4 DEF transitionAndCheckpoint

LEMMA StopCounts ==
  ASSUME OneHost, IInv, CountInv(ckpt), StopProcess(Host), UNCHANGED <<ckpt, invoked>>
  PROVE  CountInv(ckpt)'
<1> DEFINE M == Main(Host)
<1>0. Host \in Procs /\ M \in Threads /\ M[1] = Host /\ M[2] = 0 /\ M' = M /\ Host' = Host
  BY HostFacts DEF Main, Host
<1>1. \A w \in Workers : pc'[w] = "off"
  BY HostFacts DEF StopProcess, Threads, Workers
<1>2. pc'[M] = "down" /\ main'[Host] = NoMain /\ NoMain.kind = "none"
  BY <1>0 DEF StopProcess, IInv, MainOK, NoMain
<1>3. \A w \in Workers : ~Yet(w)'
  BY <1>1 DEF Yet, Aim, YetAt
<1>4. Resumes(ckpt', cur'[M], pc'[M], op'[M])
  BY <1>2 DEF Resumes
<1>5. QED
  BY <1>0, <1>2, <1>3, <1>4 DEF CountInv

(* The only worker starts, from a stage that is durable.                    *)
LEMMA StartWorkerCounts ==
  ASSUME OneHost, IInv, SoleInv, CountInv(ckpt), NEW i, NEW from, NEW b,
         StartWorker(Host, i, from, b), UNCHANGED <<ckpt, invoked, main, op>>,
         pc[Main(Host)] \in {"run", "resumeRun"},
         <<Host, i>> \in Workers,
         MayCall(invoked, "enter", [NoLoc EXCEPT !.from = from, !.reinvoke = b]),
         main[Host].kind = "execute" => /\ invoked < main[Host].attempt
                                        /\ main[Host].attempt <= Limit
  PROVE  CountInv(ckpt)'
<1> DEFINE M == Main(Host)
           w == <<Host, i>>
           l == [NoLoc EXCEPT !.from = from, !.reinvoke = b]
<1>0. /\ M \in Threads /\ M \notin Workers /\ M' = M /\ w \in Threads
      /\ \A v \in Workers : v \in Threads /\ v # M
      /\ invoked \in Nat /\ main[Host].attempt \in Nat /\ Limit \in Nat
  BY HostFacts, CountTypes DEF Main
<1>1. ~WorkerAlive
  BY <1>0 DEF SoleInv, LeavesOK, Leaves, Before
<1>2. /\ pc'[M] = "await" /\ pc'[w] = "enter" /\ loc'[w] = l
      /\ \A v \in Workers : v # w => pc'[v] = pc[v] /\ loc'[v] = loc[v]
  BY <1>0 DEF StartWorker, IInv, PcOK, LocOK
<1>3. \A v \in Workers : v # w => ~Yet(v)'
  BY <1>1, <1>2, YetAlive DEF Yet, Aim, WorkerAlive
<1>4. Yet(w)' => MayCall(invoked, pc'[w], loc'[w])
  BY <1>2
<1>5. Aim(M)' = "await"
  BY <1>0, <1>2 DEF Aim
<1>6. main'[Host].kind = "execute" =>
        /\ Tries(invoked, Aim(M)', main'[Host].attempt)
        /\ \A v \in Workers : Yet(v)' => invoked < main'[Host].attempt
  BY <1>0, <1>5 DEF Tries
<1>7. Resumes(ckpt', cur'[M], pc'[M], op'[M])
  BY <1>2 DEF Resumes
<1>8. \A v \in Workers : v # w => pc'[v] = pc[v] /\ op'[v] = op[v] /\ loc'[v] = loc[v]
  BY <1>2
<1>9. invoked > 0 => Called(ckpt')
  BY DEF CountInv
<1>10. QED
  BY <1>0, <1>4, <1>6, <1>7, <1>8, <1>9, StayCounts

(* A store that is applied leaves a call on record.                         *)
LEMMA CommitCalled ==
  ASSUME OneHost, IInv, WriteInv(ckpt), NEW t \in Threads, pc[t] = "store",
         op[t].rec.rev = ckpt.rev, ckpt' = [op[t].rec EXCEPT !.rev = @ + 1], Called(ckpt)
  PROVE  Called(ckpt')
<1>1. op[t].rec \in ExecutionCheckpoint
  BY Typed
<1>2. Called(op[t].rec)
  BY DEF WriteInv, Sends, Adds
<1>3. QED
  BY <1>1, <1>2 DEF Called, ExecutionCheckpoint

LEMMA StoreStepCounts ==
  ASSUME OneHost, IInv, RecordInv, DeferInv, SoleInv, WriteInv(ckpt), CountInv(ckpt),
         NEW t \in Threads, StoreStep(t)
  PROVE  CountInv(ckpt)'
<1> DEFINE M == Main(Host)
           o == op[t]
<1>0. /\ M \in Threads /\ M \notin Workers /\ M' = M /\ (t # M => t \in Workers)
      /\ \A w \in Workers : w \in Threads /\ w # M
      /\ op[t].rec \in ExecutionCheckpoint
  BY HostFacts, Typed DEF Main
<1>1. /\ pc[t] \in {"store", "reload"} /\ invoked' = invoked /\ loc' = loc
      /\ t \in Workers => WorkerAlive
  BY DEF StoreStep, StoreCommits, StoreConflicts, StoreFails, Reload, PublishFails, ghost,
         WorkerAlive, Alive
<1>2. t # M => \A d, c : Resumes(d, c, pc[M], op[M])
  BY <1>0, <1>1, Alone
<1>3. /\ main[Host].kind = "execute" =>
           /\ Tries(invoked, Aim(M), main[Host].attempt)
           /\ \A w \in Workers : Yet(w) => invoked < main[Host].attempt
      /\ \A w \in Workers : Yet(w) => MayCall(invoked, pc[w], loc[w])
      /\ invoked > 0 => Called(ckpt)
      /\ Resumes(ckpt, cur[M], pc[M], op[M])
  BY DEF CountInv
<1>4. CASE StoreCommits(t)
  <2>1. /\ pc' = [pc EXCEPT ![t] = "reload"] /\ main' = main /\ op' = op /\ cur' = cur
        /\ pc[t] = "store" /\ o.rec.rev = ckpt.rev /\ ckpt' = [o.rec EXCEPT !.rev = @ + 1]
    BY <1>4 DEF StoreCommits, Goto
  <2>2. \A u \in Threads : pc'[u] = IF u = t THEN "reload" ELSE pc[u]
    BY <2>1 DEF IInv, PcOK
  <2>3. \A u \in Threads : Aim(u)' = Aim(u)
    BY <2>1, <2>2 DEF Aim
  <2>4. \A w \in Workers : Yet(w)' <=> Yet(w)
    BY <1>0, <2>3 DEF Yet
  <2>5. invoked > 0 => Called(ckpt')
    BY <1>3, <2>1, CommitCalled
  <2>6. t \in Workers /\ Yet(t)' => MayCall(invoked, pc'[t], loc'[t])
    BY <1>1, <1>3, <2>1, <2>4 DEF MayCall
  <2>7. Resumes(ckpt', cur'[M], pc'[M], op'[M])
    <3>1. CASE t = M
      <4>1. ckpt'.stage = o.rec.stage
        BY <1>0, <2>1 DEF ExecutionCheckpoint
      <4>2. QED
        BY <1>3, <2>1, <2>2, <3>1, <4>1 DEF Resumes
    <3>2. CASE t # M
      BY <1>0, <1>2, <2>1, <2>2, <3>2
    <3>3. QED
      BY <3>1, <3>2
  <2>8. \A w \in Workers : w # t => pc'[w] = pc[w] /\ op'[w] = op[w] /\ loc'[w] = loc[w]
    BY <1>0, <1>1, <2>1, <2>2
  <2>9. main'[Host].kind = "execute" =>
          /\ Tries(invoked, Aim(M)', main'[Host].attempt)
          /\ \A w \in Workers : Yet(w)' => invoked < main'[Host].attempt
    BY <1>0, <1>3, <2>1, <2>3, <2>4
  <2>10. QED
    BY <1>1, <2>5, <2>6, <2>7, <2>8, <2>9, StayCounts
<1>5. CASE StoreConflicts(t) \/ StoreFails(t) \/ PublishFails(t)
  <2>1. /\ \E e : Throw(t, e)
        /\ cur' = cur /\ (op' = op \/ op' = [op EXCEPT ![t] = NoOp])
    BY <1>5 DEF StoreConflicts, StoreFails, PublishFails
  <2>2. \A u \in Threads : u # t => op'[u] = op[u]
    BY <2>1 DEF IInv, OpOK
  <2>3. invoked > 0 => Called(ckpt')
    <3>1. \/ ckpt' = ckpt
          \/ pc[t] = "store" /\ o.rec.rev = ckpt.rev /\ ckpt' = [o.rec EXCEPT !.rev = @ + 1]
      BY <1>5 DEF StoreConflicts, StoreFails, PublishFails, store
    <3>2. QED
      BY <1>3, <3>1, CommitCalled
  <2>4. QED
    BY <1>1, <1>2, <2>1, <2>2, <2>3, ThrowCounts
<1>6. CASE Reload(t)
  <2>1. /\ pc' = [pc EXCEPT ![t] = o.then] /\ main' = main /\ ckpt' = ckpt
        /\ op' = [op EXCEPT ![t] = NoOp] /\ cur' = [cur EXCEPT ![t] = ckpt]
        /\ pc[t] = "reload"
    BY <1>6 DEF Reload, Goto, store
  <2>2. o.then \notin {"store", "reload"} /\ (t = M => o.then # "resume")
    <3>1. t = M => o.then \in AfterStore
      BY <2>1 DEF DeferInv, KindsOK, Kinds
    <3>2. t # M => Heads(ckpt, ckpt, o.then, loc[t])
      BY <1>0, <2>1 DEF WriteInv, Aware, Alive
    <3>3. QED
      BY <3>1, <3>2 DEF AfterStore, Heads
  <2>3. /\ \A u \in Threads : pc'[u] = IF u = t THEN o.then ELSE pc[u]
        /\ \A u \in Threads : u # t => op'[u] = op[u] /\ cur'[u] = cur[u]
        /\ cur'[t] = ckpt
    BY <2>1 DEF IInv, PcOK, OpOK, CurOK
  <2>4. \A u \in Threads : Aim(u)' = Aim(u)
    BY <2>1, <2>2, <2>3 DEF Aim
  <2>5. \A w \in Workers : Yet(w)' <=> Yet(w)
    BY <1>0, <2>4 DEF Yet
  <2>6. t \in Workers /\ Yet(t)' => MayCall(invoked, pc'[t], loc'[t])
    BY <1>1, <1>3, <2>1, <2>5 DEF MayCall
  <2>7. Resumes(ckpt', cur'[M], pc'[M], op'[M])
    <3>1. CASE t = M
      BY <1>3, <2>1, <2>2, <2>3, <3>1 DEF Resumes
    <3>2. CASE t # M
      BY <1>0, <1>2, <2>3, <3>2
    <3>3. QED
      BY <3>1, <3>2
  <2>8. \A w \in Workers : w # t => pc'[w] = pc[w] /\ op'[w] = op[w] /\ loc'[w] = loc[w]
    BY <1>0, <1>1, <2>3
  <2>9. main'[Host].kind = "execute" =>
          /\ Tries(invoked, Aim(M)', main'[Host].attempt)
          /\ \A w \in Workers : Yet(w)' => invoked < main'[Host].attempt
    BY <1>0, <1>3, <2>1, <2>4, <2>5
  <2>10. QED
    BY <1>1, <1>3, <2>1, <2>6, <2>7, <2>8, <2>9, StayCounts
<1>7. QED
  BY <1>4, <1>5, <1>6 DEF StoreStep

LEMMA ExecuteStepCounts ==
  ASSUME OneHost, IInv, RecordInv, DeferInv, SoleInv, Exact(ckpt), CountInv(ckpt),
         ExecuteStep(Host)
  PROVE  CountInv(ckpt)'
<1> DEFINE t == Main(Host)
           m == main[Host]
<1>0. /\ t \in Threads /\ t \notin Workers /\ Host \in Procs /\ m \in MainLocals
      /\ m.attempt \in Nat /\ invoked \in Nat /\ Limit \in Nat /\ t = <<Host, 0>>
      /\ \A w \in Workers : w \in Threads
      /\ "run" \in Slot
  BY HostFacts, CountTypes DEF Main, Slot
<1>1. invoked' = invoked /\ ckpt' = ckpt
  BY DEF ExecuteStep, Authorize, Schedule, Attempt, Run, TimerFires, Retry, Backoff,
         Succeeded, Completed, Catch, Fail, Cancelled, Answer, store, ghost
<1>2. /\ m.kind = "execute" =>
           /\ Tries(invoked, Aim(t), m.attempt)
           /\ \A w \in Workers : Yet(w) => invoked < m.attempt
      /\ invoked > 0 => Called(ckpt)
  BY DEF CountInv
<1>3. Loaded(t) = ckpt /\ ckpt \in ExecutionCheckpoint /\ ckpt.stage \in ExecutionStage
  BY <1>0, MainReads DEF ExecutionCheckpoint
<1>t. ASSUME NEW e, Throw(t, e), op' = op, cur' = cur, loc' = loc
      PROVE  CountInv(ckpt)'
  BY <1>0, <1>1, <1>2, <1>t, ThrowCounts
<1>m. ASSUME NEW k, k \notin {"store", "reload", "resume", "resumeRun"},
             pc' = [pc EXCEPT ![t] = k], op' = op, loc' = loc,
             main'[Host].kind = m.kind /\ main'[Host].attempt = m.attempt,
             m.kind = "execute" => Tries(invoked, k, m.attempt)
      PROVE  CountInv(ckpt)'
  <2>1. Resumes(ckpt, cur'[t], k, op'[t])
    BY <1>m DEF Resumes
  <2>2. main'[Host].kind = "execute" =>
          /\ Tries(invoked, IF k \in {"store", "reload"} THEN op'[t].then ELSE k,
                   main'[Host].attempt)
          /\ \A w \in Workers : Yet(w) => invoked < main'[Host].attempt
    BY <1>2, <1>m
  <2>3. QED
    BY <1>0, <1>1, <1>m, <2>1, <2>2, MainCounts
<1>k. ASSUME NEW k, Aim(t) = pc[t],
             \/ k \notin {"authorize", "schedule", "attempt", "backoff", "run"}
             \/ pc[t] \in {"authorize", "schedule", "attempt", "backoff"} /\ k # "run"
      PROVE  m.kind = "execute" => Tries(invoked, k, m.attempt)
  BY <1>2, <1>k DEF Tries
<1>a. pc[t] \notin {"store", "reload"} => Aim(t) = pc[t]
  BY DEF Aim
<1>c. ASSUME NEW e, cur' = [cur EXCEPT ![t] = e]
      PROVE  \A u \in Threads : u # t => cur'[u] = cur[u]
  BY <1>c DEF IInv, CurOK
<1>4. CASE Authorize(Host)
  <2>1. /\ pc[t] = "authorize" /\ cur' = cur /\ loc' = loc
        /\ \/ Throw(t, "FAILED") /\ op' = op
           \/ \E c : upsert(t, c, "schedule")
    BY <1>4 DEF Authorize
  <2>2. m.kind = "execute" => Tries(invoked, "schedule", m.attempt)
    BY <1>a, <1>k, <2>1
  <2>3. QED
    BY <1>1, <1>t, <2>1, <2>2, UpsertCounts
<1>5. CASE Schedule(Host)
  <2>1. /\ pc[t] = "schedule" /\ cur' = cur /\ loc' = loc /\ op' = op
        /\ \/ Throw(t, "FAILED")
           \/ pc' = [pc EXCEPT ![t] = "attempt"] /\ main' = main
    BY <1>5 DEF Schedule, Goto
  <2>2. m.kind = "execute" => Tries(invoked, "attempt", m.attempt)
    BY <1>a, <1>k, <2>1
  <2>3. QED
    BY <1>m, <1>t, <2>1, <2>2
<1>6. CASE Attempt(Host)
  <2>1. PICK n : n = [m EXCEPT !.attempt = m.attempt + 1, !.handler = "retry"]
    OBVIOUS
  <2>2. /\ pc[t] = "attempt" /\ pc' = [pc EXCEPT ![t] = "store"] /\ loc' = loc
        /\ main' = [main EXCEPT ![Host] = n]
        /\ op' = [op EXCEPT ![t] = [rec |-> Normalized(Loaded(t)), fact |-> FALSE,
                                    then |-> "run"]]
    BY <1>6, <2>1 DEF Attempt
  <2>3. /\ main'[Host] = n /\ n.attempt = m.attempt + 1 /\ n.kind = m.kind
        /\ op'[t].then = "run" /\ \A w \in Workers : op'[w] = op[w]
    BY <1>0, <2>1, <2>2 DEF IInv, MainOK, OpOK, MainLocals
  <2>4. ~WorkerAlive
    BY <2>2 DEF SoleInv, LeavesOK, Leaves, Before
  <2>5. \A w \in Workers : ~Yet(w)
    BY <2>4, YetAlive DEF WorkerAlive
  <2>6. m.kind = "execute" => Tries(invoked, "run", m.attempt + 1)
    BY <1>0, <1>2, <1>a, <2>2 DEF Tries
  <2>7. Resumes(ckpt, cur'[t], "store", op'[t])
    BY <2>3 DEF Resumes
  <2>8. QED
    BY <1>1, <2>2, <2>3, <2>5, <2>6, <2>7, MainCounts
<1>7. CASE Run(Host)
  <2>1. /\ StartWorker(Host, m.attempt, "accepted", TRUE) /\ pc[t] = "run"
        /\ main' = main /\ op' = op
    BY <1>7 DEF Run
  <2>2. m.kind = "execute"
    BY <2>1 DEF DeferInv, KindsOK, Kinds, Place, ExecuteAt
  <2>3. invoked < m.attempt /\ m.attempt <= Limit
    BY <1>2, <1>a, <2>1, <2>2 DEF Tries
  <2>4. <<Host, m.attempt>> \in Workers
    <3>1. m.attempt \in 1 .. MaxAttempts
      BY <1>0, <2>3, LimitIs, RuntimeAssumption
    <3>2. QED
      BY <1>0, <3>1 DEF Workers
  <2>5. \A l : MayCall(invoked, "enter", l)
    BY <1>0, <2>3 DEF MayCall
  <2>6. QED
    BY <1>1, <2>1, <2>3, <2>4, <2>5, StartWorkerCounts
<1>8. CASE TimerFires(Host)
  <2>1. op' = op /\ cur' = cur /\ loc' = loc /\ \E e : Throw(t, e)
    BY <1>8 DEF TimerFires
  <2>2. QED
    BY <1>t, <2>1
<1>9. CASE Retry(Host)
  <2>1. PICK n : n = [m EXCEPT !.handler = "catch"]
    OBVIOUS
  <2>2. /\ main' = [main EXCEPT ![Host] = n] /\ op' = op /\ loc' = loc /\ pc[t] = "retry"
        /\ \E k \in {"backoff", "catch"} : /\ pc' = [pc EXCEPT ![t] = k]
                                           /\ k = "backoff" => m.attempt < Limit
    <3>1. m.attempt < MaxAttempts /\ m.err \in Retryable => m.attempt < Limit
      BY DEF Limit
    <3>2. QED
      BY <1>9, <2>1, <3>1 DEF Retry, Goto
  <2>3. main'[Host] = n /\ n.attempt = m.attempt /\ n.kind = m.kind
    BY <1>0, <2>1, <2>2 DEF IInv, MainOK, MainLocals
  <2>4. m.kind = "execute" => /\ Tries(invoked, "catch", m.attempt)
                              /\ m.attempt < Limit => Tries(invoked, "backoff", m.attempt)
    BY <1>2 DEF Tries
  <2>5. PICK k \in {"backoff", "catch"} : /\ pc' = [pc EXCEPT ![t] = k]
                                          /\ k = "backoff" => m.attempt < Limit
    BY <2>2
  <2>6. m.kind = "execute" => Tries(invoked, k, m.attempt)
    <3>1. CASE k = "catch"
      BY <2>4, <3>1
    <3>2. CASE k = "backoff"
      <4>1. m.attempt < Limit
        BY <2>5, <3>2
      <4>2. QED
        BY <1>2, <3>2, <4>1 DEF Tries
    <3>3. QED
      BY <3>1, <3>2
  <2>7. /\ main'[Host].kind = m.kind /\ main'[Host].attempt = m.attempt
        /\ op' = op /\ loc' = loc /\ pc' = [pc EXCEPT ![t] = k]
        /\ k \notin {"store", "reload", "resume", "resumeRun"}
    <3>1. k \notin {"store", "reload", "resume", "resumeRun"}
      OBVIOUS
    <3>2. op' = op /\ loc' = loc
      BY <2>2
    <3>3. pc' = [pc EXCEPT ![t] = k]
      BY <2>5
    <3>4. QED
      BY <2>3, <3>1, <3>2, <3>3
  <2>8. QED
    BY <1>m, <2>6, <2>7
<1>10. CASE Backoff(Host)
  <2>1. /\ transitionAndCheckpoint(t, "run", ckpt, "recovering", ckpt.stage, "attempt")
        /\ pc[t] = "backoff" /\ loc' = loc /\ cur' = [cur EXCEPT ![t] = ckpt]
    BY <1>3, <1>10 DEF Backoff
  <2>2. m.kind = "execute" => Tries(invoked, "attempt", m.attempt)
    BY <1>a, <1>k, <2>1
  <2>3. \A u \in Threads : u # t => cur'[u] = cur[u]
    BY <1>c, <2>1
  <2>4. QED
    BY <1>0, <1>1, <1>3, <2>1, <2>2, <2>3, TransitionCounts
<1>11. CASE Succeeded(Host)
  <2>1. PICK c : c = [ckpt EXCEPT !.result = m.value]
    OBVIOUS
  <2>2. /\ transitionAndCheckpoint(t, "run", c, "completing", "post-invoke", "terminalize")
        /\ pc[t] = "succeeded" /\ loc' = loc /\ cur' = [cur EXCEPT ![t] = ckpt]
    BY <1>3, <1>11, <2>1 DEF Succeeded
  <2>3. c \in ExecutionCheckpoint /\ "post-invoke" \in ExecutionStage
    BY <1>0, <1>3, <2>1 DEF ExecutionCheckpoint, ExecutionStage, MainLocals
  <2>4. m.kind = "execute" => Tries(invoked, "terminalize", m.attempt)
    BY <1>a, <1>k, <2>2
  <2>5. \A u \in Threads : u # t => cur'[u] = cur[u]
    BY <1>c, <2>2
  <2>6. QED
    BY <1>0, <1>1, <2>2, <2>3, <2>4, <2>5, TransitionCounts
<1>12. CASE Fail(Host)
  <2>1. /\ pc[t] = "fail" /\ loc' = loc /\ cur' = [cur EXCEPT ![t] = ckpt]
        /\ \/ \E c : upsert(t, c, "cancelled")
           \/ \E k \in {"answer", "reach"} : pc' = [pc EXCEPT ![t] = k] /\ main' = main
                                             /\ op' = op
    BY <1>3, <1>12 DEF Fail, Goto
  <2>2. /\ \A k \in {"answer", "reach", "cancelled"} :
             m.kind = "execute" => Tries(invoked, k, m.attempt)
        /\ \A u \in Threads : u # t => cur'[u] = cur[u]
    BY <1>a, <1>c, <1>k, <2>1
  <2>3. QED
    BY <1>1, <1>m, <2>1, <2>2, UpsertCounts
<1>13. CASE Completed(Host) \/ Answer(Host) \/ Cancelled(Host)
  <2>1. PICK k \in {"finished", "answer", "reach"} :
          /\ pc' = [pc EXCEPT ![t] = k] /\ main' = main /\ op' = op /\ loc' = loc
          /\ pc[t] \in {"completed", "answer", "cancelled"}
    BY <1>13 DEF Completed, Answer, Cancelled, Goto
  <2>2. m.kind = "execute" => Tries(invoked, k, m.attempt)
    BY <1>a, <1>k, <2>1
  <2>3. QED
    BY <1>m, <2>1, <2>2
<1>14. CASE Catch(Host)
  <2>1. PICK n : n = [m EXCEPT !.handler = "answer",
                               !.target = IF m.err = "CANCELLED" THEN "cancelling" ELSE "failed"]
    OBVIOUS
  <2>2. /\ main' = [main EXCEPT ![Host] = n] /\ op' = op /\ loc' = loc /\ pc[t] = "catch"
        /\ pc' = [pc EXCEPT ![t] = "fail"]
    BY <1>14, <2>1 DEF Catch, Goto
  <2>3. main'[Host] = n /\ n.attempt = m.attempt /\ n.kind = m.kind
    BY <1>0, <2>1, <2>2 DEF IInv, MainOK, MainLocals
  <2>4. m.kind = "execute" => Tries(invoked, "fail", m.attempt)
    BY <1>a, <1>k, <2>2
  <2>5. QED
    BY <1>m, <2>2, <2>3, <2>4
<1>15. QED
  BY <1>4, <1>5, <1>6, <1>7, <1>8, <1>9, <1>10, <1>11, <1>12, <1>13, <1>14 DEF ExecuteStep

(* Whatever comes after the attempts calls nothing.                         *)
LEMMA EndTries ==
  ASSUME CountInv(ckpt), NEW k,
         k \notin {"authorize", "schedule", "attempt", "backoff", "run"}
  PROVE  main[Host].kind = "execute" => Tries(invoked, k, main[Host].attempt)
BY DEF CountInv, Tries

LEMMA FinishStepCounts ==
  ASSUME OneHost, IInv, RecordInv, Exact(ckpt), CountInv(ckpt), FinishStep(Host)
  PROVE  CountInv(ckpt)'
<1> DEFINE t == Main(Host)
           s == main[Host].slot
           target == main[Host].target
<1>0. /\ t \in Threads /\ t \notin Workers /\ Host \in Procs /\ s \in Slot
      /\ main[Host] \in MainLocals
  BY HostFacts, Typed
<1>1. invoked' = invoked /\ ckpt' = ckpt /\ loc' = loc
  BY DEF FinishStep, Reach, Terminalize, Finished, store, ghost
<1>2. cur[t] \in ExecutionCheckpoint /\ cur[t].stage \in ExecutionStage
      /\ "terminal" \in ExecutionStage
  BY <1>0, MainReads DEF ExecutionCheckpoint, ExecutionStage
<1>m. ASSUME NEW k, k \notin {"store", "reload", "resume", "resumeRun"},
             pc' = [pc EXCEPT ![t] = k], op' = op,
             main'[Host].kind = "execute" =>
               /\ Tries(invoked, k, main'[Host].attempt)
               /\ \A w \in Workers : Yet(w) => invoked < main'[Host].attempt
      PROVE  CountInv(ckpt)'
  <2>1. Resumes(ckpt, cur'[t], k, op'[t])
    BY <1>m DEF Resumes
  <2>2. main'[Host].kind = "execute" =>
          /\ Tries(invoked, IF k \in {"store", "reload"} THEN op'[t].then ELSE k,
                   main'[Host].attempt)
          /\ \A w \in Workers : Yet(w) => invoked < main'[Host].attempt
    BY <1>m
  <2>3. QED
    BY <1>0, <1>1, <1>m, <2>1, <2>2, MainCounts
<1>3. CASE Reach(Host)
  <2> DEFINE hop == NextHop(StateOf(Host, s), target)
             k == IF hop = target THEN "terminalize" ELSE "reach"
  <2>1. PICK c : c = [cur[t] EXCEPT !.cancelled = @ \/ hop = "cancelling"]
    OBVIOUS
  <2>2. /\ \/ pc' = [pc EXCEPT ![t] = "terminalize"] /\ op' = op /\ main' = main
           \/ transitionAndCheckpoint(t, s, c, hop, c.stage, k)
        /\ cur' = cur
    BY <1>3, <2>1 DEF Reach, Goto
  <2>3. c \in ExecutionCheckpoint /\ c.stage \in ExecutionStage
    <3>1. (cur[t].cancelled \/ hop = "cancelling") \in BOOLEAN
      OBVIOUS
    <3>2. QED
      BY <1>2, <2>1, <3>1 DEF ExecutionCheckpoint
  <2>4. k \in {"terminalize", "reach"}
    OBVIOUS
  <2> HIDE DEF k, hop
  <2>5. main[Host].kind = "execute" => /\ Tries(invoked, k, main[Host].attempt)
                                       /\ Tries(invoked, "terminalize", main[Host].attempt)
    BY <2>4, EndTries
  <2>6. CASE transitionAndCheckpoint(t, s, c, hop, c.stage, k)
    BY <1>0, <1>1, <2>2, <2>3, <2>4, <2>5, <2>6, TransitionCounts
  <2>7. CASE pc' = [pc EXCEPT ![t] = "terminalize"] /\ op' = op /\ main' = main
    <3>1. main[Host].kind = "execute" =>
            \A w \in Workers : Yet(w) => invoked < main[Host].attempt
      BY DEF CountInv
    <3>2. QED
      BY <1>m, <2>5, <2>7, <3>1
  <2>8. QED
    BY <2>2, <2>6, <2>7
<1>4. CASE Terminalize(Host)
  <2> DEFINE k == IF main[Host].kind # "execute" THEN "finished"
                  ELSE IF target = "completing" THEN "completed" ELSE "answer"
  <2>1. PICK c : c = [cur[t] EXCEPT !.result = IF target = "completing" THEN main[Host].value
                                               ELSE @,
                                    !.cancelled = @ \/ target = "cancelling"]
    OBVIOUS
  <2>2. /\ \/ upsert(t, Stamped(c, mgr[Host][s]), k)
           \/ transitionAndCheckpoint(t, s, c, FinalState(target), "terminal", k)
        /\ cur' = cur
    BY <1>4, <2>1 DEF Terminalize
  <2>3. c \in ExecutionCheckpoint
    <3>1. (cur[t].cancelled \/ target = "cancelling") \in BOOLEAN
      OBVIOUS
    <3>2. (IF target = "completing" THEN main[Host].value ELSE cur[t].result) \in Nat
      BY <1>0, <1>2 DEF ExecutionCheckpoint, MainLocals
    <3>3. QED
      BY <1>2, <2>1, <3>1, <3>2 DEF ExecutionCheckpoint
  <2>4. k \in {"finished", "completed", "answer"}
    OBVIOUS
  <2> HIDE DEF k
  <2>5. main[Host].kind = "execute" => Tries(invoked, k, main[Host].attempt)
    BY <2>4, EndTries
  <2>6. CASE upsert(t, Stamped(c, mgr[Host][s]), k)
    BY <1>1, <2>2, <2>4, <2>5, <2>6, UpsertCounts
  <2>7. CASE transitionAndCheckpoint(t, s, c, FinalState(target), "terminal", k)
    BY <1>0, <1>1, <1>2, <2>2, <2>3, <2>4, <2>5, <2>7, TransitionCounts
  <2>8. QED
    BY <2>2, <2>6, <2>7
<1>5. CASE Finished(Host)
  <2>1. pc' = [pc EXCEPT ![t] = "idle"] /\ op' = op /\ main'[Host] = NoMain
    BY <1>0, <1>5 DEF Finished, Goto, IInv, MainOK
  <2>2. main'[Host].kind # "execute"
    BY <2>1 DEF NoMain
  <2>3. QED
    BY <1>m, <2>1, <2>2
<1>6. QED
  BY <1>3, <1>4, <1>5 DEF FinishStep

(* The policy in force forces no retry: what is resumed is safe to resume.  *)
LEMMA SafeResume ==
  ASSUME NeverForced, IInv, NEW c \in ExecutionCheckpoint
  PROVE  /\ recoveryPolicyOf(c).onRestart # "resume-immediately"
         /\ \A late : Decision(c, late) = "resume" => c.stage # "terminal"
<1>1. recoveryPolicyOf(c) \in RecoveryPolicyBundle
  BY RuntimeAssumption DEF IInv, StoreOK, recoveryPolicyOf, RecoveryPolicyBundle,
     DEFAULT_RECOVERY_POLICY
<1>2. recoveryPolicyOf(c).onRestart # "resume-immediately"
  BY DEF IInv, StoreOK, recoveryPolicyOf, NeverForced, DEFAULT_RECOVERY_POLICY
<1>3. recoveryPolicyOf(c).onRestart \in {"resume-if-safe", "manual-recovery"}
  BY <1>1, <1>2 DEF RecoveryPolicyBundle
<1>4. ASSUME NEW late, Decision(c, late) = "resume"
      PROVE  isResumeSafeStage(c.stage)
  BY <1>3, <1>4 DEF Decision
<1>5. QED
  BY <1>2, <1>4 DEF isResumeSafeStage

LEMMA ResumeRunCounts ==
  ASSUME OneHost, NeverForced, IInv, SoleInv, Exact(ckpt), CountInv(ckpt),
         main[Host].kind = "recover", ResumeRun(Host)
  PROVE  CountInv(ckpt)'
<1> DEFINE t == Main(Host)
           i == main[Host].attempt
           b == recoveryPolicyOf(cur[t]).onRestart = "resume-immediately"
           x == <<Host, i>>
<1>0. /\ t \in Threads /\ t \notin Workers /\ Host \in Procs /\ t' = t
      /\ \A w \in Workers : w \in Threads /\ w # t
      /\ \A u \in Threads : u = t \/ u \in Workers
      /\ invoked \in Nat /\ Limit \in Nat /\ Limit > 0
  BY HostFacts, CountTypes DEF Main
<1>1. /\ pc[t] = "resumeRun" /\ StartWorker(Host, i, cur[t].stage, b)
      /\ invoked' = invoked /\ ckpt' = ckpt /\ main' = main /\ op' = op
  BY DEF ResumeRun, store, ghost
<1>2. cur[t] = ckpt /\ ckpt.stage # "terminal" /\ (invoked > 0 => Called(ckpt))
  BY <1>1 DEF CountInv, Resumes
<1>3. ckpt \in ExecutionCheckpoint /\ b = FALSE
  BY <1>2, SafeResume DEF IInv, StoreOK
<1>4. PICK l : l = [NoLoc EXCEPT !.from = cur[t].stage, !.reinvoke = b]
  OBVIOUS
<1>5. l.from = ckpt.stage /\ l.reinvoke = FALSE
  BY <1>2, <1>3, <1>4 DEF NoLoc
<1>6. MayCall(invoked, "enter", l)
  <2>1. CASE invoked = 0
    BY <1>0, <2>1 DEF MayCall
  <2>2. CASE invoked # 0
    <3>1. ckpt.stage \in {"pre-invoke", "post-invoke"}
      BY <1>0, <1>2, <2>2 DEF Called, CallStages
    <3>2. QED
      BY <1>5, <3>1 DEF MayCall
  <2>3. QED
    BY <2>1, <2>2
<1>7. main[Host].kind # "execute"
  OBVIOUS
<1>8. CASE x \in Workers
  BY <1>1, <1>4, <1>6, <1>7, <1>8, StartWorkerCounts
<1>9. CASE x \notin Workers
  <2>1. /\ pc' = [pc EXCEPT ![t] = "await", ![x] = "enter"]
        /\ loc' = [loc EXCEPT ![x] = l]
    BY <1>1, <1>4 DEF StartWorker
  <2>2. /\ \A w \in Workers : pc'[w] = pc[w] /\ loc'[w] = loc[w] /\ op'[w] = op[w]
        /\ pc'[t] \in {"await", "enter"}
    BY <1>0, <1>1, <1>9, <2>1 DEF IInv, PcOK, LocOK
  <2>3. Resumes(ckpt', cur'[t], pc'[t], op'[t])
    BY <2>2 DEF Resumes
  <2>4. main'[Host].kind # "execute" /\ (invoked > 0 => Called(ckpt'))
    BY <1>1, <1>2, <1>7
  <2>5. QED
    BY <1>0, <1>1, <2>2, <2>3, <2>4, StayCounts
<1>10. QED
  BY <1>8, <1>9

LEMMA RecoverStepCounts ==
  ASSUME OneHost, NeverForced, IInv, RecordInv, DeferInv, SoleInv, Exact(ckpt),
         CountInv(ckpt), RecoverStep(Host)
  PROVE  CountInv(ckpt)'
<1> DEFINE t == Main(Host)
<1>0. /\ t \in Threads /\ t \notin Workers /\ Host \in Procs /\ "run" \in Slot
      /\ main[Host] \in MainLocals
  BY HostFacts, Typed DEF Slot
<1>1. invoked' = invoked /\ ckpt' = ckpt
  BY DEF RecoverStep, RecoverIgnores, RecoverTerminalizes, RecoverResumes, Resume, ResumeRun,
         Resumed, ResumeCatch, BootCheck, RecoveryFactFails, store, ghost
<1>2. /\ Loaded(t) = ckpt /\ ckpt \in ExecutionCheckpoint /\ ckpt.stage \in ExecutionStage
      /\ cur[t] \in ExecutionCheckpoint
  BY <1>0, MainReads DEF ExecutionCheckpoint
<1>3. pc[t] \in RecoverAt => main[Host].kind = "recover"
  BY DEF DeferInv, KindsOK, Kinds, Place
<1>s. ASSUME StopProcess(Host)
      PROVE  CountInv(ckpt)'
  BY <1>1, <1>s, StopCounts
<1>m. ASSUME NEW k, k \notin {"store", "reload", "resumeRun"},
             pc[t] \in RecoverAt, pc' = [pc EXCEPT ![t] = k],
             op' = op, loc' = loc, main'[Host].kind = main[Host].kind,
             k = "resume" => cur'[t] = ckpt /\ ckpt.stage # "terminal"
      PROVE  CountInv(ckpt)'
  <2>1. main'[Host].kind # "execute"
    BY <1>3, <1>m
  <2>2. Resumes(ckpt, cur'[t], k, op'[t])
    BY <1>m DEF Resumes
  <2>3. QED
    BY <1>0, <1>1, <1>m, <2>1, <2>2, MainCounts
<1>4. CASE RecoverIgnores(Host) \/ Resumed(Host)
  <2>1. /\ pc[t] \in {"recover", "resumed"} /\ op' = op /\ loc' = loc /\ main' = main
        /\ \E k \in {"finished", "reach"} : pc' = [pc EXCEPT ![t] = k]
    BY <1>4 DEF RecoverIgnores, Resumed, Goto
  <2>2. QED
    BY <1>m, <2>1 DEF RecoverAt
<1>5. CASE RecoverTerminalizes(Host)
  <2>1. PICK n, d : /\ n = [main[Host] EXCEPT !.slot = "end", !.target = d]
                    /\ main' = [main EXCEPT ![Host] = n]
    BY <1>5 DEF RecoverTerminalizes
  <2>2. /\ pc[t] = "recover" /\ op' = op /\ loc' = loc /\ pc' = [pc EXCEPT ![t] = "reach"]
    BY <1>5 DEF RecoverTerminalizes, Goto
  <2>3. main'[Host] = n /\ n.kind = main[Host].kind
    BY <1>0, <2>1 DEF IInv, MainOK, MainLocals
  <2>4. QED
    BY <1>m, <2>2, <2>3 DEF RecoverAt
<1>6. CASE RecoverResumes(Host)
  <2>1. PICK n : n = [main[Host] EXCEPT !.handler = "resumeCatch", !.attempt = 1]
    OBVIOUS
  <2>2. /\ main' = [main EXCEPT ![Host] = n] /\ cur' = [cur EXCEPT ![t] = ckpt]
        /\ pc[t] = "recover" /\ op' = op /\ loc' = loc /\ pc' = [pc EXCEPT ![t] = "resume"]
        /\ Decision(ckpt, main[Host].late) = "resume"
    BY <1>2, <1>6, <2>1 DEF RecoverResumes, Goto
  <2>3. main'[Host] = n /\ n.kind = main[Host].kind
    BY <1>0, <2>1, <2>2 DEF IInv, MainOK, MainLocals
  <2>4. cur'[t] = ckpt
    BY <1>0, <2>2 DEF IInv, CurOK
  <2>5. ckpt.stage # "terminal"
    BY <1>2, <2>2, SafeResume
  <2>6. QED
    BY <1>m, <2>2, <2>3, <2>4, <2>5 DEF RecoverAt
<1>7. CASE Resume(Host)
  <2>1. /\ \/ transitionAndCheckpoint(t, "run", cur[t], "recovering", cur[t].stage, "resumeRun")
           \/ pc' = [pc EXCEPT ![t] = "resumeRun"] /\ op' = op /\ main' = main
        /\ pc[t] = "resume" /\ loc' = loc /\ cur' = cur
    BY <1>7 DEF Resume, Goto
  <2>2. cur[t] = ckpt /\ ckpt.stage # "terminal" /\ main[Host].kind # "execute"
    BY <1>3, <2>1 DEF CountInv, Resumes, RecoverAt
  <2>3. CASE transitionAndCheckpoint(t, "run", cur[t], "recovering", cur[t].stage, "resumeRun")
    <3>1. ~isTerminalState("recovering")
      BY DEF isTerminalState
    <3>2. QED
      BY <1>0, <1>1, <1>2, <2>1, <2>2, <2>3, <3>1, TransitionCounts
  <2>4. CASE pc' = [pc EXCEPT ![t] = "resumeRun"] /\ op' = op /\ main' = main
    <3>1. Resumes(ckpt, cur'[t], "resumeRun", op'[t])
      BY <2>1, <2>2 DEF Resumes
    <3>2. QED
      BY <1>0, <1>1, <2>1, <2>2, <2>4, <3>1, MainCounts
  <2>5. QED
    BY <2>1, <2>3, <2>4
<1>8. CASE ResumeRun(Host)
  <2>1. main[Host].kind = "recover"
    BY <1>3, <1>8 DEF ResumeRun, RecoverAt
  <2>2. QED
    BY <1>8, <2>1, ResumeRunCounts
<1>9. CASE ResumeCatch(Host)
  <2>1. PICK n : n = [main[Host] EXCEPT !.slot = "end", !.handler = "bootCheck",
                                        !.target = "failed"]
    OBVIOUS
  <2>2. /\ main' = main \/ main' = [main EXCEPT ![Host] = n]
        /\ pc[t] = "resumeCatch" /\ op' = op /\ loc' = loc
        /\ \E k \in {"finished", "reach"} : pc' = [pc EXCEPT ![t] = k]
    BY <1>9, <2>1 DEF ResumeCatch, Goto
  <2>3. main'[Host].kind = main[Host].kind
    <3>1. n.kind = main[Host].kind
      BY <1>0, <2>1 DEF MainLocals
    <3>2. main'[Host] \in {main[Host], n}
      BY <1>0, <2>2 DEF IInv, MainOK
    <3>3. QED
      BY <3>1, <3>2
  <2>4. QED
    BY <1>m, <2>2, <2>3 DEF RecoverAt
<1>10. CASE BootCheck(Host)
  <2>1. \/ /\ pc[t] = "bootCheck" /\ op' = op /\ loc' = loc /\ main' = main
           /\ pc' = [pc EXCEPT ![t] = "finished"]
        \/ StopProcess(Host)
    BY <1>10 DEF BootCheck, Goto
  <2>2. QED
    BY <1>m, <1>s, <2>1 DEF RecoverAt
<1>11. CASE RecoveryFactFails(Host)
  BY <1>11, <1>s DEF RecoveryFactFails
<1>12. QED
  BY <1>4, <1>5, <1>6, <1>7, <1>8, <1>9, <1>10, <1>11 DEF RecoverStep

(* The one step that calls the capability.                                  *)
LEMMA InvokeCounts ==
  ASSUME OneHost, IInv, SoleInv, WriteInv(ckpt), CountInv(ckpt), NEW w \in Workers,
         Invoke(w), ~\E e : Throw(w, e)
  PROVE  CountInv(ckpt)'
<1> DEFINE M == Main(Host)
<1>0. /\ w \in Threads /\ M \in Threads /\ M # w /\ M' = M
      /\ \A v \in Workers : v \in Threads
      /\ invoked \in Nat /\ Limit \in Nat /\ main[Host].attempt \in Nat
  BY HostFacts, CountTypes DEF Main
<1>1. /\ pc[w] = "invoke" /\ ~(loc[w].from = "pre-invoke" /\ ~loc[w].reinvoke)
      /\ pc' = [pc EXCEPT ![w] = "invoking"] /\ invoked' = invoked + 1
      /\ main' = main /\ op' = op /\ cur' = cur /\ ckpt' = ckpt
  BY DEF Invoke, Goto, store
<1>2. Alive(w) /\ Yet(w) /\ WorkerAlive
  BY <1>1 DEF Alive, Yet, Aim, YetAt, WorkerAlive
<1>3. MayCall(invoked, "invoke", loc[w])
  BY <1>1, <1>2 DEF CountInv
<1>4. invoked + 1 <= Limit
  BY <1>0, <1>1, <1>3 DEF MayCall
<1>5. Called(ckpt)
  BY <1>1, <1>2 DEF WriteInv, Aware, Heads
<1>6. pc'[w] = "invoking" /\ pc'[M] = pc[M] /\ \A v \in Workers : v # w => pc'[v] = pc[v]
  BY <1>0, <1>1 DEF IInv, PcOK
<1>7. \A v \in Workers : ~Yet(v)'
  <2>1. ~Yet(w)'
    BY <1>6 DEF Yet, Aim, YetAt
  <2>2. \A v \in Workers : v # w => ~Alive(v)
    BY <1>2 DEF SoleInv
  <2>3. \A v \in Workers : v # w => ~Yet(v)'
    BY <1>1, <1>6, <2>2 DEF Yet, Aim, YetAt, Alive
  <2>4. QED
    BY <2>1, <2>3
<1>8. Aim(M)' = Aim(M)
  BY <1>0, <1>1, <1>6 DEF Aim
<1>9. main'[Host].kind = "execute" => Tries(invoked', Aim(M)', main'[Host].attempt)
  <2>1. Aim(M) \notin Before
    BY <1>2, Alone
  <2>2. main[Host].kind = "execute" =>
          Tries(invoked, Aim(M), main[Host].attempt) /\ invoked < main[Host].attempt
    BY <1>2 DEF CountInv
  <2>3. QED
    BY <1>0, <1>1, <1>8, <2>1, <2>2 DEF Tries, Before
<1>10. Resumes(ckpt', cur'[M], pc'[M], op'[M])
  BY <1>2, <1>1, <1>6, Alone
<1>11. Host' = Host
  BY DEF Host
<1>12. invoked' <= Limit /\ (invoked' > 0 => Called(ckpt'))
  BY <1>1, <1>4, <1>5
<1>13. QED
  BY <1>0, <1>7, <1>9, <1>10, <1>11, <1>12 DEF CountInv

LEMMA WorkerStepCounts ==
  ASSUME OneHost, IInv, RecordInv, SoleInv, WriteInv(ckpt), CountInv(ckpt),
         NEW w \in Workers, WorkerStep(w)
  PROVE  CountInv(ckpt)'
<1> DEFINE M == Main(Host)
           Fails == (\E e : Throw(w, e)) /\ op' = op
           Goes(k) == Aim(w)' = k /\ main' = main
<1>0. /\ w \in Threads /\ M \in Threads /\ M # w /\ w[1] = Host /\ M' = M
      /\ \A v \in Workers : v \in Threads
  BY HostFacts DEF Main
<1>1. /\ Alive(w) /\ ckpt' = ckpt
      /\ \A v \in Workers : v # w => pc'[v] = pc[v] /\ loc'[v] = loc[v]
      /\ \A t \in Threads : t # w => op'[t] = op[t]
  BY WorkerMoves
<1>2. WorkerAlive
  BY <1>1 DEF WorkerAlive
<1>3. \A d, c : Resumes(d, c, pc[M], op[M])
  BY <1>2, Alone
<1>4. \A t \in Threads : t # w => cur'[t] = cur[t]
  <2>1. cur' = cur \/ \E c : cur' = [cur EXCEPT ![w] = c]
    BY DEF WorkerStep, Enter, PlanStage, Planning, WorkStage, Working, Ready, Invoke,
           InvokeReturns, PersistToolLoop, Invoked, Return
  <2>2. QED
    BY <2>1 DEF IInv, CurOK
<1>5. invoked > 0 => Called(ckpt')
  BY <1>1 DEF CountInv
<1>t. ASSUME Fails, invoked' = invoked
      PROVE  CountInv(ckpt)'
  BY <1>0, <1>1, <1>3, <1>4, <1>5, <1>t, ThrowCounts
<1>g. ASSUME NEW k, Goes(k), invoked' = invoked,
             \A t \in Threads : t # w => pc'[t] = pc[t],
             k \in YetAt => /\ Yet(w) /\ (pc[w] = "enter" => loc[w].from # "post-invoke")
                            /\ loc'[w].from = loc[w].from
                            /\ loc'[w].reinvoke = loc[w].reinvoke
      PROVE  CountInv(ckpt)'
  <2>1. Yet(w)' <=> k \in YetAt
    BY <1>g DEF Yet
  <2>2. pc'[M] = pc[M] /\ op'[M] = op[M] /\ cur'[M] = cur[M] /\ main' = main
    BY <1>0, <1>1, <1>4, <1>g
  <2>3. \A v \in Workers : v # w => pc'[v] = pc[v] /\ op'[v] = op[v] /\ loc'[v] = loc[v]
    BY <1>0, <1>1
  <2>4. QED
    BY <1>1, <1>g, <2>1, <2>2, <2>3, WorkerCounts
<1> DEFINE Only == \A t \in Threads : t # w => pc'[t] = pc[t]
<1>w. ASSUME NEW k, k \notin {"store", "reload"}, Goto(w, k), main' = main
      PROVE  Goes(k) /\ Only
  <2>1. pc'[w] = k /\ Only
    BY <1>0, <1>w DEF Goto, IInv, PcOK
  <2>2. QED
    BY <1>w, <2>1 DEF Aim
<1>c. ASSUME NEW c, NEW fact, NEW k, CallStore(w, c, fact, k)
      PROVE  Goes(k) /\ Only
  <2>1. pc'[w] = "store" /\ Only /\ op'[w].then = k /\ main' = main
    BY <1>0, <1>c DEF CallStore, IInv, PcOK, OpOK
  <2>2. QED
    BY <2>1 DEF Aim
<1> HIDE DEF Goes, Fails, Only
<1>u. ASSUME NEW c, NEW k, upsert(w, c, k)
      PROVE  Fails \/ (Goes(k) /\ Only)
  BY <1>c, <1>u DEF upsert, Fails
<1>v. ASSUME NEW s, NEW c, NEW next, NEW stage, NEW k,
             transitionAndCheckpoint(w, s, c, next, stage, k)
      PROVE  Fails \/ (Goes(k) /\ Only)
  <2>1. \/ Throw(w, "FAILED") /\ op' = op
        \/ \E rec : CallStore(w, rec, TRUE, k)
    BY <1>v DEF transitionAndCheckpoint
  <2>2. QED
    BY <1>c, <2>1 DEF Fails
<1>f. ASSUME Throw(w, "FAILED"), op' = op PROVE Fails
  BY <1>f DEF Fails
<1>k. ASSUME NEW k, Fails \/ (Goes(k) /\ Only), invoked' = invoked,
             k \in YetAt => /\ Yet(w) /\ (pc[w] = "enter" => loc[w].from # "post-invoke")
                            /\ loc'[w].from = loc[w].from
                            /\ loc'[w].reinvoke = loc[w].reinvoke
      PROVE  CountInv(ckpt)'
  BY <1>g, <1>k, <1>t DEF Only
<1>l. loc[w] \in WorkerLocals
  BY DEF IInv, LocOK
<1>y. pc[w] \in {"enter", "plan", "planning", "work", "working", "ready"} => Yet(w)
  BY DEF Yet, Aim, YetAt
<1>6. CASE Enter(w)
  <2>1. PICK l : l = [loc[w] EXCEPT !.plan = Loaded(w).plan, !.work = Loaded(w).work,
                        !.call = IF loc[w].from = "post-invoke" THEN Loaded(w).result ELSE @]
    OBVIOUS
  <2>2. loc' = [loc EXCEPT ![w] = l]
    BY <1>6, <2>1 DEF Enter
  <2>3. loc'[w].from = loc[w].from /\ loc'[w].reinvoke = loc[w].reinvoke
    BY <1>l, <2>1, <2>2 DEF IInv, LocOK, WorkerLocals
  <2>4. /\ pc[w] = "enter" /\ invoked' = invoked
        /\ \/ Goto(w, "return") /\ main' = main
           \/ Throw(w, "FAILED") /\ op' = op
           \/ /\ loc[w].from # "post-invoke"
              /\ \/ \E c, next, stage :
                        transitionAndCheckpoint(w, "run", c, next, stage, "plan")
                 \/ Goto(w, "plan") /\ main' = main
    BY <1>6 DEF Enter, ghost
  <2>5. CASE Goto(w, "return") /\ main' = main
    BY <1>k, <1>w, <2>4, <2>5 DEF YetAt
  <2>6. CASE Throw(w, "FAILED") /\ op' = op
    BY <1>f, <1>t, <2>4, <2>6
  <2>7. CASE /\ loc[w].from # "post-invoke"
             /\ \/ \E c, next, stage :
                       transitionAndCheckpoint(w, "run", c, next, stage, "plan")
                \/ Goto(w, "plan") /\ main' = main
    <3>1. Fails \/ (Goes("plan") /\ Only)
      BY <1>v, <1>w, <2>7
    <3>2. QED
      BY <1>k, <1>y, <2>3, <2>4, <2>7, <3>1
  <2>8. QED
    BY <2>4, <2>5, <2>6, <2>7
<1>7. CASE PlanStage(w) \/ WorkStage(w) \/ Ready(w)
  <2>1. /\ pc[w] \in {"plan", "work", "ready"} /\ loc' = loc /\ invoked' = invoked
        /\ \/ Throw(w, "FAILED") /\ op' = op
           \/ \E k \in {"work", "planning", "working", "ready"} : Goto(w, k) /\ main' = main
           \/ \E c, next, stage : \E k \in {"planning", "working"} :
                transitionAndCheckpoint(w, "run", c, next, stage, k)
           \/ \E c : upsert(w, c, "invoke")
    BY <1>7 DEF PlanStage, WorkStage, Ready, ghost
  <2>2. \E k : Fails \/ (Goes(k) /\ Only)
    BY <1>f, <1>u, <1>v, <1>w, <2>1
  <2>3. QED
    BY <1>k, <1>y, <2>1, <2>2
<1>8. CASE Planning(w) \/ Working(w)
  <2>1. /\ pc[w] \in {"planning", "working"} /\ invoked' = invoked
        /\ \/ Throw(w, "FAILED") /\ op' = op
           \/ \E c, k : upsert(w, c, k)
    BY <1>8 DEF Planning, Working, ghost
  <2>2. loc'[w].from = loc[w].from /\ loc'[w].reinvoke = loc[w].reinvoke
    <3>1. PICK l, m : l = [loc[w] EXCEPT !.plan = TRUE] /\ m = [loc[w] EXCEPT !.work = TRUE]
      OBVIOUS
    <3>2. loc' = loc \/ loc' = [loc EXCEPT ![w] = l] \/ loc' = [loc EXCEPT ![w] = m]
      BY <1>8, <3>1 DEF Planning, Working
    <3>3. loc'[w] \in {loc[w], l, m}
      BY <3>2 DEF IInv, LocOK
    <3>4. l.from = loc[w].from /\ l.reinvoke = loc[w].reinvoke
      BY <1>l, <3>1 DEF WorkerLocals
    <3>5. m.from = loc[w].from /\ m.reinvoke = loc[w].reinvoke
      BY <1>l, <3>1 DEF WorkerLocals
    <3>6. QED
      BY <3>3, <3>4, <3>5
  <2>3. \E k : Fails \/ (Goes(k) /\ Only)
    BY <1>f, <1>u, <2>1
  <2>4. QED
    BY <1>k, <1>y, <2>1, <2>2, <2>3
<1>9. CASE InvokeReturns(w) \/ PersistToolLoop(w) \/ Invoked(w)
  <2>1. /\ invoked' = invoked
        /\ \/ Throw(w, "FAILED") /\ op' = op
           \/ Goto(w, "invoked") /\ main' = main
           \/ \E c : \E k \in {"invoking", "return"} : upsert(w, c, k)
    BY <1>9 DEF InvokeReturns, PersistToolLoop, Invoked, ghost
  <2>2. \E k \in {"invoked", "invoking", "return"} : Fails \/ (Goes(k) /\ Only)
    BY <1>f, <1>u, <1>w, <2>1
  <2>3. QED
    BY <1>k, <2>1, <2>2 DEF YetAt
<1>10. CASE Invoke(w)
  <2>1. CASE \E e : Throw(w, e)
    <3>1. pc'[w] = "done"
      BY <1>0, <2>1 DEF Throw
    <3>2. invoked' = invoked /\ op' = op
      BY <1>0, <1>10, <3>1 DEF Invoke, Goto, IInv, PcOK
    <3>3. QED
      BY <1>t, <2>1, <3>2 DEF Fails
  <2>2. QED
    BY <1>10, <2>1, InvokeCounts
<1>11. CASE Return(w)
  <2>1. /\ invoked' = invoked /\ op' = op /\ cur' = cur
        /\ \A v \in Workers : pc'[v] = IF v = w THEN "done" ELSE pc[v]
        /\ pc'[M] \in {pc[M], "succeeded", "resumed"}
    BY <1>0, <1>11, HostFacts DEF Return, ghost
  <2>2. main'[Host].kind = main[Host].kind /\ main'[Host].attempt = main[Host].attempt
    <3>1. PICK n : n = [main[Host] EXCEPT !.value = loc[w].call, !.target = "completing",
                          !.handler = IF @ = "retry" THEN "catch" ELSE @]
      OBVIOUS
    <3>2. main' = main \/ main' = [main EXCEPT ![Host] = n]
      BY <1>0, <1>11, <3>1 DEF Return
    <3>3. main[Host] \in MainLocals /\ Host \in Procs
      BY HostFacts, Typed
    <3>4. main'[Host] \in {main[Host], n}
      BY <3>2, <3>3 DEF IInv, MainOK
    <3>5. n.kind = main[Host].kind /\ n.attempt = main[Host].attempt
      BY <3>1, <3>3 DEF MainLocals
    <3>6. QED
      BY <3>4, <3>5
  <2>3. Aim(M)' \in {Aim(M), "succeeded", "resumed"}
    BY <1>0, <2>1 DEF Aim
  <2>4. \A v \in Workers : Yet(v)' => Yet(v) /\ v # w
    BY <2>1 DEF Yet, Aim, YetAt
  <2>5. main'[Host].kind = "execute" =>
          /\ Tries(invoked, Aim(M)', main'[Host].attempt)
          /\ \A v \in Workers : Yet(v)' => invoked < main'[Host].attempt
    BY <2>2, <2>3, <2>4 DEF CountInv, Tries
  <2>6. Resumes(ckpt', cur'[M], pc'[M], op'[M])
    BY <1>3, <2>1 DEF Resumes
  <2>7. \A v \in Workers : v # w => pc'[v] = pc[v] /\ op'[v] = op[v] /\ loc'[v] = loc[v]
    BY <1>1, <2>1
  <2>8. QED
    BY <1>0, <1>5, <2>1, <2>4, <2>5, <2>6, <2>7, StayCounts
<1>12. QED
  BY <1>6, <1>7, <1>8, <1>9, <1>10, <1>11 DEF WorkerStep

LEMMA EnvironmentCounts ==
  ASSUME OneHost, IInv, RecordInv, SoleInv, Exact(ckpt), CountInv(ckpt),
         Boot(Host) \/ Start(Host) \/ Abort(Host) \/ Expire
  PROVE  CountInv(ckpt)'
<1> DEFINE t == Main(Host)
<1>0. /\ t \in Threads /\ t \notin Workers /\ Host \in Procs /\ t' = t /\ Host' = Host
      /\ \A w \in Workers : w \in Threads /\ w # t
      /\ invoked \in Nat /\ Limit \in Nat /\ Limit > 0
  BY HostFacts, CountTypes DEF Main, Host
<1>1. invoked' = invoked /\ ckpt' = ckpt /\ loc' = loc
  BY DEF Boot, Start, Abort, Expire, store, local, ghost
<1>s. ASSUME op' = op, cur' = cur, pc' = pc, main' = main
      PROVE  CountInv(ckpt)'
  <2>1. /\ \A w \in Workers : (Yet(w)' <=> Yet(w)) /\ pc'[w] = pc[w]
        /\ Aim(t)' = Aim(t)
    BY <1>0, <1>s DEF Yet, Aim
  <2>2. QED
    BY <1>0, <1>1, <1>s, <2>1 DEF CountInv
<1>2. CASE Boot(Host)
  <2>1. PICK m : m = [NoMain EXCEPT !.kind = "recover", !.handler = "bootCheck",
                                    !.late = expired]
    OBVIOUS
  <2>2. /\ main' = [main EXCEPT ![Host] = m] \/ main' = [main EXCEPT ![Host] = NoMain]
        /\ op' = op /\ \E k \in {"recover", "idle"} : pc' = [pc EXCEPT ![t] = k]
    <3>1. main' = [main EXCEPT ![Host] = m] \/ main' = [main EXCEPT ![Host] = NoMain]
      BY <1>2, <2>1 DEF Boot
    <3>2. op' = op /\ \E k \in {"recover", "idle"} : pc' = [pc EXCEPT ![t] = k]
      BY <1>2 DEF Boot, Goto
    <3>3. QED
      BY <3>1, <3>2
  <2>3. main'[Host] \in {m, NoMain}
    <3>1. Host \in Procs /\ main \in [Procs -> MainLocals]
      BY <1>0 DEF IInv, MainOK
    <3>2. QED
      BY <2>2, <3>1
  <2>4. main'[Host].kind # "execute"
    <3>1. m.kind = "recover"
      BY <2>1 DEF NoMain
    <3>2. NoMain.kind = "none"
      BY DEF NoMain
    <3>3. QED
      BY <2>3, <3>1, <3>2
  <2>5. \A k \in {"recover", "idle"} : Resumes(ckpt, cur'[t], k, op'[t])
    BY DEF Resumes
  <2>6. QED
    BY <1>1, <2>2, <2>4, <2>5, MainCounts
<1>3. CASE Start(Host)
  <2>1. PICK m, o : /\ m = [NoMain EXCEPT !.kind = "execute", !.handler = "catch"]
                    /\ o = [rec |-> Stamped(seedCheckpoint, <<"created", "initializing">>),
                            fact |-> TRUE, then |-> "authorize"]
    OBVIOUS
  <2>2. /\ answer.kind = "unsent" /\ main' = [main EXCEPT ![Host] = m]
        /\ op' = [op EXCEPT ![t] = o] /\ pc' = [pc EXCEPT ![t] = "store"]
    BY <1>3, <2>1 DEF Start
  <2>3. /\ main'[Host] = m /\ op'[t] = o /\ \A w \in Workers : op'[w] = op[w]
    BY <1>0, <2>2 DEF IInv, MainOK, OpOK
  <2>4. m.attempt = 0 /\ o.then = "authorize"
    BY <2>1 DEF NoMain
  <2>5. invoked = 0
    <3>1. ckpt = seedCheckpoint
      BY <2>2 DEF SoleInv, Unsent, Exact
    <3>2. ~Called(ckpt)
      BY <3>1 DEF Called, seedCheckpoint
    <3>3. ~(invoked > 0)
      BY <3>2 DEF CountInv
    <3>4. QED
      BY <1>0, <3>3
  <2>6. \A w \in Workers : ~Yet(w)
    BY <2>2, YetAlive DEF SoleInv, WorkerAlive
  <2>7. Tries(invoked, "authorize", m.attempt)
    BY <1>0, <2>4, <2>5 DEF Tries
  <2>8. Resumes(ckpt, cur'[t], "store", op'[t])
    BY <2>3, <2>4 DEF Resumes
  <2>9. QED
    BY <1>1, <2>2, <2>3, <2>4, <2>6, <2>7, <2>8, MainCounts
<1>4. CASE Abort(Host)
  <2>1. /\ op' = op /\ cur' = cur
        /\ Throw(t, "CANCELLED") \/ (pc' = pc /\ main' = main)
    BY <1>4 DEF Abort
  <2>2. CASE Throw(t, "CANCELLED")
    <3>1. invoked > 0 => Called(ckpt')
      BY <1>1 DEF CountInv
    <3>2. QED
      BY <1>0, <1>1, <2>1, <2>2, <3>1, ThrowCounts
  <2>3. CASE pc' = pc /\ main' = main
    BY <1>s, <2>1, <2>3
  <2>4. QED
    BY <2>1, <2>2, <2>3
<1>5. CASE Expire
  <2>1. op' = op /\ cur' = cur /\ pc' = pc /\ main' = main
    BY <1>5 DEF Expire, local
  <2>2. QED
    BY <1>s, <2>1
<1>6. QED
  BY <1>2, <1>3, <1>4, <1>5

LEMMA CountInit ==
  ASSUME OneHost, Init
  PROVE  CountInv(ckpt)
<1>1. /\ Main(Host) \in Threads /\ Host \in Procs
      /\ \A w \in Workers : w \in Threads /\ w[2] # 0
      /\ Limit \in Nat
  BY HostFacts, LimitIs
<1>2. /\ \A t \in Threads : pc[t] \in {"down", "off"}
      /\ main[Host] = NoMain /\ NoMain.kind = "none" /\ invoked = 0
  BY <1>1 DEF Init, NoMain
<1>3. \A w \in Workers : ~Yet(w)
  BY <1>1, <1>2 DEF Yet, Aim, YetAt
<1>4. Resumes(ckpt, cur[Main(Host)], pc[Main(Host)], op[Main(Host)])
  BY <1>1, <1>2 DEF Resumes
<1>5. QED
  BY <1>1, <1>2, <1>3, <1>4 DEF CountInv

LEMMA CountNext ==
  ASSUME OneHost, NeverForced, IInv, RecordInv, DeferInv, SoleInv, Exact(ckpt),
         WriteInv(ckpt), CountInv(ckpt), [Next]_vars
  PROVE  CountInv(ckpt)'
<1>0. Procs = {Host}
  BY HostFacts
<1>1. CASE UNCHANGED vars
  <2>1. /\ invoked' = invoked /\ ckpt' = ckpt /\ pc' = pc /\ op' = op /\ loc' = loc
        /\ main' = main /\ cur' = cur /\ Host' = Host /\ Main(Host)' = Main(Host)
    BY <1>1 DEF vars, Host, Main
  <2>2. QED
    BY <2>1 DEF CountInv, Yet, Aim
<1>2. CASE Boot(Host) \/ Start(Host) \/ Abort(Host) \/ Expire
  BY <1>2, EnvironmentCounts
<1>3. CASE Crash(Host)
  <2>1. StopProcess(Host) /\ UNCHANGED <<ckpt, invoked>>
    BY <1>3 DEF Crash, store, ghost
  <2>2. QED
    BY <2>1, StopCounts
<1>4. CASE ExecuteStep(Host)
  BY <1>4, ExecuteStepCounts
<1>5. CASE FinishStep(Host)
  BY <1>5, FinishStepCounts
<1>6. CASE RecoverStep(Host)
  BY <1>6, RecoverStepCounts
<1>7. CASE \E t \in Threads : StoreStep(t)
  BY <1>7, StoreStepCounts
<1>8. CASE \E w \in Workers : WorkerStep(w)
  BY <1>8, WorkerStepCounts
<1>9. QED
  BY <1>0, <1>1, <1>2, <1>3, <1>4, <1>5, <1>6, <1>7, <1>8 DEF Next

(* InvocationsBounded, for one host whose policies force no retry: however  *)
(* often the process crashes, boots and recovers, whatever stores fail and  *)
(* deadlines pass, the capability is called at most once per attempt of     *)
(* RetryManager (runtime.ts 150-165), because a recovery (#recoverOne,      *)
(* 600-690) that finds the call on record restores its result or gives up.  *)
THEOREM CallsAreBounded ==
  ASSUME OneHost, AbandonedIsFinal, NeverForced
  PROVE  Spec => []InvocationsBounded
<1> DEFINE Inv == /\ IInv /\ RecordInv /\ DeferInv /\ SoleInv /\ Exact(ckpt)
                  /\ WriteInv(ckpt) /\ CountInv(ckpt)
<1>1. Init => Inv
  BY InitInv, RecordInit, DeferInit, SoleInit, WriteInit, CountInit
<1>2. Inv /\ [Next]_vars => Inv'
  BY NextInv, RecordNext, DeferNext, SoleNext, ExactNext, WriteNext, CountNext
<1>3. Inv => InvocationsBounded
  <2> SUFFICES ASSUME Inv PROVE InvocationsBounded
    OBVIOUS
  <2>1. policy.onRestart # "resume-immediately"
    BY DEF IInv, StoreOK, NeverForced
  <2>2. invoked <= MaxAttempts /\ MaxAttempts \in Nat /\ invoked \in Nat
    <3>1. invoked <= Limit /\ invoked \in Nat
      BY DEF CountInv, IInv, GhostOK
    <3>2. QED
      BY <3>1, LimitIs, RuntimeAssumption
  <2>3. QED
    BY <2>1, <2>2 DEF InvocationsBounded
<1>4. QED
  BY <1>1, <1>2, <1>3, PTL DEF Spec

-----------------------------------------------------------------------------
(* Whose result it is.                                                      *)

(* A result is that of a call that was made.                                *)
ResultsInv ==
  /\ ckpt.result <= invoked
  /\ \A t \in Threads : cur[t].result <= invoked /\ op[t].rec.result <= invoked
  /\ \A w \in Workers : loc[w].call <= invoked
  /\ main[Host].value <= invoked

LEMMA CallsOnlyGrow ==
  ASSUME IInv, [Next]_vars
  PROVE  invoked \in Nat /\ invoked' \in {invoked, invoked + 1}
<1>1. invoked' \in {invoked, invoked + 1}
  <2>1. ASSUME NEW p \in Procs, Boot(p) \/ Start(p) \/ Abort(p) \/ Crash(p)
        PROVE  invoked' = invoked
    BY <2>1 DEF Boot, Start, Abort, Crash, ghost
  <2>2. ASSUME NEW p \in Procs, ExecuteStep(p)
        PROVE  invoked' = invoked
    BY <2>2 DEF ExecuteStep, Authorize, Schedule, Attempt, Run, TimerFires, Retry, Backoff,
       Succeeded, Completed, Catch, Fail, Cancelled, Answer, ghost
  <2>3. ASSUME NEW p \in Procs, FinishStep(p)
        PROVE  invoked' = invoked
    BY <2>3 DEF FinishStep, Reach, Terminalize, Finished, ghost
  <2>4. ASSUME NEW p \in Procs, RecoverStep(p)
        PROVE  invoked' = invoked
    BY <2>4 DEF RecoverStep, RecoverIgnores, RecoverTerminalizes, RecoverResumes, Resume,
       ResumeRun, Resumed, ResumeCatch, BootCheck, RecoveryFactFails, ghost
  <2>5. ASSUME NEW t \in Threads, StoreStep(t)
        PROVE  invoked' = invoked
    BY <2>5 DEF StoreStep, StoreCommits, StoreConflicts, StoreFails, Reload, PublishFails, ghost
  <2>6. ASSUME NEW w \in Workers, WorkerStep(w)
        PROVE  invoked' \in {invoked, invoked + 1}
    <3>1. CASE Invoke(w)
      BY <3>1 DEF Invoke
    <3>2. CASE ~Invoke(w)
      BY <2>6, <3>2 DEF WorkerStep, Enter, PlanStage, Planning, WorkStage, Working, Ready,
         InvokeReturns, PersistToolLoop, Invoked, Return, ghost
    <3>3. QED
      BY <3>1, <3>2
  <2>7. CASE Expire \/ UNCHANGED vars
    BY <2>7 DEF Expire, vars, ghost
  <2>8. QED
    BY <2>1, <2>2, <2>3, <2>4, <2>5, <2>6, <2>7 DEF Next
<1>2. QED
  BY <1>1 DEF IInv, GhostOK

LEMMA CallStoreResults ==
  ASSUME IInv, ResultsInv, NEW t \in Threads, NEW c, c.result <= invoked, NEW fact, NEW k,
         CallStore(t, c, fact, k)
  PROVE  \A u \in Threads : op'[u].rec.result <= invoked
<1>1. op'[t].rec = c /\ \A u \in Threads : u # t => op'[u] = op[u]
  BY DEF CallStore, IInv, OpOK
<1>2. QED
  BY <1>1 DEF ResultsInv

LEMMA UpsertResults ==
  ASSUME IInv, ResultsInv, NEW t \in Threads, NEW c \in ExecutionCheckpoint,
         c.result <= invoked, NEW k, upsert(t, c, k)
  PROVE  \A u \in Threads : op'[u].rec.result <= invoked
<1>1. CASE op' = op
  BY <1>1 DEF ResultsInv
<1>2. CASE CallStore(t, Normalized(c), FALSE, k)
  <2>1. Normalized(c).result = c.result
    BY DEF Normalized, ExecutionCheckpoint
  <2>2. QED
    BY <1>2, <2>1, CallStoreResults
<1>3. QED
  BY <1>1, <1>2 DEF upsert

LEMMA TransitionResults ==
  ASSUME IInv, ResultsInv, NEW t \in Threads, NEW s \in Slot, NEW c \in ExecutionCheckpoint,
         c.result <= invoked, NEW next, NEW stage \in ExecutionStage, NEW k,
         transitionAndCheckpoint(t, s, c, next, stage, k)
  PROVE  \A u \in Threads : op'[u].rec.result <= invoked
<1> DEFINE h == mgr[t[1]][s]
           history == Append(h, next)
<1>1. CASE op' = op
  BY <1>1 DEF ResultsInv
<1>2. CASE /\ next \in transitions[StateOf(t[1], s)]
           /\ CallStore(t, Normalized(Stamped([c EXCEPT !.stage = stage], history)), TRUE, k)
  <2>1. h \in Seq(ExecutionState) /\ LegalPath(h)
    BY ThreadFacts DEF IInv, MgrOK
  <2>2. history \in Seq(ExecutionState) /\ LegalPath(history)
    BY <1>2, <2>1, LegalStep DEF StateOf
  <2>3. PICK b, d : b = [c EXCEPT !.stage = stage] /\ d = Stamped(b, history)
    OBVIOUS
  <2>4. b \in ExecutionCheckpoint /\ b.result = c.result
    BY <2>3 DEF ExecutionCheckpoint
  <2>5. d \in ExecutionCheckpoint /\ d.result = c.result
    BY <2>2, <2>3, <2>4, StampedAdds
  <2>6. Normalized(d).result = c.result
    BY <2>5 DEF Normalized, ExecutionCheckpoint
  <2>7. CallStore(t, Normalized(d), TRUE, k)
    BY <1>2, <2>3
  <2>8. QED
    BY <2>6, <2>7, CallStoreResults
<1>3. QED
  BY <1>1, <1>2 DEF transitionAndCheckpoint

(* What is durable was being stored.                                        *)
LEMMA DurableResults ==
  ASSUME IInv, ResultsInv, [Next]_vars
  PROVE  ckpt'.result <= invoked
<1>1. CASE ckpt' = ckpt
  BY <1>1 DEF ResultsInv
<1>2. ASSUME NEW t \in Threads, ckpt' = [op[t].rec EXCEPT !.rev = @ + 1]
      PROVE  ckpt'.result <= invoked
  <2>1. op[t].rec \in ExecutionCheckpoint
    BY DEF IInv, OpOK, StoreCall
  <2>2. ckpt'.result = op[t].rec.result
    BY <1>2, <2>1 DEF ExecutionCheckpoint
  <2>3. QED
    BY <2>2 DEF ResultsInv
<1>3. ASSUME NEW t \in Threads, StoreStep(t)
      PROVE  ckpt' = ckpt \/ ckpt' = [op[t].rec EXCEPT !.rev = @ + 1]
  BY <1>3 DEF StoreStep, StoreCommits, StoreConflicts, StoreFails, Reload, PublishFails, store
<1>4. CASE UNCHANGED vars \/ Expire
  BY <1>1, <1>4 DEF vars, Expire, store
<1>5. ASSUME NEW p \in Procs,
             \/ Boot(p) \/ Start(p) \/ Abort(p) \/ Crash(p)
             \/ ExecuteStep(p) \/ FinishStep(p) \/ RecoverStep(p)
      PROVE  ckpt' = ckpt
  BY <1>5 DEF Boot, Start, Abort, Crash, ExecuteStep, Authorize, Schedule, Attempt, Run,
     TimerFires, Retry, Backoff, Succeeded, Completed, Catch, Fail, Cancelled, Answer,
     FinishStep, Reach, Terminalize, Finished, RecoverStep, RecoverIgnores,
     RecoverTerminalizes, RecoverResumes, Resume, ResumeRun, Resumed, ResumeCatch, BootCheck,
     RecoveryFactFails, store
<1>6. ASSUME NEW w \in Workers, WorkerStep(w)
      PROVE  ckpt' = ckpt
  BY <1>6 DEF WorkerStep, Enter, PlanStage, Planning, WorkStage, Working, Ready, Invoke,
     InvokeReturns, PersistToolLoop, Invoked, Return, store
<1>7. QED
  BY <1>1, <1>2, <1>3, <1>4, <1>5, <1>6 DEF Next

(* Every other place a result can come to had it from one of these.         *)
LEMMA HeldResults ==
  ASSUME OneHost, IInv, RecordInv, Exact(ckpt), ResultsInv, [Next]_vars
  PROVE  /\ \A t \in Threads : cur'[t].result <= invoked
         /\ \A w \in Workers : loc'[w].call <= invoked'
         /\ main'[Host].value <= invoked
<1> DEFINE M == Main(Host)
           Held == /\ \A t \in Threads : cur'[t].result <= invoked
                   /\ \A w \in Workers : loc'[w].call <= invoked'
                   /\ main'[Host].value <= invoked
<1>0. /\ Procs = {Host} /\ Host \in Procs /\ M \in Threads
      /\ \A w \in Workers : w \in Threads /\ w[1] = Host
      /\ \A t \in Threads : t[1] = Host
      /\ \A t \in Threads : Loaded(t) = ckpt
  BY HostFacts, LoadedIs, ThreadFacts
<1>1. /\ invoked \in Nat /\ invoked' \in Nat /\ invoked <= invoked'
      /\ invoked' = invoked \/ invoked' = invoked + 1
  BY CallsOnlyGrow
<1>2. /\ cur \in [Threads -> ExecutionCheckpoint] /\ loc \in [Workers -> WorkerLocals]
      /\ main \in [Procs -> MainLocals] /\ main[Host] \in MainLocals
      /\ \A w \in Workers : loc[w] \in WorkerLocals
      /\ ckpt \in ExecutionCheckpoint
  BY <1>0 DEF IInv, CurOK, LocOK, MainOK, StoreOK
<1>3. /\ seedCheckpoint.result = 0 /\ NoLoc.call = 0 /\ NoMain.value = 0
  BY DEF seedCheckpoint, NoLoc, NoMain, NoResult
<1>c. ASSUME \/ cur' = cur
             \/ \E u : cur' = [cur EXCEPT ![u] = ckpt]
             \/ \E u : cur' = [cur EXCEPT ![u] = cur[M]]
             \/ \E u : cur' = [cur EXCEPT ![u] = seedCheckpoint]
             \/ cur' = [u \in Threads |-> IF u[1] = Host THEN seedCheckpoint ELSE cur[u]]
      PROVE  \A t \in Threads : cur'[t].result <= invoked
  <2>1. SUFFICES ASSUME NEW t \in Threads
                 PROVE  cur'[t].result <= invoked
    OBVIOUS
  <2>2. \/ cur'[t] \in {ckpt, seedCheckpoint}
        \/ \E u \in Threads : cur'[t] = cur[u]
    <3>1. CASE cur' = cur
      BY <2>1, <3>1
    <3>2. CASE \E u : cur' = [cur EXCEPT ![u] = ckpt]
      BY <1>2, <2>1, <3>2
    <3>3. CASE \E u : cur' = [cur EXCEPT ![u] = cur[M]]
      BY <1>0, <1>2, <2>1, <3>3
    <3>4. CASE \E u : cur' = [cur EXCEPT ![u] = seedCheckpoint]
      BY <1>2, <2>1, <3>4
    <3>5. CASE cur' = [u \in Threads |-> IF u[1] = Host THEN seedCheckpoint ELSE cur[u]]
      BY <2>1, <3>5
    <3>6. QED
      BY <1>c, <3>1, <3>2, <3>3, <3>4, <3>5
  <2>3. QED
    BY <1>1, <1>3, <2>2 DEF ResultsInv
<1>m. ASSUME NEW m, m.value = main[Host].value \/ m.value = 0,
             main' = [main EXCEPT ![Host] = m]
      PROVE  main'[Host].value <= invoked
  <2>1. main'[Host] = m
    BY <1>0, <1>2, <1>m
  <2>2. QED
    BY <1>1, <1>m, <2>1 DEF ResultsInv
<1>s. main' = main => main'[Host].value <= invoked
  BY DEF ResultsInv
<1>l. loc' = loc => \A w \in Workers : loc'[w].call <= invoked'
  <2>1. SUFFICES ASSUME loc' = loc, NEW w \in Workers
                 PROVE  loc'[w].call <= invoked'
    OBVIOUS
  <2>2. loc[w].call <= invoked /\ loc[w].call \in Nat
    BY <1>2 DEF ResultsInv, WorkerLocals
  <2>3. QED
    BY <1>1, <2>1, <2>2
<1>t. ASSUME NEW t \in Threads, NEW e, Throw(t, e)
      PROVE  main'[Host].value <= invoked
  <2>1. PICK x : main' = [main EXCEPT ![Host] = [main[Host] EXCEPT !.err = x]]
    BY <1>0, <1>t DEF Throw
  <2>2. PICK m : m = [main[Host] EXCEPT !.err = x]
    OBVIOUS
  <2>3. m.value = main[Host].value
    BY <1>2, <2>2 DEF MainLocals
  <2>4. QED
    BY <1>m, <2>1, <2>2, <2>3
<1>u. ASSUME NEW t \in Threads, \/ \E c, k : upsert(t, c, k)
                              \/ \E s, c, next, stage, k :
                                      transitionAndCheckpoint(t, s, c, next, stage, k)
      PROVE  main'[Host].value <= invoked
  BY <1>s, <1>t, <1>u DEF upsert, transitionAndCheckpoint, CallStore
<1>p. ASSUME StopProcess(Host)
      PROVE  Held
  <2>1. \A t \in Threads : cur'[t].result <= invoked
    BY <1>c, <1>p DEF StopProcess
  <2>2. \A w \in Workers : loc'[w].call <= invoked'
    BY <1>0, <1>1, <1>3, <1>p DEF StopProcess
  <2>3. main'[Host].value <= invoked
    BY <1>3, <1>m, <1>p DEF StopProcess
  <2>4. QED
    BY <2>1, <2>2, <2>3
<1>4. CASE UNCHANGED vars \/ Expire
  <2>1. cur' = cur /\ loc' = loc /\ main' = main
    BY <1>4 DEF vars, Expire, local
  <2>2. QED
    BY <1>c, <1>l, <1>s, <2>1
<1>5. CASE Boot(Host) \/ Start(Host) \/ Abort(Host) \/ Crash(Host)
  <2>1. CASE Boot(Host)
    <3>1. loc' = loc /\ (cur' = cur \/ \E t : cur' = [cur EXCEPT ![t] = ckpt])
      <4>1. cur' = [cur EXCEPT ![M] = cur[M]] => cur' = cur
        BY <1>2
      <4>2. QED
        BY <2>1, <4>1 DEF Boot
    <3>2. PICK m : m = [NoMain EXCEPT !.kind = "recover", !.handler = "bootCheck",
                                      !.late = expired]
      OBVIOUS
    <3>3. m.value = 0
      BY <3>2 DEF NoMain, NoResult
    <3>4. main' = [main EXCEPT ![Host] = m] \/ main' = [main EXCEPT ![Host] = NoMain]
      BY <2>1, <3>2 DEF Boot
    <3>5. QED
      BY <1>3, <1>c, <1>l, <1>m, <3>1, <3>3, <3>4
  <2>2. CASE Start(Host)
    <3>1. loc' = loc /\ cur' = [cur EXCEPT ![M] = seedCheckpoint]
      BY <2>2 DEF Start
    <3>2. PICK m : m = [NoMain EXCEPT !.kind = "execute", !.handler = "catch"]
      OBVIOUS
    <3>3. m.value = 0 /\ main' = [main EXCEPT ![Host] = m]
      BY <2>2, <3>2 DEF Start, NoMain, NoResult
    <3>4. QED
      BY <1>c, <1>l, <1>m, <3>1, <3>3
  <2>3. CASE Abort(Host)
    <3>1. /\ cur' = cur /\ loc' = loc
          /\ main' = main \/ \E e : Throw(M, e)
      BY <2>3 DEF Abort
    <3>2. QED
      BY <1>0, <1>c, <1>l, <1>s, <1>t, <3>1
  <2>4. CASE Crash(Host)
    BY <1>p, <2>4 DEF Crash
  <2>5. QED
    BY <1>5, <2>1, <2>2, <2>3, <2>4
<1>w. ASSUME NEW i, NEW from, NEW b, StartWorker(Host, i, from, b), main' = main
      PROVE  Held
  <2>1. PICK l : l = [NoLoc EXCEPT !.from = from, !.reinvoke = b]
    OBVIOUS
  <2>2. l.call = 0 /\ loc' = [loc EXCEPT ![<<Host, i>>] = l]
    BY <1>w, <2>1 DEF StartWorker, NoLoc, NoResult
  <2>3. \A w \in Workers : loc'[w].call \in {0, loc[w].call}
    BY <1>2, <2>2
  <2>4. \A w \in Workers : loc[w].call <= invoked /\ loc[w].call \in Nat
    BY <1>2 DEF ResultsInv, WorkerLocals
  <2>5. \A w \in Workers : loc'[w].call <= invoked'
    BY <1>1, <2>3, <2>4
  <2>6. \A t \in Threads : cur'[t].result <= invoked
    BY <1>c, <1>w DEF StartWorker
  <2>7. QED
    BY <1>s, <1>w, <2>5, <2>6
<1>v. ASSUME NEW m, main' = [main EXCEPT ![Host] = m], m.value = main[Host].value,
             cur' = cur \/ (\E u : cur' = [cur EXCEPT ![u] = ckpt])
                        \/ (\E u : cur' = [cur EXCEPT ![u] = seedCheckpoint]),
             loc' = loc
      PROVE  Held
  <2>1. main'[Host].value <= invoked
    BY <1>m, <1>v
  <2>2. \A t \in Threads : cur'[t].result <= invoked
    BY <1>c, <1>v
  <2>3. QED
    BY <1>l, <1>v, <2>1, <2>2
<1>x. ASSUME NEW t \in Threads,
             \/ main' = main
             \/ \E e : Throw(t, e)
             \/ \E c, k : upsert(t, c, k)
             \/ \E s, c, next, stage, k : transitionAndCheckpoint(t, s, c, next, stage, k),
             \/ cur' = cur
             \/ \E u : cur' = [cur EXCEPT ![u] = ckpt]
             \/ \E u : cur' = [cur EXCEPT ![u] = seedCheckpoint]
      PROVE  /\ main'[Host].value <= invoked
             /\ \A u \in Threads : cur'[u].result <= invoked
             /\ loc' = loc => Held
  <2>1. main'[Host].value <= invoked
    BY <1>s, <1>t, <1>u, <1>x
  <2>2. \A u \in Threads : cur'[u].result <= invoked
    BY <1>c, <1>x
  <2>3. QED
    BY <1>l, <2>1, <2>2
<1>6. CASE ExecuteStep(Host)
  <2>1. CASE Authorize(Host) \/ Schedule(Host) \/ TimerFires(Host)
    <3>1. /\ loc' = loc /\ cur' = cur
          /\ main' = main \/ (\E e : Throw(M, e)) \/ \E c, k : upsert(M, c, k)
      BY <2>1 DEF Authorize, Schedule, TimerFires
    <3>2. QED
      BY <1>0, <1>x, <3>1
  <2>2. CASE Attempt(Host)
    <3>1. PICK m : m = [main[Host] EXCEPT !.attempt = @ + 1, !.handler = "retry"]
      OBVIOUS
    <3>2. /\ main' = [main EXCEPT ![Host] = m] /\ loc' = loc
          /\ cur' = [cur EXCEPT ![M] = ckpt]
      BY <1>0, <2>2, <3>1 DEF Attempt
    <3>3. m.value = main[Host].value
      BY <1>2, <3>1 DEF MainLocals
    <3>4. QED
      BY <1>v, <3>2, <3>3
  <2>3. CASE Run(Host)
    BY <1>w, <2>3 DEF Run
  <2>4. CASE Retry(Host)
    <3>1. PICK m : m = [main[Host] EXCEPT !.handler = "catch"]
      OBVIOUS
    <3>2. main' = [main EXCEPT ![Host] = m] /\ loc' = loc /\ cur' = cur
      BY <2>4, <3>1 DEF Retry
    <3>3. m.value = main[Host].value
      BY <1>2, <3>1 DEF MainLocals
    <3>4. QED
      BY <1>v, <3>2, <3>3
  <2>5. CASE Catch(Host)
    <3>1. PICK m, g : /\ m = [main[Host] EXCEPT !.handler = "answer", !.target = g]
                      /\ main' = [main EXCEPT ![Host] = m]
      BY <2>5 DEF Catch
    <3>2. loc' = loc /\ cur' = cur
      BY <2>5 DEF Catch
    <3>3. m.value = main[Host].value
      BY <1>2, <3>1 DEF MainLocals
    <3>4. QED
      BY <1>v, <3>1, <3>2, <3>3
  <2>6. CASE Backoff(Host) \/ Succeeded(Host)
    <3>1. /\ loc' = loc /\ cur' = [cur EXCEPT ![M] = ckpt]
          /\ \E s, c, next, stage, k : transitionAndCheckpoint(M, s, c, next, stage, k)
      BY <1>0, <2>6 DEF Backoff, Succeeded
    <3>2. QED
      BY <1>0, <1>x, <3>1
  <2>7. CASE Completed(Host) \/ Cancelled(Host) \/ Answer(Host)
    <3>1. loc' = loc /\ cur' = cur /\ main' = main
      BY <2>7 DEF Completed, Cancelled, Answer
    <3>2. QED
      BY <1>0, <1>x, <3>1
  <2>8. CASE Fail(Host)
    <3>1. /\ loc' = loc /\ cur' = [cur EXCEPT ![M] = ckpt]
          /\ main' = main \/ \E c, k : upsert(M, c, k)
      BY <1>0, <2>8 DEF Fail
    <3>2. QED
      BY <1>0, <1>x, <3>1
  <2>9. QED
    BY <1>6, <2>1, <2>2, <2>3, <2>4, <2>5, <2>6, <2>7, <2>8 DEF ExecuteStep
<1>7. CASE FinishStep(Host)
  <2>1. CASE Reach(Host) \/ Terminalize(Host)
    <3>1. /\ loc' = loc /\ cur' = cur
          /\ \/ main' = main
             \/ \E c, k : upsert(M, c, k)
             \/ \E s, c, next, stage, k : transitionAndCheckpoint(M, s, c, next, stage, k)
      BY <2>1 DEF Reach, Terminalize
    <3>2. QED
      BY <1>0, <1>x, <3>1
  <2>2. CASE Finished(Host)
    <3>1. /\ loc' = loc /\ cur' = [cur EXCEPT ![M] = seedCheckpoint]
          /\ main' = [main EXCEPT ![Host] = NoMain]
      BY <2>2 DEF Finished
    <3>2. QED
      BY <1>3, <1>c, <1>l, <1>m, <3>1
  <2>3. QED
    BY <1>7, <2>1, <2>2 DEF FinishStep
<1>8. CASE RecoverStep(Host)
  <2>1. CASE RecoverIgnores(Host) \/ Resumed(Host)
    <3>1. loc' = loc /\ main' = main /\ (cur' = cur \/ cur' = [cur EXCEPT ![M] = ckpt])
      BY <1>0, <2>1 DEF RecoverIgnores, Resumed
    <3>2. QED
      BY <1>0, <1>x, <3>1
  <2>2. CASE RecoverTerminalizes(Host)
    <3>1. PICK m, d : /\ m = [main[Host] EXCEPT !.slot = "end", !.target = d]
                      /\ main' = [main EXCEPT ![Host] = m]
      BY <2>2 DEF RecoverTerminalizes
    <3>2. loc' = loc /\ cur' = [cur EXCEPT ![M] = ckpt]
      BY <1>0, <2>2 DEF RecoverTerminalizes
    <3>3. m.value = main[Host].value
      BY <1>2, <3>1 DEF MainLocals
    <3>4. QED
      BY <1>v, <3>1, <3>2, <3>3
  <2>3. CASE RecoverResumes(Host)
    <3>1. PICK m : m = [main[Host] EXCEPT !.handler = "resumeCatch", !.attempt = 1]
      OBVIOUS
    <3>2. main' = [main EXCEPT ![Host] = m] /\ loc' = loc /\ cur' = [cur EXCEPT ![M] = ckpt]
      BY <1>0, <2>3, <3>1 DEF RecoverResumes
    <3>3. m.value = main[Host].value
      BY <1>2, <3>1 DEF MainLocals
    <3>4. QED
      BY <1>v, <3>2, <3>3
  <2>4. CASE Resume(Host)
    <3>1. /\ loc' = loc /\ cur' = cur
          /\ \/ main' = main
             \/ \E s, c, next, stage, k : transitionAndCheckpoint(M, s, c, next, stage, k)
      BY <2>4 DEF Resume
    <3>2. QED
      BY <1>0, <1>x, <3>1
  <2>5. CASE ResumeRun(Host)
    BY <1>w, <2>5 DEF ResumeRun
  <2>6. CASE ResumeCatch(Host)
    <3>1. loc' = loc
      BY <2>6 DEF ResumeCatch
    <3>2. cur' = cur \/ cur' = [cur EXCEPT ![M] = ckpt]
      <4>1. [cur EXCEPT ![M] = cur[M]] = cur
        BY <1>2
      <4>2. QED
        BY <1>0, <2>6, <4>1 DEF ResumeCatch
    <3>3. CASE main' = main
      BY <1>0, <1>x, <3>1, <3>2, <3>3
    <3>4. CASE main' # main
      <4>1. PICK m : m = [main[Host] EXCEPT !.slot = "end", !.handler = "bootCheck",
                                            !.target = "failed"]
        OBVIOUS
      <4>2. main' = [main EXCEPT ![Host] = m]
        BY <2>6, <3>4, <4>1 DEF ResumeCatch
      <4>3. m.value = main[Host].value
        BY <1>2, <4>1 DEF MainLocals
      <4>4. QED
        BY <1>v, <3>1, <3>2, <4>2, <4>3
    <3>5. QED
      BY <3>3, <3>4
  <2>7. CASE BootCheck(Host) \/ RecoveryFactFails(Host)
    <3>1. StopProcess(Host) \/ (loc' = loc /\ cur' = cur /\ main' = main)
      BY <2>7 DEF BootCheck, RecoveryFactFails
    <3>2. QED
      BY <1>0, <1>p, <1>x, <3>1
  <2>8. QED
    BY <1>8, <2>1, <2>2, <2>3, <2>4, <2>5, <2>6, <2>7 DEF RecoverStep
<1>9. ASSUME NEW t \in Threads, StoreStep(t)
      PROVE  Held
  <2>1. /\ loc' = loc
        /\ cur' = cur \/ cur' = [cur EXCEPT ![t] = ckpt]
        /\ main' = main \/ \E e : Throw(t, e)
    BY <1>9 DEF StoreStep, StoreCommits, StoreConflicts, StoreFails, Reload, PublishFails
  <2>2. QED
    BY <1>x, <2>1
<1>10. ASSUME NEW w \in Workers, WorkerStep(w)
       PROVE  Held
  <2>0. w \in Threads /\ w[1] = Host /\ loc[w] \in WorkerLocals /\ Loaded(w) = ckpt
    BY <1>0, <1>2
  <2>l. ASSUME NEW l, loc' = [loc EXCEPT ![w] = l], l.call \in Nat, l.call <= invoked'
        PROVE  \A v \in Workers : loc'[v].call <= invoked'
    <3>1. \A v \in Workers : loc[v].call <= invoked /\ loc[v].call \in Nat
      BY <1>2 DEF ResultsInv, WorkerLocals
    <3>2. \A v \in Workers : loc'[v].call \in {l.call, loc[v].call}
      BY <1>2, <2>l
    <3>3. QED
      BY <1>1, <2>l, <3>1, <3>2
  <2>k. ASSUME NEW l, loc' = [loc EXCEPT ![w] = l], l.call = loc[w].call
        PROVE  \A v \in Workers : loc'[v].call <= invoked'
    <3>1. loc[w].call <= invoked /\ loc[w].call \in Nat
      BY <2>0 DEF ResultsInv, WorkerLocals
    <3>2. l.call \in Nat /\ l.call <= invoked'
      BY <1>1, <2>k, <3>1
    <3>3. QED
      BY <2>k, <2>l, <3>2
  <2>1. CASE PlanStage(w) \/ WorkStage(w) \/ Ready(w) \/ InvokeReturns(w) \/ Invoked(w)
    <3>1. /\ loc' = loc /\ cur' = cur
          /\ \/ main' = main
             \/ \E e : Throw(w, e)
             \/ \E c, k : upsert(w, c, k)
             \/ \E s, c, next, stage, k : transitionAndCheckpoint(w, s, c, next, stage, k)
      BY <2>1 DEF PlanStage, WorkStage, Ready, InvokeReturns, Invoked
    <3>2. QED
      BY <1>x, <2>0, <3>1
  <2>2. CASE Planning(w) \/ Working(w) \/ PersistToolLoop(w)
    <3>1. /\ cur' = cur
          /\ (\E e : Throw(w, e)) \/ \E c, k : upsert(w, c, k)
      BY <2>2 DEF Planning, Working, PersistToolLoop
    <3>2. PICK l, m, n : /\ l = [loc[w] EXCEPT !.plan = TRUE]
                         /\ m = [loc[w] EXCEPT !.work = TRUE]
                         /\ n = [loc[w] EXCEPT !.writes = @ + 1]
      OBVIOUS
    <3>3. loc' = loc \/ \E x \in {l, m, n} : loc' = [loc EXCEPT ![w] = x]
      BY <2>2, <3>2 DEF Planning, Working, PersistToolLoop
    <3>4. l.call = loc[w].call /\ m.call = loc[w].call /\ n.call = loc[w].call
      BY <2>0, <3>2 DEF WorkerLocals
    <3>5. \A v \in Workers : loc'[v].call <= invoked'
      BY <1>l, <2>k, <3>3, <3>4
    <3>6. QED
      BY <1>x, <2>0, <3>1, <3>5
  <2>3. CASE Enter(w)
    <3>1. PICK l, x : /\ l = [loc[w] EXCEPT !.plan = ckpt.plan, !.work = ckpt.work, !.call = x]
                      /\ x \in {ckpt.result, loc[w].call}
                      /\ loc' = [loc EXCEPT ![w] = l]
      BY <2>0, <2>3 DEF Enter
    <3>2. l.call = x
      BY <2>0, <3>1 DEF WorkerLocals
    <3>3. x \in Nat /\ x <= invoked
      BY <1>2, <2>0, <3>1 DEF ResultsInv, WorkerLocals, ExecutionCheckpoint
    <3>4. \A v \in Workers : loc'[v].call <= invoked'
      <4>1. l.call \in Nat /\ l.call <= invoked'
        BY <1>1, <3>2, <3>3
      <4>2. loc' = [loc EXCEPT ![w] = l]
        BY <3>1
      <4>3. QED
        BY <2>l, <4>1, <4>2
    <3>5. /\ cur' = [cur EXCEPT ![w] = ckpt]
          /\ \/ main' = main
             \/ \E e : Throw(w, e)
             \/ \E s, c, next, stage, k : transitionAndCheckpoint(w, s, c, next, stage, k)
      BY <2>0, <2>3 DEF Enter
    <3>6. QED
      BY <1>x, <2>0, <3>4, <3>5
  <2>4. CASE Invoke(w)
    <3>1. cur' = cur /\ (main' = main \/ \E e : Throw(w, e))
      BY <2>4 DEF Invoke
    <3>2. PICK l : l = [loc[w] EXCEPT !.call = invoked + 1]
      OBVIOUS
    <3>3. loc' = loc \/ (invoked' = invoked + 1 /\ loc' = [loc EXCEPT ![w] = l])
      BY <2>4, <3>2 DEF Invoke
    <3>4. l.call = invoked + 1
      BY <2>0, <3>2 DEF WorkerLocals
    <3>5. \A v \in Workers : loc'[v].call <= invoked'
      BY <1>1, <1>l, <2>l, <3>3, <3>4
    <3>6. QED
      BY <1>x, <2>0, <3>1, <3>5
  <2>5. CASE Return(w)
    <3>1. cur' = cur /\ loc' = loc
      BY <2>5 DEF Return
    <3>2. PICK m, g : /\ m = [main[Host] EXCEPT !.value = loc[w].call, !.target = "completing",
                                                !.handler = g]
                      /\ main' = main \/ main' = [main EXCEPT ![Host] = m]
      BY <2>0, <2>5 DEF Return
    <3>3. m.value = loc[w].call
      BY <1>2, <3>2 DEF MainLocals
    <3>4. main'[Host] \in {m, main[Host]}
      BY <1>0, <1>2, <3>2
    <3>5. main'[Host].value <= invoked
      BY <3>3, <3>4 DEF ResultsInv
    <3>6. QED
      BY <1>c, <1>l, <3>1, <3>5
  <2>6. QED
    BY <1>10, <2>1, <2>2, <2>3, <2>4, <2>5 DEF WorkerStep
<1>11. QED
  BY <1>0, <1>4, <1>5, <1>6, <1>7, <1>8, <1>9, <1>10 DEF Next

(* What is stored is made of a copy, of the value that was returned or of a  *)
(* worker's result.                                                         *)
LEMMA StoredResults ==
  ASSUME OneHost, IInv, RecordInv, Exact(ckpt), ResultsInv, [Next]_vars
  PROVE  \A t \in Threads : op'[t].rec.result <= invoked
<1> DEFINE M == Main(Host)
           Held == \A t \in Threads : op'[t].rec.result <= invoked
<1>0. /\ Procs = {Host} /\ Host \in Procs /\ M \in Threads /\ M[1] = Host
      /\ \A w \in Workers : w \in Threads /\ w[1] = Host
      /\ \A t \in Threads : Loaded(t) = ckpt
      /\ invoked \in Nat /\ "run" \in Slot
      /\ "post-invoke" \in ExecutionStage /\ "terminal" \in ExecutionStage
      /\ "post-planning" \in ExecutionStage
  BY HostFacts, LoadedIs, CallsOnlyGrow DEF Slot, ExecutionStage
<1>1. /\ ckpt \in ExecutionCheckpoint /\ ckpt.result <= invoked
      /\ ckpt.stage \in ExecutionStage
      /\ main[Host] \in MainLocals /\ main[Host].slot \in Slot
      /\ main[Host].value \in Nat /\ main[Host].value <= invoked
      /\ \A t \in Threads : /\ cur[t] \in ExecutionCheckpoint /\ cur[t].result <= invoked
                             /\ cur[t].stage \in ExecutionStage
      /\ \A w \in Workers : loc[w] \in WorkerLocals /\ loc[w].call <= invoked
  BY <1>0 DEF IInv, StoreOK, MainOK, CurOK, LocOK, ResultsInv, MainLocals,
     ExecutionCheckpoint
<1>h. \A p \in Procs : mgr[p]["run"] \in Seq(ExecutionState) /\ LegalPath(mgr[p]["run"])
  BY <1>0 DEF IInv, MgrOK
<1>z. NoOp.rec.result = 0
  BY DEF NoOp, seedCheckpoint, NoResult
<1>s. op' = op => Held
  BY DEF ResultsInv
<1>n. ASSUME NEW t, op' = [op EXCEPT ![t] = NoOp]
      PROVE  Held
  <2>1. \A u \in Threads : op'[u] \in {op[u], NoOp}
    BY <1>n DEF IInv, OpOK
  <2>2. QED
    BY <1>0, <1>z, <2>1 DEF ResultsInv
<1>p. ASSUME StopProcess(Host)
      PROVE  Held
  <2>1. \A u \in Threads : op'[u] \in {op[u], NoOp}
    BY <1>p DEF StopProcess
  <2>2. QED
    BY <1>0, <1>z, <2>1 DEF ResultsInv
<1>4. CASE UNCHANGED vars \/ Expire
  BY <1>4, <1>s DEF vars, Expire, local
<1>5. CASE Boot(Host) \/ Abort(Host) \/ Crash(Host)
  BY <1>5, <1>p, <1>s DEF Boot, Abort, Crash
<1>6. CASE Start(Host)
  <2>1. PICK d, o : /\ d = Stamped(seedCheckpoint, <<"created", "initializing">>)
                    /\ o = [rec |-> d, fact |-> TRUE, then |-> "authorize"]
    OBVIOUS
  <2>2. op' = [op EXCEPT ![M] = o]
    BY <1>6, <2>1 DEF Start
  <2>3. o.rec.result = 0
    BY <2>1 DEF Stamped, seedCheckpoint, NoResult
  <2>4. \A u \in Threads : op'[u] \in {op[u], o}
    BY <2>2 DEF IInv, OpOK
  <2>5. QED
    BY <1>0, <2>3, <2>4 DEF ResultsInv
<1>7. CASE ExecuteStep(Host)
  <2>1. CASE Authorize(Host)
    <3>1. PICK b, d : b = [cur[M] EXCEPT !.snapshot = TRUE] /\ d = Stamped(b, mgr[Host]["run"])
      OBVIOUS
    <3>2. b \in ExecutionCheckpoint /\ b.result = cur[M].result
      BY <1>0, <1>1, <3>1 DEF ExecutionCheckpoint
    <3>3. d \in ExecutionCheckpoint /\ d.result <= invoked
      BY <1>0, <1>1, <1>h, <3>1, <3>2, StampedAdds
    <3>4. op' = op \/ upsert(M, d, "schedule")
      BY <2>1, <3>1 DEF Authorize
    <3>5. QED
      BY <1>0, <1>s, <3>3, <3>4, UpsertResults
  <2>2. CASE Attempt(Host)
    <3>1. PICK o : o = [rec |-> Normalized(ckpt), fact |-> FALSE, then |-> "run"]
      OBVIOUS
    <3>2. op' = [op EXCEPT ![M] = o]
      BY <1>0, <2>2, <3>1 DEF Attempt
    <3>3. o.rec.result = ckpt.result
      BY <1>1, <3>1 DEF Normalized, ExecutionCheckpoint
    <3>4. \A u \in Threads : op'[u] \in {op[u], o}
      BY <3>2 DEF IInv, OpOK
    <3>5. QED
      BY <1>1, <3>3, <3>4 DEF ResultsInv
  <2>3. CASE Backoff(Host)
    <3>1. transitionAndCheckpoint(M, "run", ckpt, "recovering", ckpt.stage, "attempt")
      BY <1>0, <2>3 DEF Backoff
    <3>2. QED
      BY <1>0, <1>1, <3>1, TransitionResults
  <2>4. CASE Succeeded(Host)
    <3>1. PICK b : b = [ckpt EXCEPT !.result = main[Host].value]
      OBVIOUS
    <3>2. b \in ExecutionCheckpoint /\ b.result <= invoked
      BY <1>1, <3>1 DEF ExecutionCheckpoint
    <3>3. transitionAndCheckpoint(M, "run", b, "completing", "post-invoke", "terminalize")
      BY <1>0, <2>4, <3>1 DEF Succeeded
    <3>4. QED
      BY <1>0, <3>2, <3>3, TransitionResults
  <2>5. CASE Fail(Host)
    <3>1. PICK b : b = [ckpt EXCEPT !.cancelled = TRUE]
      OBVIOUS
    <3>2. b \in ExecutionCheckpoint /\ b.result <= invoked
      BY <1>1, <3>1 DEF ExecutionCheckpoint
    <3>3. op' = op \/ upsert(M, b, "cancelled")
      BY <1>0, <2>5, <3>1 DEF Fail
    <3>4. QED
      BY <1>0, <1>s, <3>2, <3>3, UpsertResults
  <2>6. CASE \/ Schedule(Host) \/ Run(Host) \/ TimerFires(Host) \/ Retry(Host)
             \/ Completed(Host) \/ Catch(Host) \/ Cancelled(Host) \/ Answer(Host)
    BY <1>s, <2>6 DEF Schedule, Run, TimerFires, Retry, Completed, Catch, Cancelled, Answer
  <2>7. QED
    BY <1>7, <2>1, <2>2, <2>3, <2>4, <2>5, <2>6 DEF ExecuteStep
<1>8. CASE FinishStep(Host)
  <2>1. CASE Reach(Host)
    <3>1. PICK hop, b : /\ b = [cur[M] EXCEPT !.cancelled = @ \/ hop = "cancelling"]
                        /\ \/ op' = op
                           \/ \E k : transitionAndCheckpoint(M, main[Host].slot, b, hop,
                                                            b.stage, k)
      BY <2>1 DEF Reach
    <3>2. (cur[M].cancelled \/ hop = "cancelling") \in BOOLEAN
      OBVIOUS
    <3>3. /\ b \in ExecutionCheckpoint /\ b.result = cur[M].result
          /\ b.stage \in ExecutionStage
      BY <1>0, <1>1, <3>1, <3>2 DEF ExecutionCheckpoint
    <3>4. b.result <= invoked
      BY <1>0, <1>1, <3>3
    <3>5. QED
      BY <1>0, <1>1, <1>s, <3>1, <3>3, <3>4, TransitionResults
  <2>2. CASE Terminalize(Host)
    <3>0. PICK r, x, b :
            /\ r = IF main[Host].target = "completing" THEN main[Host].value ELSE cur[M].result
            /\ x = (cur[M].cancelled \/ main[Host].target = "cancelling")
            /\ b = [cur[M] EXCEPT !.result = r, !.cancelled = x]
      OBVIOUS
    <3>a. cur[M].cancelled \in BOOLEAN
      BY <1>0, <1>1 DEF ExecutionCheckpoint
    <3>b. r \in {main[Host].value, cur[M].result} /\ x \in BOOLEAN
      BY <3>0, <3>a
    <3>c. b = [cur[M] EXCEPT
                 !.result = IF main[Host].target = "completing" THEN main[Host].value ELSE @,
                 !.cancelled = @ \/ main[Host].target = "cancelling"]
      BY <3>0
    <3>1. \/ \E k : upsert(M, Stamped(b, mgr[Host][main[Host].slot]), k)
          \/ \E next, k : transitionAndCheckpoint(M, main[Host].slot, b, next, "terminal", k)
      BY <2>2, <3>c DEF Terminalize
    <3>2. r \in Nat /\ r <= invoked
      BY <1>0, <1>1, <3>b DEF ExecutionCheckpoint
    <3>3. b \in ExecutionCheckpoint /\ b.result = r
      BY <1>0, <1>1, <3>0, <3>b, <3>2 DEF ExecutionCheckpoint
    <3>4. PICK d : d = Stamped(b, mgr[Host][main[Host].slot])
      OBVIOUS
    <3>5. /\ mgr[Host][main[Host].slot] \in Seq(ExecutionState)
          /\ LegalPath(mgr[Host][main[Host].slot])
      BY <1>0, <1>1 DEF IInv, MgrOK
    <3>6. d \in ExecutionCheckpoint /\ d.result = r
      BY <3>3, <3>4, <3>5, StampedAdds
    <3>7. \/ \E k : upsert(M, d, k)
          \/ \E next, k : transitionAndCheckpoint(M, main[Host].slot, b, next, "terminal", k)
      BY <3>1, <3>4
    <3>8. CASE \E k : upsert(M, d, k)
      BY <1>0, <3>2, <3>6, <3>8, UpsertResults
    <3>9. CASE \E next, k : transitionAndCheckpoint(M, main[Host].slot, b, next, "terminal", k)
      BY <1>0, <1>1, <3>2, <3>3, <3>9, TransitionResults
    <3>10. QED
      BY <3>7, <3>8, <3>9
  <2>3. CASE Finished(Host)
    BY <1>s, <2>3 DEF Finished
  <2>4. QED
    BY <1>8, <2>1, <2>2, <2>3 DEF FinishStep
<1>9. CASE RecoverStep(Host)
  <2>1. CASE Resume(Host)
    <3>1. op' = op \/ transitionAndCheckpoint(M, "run", cur[M], "recovering", cur[M].stage,
                                             "resumeRun")
      BY <2>1 DEF Resume
    <3>2. QED
      BY <1>0, <1>1, <1>s, <3>1, TransitionResults
  <2>2. CASE RecoverIgnores(Host) \/ RecoverTerminalizes(Host) \/ RecoverResumes(Host)
             \/ ResumeRun(Host) \/ Resumed(Host) \/ ResumeCatch(Host)
    BY <1>s, <2>2 DEF RecoverIgnores, RecoverTerminalizes, RecoverResumes, ResumeRun, Resumed,
       ResumeCatch
  <2>3. CASE BootCheck(Host) \/ RecoveryFactFails(Host)
    BY <1>p, <1>s, <2>3 DEF BootCheck, RecoveryFactFails
  <2>4. QED
    BY <1>9, <2>1, <2>2, <2>3 DEF RecoverStep
<1>10. ASSUME NEW t \in Threads, StoreStep(t)
       PROVE  Held
  <2>1. op' = op \/ op' = [op EXCEPT ![t] = NoOp]
    BY <1>10 DEF StoreStep, StoreCommits, StoreConflicts, StoreFails, Reload, PublishFails
  <2>2. QED
    BY <1>n, <1>s, <2>1
<1>11. ASSUME NEW w \in Workers, WorkerStep(w)
       PROVE  Held
  <2>0. /\ w \in Threads /\ w[1] = Host /\ Loaded(w) = ckpt
        /\ mgr[w[1]]["run"] \in Seq(ExecutionState) /\ LegalPath(mgr[w[1]]["run"])
        /\ cur[w] \in ExecutionCheckpoint /\ cur[w].result <= invoked
        /\ cur[w].stage \in ExecutionStage
        /\ loc[w].plan \in BOOLEAN /\ loc[w].work \in BOOLEAN /\ loc[w].call \in Nat
        /\ loc[w].call <= invoked
    BY <1>0, <1>1, <1>h DEF WorkerLocals
  <2>u. ASSUME NEW b \in ExecutionCheckpoint, b.result <= invoked, NEW k,
               upsert(w, Stamped(b, mgr[w[1]]["run"]), k)
        PROVE  Held
    <3>1. PICK d : d = Stamped(b, mgr[w[1]]["run"])
      OBVIOUS
    <3>2. d \in ExecutionCheckpoint /\ d.result = b.result
      BY <2>0, <3>1, StampedAdds
    <3>3. QED
      BY <2>0, <2>u, <3>1, <3>2, UpsertResults
  <2>1. CASE Enter(w) \/ PlanStage(w) \/ WorkStage(w)
    <3>1. \/ op' = op
          \/ \E c \in {ckpt, cur[w]} : \E next, k : \E stage \in {c.stage, "post-planning"} :
                transitionAndCheckpoint(w, "run", c, next, stage, k)
      BY <2>0, <2>1 DEF Enter, PlanStage, WorkStage
    <3>2. QED
      BY <1>0, <1>1, <1>s, <2>0, <3>1, TransitionResults
  <2>2. CASE Planning(w) \/ Working(w) \/ Ready(w)
    <3>1. PICK a, b, c :
            /\ a = [cur[w] EXCEPT !.plan = TRUE, !.stage = "post-planning"]
            /\ b = [cur[w] EXCEPT !.plan = loc[w].plan, !.work = TRUE,
                                  !.stage = "post-workflow"]
            /\ c = [cur[w] EXCEPT !.plan = loc[w].plan, !.work = loc[w].work,
                                  !.stage = "pre-invoke"]
      OBVIOUS
    <3>2. a \in ExecutionCheckpoint /\ a.result <= invoked
      BY <2>0, <3>1 DEF ExecutionCheckpoint, ExecutionStage
    <3>3. b \in ExecutionCheckpoint /\ b.result <= invoked
      BY <2>0, <3>1 DEF ExecutionCheckpoint, ExecutionStage
    <3>4. c \in ExecutionCheckpoint /\ c.result <= invoked
      BY <2>0, <3>1 DEF ExecutionCheckpoint, ExecutionStage
    <3>5. op' = op \/ \E d \in {a, b, c} : \E k : upsert(w, Stamped(d, mgr[w[1]]["run"]), k)
      BY <2>2, <3>1 DEF Planning, Working, Ready
    <3>6. QED
      BY <1>s, <2>u, <3>2, <3>3, <3>4, <3>5
  <2>3. CASE Invoked(w)
    <3>1. PICK b : b = [ckpt EXCEPT !.plan = loc[w].plan, !.work = loc[w].work,
                                    !.result = loc[w].call, !.stage = "post-invoke"]
      OBVIOUS
    <3>2. b \in ExecutionCheckpoint /\ b.result <= invoked
      BY <1>1, <2>0, <3>1 DEF ExecutionCheckpoint, ExecutionStage
    <3>3. upsert(w, Stamped(b, mgr[w[1]]["run"]), "return")
      BY <2>0, <2>3, <3>1 DEF Invoked
    <3>4. QED
      BY <2>u, <3>2, <3>3
  <2>4. CASE PersistToolLoop(w)
    BY <1>1, <2>0, <2>4, UpsertResults DEF PersistToolLoop
  <2>5. CASE Invoke(w) \/ InvokeReturns(w) \/ Return(w)
    BY <1>s, <2>5 DEF Invoke, InvokeReturns, Return
  <2>6. QED
    BY <1>11, <2>1, <2>2, <2>3, <2>4, <2>5 DEF WorkerStep
<1>12. QED
  BY <1>0, <1>4, <1>5, <1>6, <1>7, <1>8, <1>9, <1>10, <1>11 DEF Next

LEMMA ResultsNext ==
  ASSUME OneHost, IInv, RecordInv, Exact(ckpt), ResultsInv, IInv', [Next]_vars
  PROVE  ResultsInv'
<1>1. /\ invoked \in Nat /\ invoked' \in Nat /\ invoked <= invoked'
      /\ Host' = Host
  BY CallsOnlyGrow DEF Host
<1>2. /\ ckpt'.result \in Nat
      /\ \A t \in Threads : cur'[t].result \in Nat /\ op'[t].rec.result \in Nat
      /\ main'[Host].value \in Nat
  BY HostFacts DEF IInv, StoreOK, CurOK, OpOK, MainOK, StoreCall, ExecutionCheckpoint, MainLocals
<1>3. /\ ckpt'.result <= invoked
      /\ \A t \in Threads : cur'[t].result <= invoked /\ op'[t].rec.result <= invoked
      /\ \A w \in Workers : loc'[w].call <= invoked'
      /\ main'[Host].value <= invoked
  BY DurableResults, HeldResults, StoredResults
<1>4. \A a, b, c \in Nat : a <= b /\ b <= c => a <= c
  OBVIOUS
<1>5. QED
  BY <1>1, <1>2, <1>3, <1>4 DEF ResultsInv

LEMMA ResultsInit ==
  ASSUME OneHost, Init
  PROVE  ResultsInv
BY HostFacts DEF Init, ResultsInv, seedCheckpoint, NoOp, NoLoc, NoMain, NoResult

(* There is one attempt: RetryManager may not retry, or no failure is        *)
(* retryable.                                                               *)
OneAttempt == MaxAttempts = 1 \/ Retryable = {}

(* ResultNotRecomputed, for one host that makes one attempt and whose        *)
(* policies force no retry: once a result is durable, however the process    *)
(* crashes, boots and recovers (#recoverOne, runtime.ts 600-690, and the     *)
(* resume at post-invoke of #runDelegatedStages), the capability is not      *)
(* called again: the only call there may be has been made.                   *)
THEOREM ResultsAreKept ==
  ASSUME OneHost, AbandonedIsFinal, NeverForced, OneAttempt
  PROVE  Spec => ResultNotRecomputed
<1> DEFINE Inv == /\ IInv /\ RecordInv /\ DeferInv /\ SoleInv /\ Exact(ckpt)
                  /\ WriteInv(ckpt) /\ CountInv(ckpt) /\ ResultsInv
<1>1. Init => Inv
  BY InitInv, RecordInit, DeferInit, SoleInit, WriteInit, CountInit, ResultsInit
<1>2. Inv /\ [Next]_vars => Inv'
  BY NextInv, RecordNext, DeferNext, SoleNext, ExactNext, WriteNext, CountNext, ResultsNext
<1>3. Inv /\ Inv' /\ [Next]_vars => [hasValidCapabilityResult(ckpt) => invoked' = invoked]_vars
  <2> SUFFICES ASSUME Inv, Inv', [Next]_vars, hasValidCapabilityResult(ckpt)
               PROVE  invoked' = invoked
    OBVIOUS
  <2>1. Limit = 1
    BY RuntimeAssumption DEF Limit, OneAttempt
  <2>2. invoked' <= 1 /\ invoked \in Nat /\ invoked' \in {invoked, invoked + 1}
    BY <2>1, CallsOnlyGrow DEF CountInv
  <2>3. ckpt.result \in Nat /\ ckpt.result # 0 /\ ckpt.result <= invoked
    BY DEF hasValidCapabilityResult, NoResult, ResultsInv, IInv, StoreOK, ExecutionCheckpoint
  <2>4. QED
    BY <2>2, <2>3
<1>4. QED
  BY <1>1, <1>2, <1>3, PTL DEF Spec, ResultNotRecomputed

=============================================================================
