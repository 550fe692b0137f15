------------------------ MODULE RuntimeExecutionProofs ------------------------
(***************************************************************************)
(* For every number of processes and attempts, every policy and every      *)
(* number of faults: RuntimeExecution is type correct, and its durable     *)
(* checkpoint is a legal lifecycle (TypeOK, DurableLifecycle).             *)
(*                                                                         *)
(* The inductive invariant says the same of every checkpoint a coroutine   *)
(* holds or is storing, and of every state manager: a checkpoint becomes   *)
(* durable only out of those.                                              *)
(*                                                                         *)
(* Then, as generally: nothing the pipeline has made durable is lost       *)
(* (ArtifactsKept), and an execution is recorded as completed only with    *)
(* its result (CompletedHasResult).  The argument: a checkpoint becomes    *)
(* durable only if the revision it was read at is still that of the store, *)
(* so it is enough that every copy of the current revision has all that is *)
(* durable; and a coroutine that has come far enough to overwrite an       *)
(* artifact with a local holds one.                                        *)
(***************************************************************************)
EXTENDS RuntimeExecution, TLAPS

-----------------------------------------------------------------------------
(* Checkpoints and histories. *)

(* Normalising a record whose state is the end of a legal path makes it     *)
(* lawful.                                                                  *)
LEMMA NormalizedLawful ==
  ASSUME NEW c \in ExecutionCheckpoint, LegalPath(c.history), c.state = Last(c.history)
  PROVE  /\ Normalized(c) \in ExecutionCheckpoint
         /\ Lawful(Normalized(c))
<1>1. isTerminalState(c.state) \in BOOLEAN
  BY DEF isTerminalState
<1>2. Normalized(c) \in ExecutionCheckpoint
  BY <1>1 DEF Normalized, ExecutionCheckpoint, ExecutionStage
<1>3. /\ Normalized(c).history = c.history
      /\ Normalized(c).state = c.state
      /\ Normalized(c).terminal = isTerminalState(c.state)
      /\ isTerminalState(c.state) => Normalized(c).stage = "terminal"
  BY DEF Normalized, ExecutionCheckpoint
<1>4. QED
  BY <1>2, <1>3 DEF Lawful

(* A legal path ends in a state.                                            *)
LEMMA LastState ==
  ASSUME NEW h \in Seq(ExecutionState), LegalPath(h)
  PROVE  Last(h) \in ExecutionState
BY DEF LegalPath, Last

(* A stamped checkpoint carries the manager's history and ends with it.     *)
LEMMA StampedPath ==
  ASSUME NEW c \in ExecutionCheckpoint, NEW h \in Seq(ExecutionState), LegalPath(h)
  PROVE  /\ Stamped(c, h) \in ExecutionCheckpoint
         /\ Stamped(c, h).history = h
         /\ Stamped(c, h).state = Last(h)
BY LastState DEF Stamped, ExecutionCheckpoint

(* A legal transition extends a legal path.                                 *)
LEMMA LegalStep ==
  ASSUME NEW h \in Seq(ExecutionState), LegalPath(h), NEW next,
         next \in transitions[Last(h)]
  PROVE  /\ Append(h, next) \in Seq(ExecutionState)
         /\ LegalPath(Append(h, next))
<1>1. Last(h) \in ExecutionState
  BY LastState
<1>2. next \in ExecutionState
  BY <1>1 DEF transitions, ExecutionState
<1>3. Append(h, next) \in Seq(ExecutionState)
  BY <1>2
<1>4. LegalPath(Append(h, next))
  BY <1>2 DEF LegalPath, Last
<1>5. QED
  BY <1>3, <1>4

(* A record in a state that is not terminal, and not flagged so, is lawful. *)
LEMMA OpenLawful ==
  ASSUME NEW c, LegalPath(c.history), c.state = Last(c.history),
         c.terminal = FALSE, isTerminalState(c.state) = FALSE
  PROVE  Lawful(c)
BY Zenon DEF Lawful

(* The checkpoint every coroutine starts with, and the first one stored.    *)
LEMMA SeedLawful ==
  /\ seedCheckpoint \in ExecutionCheckpoint
  /\ Lawful(seedCheckpoint)
  /\ LegalPath(<<"created">>) /\ <<"created">> \in Seq(ExecutionState)
<1>1. seedCheckpoint \in ExecutionCheckpoint
  BY DEF seedCheckpoint, ExecutionCheckpoint, ExecutionState, ExecutionStage, NoResult
<1>2. LegalPath(<<"created">>) /\ <<"created">> \in Seq(ExecutionState)
  BY DEF LegalPath, ExecutionState
<1>3. Lawful(seedCheckpoint)
  <2>1. /\ seedCheckpoint.history = <<"created">>
        /\ seedCheckpoint.state = Last(seedCheckpoint.history)
        /\ seedCheckpoint.terminal = FALSE
    BY DEF seedCheckpoint, Last
  <2>2. isTerminalState(seedCheckpoint.state) = FALSE
    BY DEF seedCheckpoint, isTerminalState
  <2>3. QED
    BY <1>2, <2>1, <2>2, OpenLawful
<1>4. QED
  BY <1>1, <1>2, <1>3

LEMMA InitializingLawful ==
  LET h == <<"created", "initializing">> IN
  /\ h \in Seq(ExecutionState) /\ LegalPath(h)
  /\ Stamped(seedCheckpoint, h) \in ExecutionCheckpoint
  /\ Lawful(Stamped(seedCheckpoint, h))
<1> DEFINE h == <<"created", "initializing">>
<1>1. h \in Seq(ExecutionState) /\ LegalPath(h) /\ Last(h) = "initializing"
  BY DEF LegalPath, ExecutionState, transitions, Last
<1>2. /\ Stamped(seedCheckpoint, h) \in ExecutionCheckpoint
      /\ Stamped(seedCheckpoint, h).history = h
      /\ Stamped(seedCheckpoint, h).state = Last(h)
  BY <1>1, SeedLawful, StampedPath
<1>3. Stamped(seedCheckpoint, h).terminal = FALSE
  BY DEF Stamped, seedCheckpoint
<1>4. isTerminalState(Stamped(seedCheckpoint, h).state) = FALSE
  BY <1>1, <1>2 DEF isTerminalState
<1>5. Lawful(Stamped(seedCheckpoint, h))
  BY <1>1, <1>2, <1>3, <1>4, OpenLawful
<1>6. QED
  BY <1>1, <1>2, <1>5

-----------------------------------------------------------------------------
(* The inductive invariant, in parts that actions disturb separately. *)

StoreOK == ckpt \in ExecutionCheckpoint /\ Lawful(ckpt) /\ policy \in Policies
MgrOK   == /\ mgr \in [Procs -> [Slot -> Seq(ExecutionState)]]
           /\ \A p \in Procs, s \in Slot : LegalPath(mgr[p][s])
PcOK    == pc \in [Threads -> Label]
MainOK  == main \in [Procs -> MainLocals]
CurOK   == /\ cur \in [Threads -> ExecutionCheckpoint]
           /\ \A t \in Threads : Lawful(cur[t])
OpOK    == /\ op \in [Threads -> StoreCall]
           /\ \A t \in Threads : Lawful(op[t].rec)
LocOK   == loc \in [Workers -> WorkerLocals]
EnvOK   == /\ expired \in BOOLEAN
           /\ aborted \in [Procs -> BOOLEAN]
           /\ budget \in [crash : Nat, store : Nat, publish : Nat]
GhostOK == /\ answer \in [kind : {"unsent", "pending", "completed", "failed",
                                  "cancelled"}, value : Nat]
           /\ invoked \in Nat
           /\ finals \in Nat

IInv == /\ StoreOK /\ MgrOK /\ PcOK /\ MainOK /\ CurOK /\ OpOK /\ LocOK
        /\ EnvOK /\ GhostOK

(* The parts are the type invariant and the inductive lifecycle invariant.  *)
LEMMA InvParts == IInv <=> TypeOK /\ LifecycleInv
BY DEF IInv, StoreOK, MgrOK, PcOK, MainOK, CurOK, OpOK, LocOK, EnvOK, GhostOK,
       TypeOK, LifecycleInv

(* Main coroutines and workers are threads.                                 *)
LEMMA ThreadFacts ==
  /\ \A p \in Procs : Main(p) \in Threads /\ Main(p)[1] = p /\ Main(p)[2] = 0
  /\ \A w \in Workers : w \in Threads /\ w[1] \in Procs
  /\ \A t \in Threads : t[1] \in Procs
BY RuntimeAssumption DEF Threads, Workers, Main

LEMMA LabelFacts ==
  {"down", "idle", "authorize", "schedule", "attempt", "run", "await", "retry",
   "backoff", "succeeded", "completed", "catch", "fail", "cancelled", "reach",
   "terminalize", "answer", "recover", "resume", "resumeRun", "resumed",
   "resumeCatch", "bootCheck", "finished", "off", "enter", "plan", "planning",
   "work", "working", "ready", "invoke", "invoking", "invoked", "return", "done",
   "store", "reload"} \subseteq Label
BY DEF Label, MainLabel, WorkerLabel

(* The locals a thread starts with.                                         *)
LEMMA NoOpLawful == NoOp \in StoreCall /\ Lawful(NoOp.rec)
BY SeedLawful, LabelFacts DEF NoOp, StoreCall

LEMMA NoMainTyped == NoMain \in MainLocals
BY LabelFacts DEF NoMain, MainLocals, NoResult, Slot

LEMMA NoLocTyped == NoLoc \in WorkerLocals
BY DEF NoLoc, WorkerLocals, NoResult, ExecutionStage

-----------------------------------------------------------------------------
(* The building blocks preserve the parts they touch. *)

LEMMA GotoOK ==
  ASSUME PcOK, NEW t \in Threads, NEW k \in Label, Goto(t, k)
  PROVE  PcOK'
BY DEF PcOK, Goto

(* An exception moves only control, to a label and with an error code.      *)
LEMMA ThrowOK ==
  ASSUME PcOK, MainOK, NEW t \in Threads, NEW e \in ErrorCode, Throw(t, e)
  PROVE  PcOK' /\ MainOK'
<1> DEFINE p == t[1]
           heard == t[2] = 0 \/ Awaited(t)
           kept == t[2] = 0 /\ main[p].handler = "answer"
<1>1. p \in Procs
  BY ThreadFacts
<1>2. main[p].handler \in Label
  BY <1>1 DEF MainOK, MainLocals
<1>3. PcOK'
  BY <1>2, LabelFacts DEF PcOK, Throw
<1>4. main' = [main EXCEPT ![p] = [main[p] EXCEPT !.err = IF heard /\ ~kept THEN e
                                                         ELSE main[p].err]]
  BY DEF Throw
<1> HIDE DEF heard, kept
<1>5. [main[p] EXCEPT !.err = IF heard /\ ~kept THEN e ELSE main[p].err] \in MainLocals
  BY <1>1 DEF MainOK, MainLocals
<1>6. MainOK'
  BY <1>1, <1>4, <1>5 DEF MainOK
<1>7. QED
  BY <1>3, <1>6

(* A lawful checkpoint handed to the store keeps the pending calls lawful.  *)
LEMMA CallStoreOK ==
  ASSUME PcOK, MainOK, OpOK, NEW t \in Threads, NEW c \in ExecutionCheckpoint,
         Lawful(c), NEW fact \in BOOLEAN, NEW k \in Label, CallStore(t, c, fact, k)
  PROVE  PcOK' /\ MainOK' /\ OpOK'
<1>1. PcOK'
  BY LabelFacts DEF PcOK, CallStore
<1>2. MainOK'
  BY DEF MainOK, CallStore
<1> DEFINE call == [rec |-> c, fact |-> fact, then |-> k]
<1>3. call \in StoreCall /\ call.rec = c
  BY DEF StoreCall
<1>4. op' = [op EXCEPT ![t] = call]
  BY DEF CallStore
<1> HIDE DEF call
<1>5. OpOK'
  BY <1>3, <1>4 DEF OpOK
<1>6. QED
  BY <1>1, <1>2, <1>5

LEMMA UpsertOK ==
  ASSUME PcOK, MainOK, OpOK, NEW t \in Threads, NEW c \in ExecutionCheckpoint,
         LegalPath(c.history), c.state = Last(c.history), NEW k \in Label,
         upsert(t, c, k)
  PROVE  PcOK' /\ MainOK' /\ OpOK'
<1>1. Normalized(c) \in ExecutionCheckpoint /\ Lawful(Normalized(c))
  BY NormalizedLawful
<1>2. CASE Unbacked(c)
  <2>1. Throw(t, "FAILED") /\ UNCHANGED op
    BY <1>2 DEF upsert
  <2>2. PcOK' /\ MainOK'
    BY <2>1, ThrowOK DEF ErrorCode
  <2>3. QED
    BY <2>1, <2>2 DEF OpOK
<1>3. CASE ~Unbacked(c)
  BY <1>1, <1>3, CallStoreOK DEF upsert
<1>4. QED
  BY <1>2, <1>3

(* A transition appends to one manager and stores what that manager holds.  *)
LEMMA TransitionOK ==
  ASSUME PcOK, MainOK, OpOK, MgrOK, NEW t \in Threads, NEW s \in Slot,
         NEW c \in ExecutionCheckpoint, NEW next, NEW stage \in ExecutionStage,
         NEW k \in Label, transitionAndCheckpoint(t, s, c, next, stage, k)
  PROVE  PcOK' /\ MainOK' /\ OpOK' /\ MgrOK'
<1> DEFINE p == t[1]
           h == mgr[p][s]
           history == Append(h, next)
           d == Stamped([c EXCEPT !.stage = stage], history)
           rec == Normalized(d)
<1>1. p \in Procs
  BY ThreadFacts
<1>2. h \in Seq(ExecutionState) /\ LegalPath(h)
  BY <1>1 DEF MgrOK
<1>3. CASE next \in transitions[StateOf(p, s)]
  <2>1. history \in Seq(ExecutionState) /\ LegalPath(history)
    BY <1>2, <1>3, LegalStep DEF StateOf
  <2>2. [c EXCEPT !.stage = stage] \in ExecutionCheckpoint
    BY DEF ExecutionCheckpoint
  <2>3. rec \in ExecutionCheckpoint /\ Lawful(rec)
    <3>1. d \in ExecutionCheckpoint /\ d.history = history /\ d.state = Last(history)
      BY <2>1, <2>2, StampedPath
    <3> HIDE DEF d, history
    <3>2. QED
      BY <2>1, <3>1, NormalizedLawful
  <2>4. mgr' = [mgr EXCEPT ![p][s] = history]
    BY <1>3 DEF transitionAndCheckpoint
  <2>5. \/ Throw(t, "FAILED") /\ UNCHANGED op
        \/ CallStore(t, rec, TRUE, k)
    BY <1>3 DEF transitionAndCheckpoint
  <2> HIDE DEF p, h, history, rec
  <2>6. MgrOK'
    BY <1>1, <2>1, <2>4 DEF MgrOK
  <2>7. CASE Throw(t, "FAILED") /\ UNCHANGED op
    BY <2>6, <2>7, ThrowOK DEF ErrorCode, OpOK
  <2>8. CASE CallStore(t, rec, TRUE, k)
    BY <2>3, <2>6, <2>8, CallStoreOK
  <2>9. QED
    BY <2>5, <2>7, <2>8
<1>4. CASE next \notin transitions[StateOf(p, s)]
  <2>1. Throw(t, "FAILED") /\ UNCHANGED <<mgr, op>>
    BY <1>4 DEF transitionAndCheckpoint
  <2>2. PcOK' /\ MainOK'
    BY <2>1, ThrowOK DEF ErrorCode
  <2>3. QED
    BY <2>1, <2>2 DEF OpOK, MgrOK
<1>5. QED
  BY <1>3, <1>4

(* What a load returns is as lawful as the store and the caller's copy.     *)
LEMMA LoadedOK ==
  ASSUME StoreOK, CurOK, NEW t \in Threads
  PROVE  Loaded(t) \in ExecutionCheckpoint /\ Lawful(Loaded(t))
BY DEF StoreOK, CurOK, Loaded

LEMMA CurUpdateOK ==
  ASSUME CurOK, NEW t \in Threads, NEW c \in ExecutionCheckpoint, Lawful(c),
         cur' = [cur EXCEPT ![t] = c]
  PROVE  CurOK'
BY DEF CurOK

LEMMA MainUpdateOK ==
  ASSUME MainOK, NEW p \in Procs, NEW m \in MainLocals, main' = [main EXCEPT ![p] = m]
  PROVE  MainOK'
BY DEF MainOK

(* A copy of a lawful checkpoint with other artifacts, under the history of *)
(* a manager, can be upserted.                                              *)
LEMMA StampOK ==
  ASSUME MgrOK, NEW p \in Procs, NEW s \in Slot, NEW c \in ExecutionCheckpoint
  PROVE  LET d == Stamped(c, mgr[p][s])
         IN  d \in ExecutionCheckpoint /\ LegalPath(d.history) /\ d.state = Last(d.history)
BY StampedPath DEF MgrOK

(* A part whose variables an action leaves alone is preserved.              *)
LEMMA Same ==
  /\ StoreOK /\ UNCHANGED store => StoreOK'
  /\ MgrOK /\ UNCHANGED mgr => MgrOK'
  /\ PcOK /\ UNCHANGED pc => PcOK'
  /\ MainOK /\ UNCHANGED main => MainOK'
  /\ CurOK /\ UNCHANGED cur => CurOK'
  /\ OpOK /\ UNCHANGED op => OpOK'
  /\ LocOK /\ UNCHANGED loc => LocOK'
  /\ EnvOK /\ UNCHANGED env => EnvOK'
  /\ GhostOK /\ UNCHANGED ghost => GhostOK'
BY DEF StoreOK, MgrOK, PcOK, MainOK, CurOK, OpOK, LocOK, EnvOK, GhostOK, store, env, ghost

-----------------------------------------------------------------------------
(* Every action preserves the invariant: the store. *)

(* A write makes durable a lawful record, with the next revision.           *)
LEMMA CommitOK ==
  ASSUME StoreOK, OpOK, NEW t \in Threads, UNCHANGED policy,
         ckpt' = [op[t].rec EXCEPT !.rev = @ + 1]
  PROVE  StoreOK'
<1> DEFINE c == op[t].rec
<1>1. c \in ExecutionCheckpoint /\ Lawful(c)
  BY DEF OpOK, StoreCall
<1>2. /\ ckpt' \in ExecutionCheckpoint
      /\ ckpt'.history = c.history /\ ckpt'.state = c.state
      /\ ckpt'.terminal = c.terminal /\ ckpt'.stage = c.stage
  BY <1>1 DEF ExecutionCheckpoint
<1> HIDE DEF c
<1>3. Lawful(ckpt')
  BY <1>1, <1>2 DEF Lawful
<1>4. policy' \in Policies
  BY DEF StoreOK
<1>5. QED
  BY <1>2, <1>3, <1>4 DEF StoreOK

LEMMA StoreStepOK ==
  ASSUME IInv, NEW t \in Threads, StoreStep(t)
  PROVE  IInv'
<1> USE DEF IInv
<1>1. CASE StoreCommits(t)
  <2>1. StoreOK'
    BY <1>1, CommitOK DEF StoreCommits
  <2>2. PcOK'
    BY <1>1, GotoOK, LabelFacts DEF StoreCommits
  <2>3. QED
    BY <1>1, <2>1, <2>2, Same DEF StoreCommits
<1>2. CASE StoreConflicts(t)
  <2>1. PcOK' /\ MainOK'
    BY <1>2, ThrowOK DEF StoreConflicts, ErrorCode
  <2>2. QED
    BY <1>2, <2>1, Same DEF StoreConflicts, store
<1>3. CASE StoreFails(t)
  <2>1. PcOK' /\ MainOK'
    BY <1>3, ThrowOK DEF StoreFails, ErrorCode
  <2>2. StoreOK'
    <3>1. CASE UNCHANGED ckpt
      BY <1>3, <3>1 DEF StoreFails, StoreOK
    <3>2. CASE ckpt' = [op[t].rec EXCEPT !.rev = @ + 1]
      BY <1>3, <3>2, CommitOK DEF StoreFails
    <3>3. QED
      BY <1>3, <3>1, <3>2 DEF StoreFails
  <2>3. EnvOK'
    BY <1>3 DEF StoreFails, EnvOK
  <2>4. QED
    BY <1>3, <2>1, <2>2, <2>3, Same DEF StoreFails
<1>4. CASE Reload(t)
  <2>1. CurOK'
    BY <1>4, CurUpdateOK DEF Reload, StoreOK
  <2>2. PcOK'
    BY <1>4, GotoOK DEF Reload, OpOK, StoreCall
  <2>3. OpOK'
    BY <1>4, NoOpLawful DEF Reload, OpOK
  <2>4. GhostOK'
    BY <1>4 DEF Reload, GhostOK
  <2>5. QED
    BY <1>4, <2>1, <2>2, <2>3, <2>4, Same DEF Reload, store
<1>5. CASE PublishFails(t)
  <2>1. PcOK' /\ MainOK'
    BY <1>5, ThrowOK DEF PublishFails, ErrorCode
  <2>2. OpOK'
    BY <1>5, NoOpLawful DEF PublishFails, OpOK
  <2>3. EnvOK'
    BY <1>5 DEF PublishFails, EnvOK
  <2>4. QED
    BY <1>5, <2>1, <2>2, <2>3, Same DEF PublishFails, store
<1>6. QED
  BY <1>1, <1>2, <1>3, <1>4, <1>5 DEF StoreStep

-----------------------------------------------------------------------------
(* Every action preserves the invariant: execute(). *)

LEMMA StartWorkerOK ==
  ASSUME PcOK, CurOK, LocOK, NEW p \in Procs, NEW i, NEW from \in ExecutionStage,
         NEW reinvoke \in BOOLEAN, StartWorker(p, i, from, reinvoke)
  PROVE  PcOK' /\ CurOK' /\ LocOK'
<1>1. PcOK'
  BY LabelFacts DEF PcOK, StartWorker
<1>2. CurOK'
  BY ThreadFacts DEF CurOK, StartWorker
<1>3. LocOK'
  <2> DEFINE l == [NoLoc EXCEPT !.from = from, !.reinvoke = reinvoke]
  <2>1. l \in WorkerLocals
    BY NoLocTyped DEF WorkerLocals
  <2>2. loc' = [loc EXCEPT ![<<p, i>>] = l]
    BY DEF StartWorker
  <2> HIDE DEF l
  <2>3. QED
    BY <2>1, <2>2 DEF LocOK
<1>4. QED
  BY <1>1, <1>2, <1>3

LEMMA ExecuteStepOK ==
  ASSUME IInv, NEW p \in Procs, ExecuteStep(p)
  PROVE  IInv'
<1> DEFINE t == Main(p)
<1> USE DEF IInv
<1>0. /\ t \in Threads /\ t[1] = p
      /\ "run" \in Slot
      /\ Loaded(t) \in ExecutionCheckpoint /\ Lawful(Loaded(t))
      /\ cur[t] \in ExecutionCheckpoint
  BY ThreadFacts, LoadedOK DEF Slot, CurOK
<1>1. CASE Authorize(p)
  <2> DEFINE c == [cur[t] EXCEPT !.snapshot = TRUE]
             d == Stamped(c, mgr[p]["run"])
  <2>1. c \in ExecutionCheckpoint
    BY <1>0 DEF ExecutionCheckpoint
  <2>2. d \in ExecutionCheckpoint /\ LegalPath(d.history) /\ d.state = Last(d.history)
    BY <1>0, <2>1, StampOK
  <2>3. \/ Throw(t, "FAILED") /\ UNCHANGED op
        \/ upsert(t, d, "schedule")
    BY <1>1 DEF Authorize
  <2> HIDE DEF c, d
  <2>4. PcOK' /\ MainOK' /\ OpOK'
    BY <1>0, <2>2, <2>3, ThrowOK, UpsertOK, LabelFacts, Same DEF ErrorCode
  <2>5. QED
    BY <1>1, <2>4, Same DEF Authorize, store
<1>2. CASE Schedule(p)
  <2>1. PcOK' /\ MainOK'
    BY <1>0, <1>2, ThrowOK, GotoOK, LabelFacts, Same DEF Schedule, ErrorCode
  <2>2. QED
    BY <1>2, <2>1, Same DEF Schedule, store
<1>3. CASE Attempt(p)
  <2> DEFINE call == [rec |-> Normalized(Loaded(t)), fact |-> FALSE, then |-> "run"]
  <2>1. Normalized(Loaded(t)) \in ExecutionCheckpoint /\ Lawful(Normalized(Loaded(t)))
    BY <1>0, NormalizedLawful DEF Lawful
  <2>2. call \in StoreCall /\ Lawful(call.rec)
    BY <2>1, LabelFacts DEF StoreCall
  <2>3. op' = [op EXCEPT ![t] = call]
    BY <1>3 DEF Attempt
  <2> HIDE DEF call
  <2>4. OpOK'
    BY <2>2, <2>3 DEF OpOK
  <2>5. MainOK'
    <3> DEFINE m == [main[p] EXCEPT !.attempt = @ + 1, !.handler = "retry"]
    <3>0. main[p] \in MainLocals /\ main[p].attempt + 1 \in Nat /\ "retry" \in Label
      BY LabelFacts DEF MainOK, MainLocals
    <3>1. m \in MainLocals
      BY <3>0 DEF MainLocals
    <3>2. main' = [main EXCEPT ![p] = m]
      BY <1>3 DEF Attempt
    <3> HIDE DEF m
    <3>3. QED
      BY <3>1, <3>2, MainUpdateOK
  <2>6. CurOK'
    BY <1>0, <1>3, CurUpdateOK DEF Attempt
  <2>7. PcOK'
    BY <1>3, LabelFacts DEF Attempt, PcOK
  <2>8. QED
    BY <1>3, <2>4, <2>5, <2>6, <2>7, Same DEF Attempt, store
<1>4. CASE Run(p)
  <2>1. PcOK' /\ CurOK' /\ LocOK'
    BY <1>4, StartWorkerOK DEF Run, ExecutionStage
  <2>2. QED
    BY <1>4, <2>1, Same DEF Run, store
<1>5. CASE TimerFires(p)
  <2>1. PcOK' /\ MainOK'
    BY <1>0, <1>5, ThrowOK DEF TimerFires, ErrorCode
  <2>2. QED
    BY <1>5, <2>1, Same DEF TimerFires, store
<1>6. CASE Retry(p)
  <2>1. PcOK'
    BY <1>0, <1>6, GotoOK, LabelFacts DEF Retry
  <2>2. MainOK'
    BY <1>6, LabelFacts DEF Retry, MainOK, MainLocals
  <2>3. QED
    BY <1>6, <2>1, <2>2, Same DEF Retry, store
<1>7. CASE Backoff(p)
  <2>1. Loaded(t).stage \in ExecutionStage
    BY <1>0 DEF ExecutionCheckpoint
  <2>2. PcOK' /\ MainOK' /\ OpOK' /\ MgrOK'
    BY <1>0, <1>7, <2>1, TransitionOK, LabelFacts DEF Backoff
  <2>3. CurOK'
    BY <1>0, <1>7, CurUpdateOK DEF Backoff
  <2>4. QED
    BY <1>7, <2>2, <2>3, Same DEF Backoff, store
<1>8. CASE Succeeded(p)
  <2> DEFINE c == [Loaded(t) EXCEPT !.result = main[p].value]
  <2>1. c \in ExecutionCheckpoint
    BY <1>0 DEF ExecutionCheckpoint, MainOK, MainLocals
  <2>2. transitionAndCheckpoint(t, "run", c, "completing", "post-invoke", "terminalize")
    BY <1>8 DEF Succeeded
  <2> HIDE DEF c
  <2>3. PcOK' /\ MainOK' /\ OpOK' /\ MgrOK'
    BY <1>0, <2>1, <2>2, TransitionOK, LabelFacts DEF ExecutionStage
  <2>4. CurOK'
    BY <1>0, <1>8, CurUpdateOK DEF Succeeded
  <2>5. QED
    BY <1>8, <2>3, <2>4, Same DEF Succeeded, store
<1>9. CASE Completed(p)
  <2>1. PcOK'
    BY <1>0, <1>9, GotoOK, LabelFacts DEF Completed
  <2>2. GhostOK'
    BY <1>9 DEF Completed, GhostOK, MainOK, MainLocals
  <2>3. QED
    BY <1>9, <2>1, <2>2, Same DEF Completed, store
<1>10. CASE Catch(p)
  <2>1. PcOK'
    BY <1>0, <1>10, GotoOK, LabelFacts DEF Catch
  <2>2. MainOK'
    <3> DEFINE target == IF main[p].err = "CANCELLED" THEN "cancelling" ELSE "failed"
               m == [main[p] EXCEPT !.handler = "answer", !.target = target]
    <3>1. m \in MainLocals
      BY LabelFacts DEF MainOK, MainLocals
    <3>2. main' = [main EXCEPT ![p] = m]
      BY <1>10 DEF Catch
    <3> HIDE DEF m
    <3>3. QED
      BY <3>1, <3>2, MainUpdateOK
  <2>3. QED
    BY <1>10, <2>1, <2>2, Same DEF Catch, store
<1>11. CASE Fail(p)
  <2> DEFINE c == [Loaded(t) EXCEPT !.cancelled = TRUE]
  <2>1. c \in ExecutionCheckpoint /\ LegalPath(c.history) /\ c.state = Last(c.history)
    BY <1>0 DEF ExecutionCheckpoint, Lawful
  <2>2. \/ upsert(t, c, "cancelled")
        \/ \E k \in {"answer", "reach"} : Goto(t, k) /\ UNCHANGED <<main, op>>
    BY <1>11 DEF Fail
  <2> HIDE DEF c
  <2>3. PcOK' /\ MainOK' /\ OpOK'
    BY <1>0, <2>1, <2>2, UpsertOK, GotoOK, LabelFacts, Same
  <2>4. CurOK'
    BY <1>0, <1>11, CurUpdateOK DEF Fail
  <2>5. QED
    BY <1>11, <2>3, <2>4, Same DEF Fail, store
<1>12. CASE Cancelled(p)
  <2>1. PcOK'
    BY <1>0, <1>12, GotoOK, LabelFacts DEF Cancelled
  <2>2. QED
    BY <1>12, <2>1, Same DEF Cancelled, store
<1>13. CASE Answer(p)
  <2>1. PcOK'
    BY <1>0, <1>13, GotoOK, LabelFacts DEF Answer
  <2>2. GhostOK'
    BY <1>13 DEF Answer, GhostOK, NoResult
  <2>3. QED
    BY <1>13, <2>1, <2>2, Same DEF Answer, store
<1>14. QED
  BY <1>1, <1>2, <1>3, <1>4, <1>5, <1>6, <1>7, <1>8, <1>9, <1>10, <1>11, <1>12,
     <1>13 DEF ExecuteStep

-----------------------------------------------------------------------------
(* Every action preserves the invariant: #reachState and #terminalize. *)

LEMMA FinishStepOK ==
  ASSUME IInv, NEW p \in Procs, FinishStep(p)
  PROVE  IInv'
<1> DEFINE t == Main(p)
           s == main[p].slot
<1> USE DEF IInv
<1>0. /\ t \in Threads /\ t[1] = p
      /\ s \in Slot
      /\ cur[t] \in ExecutionCheckpoint
      /\ cur[t].stage \in ExecutionStage
      /\ main[p] \in MainLocals
  BY ThreadFacts DEF CurOK, MainOK, MainLocals, ExecutionCheckpoint
<1>1. CASE Reach(p)
  <2> DEFINE hop == NextHop(StateOf(p, s), main[p].target)
             c == [cur[t] EXCEPT !.cancelled = @ \/ hop = "cancelling"]
             k == IF hop = main[p].target THEN "terminalize" ELSE "reach"
  <2>1. c \in ExecutionCheckpoint /\ c.stage \in ExecutionStage
    <3>1. (cur[t].cancelled \/ hop = "cancelling") \in BOOLEAN
      OBVIOUS
    <3> HIDE DEF hop
    <3>2. QED
      BY <1>0, <3>1 DEF ExecutionCheckpoint
  <2>2. k \in Label
    BY LabelFacts
  <2>3. \/ Goto(t, "terminalize") /\ UNCHANGED <<main, op, mgr>>
        \/ transitionAndCheckpoint(t, s, c, hop, c.stage, k)
    BY <1>1 DEF Reach
  <2> HIDE DEF c, hop, k
  <2>4. PcOK' /\ MainOK' /\ OpOK' /\ MgrOK'
    BY <1>0, <2>1, <2>2, <2>3, TransitionOK, GotoOK, LabelFacts, Same
  <2>5. QED
    BY <1>1, <2>4, Same DEF Reach, store
<1>2. CASE Terminalize(p)
  <2> DEFINE target == main[p].target
             done == target = "cancelling"
             c == [cur[t] EXCEPT
                    !.result = IF target = "completing" THEN main[p].value ELSE @,
                    !.cancelled = @ \/ done]
             d == Stamped(c, mgr[p][s])
             k == IF main[p].kind # "execute" THEN "finished"
                  ELSE IF target = "completing" THEN "completed" ELSE "answer"
  <2>1. c \in ExecutionCheckpoint
    <3>1. /\ (cur[t].cancelled \/ done) \in BOOLEAN
          /\ main[p].value \in Nat
      BY <1>0 DEF MainLocals
    <3> HIDE DEF done
    <3>2. QED
      BY <1>0, <3>1 DEF ExecutionCheckpoint
  <2>2. d \in ExecutionCheckpoint /\ LegalPath(d.history) /\ d.state = Last(d.history)
    <3> HIDE DEF c
    <3>1. QED
      BY <1>0, <2>1, StampOK
  <2>3. k \in Label
    BY LabelFacts
  <2>4. \/ upsert(t, d, k) /\ UNCHANGED mgr
        \/ transitionAndCheckpoint(t, s, c, FinalState(target), "terminal", k)
    BY <1>2 DEF Terminalize
  <2> HIDE DEF c, d, k
  <2>5. PcOK' /\ MainOK' /\ OpOK' /\ MgrOK'
    <3>1. "terminal" \in ExecutionStage
      BY DEF ExecutionStage
    <3>2. CASE upsert(t, d, k) /\ UNCHANGED mgr
      BY <1>0, <2>2, <2>3, <3>2, UpsertOK, Same
    <3>3. CASE transitionAndCheckpoint(t, s, c, FinalState(target), "terminal", k)
      BY <1>0, <2>1, <2>3, <3>1, <3>3, TransitionOK
    <3>4. QED
      BY <2>4, <3>2, <3>3
  <2>6. QED
    BY <1>2, <2>5, Same DEF Terminalize, store
<1>3. CASE Finished(p)
  <2>1. PcOK'
    BY <1>0, <1>3, GotoOK, LabelFacts DEF Finished
  <2>2. MainOK'
    BY <1>3, NoMainTyped, MainUpdateOK DEF Finished
  <2>3. CurOK'
    BY <1>0, <1>3, SeedLawful, CurUpdateOK DEF Finished
  <2>4. QED
    BY <1>3, <2>1, <2>2, <2>3, Same DEF Finished, store
<1>4. QED
  BY <1>1, <1>2, <1>3 DEF FinishStep

-----------------------------------------------------------------------------
(* Every action preserves the invariant: boot recovery. *)

(* A process that stops leaves nothing but initial locals.                  *)
LEMMA StopProcessOK ==
  ASSUME IInv, NEW p \in Procs, StopProcess(p)
  PROVE  /\ PcOK' /\ MainOK' /\ CurOK' /\ OpOK' /\ LocOK' /\ MgrOK'
         /\ aborted' \in [Procs -> BOOLEAN]
<1> USE DEF IInv
<1>1. PcOK'
  BY LabelFacts DEF StopProcess, PcOK
<1>2. MainOK'
  BY NoMainTyped, MainUpdateOK DEF StopProcess
<1>3. CurOK'
  BY SeedLawful DEF StopProcess, CurOK
<1>4. OpOK'
  BY NoOpLawful DEF StopProcess, OpOK
<1>5. LocOK'
  BY NoLocTyped DEF StopProcess, LocOK
<1>6. MgrOK'
  BY SeedLawful DEF StopProcess, MgrOK
<1>7. aborted' \in [Procs -> BOOLEAN]
  BY DEF StopProcess, EnvOK
<1>8. QED
  BY <1>1, <1>2, <1>3, <1>4, <1>5, <1>6, <1>7

(* A manager rebuilt by fromHistory has walked the table.                   *)
LEMMA FromHistoryOK ==
  ASSUME MgrOK, NEW p \in Procs, NEW s \in Slot, NEW c \in ExecutionCheckpoint,
         Lawful(c), mgr' = [mgr EXCEPT ![p][s] = c.history]
  PROVE  MgrOK'
<1>1. c.history \in Seq(ExecutionState) /\ LegalPath(c.history)
  BY DEF ExecutionCheckpoint, Lawful
<1>2. QED
  BY <1>1 DEF MgrOK

LEMMA RecoverStepOK ==
  ASSUME IInv, NEW p \in Procs, RecoverStep(p)
  PROVE  IInv'
<1> DEFINE t == Main(p)
<1> USE DEF IInv
<1>0. /\ t \in Threads /\ t[1] = p
      /\ "run" \in Slot /\ "end" \in Slot
      /\ Loaded(t) \in ExecutionCheckpoint /\ Lawful(Loaded(t))
      /\ cur[t] \in ExecutionCheckpoint /\ cur[t].stage \in ExecutionStage
      /\ main[p] \in MainLocals
  BY ThreadFacts, LoadedOK DEF Slot, CurOK, ExecutionCheckpoint, MainOK
<1>1. CASE RecoverIgnores(p)
  <2>1. PcOK'
    BY <1>0, <1>1, GotoOK, LabelFacts DEF RecoverIgnores
  <2>2. QED
    BY <1>1, <2>1, Same DEF RecoverIgnores, store
<1>2. CASE RecoverTerminalizes(p)
  <2> DEFINE d == Decision(Loaded(t), main[p].late)
             m == [main[p] EXCEPT !.slot = "end", !.target = d]
  <2>1. d \in {"cancelling", "failed"} /\ main' = [main EXCEPT ![p] = m]
    BY <1>2 DEF RecoverTerminalizes
  <2> HIDE DEF d
  <2>2. m \in MainLocals
    BY <1>0, <2>1 DEF MainLocals
  <2> HIDE DEF m
  <2>3. MainOK'
    BY <2>1, <2>2, MainUpdateOK
  <2>4. MgrOK'
    BY <1>0, <1>2, FromHistoryOK DEF RecoverTerminalizes
  <2>5. CurOK' /\ PcOK'
    BY <1>0, <1>2, CurUpdateOK, GotoOK, LabelFacts DEF RecoverTerminalizes
  <2>6. QED
    BY <1>2, <2>3, <2>4, <2>5, Same DEF RecoverTerminalizes, store
<1>3. CASE RecoverResumes(p)
  <2> DEFINE m == [main[p] EXCEPT !.handler = "resumeCatch", !.attempt = 1]
  <2>1. m \in MainLocals
    BY <1>0, LabelFacts DEF MainLocals
  <2>2. main' = [main EXCEPT ![p] = m]
    BY <1>3 DEF RecoverResumes
  <2> HIDE DEF m
  <2>3. MainOK'
    BY <2>1, <2>2, MainUpdateOK
  <2>4. MgrOK'
    BY <1>0, <1>3, FromHistoryOK DEF RecoverResumes
  <2>5. CurOK' /\ PcOK'
    BY <1>0, <1>3, CurUpdateOK, GotoOK, LabelFacts DEF RecoverResumes
  <2>6. QED
    BY <1>3, <2>3, <2>4, <2>5, Same DEF RecoverResumes, store
<1>4. CASE Resume(p)
  <2>1. \/ transitionAndCheckpoint(t, "run", cur[t], "recovering", cur[t].stage,
                                   "resumeRun")
        \/ Goto(t, "resumeRun") /\ UNCHANGED <<main, op, mgr>>
    BY <1>4 DEF Resume
  <2>2. PcOK' /\ MainOK' /\ OpOK' /\ MgrOK'
    BY <1>0, <2>1, TransitionOK, GotoOK, LabelFacts, Same
  <2>3. QED
    BY <1>4, <2>2, Same DEF Resume, store
<1>5. CASE ResumeRun(p)
  <2>1. PcOK' /\ CurOK' /\ LocOK'
    BY <1>0, <1>5, StartWorkerOK DEF ResumeRun
  <2>2. QED
    BY <1>5, <2>1, Same DEF ResumeRun, store
<1>6. CASE Resumed(p)
  <2>1. PcOK' /\ CurOK'
    BY <1>0, <1>6, CurUpdateOK, GotoOK, LabelFacts DEF Resumed
  <2>2. QED
    BY <1>6, <2>1, Same DEF Resumed, store
<1>7. CASE ResumeCatch(p)
  <2> DEFINE m == [main[p] EXCEPT !.slot = "end", !.handler = "bootCheck",
                                  !.target = "failed"]
  <2>1. m \in MainLocals
    BY <1>0, LabelFacts DEF MainLocals
  <2>2. \/ Goto(t, "finished") /\ UNCHANGED <<main, mgr>>
        \/ /\ mgr' = [mgr EXCEPT ![p]["end"] = Loaded(t).history]
           /\ main' = [main EXCEPT ![p] = m]
           /\ Goto(t, "reach")
    BY <1>7 DEF ResumeCatch
  <2> HIDE DEF m
  <2>3. PcOK' /\ MainOK' /\ MgrOK'
    BY <1>0, <2>1, <2>2, MainUpdateOK, FromHistoryOK, GotoOK, LabelFacts, Same
  <2>4. CurOK'
    <3> DEFINE c == IF main[p].err = "CONFLICT" THEN cur[t] ELSE Loaded(t)
    <3>1. c \in ExecutionCheckpoint /\ Lawful(c)
      BY <1>0 DEF CurOK
    <3>2. cur' = [cur EXCEPT ![t] = c]
      BY <1>7 DEF ResumeCatch
    <3> HIDE DEF c
    <3>3. QED
      BY <1>0, <3>1, <3>2, CurUpdateOK
  <2>5. QED
    BY <1>7, <2>3, <2>4, Same DEF ResumeCatch, store
<1>8. CASE BootCheck(p)
  <2>1. CASE StopProcess(p)
    BY <1>8, <2>1, StopProcessOK, Same DEF BootCheck, store, ghost, EnvOK
  <2>2. CASE Goto(t, "finished") /\ UNCHANGED <<main, cur, op, loc, mgr, aborted>>
    <3>1. PcOK'
      BY <1>0, <2>2, GotoOK, LabelFacts
    <3>2. QED
      BY <1>8, <2>2, <3>1, Same DEF BootCheck, store, env, ghost
  <2>3. QED
    BY <1>8, <2>1, <2>2 DEF BootCheck
<1>9. CASE RecoveryFactFails(p)
  <2>1. StopProcess(p)
    BY <1>9 DEF RecoveryFactFails
  <2>2. EnvOK'
    BY <1>9, <2>1, StopProcessOK DEF RecoveryFactFails, EnvOK
  <2>3. QED
    BY <1>9, <2>1, <2>2, StopProcessOK, Same DEF RecoveryFactFails, store
<1>10. QED
  BY <1>1, <1>2, <1>3, <1>4, <1>5, <1>6, <1>7, <1>8, <1>9 DEF RecoverStep

-----------------------------------------------------------------------------
(* Every action preserves the invariant: delegated work. *)

LEMMA WorkerStepOK ==
  ASSUME IInv, NEW w \in Workers, WorkerStep(w)
  PROVE  IInv'
<1> DEFINE p == w[1]
           l == loc[w]
           h == mgr[p]["run"]
<1> USE DEF IInv
<1>0. /\ w \in Threads /\ p \in Procs /\ "run" \in Slot
      /\ Loaded(w) \in ExecutionCheckpoint /\ Lawful(Loaded(w))
      /\ Loaded(w).stage \in ExecutionStage
      /\ cur[w] \in ExecutionCheckpoint /\ cur[w].stage \in ExecutionStage
      /\ l \in WorkerLocals
      /\ ExecutionStage = {"accepted", "post-planning", "post-workflow", "pre-invoke",
                           "post-invoke", "terminal"}
  BY ThreadFacts, LoadedOK DEF Slot, CurOK, ExecutionCheckpoint, LocOK, ExecutionStage
<1>1. CASE Enter(w)
  <2> DEFINE c == Loaded(w)
             call == IF l.from = "post-invoke" THEN c.result ELSE l.call
             m == [l EXCEPT !.plan = c.plan, !.work = c.work, !.call = call]
             k == IF c.plan THEN "executing" ELSE "planning"
  <2>1. m \in WorkerLocals
    BY <1>0 DEF WorkerLocals, ExecutionCheckpoint
  <2>2. loc' = [loc EXCEPT ![w] = m]
    BY <1>1 DEF Enter
  <2>3. LocOK'
    <3> HIDE DEF m
    <3>1. QED
      BY <2>1, <2>2 DEF LocOK
  <2>4. CurOK'
    BY <1>0, <1>1, CurUpdateOK DEF Enter
  <2>5. \/ Goto(w, "return") /\ UNCHANGED <<main, op, mgr>>
        \/ Throw(w, "FAILED") /\ UNCHANGED <<op, mgr>>
        \/ transitionAndCheckpoint(w, "run", c, k, c.stage, "plan")
        \/ Goto(w, "plan") /\ UNCHANGED <<main, op, mgr>>
    BY <1>1 DEF Enter
  <2> HIDE DEF c, k
  <2>6. PcOK' /\ MainOK' /\ OpOK' /\ MgrOK'
    BY <1>0, <2>5, ThrowOK, TransitionOK, GotoOK, LabelFacts, Same DEF ErrorCode, c
  <2>7. QED
    BY <1>1, <2>3, <2>4, <2>6, Same DEF Enter, store
<1>2. CASE PlanStage(w)
  <2>1. \/ \E k \in {"work", "planning"} : Goto(w, k) /\ UNCHANGED <<main, op, mgr>>
        \/ Throw(w, "FAILED") /\ UNCHANGED <<op, mgr>>
        \/ transitionAndCheckpoint(w, "run", cur[w], "planning", cur[w].stage, "planning")
    BY <1>2 DEF PlanStage
  <2>2. PcOK' /\ MainOK' /\ OpOK' /\ MgrOK'
    BY <1>0, <2>1, ThrowOK, TransitionOK, GotoOK, LabelFacts, Same DEF ErrorCode
  <2>3. QED
    BY <1>2, <2>2, Same DEF PlanStage, store
<1>3. CASE Planning(w)
  <2> DEFINE c == [cur[w] EXCEPT !.plan = TRUE, !.stage = "post-planning"]
             d == Stamped(c, h)
             m == [l EXCEPT !.plan = TRUE]
  <2>1. c \in ExecutionCheckpoint /\ m \in WorkerLocals
    BY <1>0 DEF ExecutionCheckpoint, WorkerLocals
  <2>2. d \in ExecutionCheckpoint /\ LegalPath(d.history) /\ d.state = Last(d.history)
    <3> HIDE DEF c
    <3>1. QED
      BY <1>0, <2>1, StampOK
  <2>3. \/ upsert(w, d, "work") /\ loc' = [loc EXCEPT ![w] = m]
        \/ Throw(w, "FAILED") /\ UNCHANGED <<op, loc>>
    BY <1>3 DEF Planning
  <2> HIDE DEF c, d, m
  <2>4. PcOK' /\ MainOK' /\ OpOK'
    BY <1>0, <2>2, <2>3, ThrowOK, UpsertOK, LabelFacts, Same DEF ErrorCode
  <2>5. LocOK'
    BY <2>1, <2>3 DEF LocOK
  <2>6. QED
    BY <1>3, <2>4, <2>5, Same DEF Planning, store
<1>4. CASE WorkStage(w)
  <2>1. \/ \E k \in {"ready", "working"} : Goto(w, k) /\ UNCHANGED <<main, op, mgr>>
        \/ Throw(w, "FAILED") /\ UNCHANGED <<op, mgr>>
        \/ transitionAndCheckpoint(w, "run", cur[w], "executing", "post-planning",
                                   "working")
    BY <1>4 DEF WorkStage
  <2>2. PcOK' /\ MainOK' /\ OpOK' /\ MgrOK'
    BY <1>0, <2>1, ThrowOK, TransitionOK, GotoOK, LabelFacts, Same DEF ErrorCode
  <2>3. QED
    BY <1>4, <2>2, Same DEF WorkStage, store
<1>5. CASE Working(w)
  <2> DEFINE c == [cur[w] EXCEPT !.plan = l.plan, !.work = TRUE,
                                 !.stage = "post-workflow"]
             d == Stamped(c, h)
             m == [l EXCEPT !.work = TRUE]
  <2>1. c \in ExecutionCheckpoint /\ m \in WorkerLocals
    BY <1>0 DEF ExecutionCheckpoint, WorkerLocals
  <2>2. d \in ExecutionCheckpoint /\ LegalPath(d.history) /\ d.state = Last(d.history)
    <3> HIDE DEF c
    <3>1. QED
      BY <1>0, <2>1, StampOK
  <2>3. \/ upsert(w, d, "ready") /\ loc' = [loc EXCEPT ![w] = m]
        \/ Throw(w, "FAILED") /\ UNCHANGED <<op, loc>>
    BY <1>5 DEF Working
  <2> HIDE DEF c, d, m
  <2>4. PcOK' /\ MainOK' /\ OpOK'
    BY <1>0, <2>2, <2>3, ThrowOK, UpsertOK, LabelFacts, Same DEF ErrorCode
  <2>5. LocOK'
    BY <2>1, <2>3 DEF LocOK
  <2>6. QED
    BY <1>5, <2>4, <2>5, Same DEF Working, store
<1>6. CASE Ready(w)
  <2> DEFINE c == [cur[w] EXCEPT !.plan = l.plan, !.work = l.work,
                                 !.stage = "pre-invoke"]
             d == Stamped(c, h)
  <2>1. c \in ExecutionCheckpoint
    BY <1>0 DEF ExecutionCheckpoint, WorkerLocals
  <2>2. d \in ExecutionCheckpoint /\ LegalPath(d.history) /\ d.state = Last(d.history)
    <3> HIDE DEF c
    <3>1. QED
      BY <1>0, <2>1, StampOK
  <2>3. upsert(w, d, "invoke")
    BY <1>6 DEF Ready
  <2> HIDE DEF c, d
  <2>4. PcOK' /\ MainOK' /\ OpOK'
    BY <1>0, <2>2, <2>3, UpsertOK, LabelFacts
  <2>5. QED
    BY <1>6, <2>4, Same DEF Ready, store
<1>7. CASE Invoke(w)
  <2> DEFINE m == [l EXCEPT !.call = invoked + 1]
  <2>1. invoked + 1 \in Nat
    BY DEF GhostOK
  <2>2. m \in WorkerLocals
    BY <1>0, <2>1 DEF WorkerLocals
  <2>3. \/ Throw(w, "FAILED") /\ UNCHANGED <<invoked, loc>>
        \/ /\ invoked' = invoked + 1
           /\ loc' = [loc EXCEPT ![w] = m]
           /\ Goto(w, "invoking") /\ UNCHANGED main
    BY <1>7 DEF Invoke
  <2> HIDE DEF m
  <2>4. PcOK' /\ MainOK'
    BY <1>0, <2>3, ThrowOK, GotoOK, LabelFacts, Same DEF ErrorCode
  <2>5. LocOK' /\ GhostOK'
    BY <1>7, <2>1, <2>2, <2>3 DEF Invoke, LocOK, GhostOK
  <2>6. QED
    BY <1>7, <2>4, <2>5, Same DEF Invoke, store
<1>8. CASE InvokeReturns(w)
  <2>1. PcOK' /\ MainOK'
    BY <1>0, <1>8, ThrowOK, GotoOK, LabelFacts, Same DEF InvokeReturns, ErrorCode
  <2>2. QED
    BY <1>8, <2>1, Same DEF InvokeReturns, store
<1>9. CASE PersistToolLoop(w)
  <2>1. upsert(w, Loaded(w), "invoking")
    BY <1>9 DEF PersistToolLoop
  <2>2. PcOK' /\ MainOK' /\ OpOK'
    BY <1>0, <2>1, UpsertOK, LabelFacts DEF Lawful
  <2>3. LocOK'
    <3> DEFINE m == [l EXCEPT !.writes = l.writes + 1]
    <3>1. l.writes + 1 \in Nat
      BY <1>0 DEF WorkerLocals
    <3>2. m \in WorkerLocals
      BY <1>0, <3>1 DEF WorkerLocals
    <3>3. loc' = [loc EXCEPT ![w] = m]
      BY <1>9 DEF PersistToolLoop
    <3> HIDE DEF m
    <3>4. QED
      BY <3>2, <3>3 DEF LocOK
  <2>4. QED
    BY <1>9, <2>2, <2>3, Same DEF PersistToolLoop, store
<1>10. CASE Invoked(w)
  <2> DEFINE c == [Loaded(w) EXCEPT !.plan = l.plan, !.work = l.work,
                                    !.result = l.call, !.stage = "post-invoke"]
             d == Stamped(c, h)
  <2>1. c \in ExecutionCheckpoint
    BY <1>0 DEF ExecutionCheckpoint, WorkerLocals
  <2>2. d \in ExecutionCheckpoint /\ LegalPath(d.history) /\ d.state = Last(d.history)
    <3> HIDE DEF c
    <3>1. QED
      BY <1>0, <2>1, StampOK
  <2>3. upsert(w, d, "return")
    BY <1>10 DEF Invoked
  <2> HIDE DEF c, d
  <2>4. PcOK' /\ MainOK' /\ OpOK'
    BY <1>0, <2>2, <2>3, UpsertOK, LabelFacts
  <2>5. QED
    BY <1>10, <2>4, Same DEF Invoked, store
<1>11. CASE Return(w)
  <2>1. PcOK'
    BY <1>11, LabelFacts DEF Return, PcOK
  <2>2. MainOK'
    <3> DEFINE handler == IF main[p].handler = "retry" THEN "catch" ELSE main[p].handler
               m == [main[p] EXCEPT !.value = l.call, !.target = "completing",
                                    !.handler = handler]
    <3>1. main[p] \in MainLocals /\ l.call \in Nat
      BY <1>0 DEF MainOK, WorkerLocals
    <3>2. handler \in Label
      BY <3>1, LabelFacts DEF MainLocals
    <3>3. m \in MainLocals
      <4> HIDE DEF handler
      <4>1. QED
        BY <3>1, <3>2 DEF MainLocals
    <3>4. main' = main \/ main' = [main EXCEPT ![p] = m]
      BY <1>11 DEF Return
    <3> HIDE DEF m
    <3>5. QED
      BY <1>0, <3>3, <3>4, MainUpdateOK, Same
  <2>3. QED
    BY <1>11, <2>1, <2>2, Same DEF Return, store
<1>12. QED
  BY <1>1, <1>2, <1>3, <1>4, <1>5, <1>6, <1>7, <1>8, <1>9, <1>10, <1>11 DEF WorkerStep

-----------------------------------------------------------------------------
(* Every action preserves the invariant: requests, boots and crashes. *)

LEMMA ProcessStepOK ==
  ASSUME IInv, NEW p \in Procs, Boot(p) \/ Start(p) \/ Abort(p) \/ Crash(p)
  PROVE  IInv'
<1> DEFINE t == Main(p)
<1> USE DEF IInv
<1>0. t \in Threads /\ t[1] = p /\ main[p] \in MainLocals
  BY ThreadFacts DEF MainOK
<1>1. CASE Boot(p)
  <2> DEFINE m == [NoMain EXCEPT !.kind = "recover", !.handler = "bootCheck",
                                 !.late = expired]
  <2>1. m \in MainLocals
    BY NoMainTyped, LabelFacts DEF MainLocals, EnvOK
  <2>2. \E v \in {m, NoMain} : main' = [main EXCEPT ![p] = v]
    BY <1>1 DEF Boot
  <2> HIDE DEF m
  <2>3. MainOK'
    BY <2>1, <2>2, NoMainTyped, MainUpdateOK
  <2>4. PcOK'
    BY <1>0, <1>1, GotoOK, LabelFacts DEF Boot
  <2>5. CurOK'
    BY <1>0, <1>1 DEF Boot, CurOK, StoreOK
  <2>6. QED
    BY <1>1, <2>3, <2>4, <2>5, Same DEF Boot, store
<1>2. CASE Start(p)
  <2> DEFINE h == <<"created", "initializing">>
             m == [NoMain EXCEPT !.kind = "execute", !.handler = "catch"]
             call == [rec |-> Stamped(seedCheckpoint, h), fact |-> TRUE,
                      then |-> "authorize"]
  <2>1. m \in MainLocals
    BY NoMainTyped, LabelFacts DEF MainLocals
  <2>2. call \in StoreCall /\ Lawful(call.rec)
    BY InitializingLawful, LabelFacts DEF StoreCall
  <2>3. h \in Seq(ExecutionState) /\ LegalPath(h)
    BY InitializingLawful
  <2>4. /\ main' = [main EXCEPT ![p] = m]
        /\ op' = [op EXCEPT ![t] = call]
        /\ mgr' = [mgr EXCEPT ![p]["run"] = h]
    BY <1>2 DEF Start
  <2> HIDE DEF m, call, h
  <2>5. MainOK' /\ OpOK' /\ MgrOK'
    BY <2>1, <2>2, <2>3, <2>4, MainUpdateOK DEF OpOK, MgrOK
  <2>6. PcOK'
    BY <1>2, LabelFacts DEF Start, PcOK
  <2>7. CurOK'
    BY <1>0, <1>2, SeedLawful, CurUpdateOK DEF Start
  <2>8. GhostOK'
    BY <1>2 DEF Start, GhostOK
  <2>9. QED
    BY <1>2, <2>5, <2>6, <2>7, <2>8, Same DEF Start, store
<1>3. CASE Abort(p)
  <2>1. PcOK' /\ MainOK'
    BY <1>0, <1>3, ThrowOK, Same DEF Abort, ErrorCode
  <2>2. EnvOK'
    BY <1>3 DEF Abort, EnvOK
  <2>3. QED
    BY <1>3, <2>1, <2>2, Same DEF Abort, store
<1>4. CASE Crash(p)
  <2>1. StopProcess(p)
    BY <1>4 DEF Crash
  <2>2. EnvOK'
    BY <1>4, <2>1, StopProcessOK DEF Crash, EnvOK
  <2>3. QED
    BY <1>4, <2>1, <2>2, StopProcessOK, Same DEF Crash, store
<1>5. QED
  BY <1>1, <1>2, <1>3, <1>4

-----------------------------------------------------------------------------
(* The theorems. *)

LEMMA InitInv == Init => IInv
<1> SUFFICES ASSUME Init PROVE IInv
  OBVIOUS
<1> USE DEF Init
<1>1. StoreOK /\ CurOK
  BY SeedLawful DEF StoreOK, CurOK
<1>2. MgrOK
  BY SeedLawful DEF MgrOK
<1>3. PcOK
  BY LabelFacts DEF PcOK
<1>4. MainOK /\ OpOK /\ LocOK
  BY NoMainTyped, NoOpLawful, NoLocTyped DEF MainOK, OpOK, LocOK
<1>5. EnvOK /\ GhostOK
  BY RuntimeAssumption DEF EnvOK, GhostOK, NoResult
<1>6. QED
  BY <1>1, <1>2, <1>3, <1>4, <1>5 DEF IInv

LEMMA NextInv == IInv /\ [Next]_vars => IInv'
<1> SUFFICES ASSUME IInv, [Next]_vars PROVE IInv'
  OBVIOUS
<1>1. ASSUME NEW p \in Procs,
             \/ Boot(p) \/ Start(p) \/ Abort(p) \/ Crash(p)
             \/ ExecuteStep(p) \/ FinishStep(p) \/ RecoverStep(p)
      PROVE  IInv'
  BY <1>1, ProcessStepOK, ExecuteStepOK, FinishStepOK, RecoverStepOK
<1>2. ASSUME NEW t \in Threads, StoreStep(t)
      PROVE  IInv'
  BY <1>2, StoreStepOK
<1>3. ASSUME NEW w \in Workers, WorkerStep(w)
      PROVE  IInv'
  BY <1>3, WorkerStepOK
<1>4. CASE Expire
  <2>1. EnvOK'
    BY <1>4 DEF Expire, IInv, EnvOK
  <2>2. QED
    BY <1>4, <2>1, Same DEF Expire, IInv, store, local, ghost
<1>5. CASE UNCHANGED vars
  BY <1>5, Same DEF vars, IInv, store, env, ghost
<1>6. QED
  BY <1>1, <1>2, <1>3, <1>4, <1>5 DEF Next

(* Type correctness, whatever the number of hosts, attempts and faults.     *)
THEOREM TypeCorrect == Spec => []TypeOK
<1>1. IInv => TypeOK
  BY InvParts
<1>2. QED
  BY <1>1, InitInv, NextInv, PTL DEF Spec

(* The durable checkpoint is at every moment a legal lifecycle: its history *)
(* is a path of the transition table of runtime.ts that ends in its state,  *)
(* and its terminal flag says so, however the writes of execute(), of       *)
(* workers nobody waits for and of boot recoveries interleave.              *)
THEOREM DurableLifecycleHolds == Spec => []DurableLifecycle
<1>1. IInv => DurableLifecycle
  BY DEF IInv, StoreOK, DurableLifecycle
<1>2. QED
  BY <1>1, InitInv, NextInv, PTL DEF Spec


-----------------------------------------------------------------------------
(* Artifacts: the inductive invariant.  Its parts relate values, so         *)
(* that they read the same in the next state.                              *)

Completing == {"completing", "completed"}

(* What may be said of a copy c while d is durable: it is not newer, if it  *)
(* is as new it has every artifact, and it is completing only with the      *)
(* result durable.                                                         *)
Copy(d, c) ==
  /\ c.rev <= d.rev
  /\ c.rev = d.rev => Kept(d, c)
  /\ c.state \in Completing => hasValidCapabilityResult(d)

(* A copy that was read from the store has no result that is not durable.  *)
Read(d, c) ==
  /\ Copy(d, c)
  /\ hasValidCapabilityResult(c) => hasValidCapabilityResult(d)

(* What a worker that has come to k holds in its locals l.                 *)
Holds(k, l) ==
  /\ k \in {"work", "working", "ready", "invoke", "invoking", "invoked"} => l.plan
  /\ k \in {"ready", "invoke", "invoking", "invoked"} => l.work
  /\ k \in {"invoking", "invoked", "return"} => l.call # NoResult

(* A worker at k with store call o: it holds this already while it stores  *)
(* the checkpoint before k, and it returns only past a store of its result. *)
WorkerFact(d, k, o, l) ==
  /\ Holds(IF k \in {"store", "reload"} THEN o.then ELSE k, l)
  /\ k = "return" => hasValidCapabilityResult(d)
  /\ k = "store" /\ o.then = "return" => hasValidCapabilityResult(o.rec)
  /\ k = "reload" /\ o.then = "return" => hasValidCapabilityResult(d)

Handlers == {"down", "catch", "retry", "answer", "bootCheck", "resumeCatch"}

(* A main coroutine at k with store call o and locals m: it heads for       *)
(* completion only with a result in hand that is durable.                   *)
MainFact(d, k, o, m) ==
  /\ m.handler \in Handlers
  /\ k \in {"store", "reload"} => o.then \notin {"succeeded", "resumed"}
  /\ k \in {"succeeded", "resumed"} => m.target = "completing"
  /\ m.target = "completing" => m.value # NoResult /\ hasValidCapabilityResult(d)

StoredOK   == (ckpt.rev = 0 => Kept(ckpt, seedCheckpoint)) /\ Copy(ckpt, ckpt)
CopiesOK   == \A t \in Threads : Read(ckpt, cur[t])
CallsOK    == \A t \in Threads : Copy(ckpt, op[t].rec)
ManagersOK == \A p \in Procs, s \in Slot :
                StateOf(p, s) \in Completing => hasValidCapabilityResult(ckpt)
WorkersOK  == \A w \in Workers : WorkerFact(ckpt, pc[w], op[w], loc[w])
MainsOK    == \A p \in Procs : MainFact(ckpt, pc[Main(p)], op[Main(p)], main[p])

RecordInv == StoredOK /\ CopiesOK /\ CallsOK /\ ManagersOK /\ WorkersOK /\ MainsOK

-----------------------------------------------------------------------------
(* Copies. *)

(* A copy that adds artifacts to a copy, and completes only with a result.  *)
LEMMA CopyOfCopy ==
  ASSUME NEW d, NEW c, NEW x, Copy(d, c), x.rev = c.rev, Kept(c, x),
         x.state \in Completing => hasValidCapabilityResult(d)
  PROVE  Copy(d, x)
BY DEF Copy, Kept, hasValidCapabilityResult

LEMMA KeptReflexive == \A c : Kept(c, c)
BY DEF Kept

LEMMA NormalizedKeeps ==
  ASSUME NEW c \in ExecutionCheckpoint
  PROVE  /\ Normalized(c).rev = c.rev /\ Normalized(c).state = c.state
         /\ Kept(c, Normalized(c))
BY DEF Normalized, Kept, ExecutionCheckpoint, hasValidCapabilityResult

LEMMA StampedKeeps ==
  ASSUME NEW c \in ExecutionCheckpoint, NEW h
  PROVE  /\ Stamped(c, h).rev = c.rev /\ Stamped(c, h).state = Last(h)
         /\ Kept(c, Stamped(c, h))
BY DEF Stamped, Kept, ExecutionCheckpoint, hasValidCapabilityResult

LEMMA NormalizedCopy ==
  ASSUME NEW d, NEW c \in ExecutionCheckpoint, Copy(d, c)
  PROVE  Copy(d, Normalized(c))
BY NormalizedKeeps, CopyOfCopy DEF Copy

(* The checkpoint a coroutine starts with is a copy of whatever is durable. *)
LEMMA SeedCopy ==
  ASSUME StoreOK, StoredOK
  PROVE  Read(ckpt, seedCheckpoint) /\ Copy(ckpt, NoOp.rec)
<1>1. ckpt.rev \in Nat
  BY DEF StoreOK, ExecutionCheckpoint
<1>2. /\ seedCheckpoint.rev = 0 /\ seedCheckpoint.state = "created"
      /\ NoOp.rec = seedCheckpoint
      /\ ~hasValidCapabilityResult(seedCheckpoint)
  BY DEF seedCheckpoint, NoOp, hasValidCapabilityResult
<1>3. QED
  BY <1>1, <1>2 DEF StoredOK, Read, Copy, Completing

LEMMA LoadedCopy ==
  ASSUME StoreOK, StoredOK, CopiesOK, NEW t \in Threads
  PROVE  Read(ckpt, Loaded(t)) /\ Copy(ckpt, Loaded(t))
BY DEF StoredOK, CopiesOK, Loaded, Read

(* A stamped copy is a copy: a manager completes only with the result.      *)
LEMMA StampedCopy ==
  ASSUME ManagersOK, NEW p \in Procs, NEW s \in Slot, NEW c \in ExecutionCheckpoint,
         Copy(ckpt, c)
  PROVE  Copy(ckpt, Stamped(c, mgr[p][s]))
<1>1. Stamped(c, mgr[p][s]).state = StateOf(p, s)
  BY StampedKeeps DEF StateOf
<1>2. QED
  BY <1>1, StampedKeeps, CopyOfCopy DEF ManagersOK

-----------------------------------------------------------------------------
(* Control. *)

LEMMA ThreadKinds ==
  /\ \A p \in Procs : Main(p) \notin Workers
  /\ \A t \in Threads : t \in Workers \/ \E p \in Procs : t = Main(p)
  /\ \A p, q \in Procs : Main(p) = Main(q) => p = q
  /\ \A w \in Workers : w[2] # 0
BY RuntimeAssumption DEF Threads, Workers, Main

(* A step of t moves t, its store call and its locals, and nobody else's.   *)
LEMMA MoveOK ==
  ASSUME IInv, WorkersOK, MainsOK, UNCHANGED ckpt, NEW t \in Threads,
         \A u \in Threads : u # t => pc'[u] = pc[u] /\ op'[u] = op[u],
         \A w \in Workers : w # t => loc'[w] = loc[w],
         \A p \in Procs : Main(p) # t => main'[p] = main[p],
         t \in Workers => WorkerFact(ckpt, pc'[t], op'[t], loc'[t]),
         \A p \in Procs : Main(p) = t => MainFact(ckpt, pc'[t], op'[t], main'[p])
  PROVE  WorkersOK' /\ MainsOK'
<1>1. WorkersOK'
  BY ThreadFacts DEF WorkersOK
<1>2. MainsOK'
  <2> SUFFICES ASSUME NEW p \in Procs
               PROVE  MainFact(ckpt', pc'[Main(p)], op'[Main(p)], main'[p])
    BY DEF MainsOK, Main
  <2>1. Main(p) \in Threads
    BY ThreadFacts
  <2>2. QED
    BY <2>1 DEF MainsOK
<1>3. QED
  BY <1>1, <1>2

(* What an exception in t does to control and to the main locals.           *)
LEMMA ThrowEffect ==
  ASSUME IInv, NEW t \in Threads, NEW e \in ErrorCode, Throw(t, e)
  PROVE  /\ \A w \in Workers : pc'[w] = IF w = t THEN "done" ELSE pc[w]
         /\ \A p \in Procs : \/ pc'[Main(p)] = main[p].handler
                             \/ pc'[Main(p)] = pc[Main(p)] /\ t # Main(p)
         /\ \A p \in Procs : /\ main'[p].handler = main[p].handler
                             /\ main'[p].target = main[p].target
                             /\ main'[p].value = main[p].value
<1> DEFINE q == t[1]
<1>0. q \in Procs
  BY ThreadFacts
<1>1. \A w \in Workers : pc'[w] = IF w = t THEN "done" ELSE pc[w]
  BY <1>0, ThreadFacts, ThreadKinds DEF Throw
<1>2. \A p \in Procs : \/ pc'[Main(p)] = main[p].handler
                       \/ pc'[Main(p)] = pc[Main(p)] /\ t # Main(p)
  BY <1>0, ThreadFacts, ThreadKinds DEF Throw
<1>3. PICK x : main' = [main EXCEPT ![q] = [main[q] EXCEPT !.err = x]]
  BY DEF Throw
<1>4. ASSUME NEW p \in Procs
      PROVE  /\ main'[p].handler = main[p].handler
             /\ main'[p].target = main[p].target
             /\ main'[p].value = main[p].value
  BY <1>0, <1>3 DEF IInv, MainOK, MainLocals
<1>5. QED
  BY <1>1, <1>2, <1>4

(* An exception releases t from what it holds, and wakes at most a handler. *)
LEMMA ThrowRecord ==
  ASSUME IInv, WorkersOK, MainsOK, UNCHANGED ckpt, NEW t \in Threads,
         NEW e \in ErrorCode, Throw(t, e),
         \A u \in Threads : u # t => op'[u] = op[u],
         \A w \in Workers : w # t => loc'[w] = loc[w]
  PROVE  WorkersOK' /\ MainsOK'
<1>1. WorkersOK'
  <2> SUFFICES ASSUME NEW w \in Workers
               PROVE  WorkerFact(ckpt', pc'[w], op'[w], loc'[w])
    BY DEF WorkersOK
  <2>1. CASE w = t
    BY <2>1, ThrowEffect DEF WorkerFact, Holds
  <2>2. CASE w # t
    BY <2>2, ThrowEffect, ThreadFacts DEF WorkersOK
  <2>3. QED
    BY <2>1, <2>2
<1>2. MainsOK'
  <2> SUFFICES ASSUME NEW p \in Procs
               PROVE  MainFact(ckpt', pc'[Main(p)], op'[Main(p)], main'[p])
    BY DEF MainsOK, Main
  <2>1. MainFact(ckpt, pc[Main(p)], op[Main(p)], main[p]) /\ Main(p) \in Threads
    BY ThreadFacts DEF MainsOK
  <2>2. CASE pc'[Main(p)] = main[p].handler
    BY <2>1, <2>2, ThrowEffect DEF MainFact, Handlers
  <2>3. CASE pc'[Main(p)] = pc[Main(p)] /\ t # Main(p)
    BY <2>1, <2>3, ThrowEffect DEF MainFact
  <2>4. QED
    BY <2>2, <2>3, ThrowEffect
<1>3. QED
  BY <1>1, <1>2

-----------------------------------------------------------------------------
(* The building blocks. *)

LEMMA GotoRecord ==
  ASSUME IInv, WorkersOK, MainsOK, UNCHANGED <<ckpt, op>>, NEW t \in Threads, NEW k,
         Goto(t, k),
         \A w \in Workers : w # t => loc'[w] = loc[w],
         \A p \in Procs : Main(p) # t => main'[p] = main[p],
         t \in Workers => WorkerFact(ckpt, k, op[t], loc'[t]),
         \A p \in Procs : Main(p) = t => MainFact(ckpt, k, op[t], main'[p])
  PROVE  WorkersOK' /\ MainsOK'
<1>1. pc'[t] = k /\ \A u \in Threads : u # t => pc'[u] = pc[u]
  BY DEF Goto, IInv, PcOK
<1>2. QED
  BY <1>1, MoveOK

(* To issue a store is to hold already what is needed after it.             *)
LEMMA CallStoreRecord ==
  ASSUME IInv, WorkersOK, MainsOK, CallsOK, UNCHANGED ckpt, NEW t \in Threads, NEW c,
         NEW fact, NEW k, CallStore(t, c, fact, k), Copy(ckpt, c),
         k \notin {"succeeded", "resumed"},
         \A w \in Workers : w # t => loc'[w] = loc[w],
         t \in Workers => Holds(k, loc'[t]),
         k = "return" => hasValidCapabilityResult(c)
  PROVE  WorkersOK' /\ MainsOK' /\ CallsOK'
<1> DEFINE call == [rec |-> c, fact |-> fact, then |-> k]
<1>1. call.rec = c /\ call.then = k
  OBVIOUS
<1>2. op' = [op EXCEPT ![t] = call]
  BY DEF CallStore
<1> HIDE DEF call
<1>3. op'[t] = call /\ \A u \in Threads : u # t => op'[u] = op[u]
  BY <1>2 DEF IInv, OpOK
<1>4. pc'[t] = "store" /\ \A u \in Threads : u # t => pc'[u] = pc[u]
  BY DEF CallStore, IInv, PcOK
<1>5. main' = main
  BY DEF CallStore
<1>6. t \in Workers => WorkerFact(ckpt, pc'[t], op'[t], loc'[t])
  BY <1>1, <1>3, <1>4 DEF WorkerFact
<1>7. \A p \in Procs : Main(p) = t => MainFact(ckpt, pc'[t], op'[t], main'[p])
  BY <1>1, <1>3, <1>4, <1>5 DEF MainFact, MainsOK
<1>8. WorkersOK' /\ MainsOK'
  BY <1>3, <1>4, <1>5, <1>6, <1>7, MoveOK
<1>9. CallsOK'
  BY <1>1, <1>3 DEF CallsOK
<1>10. QED
  BY <1>8, <1>9

LEMMA UpsertRecord ==
  ASSUME IInv, WorkersOK, MainsOK, CallsOK, UNCHANGED ckpt, NEW t \in Threads,
         NEW c \in ExecutionCheckpoint, NEW k, upsert(t, c, k), Copy(ckpt, c),
         k \notin {"succeeded", "resumed"},
         \A w \in Workers : w # t => loc'[w] = loc[w],
         t \in Workers => Holds(k, loc'[t]),
         k = "return" => hasValidCapabilityResult(c)
  PROVE  WorkersOK' /\ MainsOK' /\ CallsOK'
<1>1. CASE Throw(t, "FAILED") /\ UNCHANGED op
  BY <1>1, ThrowRecord DEF ErrorCode, CallsOK
<1>2. CASE CallStore(t, Normalized(c), FALSE, k)
  BY <1>2, NormalizedCopy, NormalizedKeeps, CallStoreRecord DEF Kept
<1>3. QED
  BY <1>1, <1>2 DEF upsert

(* A transition into completion needs the result to be durable.             *)
LEMMA TransitionRecord ==
  ASSUME IInv, WorkersOK, MainsOK, CallsOK, ManagersOK, UNCHANGED ckpt,
         NEW t \in Threads, NEW s \in Slot, NEW c \in ExecutionCheckpoint, NEW next,
         NEW stage \in ExecutionStage, NEW k,
         transitionAndCheckpoint(t, s, c, next, stage, k), Copy(ckpt, c),
         next \in Completing => hasValidCapabilityResult(ckpt),
         k \notin {"succeeded", "resumed", "return"},
         \A w \in Workers : w # t => loc'[w] = loc[w],
         t \in Workers => Holds(k, loc'[t])
  PROVE  WorkersOK' /\ MainsOK' /\ CallsOK' /\ ManagersOK'
<1> DEFINE p == t[1]
           h == mgr[p][s]
           history == Append(h, next)
           b == [c EXCEPT !.stage = stage]
           d == Stamped(b, history)
           rec == Normalized(d)
<1>0. p \in Procs
  BY ThreadFacts
<1>1. h \in Seq(ExecutionState) /\ LegalPath(h)
  BY <1>0 DEF IInv, MgrOK
<1>2. CASE next \in transitions[StateOf(p, s)]
  <2>1. history \in Seq(ExecutionState) /\ LegalPath(history)
    BY <1>1, <1>2, LegalStep DEF StateOf
  <2>2. b \in ExecutionCheckpoint /\ b.rev = c.rev /\ Kept(c, b)
    BY DEF ExecutionCheckpoint, Kept, hasValidCapabilityResult
  <2>3. Last(history) = next
    <3>1. next \in ExecutionState
      BY <1>1, <1>2, LastState DEF StateOf, transitions, ExecutionState
    <3>2. QED
      BY <1>1, <3>1 DEF Last
  <2> HIDE DEF b
  <2>4. d \in ExecutionCheckpoint /\ Copy(ckpt, d)
    <3>1. d \in ExecutionCheckpoint
      BY <2>1, <2>2, StampedPath
    <3>2. d.rev = c.rev /\ d.state = next /\ Kept(b, d)
      BY <2>2, <2>3, StampedKeeps
    <3>3. Kept(c, d)
      BY <2>2, <3>2 DEF Kept
    <3> HIDE DEF d
    <3>4. QED
      BY <3>1, <3>2, <3>3, CopyOfCopy
  <2>5. mgr' = [mgr EXCEPT ![p][s] = history]
    BY <1>2 DEF transitionAndCheckpoint
  <2>6. ManagersOK'
    <3>1. ASSUME NEW q \in Procs, NEW r \in Slot
          PROVE  Last(mgr'[q][r]) = Last(mgr[q][r]) \/ Last(mgr'[q][r]) = next
      BY <1>0, <2>3, <2>5 DEF IInv, MgrOK
    <3>2. QED
      BY <3>1 DEF ManagersOK, StateOf
  <2>7. \/ Throw(t, "FAILED") /\ UNCHANGED op
        \/ CallStore(t, rec, TRUE, k)
    BY <1>2 DEF transitionAndCheckpoint, b
  <2>8. CASE Throw(t, "FAILED") /\ UNCHANGED op
    BY <2>6, <2>8, ThrowRecord DEF ErrorCode, CallsOK
  <2>9. CASE CallStore(t, rec, TRUE, k)
    <3> HIDE DEF d
    <3>1. Copy(ckpt, rec)
      BY <2>4, NormalizedCopy
    <3> HIDE DEF rec
    <3>2. QED
      BY <2>6, <2>9, <3>1, CallStoreRecord
  <2>10. QED
    BY <2>7, <2>8, <2>9
<1>3. CASE next \notin transitions[StateOf(p, s)]
  <2>1. Throw(t, "FAILED") /\ UNCHANGED <<mgr, op>>
    BY <1>3 DEF transitionAndCheckpoint
  <2>2. QED
    BY <2>1, ThrowRecord DEF ErrorCode, CallsOK, ManagersOK, StateOf
<1>4. QED
  BY <1>2, <1>3

(* What an action leaves alone keeps its part.                              *)
LEMMA RecordSame ==
  /\ StoredOK /\ UNCHANGED ckpt => StoredOK'
  /\ CopiesOK /\ UNCHANGED <<ckpt, cur>> => CopiesOK'
  /\ CallsOK /\ UNCHANGED <<ckpt, op>> => CallsOK'
  /\ ManagersOK /\ UNCHANGED <<ckpt, mgr>> => ManagersOK'
  /\ WorkersOK /\ UNCHANGED <<ckpt, pc, op, loc>> => WorkersOK'
  /\ MainsOK /\ UNCHANGED <<ckpt, pc, op, main>> => MainsOK'
BY DEF StoredOK, CopiesOK, CallsOK, ManagersOK, WorkersOK, MainsOK, Main, StateOf

LEMMA CurUpdateCopy ==
  ASSUME IInv, CopiesOK, UNCHANGED ckpt, NEW t \in Threads, NEW c, Read(ckpt, c),
         cur' = [cur EXCEPT ![t] = c]
  PROVE  CopiesOK'
BY DEF IInv, CurOK, CopiesOK

(* fromHistory: a manager that replays a copy's history is where it is.     *)
LEMMA FromHistoryRecord ==
  ASSUME IInv, ManagersOK, UNCHANGED ckpt, NEW p \in Procs, NEW s \in Slot, NEW c,
         Copy(ckpt, c), Lawful(c), mgr' = [mgr EXCEPT ![p][s] = c.history]
  PROVE  ManagersOK'
<1>1. ASSUME NEW q \in Procs, NEW r \in Slot
      PROVE  Last(mgr'[q][r]) = Last(mgr[q][r]) \/ Last(mgr'[q][r]) = c.state
  BY DEF IInv, MgrOK, Lawful
<1>2. QED
  BY <1>1 DEF ManagersOK, StateOf, Copy

-----------------------------------------------------------------------------
(* Every action preserves the invariant: the store. *)

(* A commit keeps every artifact, and leaves every other copy behind.       *)
LEMMA CommitKeeps ==
  ASSUME IInv, RecordInv, NEW t \in Threads, op[t].rec.rev = ckpt.rev,
         ckpt' = [op[t].rec EXCEPT !.rev = @ + 1]
  PROVE  /\ ckpt'.rev = ckpt.rev + 1 /\ Kept(ckpt, ckpt')
         /\ StoredOK'
         /\ \A c \in ExecutionCheckpoint : /\ Copy(ckpt, c) => Copy(ckpt', c)
                                           /\ Read(ckpt, c) => Read(ckpt', c)
<1> DEFINE c == op[t].rec
<1>1. c \in ExecutionCheckpoint /\ c.rev \in Nat /\ Copy(ckpt, c) /\ ckpt.rev \in Nat
  BY DEF IInv, OpOK, StoreCall, StoreOK, RecordInv, CallsOK, ExecutionCheckpoint
<1>2. /\ ckpt'.rev = c.rev + 1 /\ ckpt'.state = c.state
      /\ Kept(c, ckpt') /\ Kept(ckpt', c)
  BY <1>1 DEF ExecutionCheckpoint, Kept, hasValidCapabilityResult
<1> HIDE DEF c
<1>3. c.rev = ckpt.rev /\ Kept(ckpt, c)
  BY <1>1 DEF Copy, c
<1>4. Kept(ckpt, ckpt')
  BY <1>2, <1>3 DEF Kept
<1>5. StoredOK'
  BY <1>1, <1>2, <1>3, <1>4, KeptReflexive DEF StoredOK, Copy, Kept
<1>6. ASSUME NEW x \in ExecutionCheckpoint, Copy(ckpt, x)
      PROVE  Copy(ckpt', x)
  <2>1. x.rev \in Nat
    BY DEF ExecutionCheckpoint
  <2>2. QED
    BY <1>1, <1>2, <1>3, <1>4, <1>6, <2>1 DEF Copy, Kept
<1>7. hasValidCapabilityResult(ckpt) => hasValidCapabilityResult(ckpt')
  BY <1>4 DEF Kept
<1>8. ASSUME NEW x \in ExecutionCheckpoint, Read(ckpt, x)
      PROVE  Read(ckpt', x)
  BY <1>6, <1>7, <1>8 DEF Read
<1>9. ckpt'.rev = ckpt.rev + 1
  BY <1>2, <1>3
<1>10. QED
  BY <1>4, <1>5, <1>6, <1>8, <1>9

(* The parts that a commit could disturb without touching a coroutine.      *)
LEMMA CommitRecord ==
  ASSUME IInv, RecordInv, NEW t \in Threads, op[t].rec.rev = ckpt.rev,
         ckpt' = [op[t].rec EXCEPT !.rev = @ + 1], UNCHANGED <<cur, op, mgr, loc>>
  PROVE  /\ StoredOK' /\ CopiesOK' /\ CallsOK' /\ ManagersOK'
         /\ \A w \in Workers : \A k : WorkerFact(ckpt, k, op[w], loc[w])
                                   => WorkerFact(ckpt', k, op[w], loc[w])
         /\ \A p \in Procs : \A k : MainFact(ckpt, k, op[Main(p)], main[p])
                                 => MainFact(ckpt', k, op[Main(p)], main[p])
<1>1. hasValidCapabilityResult(ckpt) => hasValidCapabilityResult(ckpt')
  BY CommitKeeps DEF Kept
<1>2. StoredOK' /\ CopiesOK' /\ CallsOK'
  <2>1. \A u \in Threads : cur[u] \in ExecutionCheckpoint /\ op[u].rec \in ExecutionCheckpoint
    BY DEF IInv, CurOK, OpOK, StoreCall
  <2>2. \A c \in ExecutionCheckpoint : /\ Copy(ckpt, c) => Copy(ckpt', c)
                                       /\ Read(ckpt, c) => Read(ckpt', c)
    BY CommitKeeps
  <2>3. CopiesOK' /\ CallsOK'
    BY <2>1, <2>2 DEF RecordInv, CopiesOK, CallsOK
  <2>4. QED
    BY <2>3, CommitKeeps
<1>3. ManagersOK'
  BY <1>1 DEF RecordInv, ManagersOK, StateOf
<1>4. QED
  BY <1>1, <1>2, <1>3 DEF WorkerFact, MainFact

LEMMA StoreStepRecord ==
  ASSUME IInv, RecordInv, NEW t \in Threads, StoreStep(t)
  PROVE  RecordInv' /\ Kept(ckpt, ckpt')
<1> USE DEF RecordInv
<1>1. CASE StoreCommits(t)
  <2>1. /\ pc'[t] = "reload" /\ pc[t] = "store"
        /\ \A u \in Threads : u # t => pc'[u] = pc[u]
        /\ UNCHANGED <<cur, op, mgr, loc, main>>
    BY <1>1 DEF StoreCommits, Goto, IInv, PcOK
  <2>2. StoredOK' /\ CopiesOK' /\ CallsOK' /\ ManagersOK' /\ Kept(ckpt, ckpt')
    BY <1>1, <2>1, CommitRecord, CommitKeeps DEF StoreCommits
  <2>3. ckpt'.result = op[t].rec.result
    BY <1>1 DEF StoreCommits, IInv, OpOK, StoreCall, ExecutionCheckpoint
  <2>4. WorkersOK'
    <3> SUFFICES ASSUME NEW w \in Workers
                 PROVE  WorkerFact(ckpt', pc'[w], op'[w], loc'[w])
      BY DEF WorkersOK
    <3>1. WorkerFact(ckpt, pc[w], op[w], loc[w])
      BY DEF WorkersOK
    <3>2. CASE w = t
      BY <2>1, <2>3, <3>1, <3>2 DEF WorkerFact, hasValidCapabilityResult
    <3>3. CASE w # t
      BY <1>1, <2>1, <3>1, <3>3, CommitRecord, ThreadFacts DEF StoreCommits
    <3>4. QED
      BY <3>2, <3>3
  <2>5. MainsOK'
    <3> SUFFICES ASSUME NEW p \in Procs
                 PROVE  MainFact(ckpt', pc'[Main(p)], op'[Main(p)], main'[p])
      BY DEF MainsOK, Main
    <3>1. MainFact(ckpt', pc[Main(p)], op[Main(p)], main[p])
      BY <1>1, <2>1, CommitRecord DEF StoreCommits, MainsOK
    <3>2. QED
      BY <2>1, <3>1, ThreadFacts DEF MainFact
  <2>6. QED
    BY <2>2, <2>4, <2>5
<1>2. CASE StoreConflicts(t)
  BY <1>2, ThrowRecord, RecordSame, KeptReflexive DEF StoreConflicts, store, ErrorCode
<1>3. CASE StoreFails(t)
  <2>1. UNCHANGED <<cur, op, mgr, loc>> /\ Throw(t, "FAILED")
    BY <1>3 DEF StoreFails
  <2>2. CASE UNCHANGED ckpt
    BY <2>1, <2>2, ThrowRecord, RecordSame, KeptReflexive DEF ErrorCode
  <2>3. CASE op[t].rec.rev = ckpt.rev /\ ckpt' = [op[t].rec EXCEPT !.rev = @ + 1]
    <3>1. StoredOK' /\ CopiesOK' /\ CallsOK' /\ ManagersOK' /\ Kept(ckpt, ckpt')
      BY <2>1, <2>3, CommitRecord, CommitKeeps
    <3>2. WorkersOK'
      <4> SUFFICES ASSUME NEW w \in Workers
                   PROVE  WorkerFact(ckpt', pc'[w], op[w], loc[w])
        BY <2>1 DEF WorkersOK
      <4>1. CASE w = t
        BY <2>1, <4>1, ThrowEffect DEF WorkerFact, Holds, ErrorCode
      <4>2. CASE w # t
        BY <2>1, <2>3, <4>2, ThrowEffect, CommitRecord DEF WorkersOK, ErrorCode
      <4>3. QED
        BY <4>1, <4>2
    <3>3. MainsOK'
      <4> SUFFICES ASSUME NEW p \in Procs
                   PROVE  MainFact(ckpt', pc'[Main(p)], op[Main(p)], main'[p])
        BY <2>1 DEF MainsOK, Main
      <4>1. MainFact(ckpt', pc[Main(p)], op[Main(p)], main[p])
        BY <2>1, <2>3, CommitRecord DEF MainsOK
      <4>2. \/ pc'[Main(p)] = main[p].handler
            \/ pc'[Main(p)] = pc[Main(p)]
        BY <2>1, ThrowEffect DEF ErrorCode
      <4>3. /\ main'[p].handler = main[p].handler /\ main'[p].target = main[p].target
            /\ main'[p].value = main[p].value
        BY <2>1, ThrowEffect DEF ErrorCode
      <4>4. QED
        BY <4>1, <4>2, <4>3 DEF MainFact, Handlers
    <3>4. QED
      BY <3>1, <3>2, <3>3
  <2>4. QED
    BY <1>3, <2>2, <2>3 DEF StoreFails
<1>4. CASE Reload(t)
  <2>1. /\ UNCHANGED <<ckpt, main, loc, mgr>>
        /\ pc[t] = "reload" /\ pc'[t] = op[t].then /\ op'[t] = NoOp
        /\ \A u \in Threads : u # t => pc'[u] = pc[u] /\ op'[u] = op[u]
    BY <1>4 DEF Reload, Goto, store, IInv, PcOK, OpOK
  <2>2. NoOp.then = "off"
    BY DEF NoOp
  <2>3. t \in Workers => WorkerFact(ckpt, pc'[t], op'[t], loc'[t])
    <3> SUFFICES ASSUME t \in Workers
                 PROVE  WorkerFact(ckpt, pc'[t], op'[t], loc[t])
      BY <2>1
    <3>1. WorkerFact(ckpt, pc[t], op[t], loc[t])
      BY DEF WorkersOK
    <3>2. QED
      BY <2>1, <2>2, <3>1 DEF WorkerFact, Holds
  <2>4. \A p \in Procs : Main(p) = t => MainFact(ckpt, pc'[t], op'[t], main'[p])
    BY <2>1, <2>2 DEF MainsOK, MainFact
  <2>5. WorkersOK' /\ MainsOK'
    BY <2>1, <2>3, <2>4, MoveOK
  <2>6. CallsOK' /\ CopiesOK'
    <3>1. CopiesOK'
      BY <1>4, <2>1, CurUpdateCopy DEF Reload, StoredOK, Read
    <3>2. CallsOK'
      BY <2>1, SeedCopy DEF CallsOK, IInv
    <3>3. QED
      BY <3>1, <3>2
  <2>7. QED
    BY <2>1, <2>5, <2>6, RecordSame, KeptReflexive
<1>5. CASE PublishFails(t)
  <2>1. /\ UNCHANGED <<ckpt, cur, loc, mgr>> /\ op'[t] = NoOp
        /\ \A u \in Threads : u # t => op'[u] = op[u]
    BY <1>5 DEF PublishFails, store, IInv, OpOK
  <2>2. WorkersOK' /\ MainsOK'
    BY <1>5, <2>1, ThrowRecord DEF PublishFails, ErrorCode
  <2>3. CallsOK'
    BY <2>1, SeedCopy DEF CallsOK, IInv
  <2>4. QED
    BY <2>1, <2>2, <2>3, RecordSame, KeptReflexive
<1>6. QED
  BY <1>1, <1>2, <1>3, <1>4, <1>5 DEF StoreStep

-----------------------------------------------------------------------------
(* Every action preserves the invariant: execute() and its ends. *)

(* What the steps of a process find.                                        *)
LEMMA MainContext ==
  ASSUME IInv, RecordInv, NEW p \in Procs
  PROVE  /\ Main(p) \in Threads /\ Main(p) \notin Workers /\ Main(p)[1] = p
         /\ "run" \in Slot /\ "end" \in Slot /\ main[p] \in MainLocals
         /\ cur[Main(p)] \in ExecutionCheckpoint /\ Read(ckpt, cur[Main(p)])
         /\ Copy(ckpt, cur[Main(p)])
         /\ cur[Main(p)].stage \in ExecutionStage
         /\ Loaded(Main(p)) \in ExecutionCheckpoint /\ Read(ckpt, Loaded(Main(p)))
         /\ Copy(ckpt, Loaded(Main(p)))
         /\ Loaded(Main(p)).stage \in ExecutionStage /\ Lawful(Loaded(Main(p)))
         /\ MainFact(ckpt, pc[Main(p)], op[Main(p)], main[p])
         /\ \A q \in Procs : Main(q) = Main(p) => q = p
BY ThreadFacts, ThreadKinds, LoadedOK, LoadedCopy
   DEF IInv, RecordInv, CurOK, CopiesOK, MainOK, MainsOK, Slot, ExecutionCheckpoint, Read

(* A worker starts with nothing to hold, and the main coroutine waits.      *)
LEMMA StartWorkerRecord ==
  ASSUME IInv, RecordInv, NEW p \in Procs, NEW i, NEW from, NEW reinvoke,
         StartWorker(p, i, from, reinvoke), UNCHANGED <<ckpt, main, op>>
  PROVE  WorkersOK' /\ MainsOK' /\ CopiesOK'
<1> USE DEF RecordInv
<1>1. WorkersOK'
  <2> SUFFICES ASSUME NEW w \in Workers
               PROVE  WorkerFact(ckpt', pc'[w], op'[w], loc'[w])
    BY DEF WorkersOK
  <2>1. w \in Threads /\ w # Main(p)
    BY ThreadFacts, ThreadKinds
  <2>2. CASE w = <<p, i>>
    BY <2>1, <2>2 DEF StartWorker, IInv, PcOK, WorkerFact, Holds
  <2>3. CASE w # <<p, i>>
    BY <2>1, <2>3 DEF StartWorker, IInv, PcOK, LocOK, WorkersOK
  <2>4. QED
    BY <2>2, <2>3
<1>2. MainsOK'
  <2> SUFFICES ASSUME NEW q \in Procs
               PROVE  MainFact(ckpt', pc'[Main(q)], op'[Main(q)], main'[q])
    BY DEF MainsOK, Main
  <2>1. MainFact(ckpt, pc[Main(q)], op[Main(q)], main[q]) /\ Main(q) \in Threads
    BY ThreadFacts DEF MainsOK
  <2>2. pc'[Main(q)] \in {"await", "enter", pc[Main(q)]}
    BY <2>1 DEF StartWorker, IInv, PcOK
  <2>3. QED
    BY <2>1, <2>2 DEF MainFact
<1>3. CopiesOK'
  BY ThreadFacts DEF StartWorker, IInv, CurOK, CopiesOK
<1>4. QED
  BY <1>1, <1>2, <1>3

LEMMA ExecuteStepRecord ==
  ASSUME IInv, RecordInv, NEW p \in Procs, ExecuteStep(p)
  PROVE  RecordInv' /\ ckpt' = ckpt
<1> DEFINE t == Main(p)
<1> USE DEF RecordInv
<1>0. /\ t \in Threads /\ t \notin Workers /\ t[1] = p
      /\ "run" \in Slot /\ main[p] \in MainLocals
      /\ cur[t] \in ExecutionCheckpoint /\ Copy(ckpt, cur[t]) /\ Read(ckpt, cur[t])
      /\ Loaded(t) \in ExecutionCheckpoint /\ Copy(ckpt, Loaded(t)) /\ Read(ckpt, Loaded(t))
      /\ Loaded(t).stage \in ExecutionStage
      /\ MainFact(ckpt, pc[t], op[t], main[p])
      /\ \A q \in Procs : Main(q) = t => q = p
  BY MainContext
<1>g. ASSUME NEW k, Goto(t, k), UNCHANGED <<ckpt, op, loc, main>>,
             k \notin {"succeeded", "resumed", "store", "reload"}
      PROVE  WorkersOK' /\ MainsOK'
  <2>1. MainFact(ckpt, k, op[t], main[p])
    BY <1>0, <1>g DEF MainFact
  <2>2. QED
    BY <1>0, <1>g, <2>1, GotoRecord
<1>1. CASE Authorize(p)
  <2> DEFINE c == [cur[t] EXCEPT !.snapshot = TRUE]
             d == Stamped(c, mgr[p]["run"])
  <2>1. c \in ExecutionCheckpoint /\ c.rev = cur[t].rev /\ c.state = cur[t].state
        /\ Kept(cur[t], c)
    BY <1>0 DEF ExecutionCheckpoint, Kept, hasValidCapabilityResult
  <2>2. Copy(ckpt, c)
    BY <1>0, <2>1, CopyOfCopy DEF Copy
  <2>3. d \in ExecutionCheckpoint /\ Copy(ckpt, d)
    <3> HIDE DEF c
    <3>1. QED
      BY <1>0, <2>1, <2>2, StampOK, StampedCopy DEF IInv
  <2>4. \/ Throw(t, "FAILED") /\ UNCHANGED op
        \/ upsert(t, d, "schedule")
    BY <1>1 DEF Authorize
  <2> HIDE DEF c, d
  <2>5. WorkersOK' /\ MainsOK' /\ CallsOK'
    <3>1. UNCHANGED <<ckpt, loc>>
      BY <1>1 DEF Authorize, store
    <3>2. CASE Throw(t, "FAILED") /\ UNCHANGED op
      BY <1>0, <3>1, <3>2, ThrowRecord, RecordSame DEF ErrorCode
    <3>3. CASE upsert(t, d, "schedule")
      BY <1>0, <2>3, <3>1, <3>3, UpsertRecord
    <3>4. QED
      BY <2>4, <3>2, <3>3
  <2>6. QED
    BY <1>1, <2>5, RecordSame DEF Authorize, store
<1>2. CASE Schedule(p)
  <2>1. UNCHANGED <<ckpt, op, loc>>
    BY <1>2 DEF Schedule, store
  <2>2. CASE Throw(t, "FAILED")
    BY <1>0, <1>2, <2>1, <2>2, ThrowRecord, RecordSame DEF Schedule, store, ErrorCode
  <2>3. CASE Goto(t, "attempt") /\ UNCHANGED main
    BY <1>2, <1>g, <2>1, <2>3, RecordSame DEF Schedule, store
  <2>4. QED
    BY <1>2, <2>2, <2>3 DEF Schedule
<1>3. CASE Attempt(p)
  <2>1. UNCHANGED <<ckpt, loc, mgr>>
    BY <1>3 DEF Attempt, store
  <2>2. /\ pc'[t] = "store" /\ op'[t].then = "run"
        /\ op'[t].rec = Normalized(Loaded(t))
        /\ \A u \in Threads : u # t => pc'[u] = pc[u] /\ op'[u] = op[u]
    BY <1>0, <1>3 DEF Attempt, IInv, PcOK, OpOK
  <2>3. /\ main'[p].handler = "retry" /\ main'[p].target = main[p].target
        /\ main'[p].value = main[p].value
        /\ \A q \in Procs : q # p => main'[q] = main[q]
    <3>1. PICK m : /\ main' = [main EXCEPT ![p] = m]
                   /\ m = [main[p] EXCEPT !.attempt = main[p].attempt + 1,
                                          !.handler = "retry"]
      BY <1>3 DEF Attempt
    <3>2. m.handler = "retry" /\ m.target = main[p].target /\ m.value = main[p].value
      BY <1>0, <3>1 DEF MainLocals
    <3>3. main' = [main EXCEPT ![p] = m]
      BY <3>1
    <3>4. QED
      BY <3>2, <3>3 DEF IInv, MainOK
  <2>4. MainFact(ckpt, pc'[t], op'[t], main'[p])
    BY <1>0, <2>2, <2>3 DEF MainFact, Handlers
  <2>5. WorkersOK' /\ MainsOK'
    BY <1>0, <2>1, <2>2, <2>3, <2>4, MoveOK
  <2>6. CallsOK'
    BY <1>0, <2>1, <2>2, NormalizedCopy DEF CallsOK
  <2>7. CopiesOK'
    BY <1>0, <1>3, <2>1, CurUpdateCopy DEF Attempt
  <2>8. QED
    BY <2>1, <2>5, <2>6, <2>7, RecordSame
<1>4. CASE Run(p)
  <2>1. UNCHANGED <<ckpt, main, op, mgr>>
    BY <1>4 DEF Run, store
  <2>2. QED
    BY <1>4, <2>1, StartWorkerRecord, RecordSame DEF Run
<1>5. CASE TimerFires(p)
  BY <1>0, <1>5, ThrowRecord, RecordSame DEF TimerFires, store, ErrorCode
<1>6. CASE Retry(p)
  <2> DEFINE k == IF main[p].attempt < MaxAttempts /\ main[p].err \in Retryable
                  THEN "backoff" ELSE "catch"
  <2>1. UNCHANGED <<ckpt, cur, op, loc, mgr>> /\ Goto(t, k)
    BY <1>6 DEF Retry, store
  <2>2. /\ main'[p].handler = "catch" /\ main'[p].target = main[p].target
        /\ main'[p].value = main[p].value
        /\ \A q \in Procs : q # p => main'[q] = main[q]
    BY <1>0, <1>6 DEF Retry, IInv, MainOK, MainLocals
  <2>3. k \in {"backoff", "catch"}
    OBVIOUS
  <2> HIDE DEF k
  <2>4. MainFact(ckpt, k, op[t], main'[p])
    BY <1>0, <2>2, <2>3 DEF MainFact, Handlers
  <2>5. WorkersOK' /\ MainsOK'
    BY <1>0, <2>1, <2>2, <2>4, GotoRecord
  <2>6. QED
    BY <2>1, <2>5, RecordSame
<1>7. CASE Backoff(p)
  <2>1. /\ transitionAndCheckpoint(t, "run", Loaded(t), "recovering", Loaded(t).stage,
                                   "attempt")
        /\ UNCHANGED <<ckpt, loc>> /\ cur' = [cur EXCEPT ![t] = Loaded(t)]
    BY <1>7 DEF Backoff, store
  <2>2. WorkersOK' /\ MainsOK' /\ CallsOK' /\ ManagersOK'
    BY <1>0, <2>1, TransitionRecord DEF Completing
  <2>3. QED
    BY <1>0, <2>1, <2>2, CurUpdateCopy, RecordSame
<1>8. CASE Succeeded(p)
  <2> DEFINE c == [Loaded(t) EXCEPT !.result = main[p].value]
  <2>1. main[p].value # NoResult /\ hasValidCapabilityResult(ckpt)
    BY <1>0, <1>8 DEF Succeeded, MainFact
  <2>2. /\ c \in ExecutionCheckpoint /\ c.rev = Loaded(t).rev
        /\ c.state = Loaded(t).state /\ Kept(Loaded(t), c)
    BY <1>0, <2>1 DEF ExecutionCheckpoint, MainLocals, Kept, hasValidCapabilityResult
  <2>3. /\ transitionAndCheckpoint(t, "run", c, "completing", "post-invoke",
                                   "terminalize")
        /\ UNCHANGED <<ckpt, loc>> /\ cur' = [cur EXCEPT ![t] = Loaded(t)]
    BY <1>8 DEF Succeeded, store
  <2> HIDE DEF c
  <2>4. Copy(ckpt, c)
    BY <1>0, <2>1, <2>2, CopyOfCopy
  <2>5. WorkersOK' /\ MainsOK' /\ CallsOK' /\ ManagersOK'
    BY <1>0, <2>1, <2>2, <2>3, <2>4, TransitionRecord DEF ExecutionStage
  <2>6. QED
    BY <1>0, <2>3, <2>5, CurUpdateCopy, RecordSame
<1>9. CASE Completed(p)
  BY <1>9, <1>g, RecordSame DEF Completed, store
<1>10. CASE Catch(p)
  <2> DEFINE target == IF main[p].err = "CANCELLED" THEN "cancelling" ELSE "failed"
  <2>1. UNCHANGED <<ckpt, cur, op, loc, mgr>> /\ Goto(t, "fail")
    BY <1>10 DEF Catch, store
  <2>2. /\ main'[p].handler = "answer" /\ main'[p].target = target
        /\ \A q \in Procs : q # p => main'[q] = main[q]
    BY <1>0, <1>10 DEF Catch, IInv, MainOK, MainLocals
  <2>3. target # "completing"
    OBVIOUS
  <2> HIDE DEF target
  <2>4. MainFact(ckpt, "fail", op[t], main'[p])
    BY <2>2, <2>3 DEF MainFact, Handlers
  <2>5. WorkersOK' /\ MainsOK'
    BY <1>0, <2>1, <2>2, <2>4, GotoRecord
  <2>6. QED
    BY <2>1, <2>5, RecordSame
<1>11. CASE Fail(p)
  <2> DEFINE c == [Loaded(t) EXCEPT !.cancelled = TRUE]
  <2>1. /\ c \in ExecutionCheckpoint /\ c.rev = Loaded(t).rev
        /\ c.state = Loaded(t).state /\ Kept(Loaded(t), c)
    BY <1>0 DEF ExecutionCheckpoint, Kept, hasValidCapabilityResult
  <2>2. UNCHANGED <<ckpt, loc, mgr>> /\ cur' = [cur EXCEPT ![t] = Loaded(t)]
    BY <1>11 DEF Fail, store
  <2>3. \/ upsert(t, c, "cancelled")
        \/ \E k \in {"answer", "reach"} : Goto(t, k) /\ UNCHANGED <<main, op>>
    BY <1>11 DEF Fail
  <2> HIDE DEF c
  <2>4. Copy(ckpt, c)
    BY <1>0, <2>1, CopyOfCopy DEF Copy
  <2>5. WorkersOK' /\ MainsOK' /\ CallsOK'
    <3>1. CASE upsert(t, c, "cancelled")
      BY <1>0, <2>1, <2>2, <2>4, <3>1, UpsertRecord
    <3>2. ASSUME NEW k \in {"answer", "reach"}, Goto(t, k), UNCHANGED <<main, op>>
          PROVE  WorkersOK' /\ MainsOK' /\ CallsOK'
      BY <1>g, <2>2, <3>2, RecordSame
    <3>3. QED
      BY <2>3, <3>1, <3>2
  <2>6. QED
    BY <1>0, <2>2, <2>5, CurUpdateCopy, RecordSame
<1>12. CASE Cancelled(p)
  BY <1>12, <1>g, RecordSame DEF Cancelled, store
<1>13. CASE Answer(p)
  BY <1>13, <1>g, RecordSame DEF Answer, store
<1>14. QED
  BY <1>1, <1>2, <1>3, <1>4, <1>5, <1>6, <1>7, <1>8, <1>9, <1>10, <1>11, <1>12,
     <1>13 DEF ExecuteStep

LEMMA FinishStepRecord ==
  ASSUME IInv, RecordInv, NEW p \in Procs, FinishStep(p)
  PROVE  RecordInv' /\ ckpt' = ckpt
<1> DEFINE t == Main(p)
           s == main[p].slot
           target == main[p].target
<1> USE DEF RecordInv
<1>0. /\ t \in Threads /\ t \notin Workers /\ t[1] = p
      /\ s \in Slot /\ main[p] \in MainLocals
      /\ cur[t] \in ExecutionCheckpoint /\ Copy(ckpt, cur[t]) /\ Read(ckpt, cur[t])
      /\ MainFact(ckpt, pc[t], op[t], main[p])
      /\ \A q \in Procs : Main(q) = t => q = p
      /\ target = "completing" => main[p].value # NoResult
                                 /\ hasValidCapabilityResult(ckpt)
  BY MainContext DEF MainFact, MainLocals
<1>g. ASSUME NEW k, Goto(t, k), UNCHANGED <<ckpt, op, loc, main>>,
             k \notin {"succeeded", "resumed", "store", "reload"}
      PROVE  WorkersOK' /\ MainsOK'
  <2>1. MainFact(ckpt, k, op[t], main[p])
    BY <1>0, <1>g DEF MainFact
  <2>2. QED
    BY <1>0, <1>g, <2>1, GotoRecord
<1>1. CASE Reach(p)
  <2> DEFINE hop == NextHop(StateOf(p, s), target)
             c == [cur[t] EXCEPT !.cancelled = @ \/ hop = "cancelling"]
             k == IF hop = target THEN "terminalize" ELSE "reach"
  <2>1. hop \in Completing => hasValidCapabilityResult(ckpt)
    BY <1>0 DEF NextHop, Completing, MainLocals
  <2>2. /\ c \in ExecutionCheckpoint /\ c.rev = cur[t].rev /\ c.state = cur[t].state
        /\ Kept(cur[t], c) /\ c.stage \in ExecutionStage
    <3>1. (cur[t].cancelled \/ hop = "cancelling") \in BOOLEAN
      OBVIOUS
    <3> HIDE DEF hop
    <3>2. QED
      BY <1>0, <3>1 DEF ExecutionCheckpoint, Kept, hasValidCapabilityResult
  <2>3. k \in {"terminalize", "reach"}
    OBVIOUS
  <2>4. \/ Goto(t, "terminalize") /\ UNCHANGED <<main, op, mgr>>
        \/ transitionAndCheckpoint(t, s, c, hop, c.stage, k)
    BY <1>1 DEF Reach
  <2>5. UNCHANGED <<ckpt, loc, cur>>
    BY <1>1 DEF Reach, store
  <2> HIDE DEF c, hop, k
  <2>6. Copy(ckpt, c)
    BY <1>0, <2>2, CopyOfCopy DEF Copy
  <2>7. WorkersOK' /\ MainsOK' /\ CallsOK' /\ ManagersOK'
    <3>1. CASE Goto(t, "terminalize") /\ UNCHANGED <<main, op, mgr>>
      BY <1>g, <2>5, <3>1, RecordSame
    <3>2. CASE transitionAndCheckpoint(t, s, c, hop, c.stage, k)
      BY <1>0, <2>1, <2>2, <2>3, <2>5, <2>6, <3>2, TransitionRecord
    <3>3. QED
      BY <2>4, <3>1, <3>2
  <2>8. QED
    BY <2>5, <2>7, RecordSame
<1>2. CASE Terminalize(p)
  <2> DEFINE done == target = "cancelling"
             c == [cur[t] EXCEPT
                    !.result = IF target = "completing" THEN main[p].value ELSE @,
                    !.cancelled = @ \/ done]
             d == Stamped(c, mgr[p][s])
             k == IF main[p].kind # "execute" THEN "finished"
                  ELSE IF target = "completing" THEN "completed" ELSE "answer"
  <2>1. /\ c \in ExecutionCheckpoint /\ c.rev = cur[t].rev /\ c.state = cur[t].state
        /\ Kept(cur[t], c)
    <3>1. (cur[t].cancelled \/ done) \in BOOLEAN /\ main[p].value \in Nat
      BY <1>0 DEF MainLocals
    <3> HIDE DEF done
    <3>2. QED
      BY <1>0, <3>1 DEF ExecutionCheckpoint, Kept, hasValidCapabilityResult
  <2>2. k \in {"finished", "completed", "answer"}
    OBVIOUS
  <2>3. \/ upsert(t, d, k) /\ UNCHANGED mgr
        \/ transitionAndCheckpoint(t, s, c, FinalState(target), "terminal", k)
    BY <1>2 DEF Terminalize
  <2>4. UNCHANGED <<ckpt, loc, cur>>
    BY <1>2 DEF Terminalize, store
  <2>5. FinalState(target) \in Completing => hasValidCapabilityResult(ckpt)
    BY <1>0 DEF FinalState, Completing
  <2> HIDE DEF c, k
  <2>6. Copy(ckpt, c)
    BY <1>0, <2>1, CopyOfCopy DEF Copy
  <2>7. d \in ExecutionCheckpoint /\ Copy(ckpt, d)
    BY <1>0, <2>1, <2>6, StampOK, StampedCopy DEF IInv
  <2> HIDE DEF d
  <2>8. WorkersOK' /\ MainsOK' /\ CallsOK' /\ ManagersOK'
    <3>1. CASE upsert(t, d, k) /\ UNCHANGED mgr
      <4>1. k # "return" /\ k \notin {"succeeded", "resumed"}
        BY <2>2
      <4>2. QED
        BY <1>0, <2>4, <2>7, <3>1, <4>1, UpsertRecord, RecordSame
    <3>2. CASE transitionAndCheckpoint(t, s, c, FinalState(target), "terminal", k)
      <4>1. k \notin {"succeeded", "resumed", "return"} /\ "terminal" \in ExecutionStage
        BY <2>2 DEF ExecutionStage
      <4>2. QED
        BY <1>0, <2>1, <2>4, <2>5, <2>6, <3>2, <4>1, TransitionRecord
    <3>3. QED
      BY <2>3, <3>1, <3>2
  <2>9. QED
    BY <2>4, <2>8, RecordSame
<1>3. CASE Finished(p)
  <2>1. /\ UNCHANGED <<ckpt, op, loc, mgr>> /\ Goto(t, "idle")
        /\ cur' = [cur EXCEPT ![t] = seedCheckpoint]
        /\ main'[p] = NoMain /\ \A q \in Procs : q # p => main'[q] = main[q]
    BY <1>3 DEF Finished, store, IInv, MainOK
  <2>2. MainFact(ckpt, "idle", op[t], NoMain)
    BY DEF MainFact, NoMain, Handlers
  <2>3. WorkersOK' /\ MainsOK'
    BY <1>0, <2>1, <2>2, GotoRecord
  <2>4. CopiesOK'
    BY <1>0, <2>1, SeedCopy, CurUpdateCopy DEF IInv
  <2>5. QED
    BY <2>1, <2>3, <2>4, RecordSame
<1>4. QED
  BY <1>1, <1>2, <1>3 DEF FinishStep

-----------------------------------------------------------------------------
(* Every action preserves the invariant: boot recovery. *)

LEMMA StopProcessRecord ==
  ASSUME IInv, RecordInv, NEW p \in Procs, StopProcess(p), UNCHANGED ckpt
  PROVE  RecordInv'
<1> USE DEF RecordInv
<1>1. StoredOK'
  BY RecordSame
<1>2. CopiesOK' /\ CallsOK'
  BY SeedCopy DEF StopProcess, CopiesOK, CallsOK, IInv
<1>3. ManagersOK'
  BY DEF StopProcess, ManagersOK, StateOf, Completing, IInv, MgrOK, Last
<1>4. WorkersOK'
  <2> SUFFICES ASSUME NEW w \in Workers
               PROVE  WorkerFact(ckpt', pc'[w], op'[w], loc'[w])
    BY DEF WorkersOK
  <2>1. w \in Threads /\ w[2] # 0 /\ WorkerFact(ckpt, pc[w], op[w], loc[w])
    BY ThreadFacts, ThreadKinds DEF WorkersOK
  <2>2. CASE w[1] = p
    BY <2>1, <2>2 DEF StopProcess, WorkerFact, Holds
  <2>3. CASE w[1] # p
    BY <2>1, <2>3 DEF StopProcess
  <2>4. QED
    BY <2>2, <2>3
<1>5. MainsOK'
  <2> SUFFICES ASSUME NEW q \in Procs
               PROVE  MainFact(ckpt', pc'[Main(q)], op'[Main(q)], main'[q])
    BY DEF MainsOK, Main
  <2>1. /\ Main(q) \in Threads /\ Main(q)[1] = q /\ Main(q)[2] = 0
        /\ MainFact(ckpt, pc[Main(q)], op[Main(q)], main[q])
    BY ThreadFacts DEF MainsOK
  <2>2. CASE q = p
    <3>1. pc'[Main(q)] = "down" /\ main'[q] = NoMain
      BY <2>1, <2>2 DEF StopProcess, IInv, MainOK
    <3>2. QED
      BY <3>1 DEF MainFact, NoMain, Handlers
  <2>3. CASE q # p
    BY <2>1, <2>3 DEF StopProcess, IInv, MainOK
  <2>4. QED
    BY <2>2, <2>3
<1>6. QED
  BY <1>1, <1>2, <1>3, <1>4, <1>5

LEMMA RecoverStepRecord ==
  ASSUME IInv, RecordInv, NEW p \in Procs, RecoverStep(p)
  PROVE  RecordInv' /\ ckpt' = ckpt
<1> DEFINE t == Main(p)
<1> USE DEF RecordInv
<1>0. /\ t \in Threads /\ t \notin Workers /\ t[1] = p
      /\ "run" \in Slot /\ "end" \in Slot /\ main[p] \in MainLocals
      /\ cur[t] \in ExecutionCheckpoint /\ Copy(ckpt, cur[t]) /\ Read(ckpt, cur[t])
      /\ cur[t].stage \in ExecutionStage
      /\ Copy(ckpt, Loaded(t)) /\ Read(ckpt, Loaded(t)) /\ Lawful(Loaded(t))
      /\ MainFact(ckpt, pc[t], op[t], main[p])
      /\ \A q \in Procs : Main(q) = t => q = p
  BY MainContext
<1>g. ASSUME NEW k, Goto(t, k), UNCHANGED <<ckpt, op, loc, main>>,
             k \notin {"succeeded", "resumed", "store", "reload"}
      PROVE  WorkersOK' /\ MainsOK'
  <2>1. MainFact(ckpt, k, op[t], main[p])
    BY <1>0, <1>g DEF MainFact
  <2>2. QED
    BY <1>0, <1>g, <2>1, GotoRecord
<1>1. CASE RecoverIgnores(p)
  BY <1>1, <1>g, RecordSame DEF RecoverIgnores, store
<1>2. CASE RecoverTerminalizes(p)
  <2> DEFINE d == Decision(Loaded(t), main[p].late)
  <2>1. /\ UNCHANGED <<ckpt, op, loc>> /\ Goto(t, "reach")
        /\ cur' = [cur EXCEPT ![t] = Loaded(t)]
        /\ mgr' = [mgr EXCEPT ![p]["end"] = Loaded(t).history]
        /\ main' = [main EXCEPT ![p].slot = "end", ![p].target = d]
        /\ d \in {"cancelling", "failed"}
    BY <1>2 DEF RecoverTerminalizes, store
  <2> HIDE DEF d
  <2>2. /\ main'[p].handler = main[p].handler /\ main'[p].target = d
        /\ \A q \in Procs : q # p => main'[q] = main[q]
    BY <1>0, <2>1 DEF IInv, MainOK, MainLocals
  <2>3. MainFact(ckpt, "reach", op[t], main'[p])
    BY <1>0, <2>1, <2>2 DEF MainFact
  <2>4. WorkersOK' /\ MainsOK'
    BY <1>0, <2>1, <2>2, <2>3, GotoRecord
  <2>5. ManagersOK' /\ CopiesOK'
    BY <1>0, <2>1, FromHistoryRecord, CurUpdateCopy
  <2>6. QED
    BY <2>1, <2>4, <2>5, RecordSame
<1>3. CASE RecoverResumes(p)
  <2>1. /\ UNCHANGED <<ckpt, op, loc>> /\ Goto(t, "resume")
        /\ cur' = [cur EXCEPT ![t] = Loaded(t)]
        /\ mgr' = [mgr EXCEPT ![p]["run"] = Loaded(t).history]
        /\ main' = [main EXCEPT ![p].handler = "resumeCatch", ![p].attempt = 1]
    BY <1>3 DEF RecoverResumes, store
  <2>2. /\ main'[p].handler = "resumeCatch" /\ main'[p].target = main[p].target
        /\ main'[p].value = main[p].value
        /\ \A q \in Procs : q # p => main'[q] = main[q]
    BY <1>0, <2>1 DEF IInv, MainOK, MainLocals
  <2>3. MainFact(ckpt, "resume", op[t], main'[p])
    BY <1>0, <2>2 DEF MainFact, Handlers
  <2>4. WorkersOK' /\ MainsOK'
    BY <1>0, <2>1, <2>2, <2>3, GotoRecord
  <2>5. ManagersOK' /\ CopiesOK'
    BY <1>0, <2>1, FromHistoryRecord, CurUpdateCopy
  <2>6. QED
    BY <2>1, <2>4, <2>5, RecordSame
<1>4. CASE Resume(p)
  <2>1. UNCHANGED <<ckpt, cur, loc>>
    BY <1>4 DEF Resume, store
  <2>2. CASE transitionAndCheckpoint(t, "run", cur[t], "recovering", cur[t].stage,
                                     "resumeRun")
    BY <1>0, <2>1, <2>2, TransitionRecord, RecordSame DEF Completing
  <2>3. CASE Goto(t, "resumeRun") /\ UNCHANGED <<main, op, mgr>>
    BY <1>g, <2>1, <2>3, RecordSame
  <2>4. QED
    BY <1>4, <2>2, <2>3 DEF Resume
<1>5. CASE ResumeRun(p)
  <2>1. UNCHANGED <<ckpt, main, op, mgr>>
    BY <1>5 DEF ResumeRun, store
  <2>2. QED
    BY <1>5, <2>1, StartWorkerRecord, RecordSame DEF ResumeRun
<1>6. CASE Resumed(p)
  <2> DEFINE k == IF isTerminalState(StateOf(p, "run")) THEN "finished" ELSE "reach"
  <2>1. /\ UNCHANGED <<ckpt, main, op, loc, mgr>> /\ Goto(t, k)
        /\ cur' = [cur EXCEPT ![t] = Loaded(t)]
    BY <1>6 DEF Resumed, store
  <2>2. WorkersOK' /\ MainsOK'
    BY <1>g, <2>1
  <2>3. QED
    BY <1>0, <2>1, <2>2, CurUpdateCopy, RecordSame
<1>7. CASE ResumeCatch(p)
  <2>1. UNCHANGED <<ckpt, op, loc>>
    BY <1>7 DEF ResumeCatch, store
  <2>2. CopiesOK'
    <3> DEFINE c == IF main[p].err = "CONFLICT" THEN cur[t] ELSE Loaded(t)
    <3>1. cur' = [cur EXCEPT ![t] = c]
      BY <1>7 DEF ResumeCatch
    <3>2. Read(ckpt, c)
      BY <1>0
    <3> HIDE DEF c
    <3>3. QED
      BY <1>0, <2>1, <3>1, <3>2, CurUpdateCopy
  <2>3. CASE Goto(t, "finished") /\ UNCHANGED <<main, mgr>>
    BY <1>g, <2>1, <2>2, <2>3, RecordSame
  <2>4. CASE /\ mgr' = [mgr EXCEPT ![p]["end"] = Loaded(t).history]
             /\ main' = [main EXCEPT ![p].slot = "end", ![p].handler = "bootCheck",
                                     ![p].target = "failed"]
             /\ Goto(t, "reach")
    <3>1. /\ main'[p].handler = "bootCheck" /\ main'[p].target = "failed"
          /\ \A q \in Procs : q # p => main'[q] = main[q]
      BY <1>0, <2>4 DEF IInv, MainOK, MainLocals
    <3>2. MainFact(ckpt, "reach", op[t], main'[p])
      BY <3>1 DEF MainFact, Handlers
    <3>3. WorkersOK' /\ MainsOK'
      BY <1>0, <2>1, <2>4, <3>1, <3>2, GotoRecord
    <3>4. ManagersOK'
      BY <1>0, <2>1, <2>4, FromHistoryRecord
    <3>5. QED
      BY <2>1, <2>2, <3>3, <3>4, RecordSame
  <2>5. QED
    BY <1>7, <2>3, <2>4 DEF ResumeCatch
<1>8. CASE BootCheck(p)
  <2>1. UNCHANGED ckpt
    BY <1>8 DEF BootCheck, store
  <2>2. CASE StopProcess(p)
    BY <2>1, <2>2, StopProcessRecord
  <2>3. CASE Goto(t, "finished") /\ UNCHANGED <<main, cur, op, loc, mgr, aborted>>
    BY <1>g, <2>1, <2>3, RecordSame
  <2>4. QED
    BY <1>8, <2>2, <2>3 DEF BootCheck
<1>9. CASE RecoveryFactFails(p)
  BY <1>9, StopProcessRecord DEF RecoveryFactFails, store
<1>10. QED
  BY <1>1, <1>2, <1>3, <1>4, <1>5, <1>6, <1>7, <1>8, <1>9 DEF RecoverStep

-----------------------------------------------------------------------------
(* Every action preserves the invariant: delegated work. *)

(* A checkpoint that a worker builds from a copy: it has what the copy has, *)
(* because the worker holds what it overwrites.                             *)
LEMMA WorkerBuilds ==
  ASSUME NEW c \in ExecutionCheckpoint, NEW x \in ExecutionCheckpoint,
         x.rev = c.rev, x.state = c.state, x.cancelled = c.cancelled,
         x.snapshot = c.snapshot, c.plan => x.plan, c.work => x.work,
         x.result = c.result \/ x.result # NoResult, NEW d, Copy(d, c)
  PROVE  Copy(d, x)
<1>1. Kept(c, x)
  BY DEF Kept, hasValidCapabilityResult
<1>2. QED
  BY <1>1, CopyOfCopy DEF Copy

LEMMA WorkerStepRecord ==
  ASSUME IInv, RecordInv, NEW w \in Workers, WorkerStep(w)
  PROVE  RecordInv' /\ ckpt' = ckpt
<1> DEFINE p == w[1]
           l == loc[w]
           h == mgr[p]["run"]
<1> USE DEF RecordInv
<1>0. /\ w \in Threads /\ p \in Procs /\ "run" \in Slot /\ l \in WorkerLocals
      /\ cur[w] \in ExecutionCheckpoint /\ Copy(ckpt, cur[w]) /\ Read(ckpt, cur[w])
      /\ cur[w].stage \in ExecutionStage
      /\ Loaded(w) \in ExecutionCheckpoint /\ Copy(ckpt, Loaded(w)) /\ Read(ckpt, Loaded(w))
      /\ Loaded(w).stage \in ExecutionStage
      /\ WorkerFact(ckpt, pc[w], op[w], l)
      /\ \A q \in Procs : Main(q) # w
  BY ThreadFacts, ThreadKinds, LoadedOK, LoadedCopy
     DEF IInv, CurOK, CopiesOK, Read, LocOK, WorkersOK, Slot, ExecutionCheckpoint
<1>g. ASSUME NEW k, Goto(w, k), UNCHANGED <<ckpt, op, main>>,
             \A v \in Workers : v # w => loc'[v] = loc[v],
             WorkerFact(ckpt, k, op[w], loc'[w])
      PROVE  WorkersOK' /\ MainsOK'
  BY <1>0, <1>g, GotoRecord
<1>1. CASE Enter(w)
  <2> DEFINE c == Loaded(w)
             call == IF l.from = "post-invoke" THEN c.result ELSE l.call
             m == [l EXCEPT !.plan = c.plan, !.work = c.work, !.call = call]
             k == IF c.plan THEN "executing" ELSE "planning"
  <2>1. /\ UNCHANGED ckpt /\ cur' = [cur EXCEPT ![w] = c]
        /\ loc' = [loc EXCEPT ![w] = m]
    BY <1>1 DEF Enter, store
  <2>2. m.call = call
    BY <1>0 DEF WorkerLocals
  <2> HIDE DEF m
  <2>3. loc'[w] = m /\ \A v \in Workers : v # w => loc'[v] = loc[v]
    BY <2>1 DEF IInv, LocOK
  <2>4. CopiesOK'
    BY <1>0, <2>1, CurUpdateCopy
  <2>5. CASE /\ Goto(w, "return") /\ UNCHANGED <<main, op, mgr>>
             /\ l.from = "post-invoke"
             /\ c.stage \in {"post-invoke", "terminal"} /\ hasValidCapabilityResult(c)
    <3>1. hasValidCapabilityResult(ckpt)
      BY <1>0, <2>5 DEF Read
    <3>2. WorkerFact(ckpt, "return", op[w], loc'[w])
      BY <2>2, <2>3, <2>5, <3>1 DEF WorkerFact, Holds, hasValidCapabilityResult
    <3>3. QED
      BY <1>g, <2>1, <2>3, <2>4, <2>5, <3>2, RecordSame
  <2>6. CASE Throw(w, "FAILED") /\ UNCHANGED <<op, mgr>>
    BY <1>0, <2>1, <2>3, <2>4, <2>6, ThrowRecord, RecordSame DEF ErrorCode
  <2>7. CASE transitionAndCheckpoint(w, "run", c, k, c.stage, "plan")
    <3>1. k \notin Completing /\ Holds("plan", loc'[w])
      BY DEF Completing, Holds
    <3> HIDE DEF k
    <3>2. QED
      BY <1>0, <2>1, <2>3, <2>4, <2>7, <3>1, TransitionRecord, RecordSame
  <2>8. CASE Goto(w, "plan") /\ UNCHANGED <<main, op, mgr>>
    <3>1. WorkerFact(ckpt, "plan", op[w], loc'[w])
      BY DEF WorkerFact, Holds
    <3>2. QED
      BY <1>g, <2>1, <2>3, <2>4, <2>8, <3>1, RecordSame
  <2>9. QED
    BY <1>1, <2>5, <2>6, <2>7, <2>8 DEF Enter
<1>2. CASE PlanStage(w)
  <2>1. UNCHANGED <<ckpt, cur, loc>>
    BY <1>2 DEF PlanStage, store
  <2>2. CASE /\ Goto(w, "work") /\ UNCHANGED <<main, op, mgr>> /\ l.plan
    <3>1. WorkerFact(ckpt, "work", op[w], loc'[w])
      BY <2>1, <2>2 DEF WorkerFact, Holds
    <3>2. QED
      BY <1>g, <2>1, <2>2, <3>1, RecordSame
  <2>3. CASE Goto(w, "planning") /\ UNCHANGED <<main, op, mgr>>
    <3>1. WorkerFact(ckpt, "planning", op[w], loc'[w])
      BY DEF WorkerFact, Holds
    <3>2. QED
      BY <1>g, <2>1, <2>3, <3>1, RecordSame
  <2>4. CASE Throw(w, "FAILED") /\ UNCHANGED <<op, mgr>>
    BY <1>0, <2>1, <2>4, ThrowRecord, RecordSame DEF ErrorCode
  <2>5. CASE transitionAndCheckpoint(w, "run", cur[w], "planning", cur[w].stage,
                                     "planning")
    <3>1. Holds("planning", loc'[w])
      BY DEF Holds
    <3>2. QED
      BY <1>0, <2>1, <2>5, <3>1, TransitionRecord, RecordSame DEF Completing
  <2>6. QED
    BY <1>2, <2>2, <2>3, <2>4, <2>5 DEF PlanStage
<1>3. CASE Planning(w)
  <2> DEFINE c == [cur[w] EXCEPT !.plan = TRUE, !.stage = "post-planning"]
             d == Stamped(c, h)
             m == [l EXCEPT !.plan = TRUE]
  <2>1. UNCHANGED <<ckpt, cur, mgr>>
    BY <1>3 DEF Planning, store
  <2>2. CASE upsert(w, d, "work") /\ loc' = [loc EXCEPT ![w] = m]
    <3>1. /\ c \in ExecutionCheckpoint /\ c.rev = cur[w].rev /\ c.state = cur[w].state
          /\ c.cancelled = cur[w].cancelled /\ c.snapshot = cur[w].snapshot
          /\ c.plan = TRUE /\ c.work = cur[w].work /\ c.result = cur[w].result
          /\ m.plan = TRUE
      BY <1>0 DEF ExecutionCheckpoint, ExecutionStage, WorkerLocals
    <3> HIDE DEF c, m
    <3>2. Copy(ckpt, c)
      BY <1>0, <3>1, WorkerBuilds
    <3>3. d \in ExecutionCheckpoint /\ Copy(ckpt, d)
      BY <1>0, <3>1, <3>2, StampOK, StampedCopy DEF IInv
    <3> HIDE DEF d
    <3>4. loc'[w] = m /\ \A v \in Workers : v # w => loc'[v] = loc[v]
      BY <2>2 DEF IInv, LocOK
    <3>5. Holds("work", loc'[w])
      BY <3>1, <3>4 DEF Holds
    <3>6. QED
      BY <1>0, <2>1, <2>2, <3>3, <3>4, <3>5, UpsertRecord, RecordSame
  <2>3. CASE Throw(w, "FAILED") /\ UNCHANGED <<op, loc>>
    BY <1>0, <2>1, <2>3, ThrowRecord, RecordSame DEF ErrorCode
  <2>4. QED
    BY <1>3, <2>2, <2>3 DEF Planning
<1>4. CASE WorkStage(w)
  <2>1. UNCHANGED <<ckpt, cur, loc>>
    BY <1>4 DEF WorkStage, store
  <2>2. l.plan
    BY <1>0, <1>4 DEF WorkStage, WorkerFact, Holds
  <2>3. CASE /\ Goto(w, "ready") /\ UNCHANGED <<main, op, mgr>> /\ l.work
    <3>1. WorkerFact(ckpt, "ready", op[w], loc'[w])
      BY <2>1, <2>2, <2>3 DEF WorkerFact, Holds
    <3>2. QED
      BY <1>g, <2>1, <2>3, <3>1, RecordSame
  <2>4. CASE Goto(w, "working") /\ UNCHANGED <<main, op, mgr>>
    <3>1. WorkerFact(ckpt, "working", op[w], loc'[w])
      BY <2>1, <2>2 DEF WorkerFact, Holds
    <3>2. QED
      BY <1>g, <2>1, <2>4, <3>1, RecordSame
  <2>5. CASE Throw(w, "FAILED") /\ UNCHANGED <<op, mgr>>
    BY <1>0, <2>1, <2>5, ThrowRecord, RecordSame DEF ErrorCode
  <2>6. CASE transitionAndCheckpoint(w, "run", cur[w], "executing", "post-planning",
                                     "working")
    <3>1. Holds("working", loc'[w]) /\ "post-planning" \in ExecutionStage
      BY <2>1, <2>2 DEF Holds, ExecutionStage
    <3>2. QED
      BY <1>0, <2>1, <2>6, <3>1, TransitionRecord, RecordSame DEF Completing
  <2>7. QED
    BY <1>4, <2>3, <2>4, <2>5, <2>6 DEF WorkStage
<1>5. CASE Working(w)
  <2> DEFINE c == [cur[w] EXCEPT !.plan = l.plan, !.work = TRUE,
                                 !.stage = "post-workflow"]
             d == Stamped(c, h)
             m == [l EXCEPT !.work = TRUE]
  <2>1. UNCHANGED <<ckpt, cur, mgr>>
    BY <1>5 DEF Working, store
  <2>2. l.plan
    BY <1>0, <1>5 DEF Working, WorkerFact, Holds
  <2>3. CASE upsert(w, d, "ready") /\ loc' = [loc EXCEPT ![w] = m]
    <3>1. /\ c \in ExecutionCheckpoint /\ c.rev = cur[w].rev /\ c.state = cur[w].state
          /\ c.cancelled = cur[w].cancelled /\ c.snapshot = cur[w].snapshot
          /\ c.plan = l.plan /\ c.work = TRUE /\ c.result = cur[w].result
          /\ m.plan = l.plan /\ m.work = TRUE
      BY <1>0 DEF ExecutionCheckpoint, ExecutionStage, WorkerLocals
    <3> HIDE DEF c, m
    <3>2. Copy(ckpt, c)
      BY <1>0, <2>2, <3>1, WorkerBuilds
    <3>3. d \in ExecutionCheckpoint /\ Copy(ckpt, d)
      BY <1>0, <3>1, <3>2, StampOK, StampedCopy DEF IInv
    <3> HIDE DEF d
    <3>4. loc'[w] = m /\ \A v \in Workers : v # w => loc'[v] = loc[v]
      BY <2>3 DEF IInv, LocOK
    <3>5. Holds("ready", loc'[w])
      BY <2>2, <3>1, <3>4 DEF Holds
    <3>6. QED
      BY <1>0, <2>1, <2>3, <3>3, <3>4, <3>5, UpsertRecord, RecordSame
  <2>4. CASE Throw(w, "FAILED") /\ UNCHANGED <<op, loc>>
    BY <1>0, <2>1, <2>4, ThrowRecord, RecordSame DEF ErrorCode
  <2>5. QED
    BY <1>5, <2>3, <2>4 DEF Working
<1>6. CASE Ready(w)
  <2> DEFINE c == [cur[w] EXCEPT !.plan = l.plan, !.work = l.work,
                                 !.stage = "pre-invoke"]
             d == Stamped(c, h)
  <2>1. UNCHANGED <<ckpt, cur, mgr, loc>> /\ upsert(w, d, "invoke")
    BY <1>6 DEF Ready, store
  <2>2. l.plan /\ l.work
    BY <1>0, <1>6 DEF Ready, WorkerFact, Holds
  <2>3. /\ c \in ExecutionCheckpoint /\ c.rev = cur[w].rev /\ c.state = cur[w].state
        /\ c.cancelled = cur[w].cancelled /\ c.snapshot = cur[w].snapshot
        /\ c.plan = l.plan /\ c.work = l.work /\ c.result = cur[w].result
    BY <1>0 DEF ExecutionCheckpoint, ExecutionStage, WorkerLocals
  <2> HIDE DEF c
  <2>4. Copy(ckpt, c)
    BY <1>0, <2>2, <2>3, WorkerBuilds
  <2>5. d \in ExecutionCheckpoint /\ Copy(ckpt, d)
    BY <1>0, <2>3, <2>4, StampOK, StampedCopy DEF IInv
  <2> HIDE DEF d
  <2>6. Holds("invoke", loc'[w])
    BY <2>1, <2>2 DEF Holds
  <2>7. QED
    BY <1>0, <2>1, <2>5, <2>6, UpsertRecord, RecordSame
<1>7. CASE Invoke(w)
  <2> DEFINE m == [l EXCEPT !.call = invoked + 1]
  <2>1. UNCHANGED <<ckpt, cur, op, mgr>> /\ l.plan /\ l.work
    BY <1>0, <1>7 DEF Invoke, store, WorkerFact, Holds
  <2>2. m.plan = l.plan /\ m.work = l.work /\ m.call # NoResult
    BY <1>0 DEF WorkerLocals, NoResult, IInv, GhostOK
  <2>3. CASE Throw(w, "FAILED") /\ UNCHANGED <<invoked, loc>>
    BY <1>0, <2>1, <2>3, ThrowRecord, RecordSame DEF ErrorCode
  <2>4. CASE loc' = [loc EXCEPT ![w] = m] /\ Goto(w, "invoking") /\ UNCHANGED main
    <3> HIDE DEF m
    <3>1. loc'[w] = m /\ \A v \in Workers : v # w => loc'[v] = loc[v]
      BY <2>4 DEF IInv, LocOK
    <3>2. WorkerFact(ckpt, "invoking", op[w], loc'[w])
      BY <2>1, <2>2, <3>1 DEF WorkerFact, Holds
    <3>3. QED
      BY <1>g, <2>1, <2>4, <3>1, <3>2, RecordSame
  <2>5. QED
    BY <1>7, <2>3, <2>4 DEF Invoke
<1>8. CASE InvokeReturns(w)
  <2>1. UNCHANGED <<ckpt, cur, op, loc, mgr>> /\ pc[w] = "invoking"
    BY <1>8 DEF InvokeReturns, store
  <2>2. CASE Goto(w, "invoked") /\ UNCHANGED main
    <3>1. WorkerFact(ckpt, "invoked", op[w], loc'[w])
      BY <1>0, <2>1 DEF WorkerFact, Holds
    <3>2. QED
      BY <1>g, <2>1, <2>2, <3>1, RecordSame
  <2>3. CASE Throw(w, "FAILED")
    BY <1>0, <2>1, <2>3, ThrowRecord, RecordSame DEF ErrorCode
  <2>4. QED
    BY <1>8, <2>2, <2>3 DEF InvokeReturns
<1>9. CASE PersistToolLoop(w)
  <2>1. /\ UNCHANGED <<ckpt, cur, mgr>> /\ pc[w] = "invoking"
        /\ upsert(w, Loaded(w), "invoking")
        /\ loc' = [loc EXCEPT ![w].writes = @ + 1]
    BY <1>9 DEF PersistToolLoop, store
  <2>2. /\ loc'[w].plan = l.plan /\ loc'[w].work = l.work /\ loc'[w].call = l.call
        /\ \A v \in Workers : v # w => loc'[v] = loc[v]
    <3>1. PICK m : m = [l EXCEPT !.writes = l.writes + 1] /\ loc' = [loc EXCEPT ![w] = m]
      BY <2>1
    <3>2. m.plan = l.plan /\ m.work = l.work /\ m.call = l.call
      BY <1>0, <3>1 DEF WorkerLocals
    <3>3. loc' = [loc EXCEPT ![w] = m]
      BY <3>1
    <3>4. QED
      BY <3>2, <3>3 DEF IInv, LocOK
  <2>3. Holds("invoking", loc'[w])
    BY <1>0, <2>1, <2>2 DEF WorkerFact, Holds
  <2>4. QED
    BY <1>0, <2>1, <2>2, <2>3, UpsertRecord, RecordSame
<1>10. CASE Invoked(w)
  <2> DEFINE c == [Loaded(w) EXCEPT !.plan = l.plan, !.work = l.work,
                                    !.result = l.call, !.stage = "post-invoke"]
             d == Stamped(c, h)
  <2>1. UNCHANGED <<ckpt, cur, mgr, loc>> /\ upsert(w, d, "return")
    BY <1>10 DEF Invoked, store
  <2>2. l.plan /\ l.work /\ l.call # NoResult
    BY <1>0, <1>10 DEF Invoked, WorkerFact, Holds
  <2>3. /\ c \in ExecutionCheckpoint /\ c.rev = Loaded(w).rev
        /\ c.state = Loaded(w).state
        /\ c.cancelled = Loaded(w).cancelled /\ c.snapshot = Loaded(w).snapshot
        /\ c.plan = l.plan /\ c.work = l.work /\ c.result = l.call
    BY <1>0 DEF ExecutionCheckpoint, ExecutionStage, WorkerLocals
  <2> HIDE DEF c
  <2>4. Copy(ckpt, c)
    BY <1>0, <2>2, <2>3, WorkerBuilds
  <2>5. /\ d \in ExecutionCheckpoint /\ Copy(ckpt, d)
        /\ hasValidCapabilityResult(d)
    <3>1. hasValidCapabilityResult(c) /\ Kept(c, d)
      BY <2>2, <2>3, StampedKeeps DEF hasValidCapabilityResult
    <3>2. QED
      BY <1>0, <2>3, <2>4, <3>1, StampOK, StampedCopy DEF IInv, Kept
  <2> HIDE DEF d
  <2>6. Holds("return", loc'[w])
    BY <2>1, <2>2 DEF Holds
  <2>7. QED
    BY <1>0, <2>1, <2>5, <2>6, UpsertRecord, RecordSame
<1>11. CASE Return(w)
  <2>1. UNCHANGED <<ckpt, cur, op, loc, mgr>>
    BY <1>11 DEF Return, store
  <2>2. l.call # NoResult /\ hasValidCapabilityResult(ckpt)
    BY <1>0, <1>11 DEF Return, WorkerFact, Holds
  <2>3. WorkersOK'
    <3>1. \A v \in Workers : pc'[v] = IF v = w THEN "done" ELSE pc[v]
      BY <1>0, <1>11, ThreadFacts, ThreadKinds DEF Return
    <3>2. QED
      BY <2>1, <3>1 DEF WorkersOK, WorkerFact, Holds
  <2>4. MainsOK'
    <3> SUFFICES ASSUME NEW q \in Procs
                 PROVE  MainFact(ckpt, pc'[Main(q)], op[Main(q)], main'[q])
      BY <2>1 DEF MainsOK, Main
    <3>1. /\ Main(q) \in Threads /\ Main(q) # w
          /\ Main(q) = Main(p) => q = p
          /\ MainFact(ckpt, pc[Main(q)], op[Main(q)], main[q])
      BY <1>0, ThreadFacts, ThreadKinds DEF MainsOK
    <3>2. CASE q = p /\ Awaited(w)
      <4> DEFINE handler == IF main[p].handler = "retry" THEN "catch"
                            ELSE main[p].handler
      <4>1. pc'[Main(q)] \in {"succeeded", "resumed"}
        BY <1>11, <3>1, <3>2 DEF Return
      <4>2. /\ main'[q].value = l.call /\ main'[q].target = "completing"
            /\ main'[q].handler = handler
        <5>1. main' = [main EXCEPT ![p].value = l.call, ![p].target = "completing",
                                   ![p].handler = handler]
          BY <1>11, <3>2 DEF Return
        <5> HIDE DEF handler
        <5>2. QED
          BY <1>0, <3>2, <5>1 DEF IInv, MainOK, MainLocals
      <4>3. handler \in Handlers
        BY <3>1, <3>2 DEF MainFact, Handlers
      <4> HIDE DEF handler
      <4>4. QED
        BY <2>2, <4>1, <4>2, <4>3 DEF MainFact
    <3>3. CASE ~(q = p /\ Awaited(w))
      <4>1. pc'[Main(q)] = pc[Main(q)]
        BY <1>11, <3>1, <3>3 DEF Return
      <4>2. main'[q] = main[q]
        BY <1>0, <1>11, <3>3 DEF Return, IInv, MainOK
      <4>3. QED
        BY <3>1, <4>1, <4>2
    <3>4. QED
      BY <3>2, <3>3
  <2>5. QED
    BY <2>1, <2>3, <2>4, RecordSame
<1>12. QED
  BY <1>1, <1>2, <1>3, <1>4, <1>5, <1>6, <1>7, <1>8, <1>9, <1>10, <1>11 DEF WorkerStep

-----------------------------------------------------------------------------
(* Every action preserves the invariant: requests, boots and crashes. *)

LEMMA ProcessStepRecord ==
  ASSUME IInv, RecordInv, NEW p \in Procs, Boot(p) \/ Start(p) \/ Abort(p) \/ Crash(p)
  PROVE  RecordInv' /\ ckpt' = ckpt
<1> DEFINE t == Main(p)
<1> USE DEF RecordInv
<1>0. /\ t \in Threads /\ t \notin Workers /\ t[1] = p /\ main[p] \in MainLocals
      /\ Read(ckpt, cur[t]) /\ Read(ckpt, ckpt)
      /\ MainFact(ckpt, pc[t], op[t], main[p])
      /\ \A q \in Procs : Main(q) = t => q = p
  BY MainContext DEF StoredOK, Read
<1>1. CASE Boot(p)
  <2> DEFINE incomplete == ckpt.rev > 0 /\ ~ckpt.terminal
             k == IF incomplete THEN "recover" ELSE "idle"
             m == IF incomplete THEN [NoMain EXCEPT !.kind = "recover",
                                                    !.handler = "bootCheck",
                                                    !.late = expired]
                  ELSE NoMain
             c == IF incomplete THEN ckpt ELSE cur[t]
  <2>1. /\ UNCHANGED <<ckpt, op, loc, mgr>> /\ Goto(t, k)
        /\ main' = [main EXCEPT ![p] = m] /\ cur' = [cur EXCEPT ![t] = c]
    BY <1>1 DEF Boot, store
  <2>2. /\ m.handler \in Handlers /\ m.target = "none" /\ k \in {"recover", "idle"}
        /\ Read(ckpt, c)
    BY <1>0 DEF NoMain, Handlers
  <2> HIDE DEF k, m, c
  <2>3. main'[p] = m /\ \A q \in Procs : q # p => main'[q] = main[q]
    BY <2>1 DEF IInv, MainOK
  <2>4. MainFact(ckpt, k, op[t], main'[p])
    BY <2>2, <2>3 DEF MainFact
  <2>5. WorkersOK' /\ MainsOK'
    BY <1>0, <2>1, <2>3, <2>4, GotoRecord
  <2>6. CopiesOK'
    BY <1>0, <2>1, <2>2, CurUpdateCopy
  <2>7. QED
    BY <2>1, <2>5, <2>6, RecordSame
<1>2. CASE Start(p)
  <2> DEFINE h == <<"created", "initializing">>
             call == [rec |-> Stamped(seedCheckpoint, h), fact |-> TRUE,
                      then |-> "authorize"]
             m == [NoMain EXCEPT !.kind = "execute", !.handler = "catch"]
  <2>1. /\ UNCHANGED <<ckpt, loc>> /\ pc' = [pc EXCEPT ![t] = "store"]
        /\ main' = [main EXCEPT ![p] = m] /\ op' = [op EXCEPT ![t] = call]
        /\ mgr' = [mgr EXCEPT ![p]["run"] = h]
        /\ cur' = [cur EXCEPT ![t] = seedCheckpoint]
    BY <1>2 DEF Start, store
  <2>2. m.handler = "catch" /\ m.target = "none" /\ call.then = "authorize"
    BY DEF NoMain
  <2>3. Last(h) = "initializing"
    BY DEF Last
  <2>4. Copy(ckpt, call.rec)
    <3>1. /\ call.rec.rev = seedCheckpoint.rev /\ call.rec.state = "initializing"
          /\ Kept(seedCheckpoint, call.rec)
      BY <2>3, StampedKeeps, SeedLawful
    <3>2. Copy(ckpt, seedCheckpoint)
      BY SeedCopy DEF IInv, Read
    <3> HIDE DEF call
    <3>3. QED
      BY <3>1, <3>2, CopyOfCopy DEF Completing
  <2> HIDE DEF call, m
  <2>5. /\ pc'[t] = "store" /\ op'[t] = call /\ main'[p] = m
        /\ \A u \in Threads : u # t => pc'[u] = pc[u] /\ op'[u] = op[u]
        /\ \A q \in Procs : q # p => main'[q] = main[q]
    BY <1>0, <2>1 DEF IInv, PcOK, OpOK, MainOK
  <2>6. MainFact(ckpt, pc'[t], op'[t], main'[p])
    BY <2>2, <2>5 DEF MainFact, Handlers
  <2>7. WorkersOK' /\ MainsOK'
    BY <1>0, <2>1, <2>5, <2>6, MoveOK
  <2>8. CallsOK' /\ CopiesOK'
    BY <1>0, <2>1, <2>4, <2>5, SeedCopy, CurUpdateCopy DEF CallsOK, IInv
  <2>9. ManagersOK'
    <3>1. ASSUME NEW q \in Procs, NEW r \in Slot
          PROVE  mgr'[q][r] = mgr[q][r] \/ mgr'[q][r] = h
      BY <2>1 DEF IInv, MgrOK
    <3> HIDE DEF h
    <3>2. QED
      BY <2>1, <2>3, <3>1 DEF ManagersOK, StateOf, Completing
  <2>10. QED
    BY <2>1, <2>7, <2>8, <2>9, RecordSame
<1>3. CASE Abort(p)
  <2>1. UNCHANGED <<ckpt, cur, op, loc, mgr>>
    BY <1>3 DEF Abort, store
  <2>2. CASE Throw(t, "CANCELLED")
    BY <1>0, <2>1, <2>2, ThrowRecord, RecordSame DEF ErrorCode
  <2>3. CASE UNCHANGED <<pc, main>>
    BY <2>1, <2>3, RecordSame DEF MainsOK, Main
  <2>4. QED
    BY <1>3, <2>2, <2>3 DEF Abort
<1>4. CASE Crash(p)
  BY <1>4, StopProcessRecord DEF Crash, store
<1>5. QED
  BY <1>1, <1>2, <1>3, <1>4

-----------------------------------------------------------------------------
(* The theorems. *)

LEMMA RecordInit == Init => RecordInv
<1> SUFFICES ASSUME Init PROVE RecordInv
  OBVIOUS
<1>1. IInv
  BY InitInv
<1>2. StoredOK
  BY KeptReflexive DEF Init, StoredOK, Copy, seedCheckpoint, Completing
<1>3. CopiesOK /\ CallsOK
  BY <1>1, <1>2, SeedCopy DEF Init, CopiesOK, CallsOK, IInv
<1>4. ManagersOK
  BY DEF Init, ManagersOK, StateOf, Last, Completing
<1>5. WorkersOK
  BY ThreadFacts, ThreadKinds DEF Init, WorkersOK, WorkerFact, Holds
<1>6. MainsOK
  BY ThreadFacts DEF Init, MainsOK, MainFact, NoMain, Handlers
<1>7. QED
  BY <1>2, <1>3, <1>4, <1>5, <1>6 DEF RecordInv

(* Every step keeps the invariant, and every artifact.                      *)
LEMMA RecordNext == IInv /\ RecordInv /\ [Next]_vars => RecordInv' /\ Kept(ckpt, ckpt')
<1> SUFFICES ASSUME IInv, RecordInv, [Next]_vars
             PROVE  RecordInv' /\ Kept(ckpt, ckpt')
  OBVIOUS
<1>1. ASSUME NEW p \in Procs,
             \/ Boot(p) \/ Start(p) \/ Abort(p) \/ Crash(p)
             \/ ExecuteStep(p) \/ FinishStep(p) \/ RecoverStep(p)
      PROVE  RecordInv' /\ ckpt' = ckpt
  BY <1>1, ProcessStepRecord, ExecuteStepRecord, FinishStepRecord, RecoverStepRecord
<1>2. ASSUME NEW t \in Threads, StoreStep(t)
      PROVE  RecordInv' /\ Kept(ckpt, ckpt')
  BY <1>2, StoreStepRecord
<1>3. ASSUME NEW w \in Workers, WorkerStep(w)
      PROVE  RecordInv' /\ ckpt' = ckpt
  BY <1>3, WorkerStepRecord
<1>4. CASE Expire
  BY <1>4, RecordSame, KeptReflexive DEF Expire, store, local, RecordInv
<1>5. CASE UNCHANGED vars
  BY <1>5, RecordSame, KeptReflexive DEF vars, RecordInv
<1>6. QED
  <2>1. CASE Next
    BY <2>1, <1>1, <1>2, <1>3, <1>4, KeptReflexive DEF Next, RecordInv, store, Expire
  <2>2. QED
    BY <1>5, <2>1, KeptReflexive DEF vars

(* Nothing that was made durable is lost: whatever host, worker or boot     *)
(* recovery stores next, and from whichever copy it holds, the checkpoint   *)
(* keeps its plan, its work, a capability result, its cancellation mark and *)
(* its policy snapshot (#upsert, #transitionAndCheckpoint under the OCC).   *)
THEOREM ArtifactsAreKept == Spec => ArtifactsKept
<1>1. IInv /\ RecordInv /\ [Next]_vars => [Kept(ckpt, ckpt')]_ckpt
  BY RecordNext
<1>2. QED
  BY <1>1, InitInv, NextInv, RecordInit, RecordNext, PTL DEF Spec, ArtifactsKept

(* An execution is recorded as completing or completed only with a          *)
(* capability result, also when the coroutine that writes the state is not  *)
(* the one that stored the result.                                          *)
THEOREM CompletedHasItsResult == Spec => []CompletedHasResult
<1>1. RecordInv => CompletedHasResult
  BY DEF RecordInv, StoredOK, Copy, Completing, CompletedHasResult
<1>2. QED
  BY <1>1, InitInv, NextInv, RecordInit, RecordNext, PTL DEF Spec

=============================================================================
