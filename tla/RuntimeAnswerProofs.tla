------------------------ MODULE RuntimeAnswerProofs ------------------------
(***************************************************************************)
(* For one host whose checkpoint store and event bus do not fail, with any *)
(* deadline, abort and crashes, where an abandoned attempt is not retried  *)
(* and the policies fail an expired execution: what the caller of          *)
(* execute() was told stays what the record says (AnswerKept).             *)
(*                                                                         *)
(* The argument: execute() is at all times undecided, on its way to the    *)
(* completed or to the failed checkpoint, or has given up; in the last     *)
(* case nothing that is stored, or may yet be, completes the execution,    *)
(* not even by the worker that the deadline has abandoned.                 *)
(***************************************************************************)
EXTENDS RuntimeCallProofs

-----------------------------------------------------------------------------
(* One host without faults: what the caller is told is what the record says.*)

NoFaults     == MaxStoreFaults = 0 /\ MaxPublishFaults = 0
ExpiryFails  == \A r \in Policies : r.failIfExpired
FaultsSpent  == budget.store = 0 /\ budget.publish = 0

(* Where the manager of a run is, and where it may be while execute() still *)
(* tries to complete it.                                                    *)
Ran     == StateOf(Host, "run")
Live    == {"initializing", "planning", "executing", "recovering", "completing"}
Trying  == {"authorize", "schedule", "attempt", "run", "await", "retry", "backoff",
            "succeeded", "catch"}
Ending  == {"fail", "cancelled", "reach", "terminalize", "answer"}
Awaiting(m) == \A w \in Workers : Alive(w) => w[2] = m.attempt

(* Nothing that is stored, or may be, says completed.                       *)
Incomplete == /\ ckpt.state # "completed" /\ Ran # "completed"
              /\ \A t \in Threads : pc[t] = "store" => op[t].rec.state # "completed"

(* execute() has not ended: a worker that still runs is awaited or was      *)
(* abandoned.                                                               *)
Abandons(m, x) == m.err = "CANCELLED" \/ x
Undecided(a, k, m, x) ==
  /\ m.kind = "execute" /\ m.handler \in {"catch", "retry"} /\ m.slot = "run"
  /\ a \in Trying
  /\ k = "succeeded" => m.handler = "catch"
  /\ a = "run" => m.attempt # 0
  /\ WorkerAlive => \/ k = "await" /\ Awaiting(m)
                    \/ k \in {"retry", "catch"} /\ Abandons(m, x)
Proceeds == /\ Incomplete /\ Ran \in Live
            /\ Undecided(Aim(Main(Host)), pc[Main(Host)], main[Host], expired)

(* It ends well: alone with the record, up to the completed checkpoint.     *)
Completion(k, o, m, c, d, r) ==
  /\ m.kind = "execute" /\ m.handler = "catch" /\ m.slot = "run" /\ m.target = "completing"
  /\ \/ k = "store" /\ o.then = "terminalize" /\ o.rec.rev = d.rev /\ r = "completing"
     \/ k = "reload" /\ o.then = "terminalize" /\ r = "completing"
     \/ k = "terminalize" /\ c = d /\ r = "completing"
     \/ /\ k = "store" /\ o.then = "completed" /\ o.rec.rev = d.rev
        /\ o.rec.state = "completed" /\ o.rec.result = m.value
     \/ /\ k = "reload" /\ o.then = "completed"
        /\ d.state = "completed" /\ d.result = m.value
     \/ k = "completed" /\ d.state = "completed" /\ d.result = m.value
Completes == /\ ~WorkerAlive
             /\ Completion(pc[Main(Host)], op[Main(Host)], main[Host], cur[Main(Host)],
                           ckpt, Ran)

(* It fails: alone with the record, up to the failed checkpoint.            *)
Failure(k, o, m, c, d, r) ==
  /\ m.kind = "execute" /\ m.handler = "answer" /\ m.slot = "run" /\ m.target = "failed"
  /\ m.err # "CANCELLED"
  /\ \/ k = "fail" /\ r \in Live
     \/ k = "reach" /\ r \in Live /\ c = d
     \/ /\ k = "store" /\ o.then \in {"terminalize", "answer"} /\ r = "failed"
        /\ o.rec.rev = d.rev /\ o.rec.state = "failed"
     \/ /\ k = "reload" /\ o.then \in {"terminalize", "answer"} /\ r = "failed"
        /\ d.state = "failed"
     \/ k = "terminalize" /\ c = d /\ r = "failed" /\ d.state = "failed"
     \/ k = "answer" /\ d.state = "failed"
Fails == /\ ~WorkerAlive
         /\ Failure(pc[Main(Host)], op[Main(Host)], main[Host], cur[Main(Host)], ckpt, Ran)

(* The main coroutine does not complete it, now or in a recovery.           *)
Giving(a, k, m) ==
  /\ m.target # "completing"
  /\ m.kind = "execute" => k = "finished" \/ (m.handler = "answer" /\ a \in Ending)
  /\ m.kind = "recover" => /\ m.late /\ m.handler = "bootCheck"
                           /\ a \in {"recover", "reach", "terminalize", "bootCheck",
                                     "finished"}
  /\ m.kind = "none" => k \in {"down", "idle"}
Gone == Incomplete /\ Giving(Aim(Main(Host)), pc[Main(Host)], main[Host])

(* It has ended, and nobody is left to write.                               *)
Rests == /\ ~WorkerAlive /\ ckpt.terminal
         /\ pc[Main(Host)] \in {"finished", "idle", "down"} /\ main[Host].kind # "recover"

Placed == main[Host].kind = "execute" /\ pc[Main(Host)] # "finished" =>
            \/ Proceeds \/ Completes \/ Fails
            \/ Gone /\ Abandons(main[Host], expired)
Told   == /\ answer.kind = "failed" => \/ Rests /\ ckpt.state # "completed"
                                       \/ expired /\ Gone
          /\ answer.kind = "completed" => /\ Rests /\ ckpt.state = "completed"
                                          /\ ckpt.result = answer.value

(* What the steps below rest on.                                            *)
Base == IInv /\ RecordInv /\ DeferInv /\ SoleInv /\ Exact(ckpt) /\ FaultsSpent

-----------------------------------------------------------------------------
(* What a store call is made of.                                            *)

Issues(t, k, c, x) ==
  /\ main' = main /\ pc' = [pc EXCEPT ![t] = "store"]
  /\ \A u \in Threads : u # t => op'[u] = op[u]
  /\ op'[t].then = k /\ op'[t].rec.rev = c.rev /\ op'[t].rec.state = x
  /\ op'[t].rec.result = c.result
Refuses(t) == Throw(t, "FAILED") /\ op' = op

LEMMA NormalizedIs ==
  ASSUME NEW c \in ExecutionCheckpoint
  PROVE  /\ Normalized(c) \in ExecutionCheckpoint
         /\ \A f \in {"rev", "state", "result"} : Normalized(c)[f] = c[f]
         /\ isTerminalState(c.state) => Normalized(c).stage = "terminal"
BY NormalizedFields DEF Normalized, ExecutionCheckpoint

LEMMA CallStoreIssues ==
  ASSUME IInv, NEW t \in Threads, NEW c, NEW d, NEW fact, NEW k, CallStore(t, d, fact, k),
         d.rev = c.rev, d.result = c.result
  PROVE  Issues(t, k, c, d.state)
<1>1. op'[t] = [rec |-> d, fact |-> fact, then |-> k] /\ \A u \in Threads : u # t => op'[u] = op[u]
  BY DEF CallStore, IInv, OpOK
<1>2. QED
  BY <1>1 DEF CallStore, Issues

LEMMA UpsertIs ==
  ASSUME IInv, NEW t \in Threads, NEW c \in ExecutionCheckpoint, NEW k, upsert(t, c, k)
  PROVE  /\ Refuses(t) \/ Issues(t, k, c, c.state)
         /\ c.stage # "post-invoke" => Issues(t, k, c, c.state)
<1>1. CASE CallStore(t, Normalized(c), FALSE, k)
  BY <1>1, CallStoreIssues, NormalizedIs
<1>2. CASE Unbacked(c) /\ Throw(t, "FAILED") /\ op' = op
  BY <1>2 DEF Refuses, Unbacked
<1>3. QED
  BY <1>1, <1>2 DEF upsert

(* Its manager has moved when a transition is stored or refused.            *)
LEMMA TransitionIs ==
  ASSUME IInv, NEW t \in Threads, NEW s \in Slot, NEW c \in ExecutionCheckpoint, NEW next,
         NEW stage \in ExecutionStage, NEW k,
         transitionAndCheckpoint(t, s, c, next, stage, k)
  PROVE  LET p == t[1]
             legal == next \in transitions[StateOf(p, s)]
         IN  /\ Refuses(t) \/ (legal /\ Issues(t, k, c, next))
             /\ legal => \A q \in Procs, r \in Slot :
                           Last(mgr'[q][r]) = IF q = p /\ r = s THEN next ELSE Last(mgr[q][r])
             /\ legal /\ isTerminalState(next) => Issues(t, k, c, next)
             /\ ~legal => mgr' = mgr /\ Refuses(t)
<1> DEFINE p == t[1]
           h == mgr[p][s]
           history == Append(h, next)
<1>1. p \in Procs /\ h \in Seq(ExecutionState) /\ LegalPath(h)
  BY ThreadFacts DEF IInv, MgrOK
<1>2. CASE next \in transitions[StateOf(p, s)]
  <2>1. history \in Seq(ExecutionState) /\ LegalPath(history)
    BY <1>1, <1>2, LegalStep DEF StateOf
  <2>2. Last(history) = next
    BY <1>1 DEF Last
  <2>3. PICK b, d : b = [c EXCEPT !.stage = stage] /\ d = Stamped(b, history)
    OBVIOUS
  <2>4. b \in ExecutionCheckpoint /\ b.rev = c.rev /\ b.result = c.result
    BY <2>3 DEF ExecutionCheckpoint
  <2>5. d \in ExecutionCheckpoint /\ d.rev = c.rev /\ d.result = c.result /\ d.state = next
    BY <2>1, <2>2, <2>3, <2>4, StampedAdds, StampedPath
  <2>6. /\ mgr' = [mgr EXCEPT ![p][s] = history]
        /\ \/ Unbacked(Normalized(d)) /\ Refuses(t)
           \/ CallStore(t, Normalized(d), TRUE, k)
    BY <1>2, <2>3 DEF transitionAndCheckpoint, Refuses
  <2> HIDE DEF history
  <2>7. \A q \in Procs, r \in Slot : mgr'[q][r] = IF q = p /\ r = s THEN history ELSE mgr[q][r]
    BY <1>1, <2>6 DEF IInv, MgrOK
  <2>n. Normalized(d).rev = c.rev /\ Normalized(d).result = c.result /\ Normalized(d).state = next
    BY <2>5, NormalizedIs
  <2>8. CallStore(t, Normalized(d), TRUE, k) => Issues(t, k, c, next)
    <3>1. SUFFICES ASSUME CallStore(t, Normalized(d), TRUE, k) PROVE Issues(t, k, c, next)
      OBVIOUS
    <3>2. Issues(t, k, c, Normalized(d).state)
      BY <2>n, <3>1, CallStoreIssues
    <3>3. QED
      BY <2>n, <3>2
  <2>9. isTerminalState(next) => ~Unbacked(Normalized(d))
    BY <2>5, NormalizedIs DEF Unbacked
  <2>10. \A q \in Procs, r \in Slot :
           Last(mgr'[q][r]) = IF q = p /\ r = s THEN next ELSE Last(mgr[q][r])
    BY <2>2, <2>7
  <2>11. QED
    BY <1>2, <2>6, <2>8, <2>9, <2>10
<1>3. CASE next \notin transitions[StateOf(p, s)]
  <2>1. mgr' = mgr /\ Refuses(t)
    BY <1>3 DEF transitionAndCheckpoint, Refuses
  <2>2. QED
    BY <1>3, <2>1
<1>4. QED
  BY <1>2, <1>3

(* The manager of the run moves with its own transitions only.              *)
LEMMA TransitionRan ==
  ASSUME OneHost, IInv, NEW t \in Threads, NEW s \in Slot, NEW c \in ExecutionCheckpoint,
         NEW next, NEW stage \in ExecutionStage, NEW k,
         transitionAndCheckpoint(t, s, c, next, stage, k)
  PROVE  /\ Ran' \in {Ran, next}
         /\ s = "run" /\ next \in transitions[Ran] => Ran' = next
         /\ s = "run" /\ Issues(t, k, c, next) /\ ~Refuses(t) => Ran' = next
         /\ s = "run" /\ next \notin transitions[Ran] => Ran' = Ran /\ Refuses(t)
         /\ s = "end" => Ran' = Ran
         /\ Refuses(t) \/ Issues(t, k, c, next)
         /\ s = "run" /\ next \in transitions[Ran] /\ isTerminalState(next) =>
              Issues(t, k, c, next)
<1>1. Host \in Procs /\ t[1] = Host /\ {"run", "end"} = Slot
  BY HostFacts DEF Slot
<1>2. Ran' = Last(mgr'[Host]["run"]) /\ Ran = Last(mgr[Host]["run"])
  BY DEF Ran, StateOf, Host
<1>3. /\ Refuses(t) \/ (next \in transitions[StateOf(Host, s)] /\ Issues(t, k, c, next))
      /\ next \in transitions[StateOf(Host, s)] =>
           Ran' = IF s = "run" THEN next ELSE Ran
      /\ next \in transitions[StateOf(Host, s)] /\ isTerminalState(next) => Issues(t, k, c, next)
      /\ next \notin transitions[StateOf(Host, s)] => Ran' = Ran /\ Refuses(t)
  <2> DEFINE legal == next \in transitions[StateOf(t[1], s)]
  <2>1. /\ Refuses(t) \/ (legal /\ Issues(t, k, c, next))
        /\ legal => \A q \in Procs, r \in Slot :
                     Last(mgr'[q][r]) = IF q = t[1] /\ r = s THEN next ELSE Last(mgr[q][r])
        /\ legal /\ isTerminalState(next) => Issues(t, k, c, next)
        /\ ~legal => mgr' = mgr /\ Refuses(t)
    BY TransitionIs
  <2>2. legal <=> next \in transitions[StateOf(Host, s)]
    BY <1>1
  <2> HIDE DEF legal
  <2>3. "run" \in Slot
    BY <1>1
  <2>4. legal => Ran' = IF s = "run" THEN next ELSE Ran
    BY <1>1, <1>2, <2>1, <2>3
  <2>5. ~legal => Ran' = Ran /\ Refuses(t)
    BY <1>2, <2>1
  <2>6. QED
    BY <2>1, <2>2, <2>4, <2>5
<1>4. CASE s = "run"
  <2>1. StateOf(Host, s) = Ran
    BY <1>4 DEF Ran
  <2>2. \/ Refuses(t) \/ Issues(t, k, c, next)
    BY <1>3
  <2>3. ~Refuses(t) => Ran' = next
    BY <1>3, <1>4
  <2>4. next \in transitions[Ran] => Ran' = next
    BY <1>3, <1>4, <2>1
  <2>5. next \notin transitions[Ran] => Ran' = Ran /\ Refuses(t)
    BY <1>3, <2>1
  <2>6. next \in transitions[Ran] /\ isTerminalState(next) => Issues(t, k, c, next)
    BY <1>3, <2>1
  <2>7. QED
    BY <1>4, <2>2, <2>3, <2>4, <2>5, <2>6
<1>5. CASE s = "end"
  <2>1. Ran' = Ran /\ (Refuses(t) \/ Issues(t, k, c, next))
    BY <1>3, <1>5
  <2>2. QED
    BY <1>5, <2>1
<1>6. QED
  BY <1>1, <1>4, <1>5

(* What an exception leaves of the main coroutine's locals.                 *)
LEMMA ThrowMain ==
  ASSUME OneHost, IInv, RecordInv, NEW t \in Threads, NEW e, Throw(t, e)
  PROVE  /\ \A f \in {"kind", "handler", "slot", "attempt", "late", "target", "value"} :
              main'[Host][f] = main[Host][f]
         /\ t = Main(Host) => main'[Host].err = IF main[Host].handler = "answer"
                                                THEN main[Host].err ELSE e
         /\ t # Main(Host) /\ ~Awaited(t) => main'[Host] = main[Host]
         /\ pc'[Main(Host)] = IF t = Main(Host) \/ Awaited(t) THEN main[Host].handler
                                                             ELSE pc[Main(Host)]
         /\ \A w \in Workers : pc'[w] = IF w = t THEN "done" ELSE pc[w]
         /\ \A u \in Threads : pc'[u] = "store" => pc[u] = "store"
<1>0. /\ t[1] = Host /\ (t[2] = 0 <=> t = Main(Host)) /\ Host \in Procs
      /\ \A u \in Threads : u = Main(Host) \/ u \in Workers
  BY HostFacts DEF Main, Workers, Threads
<1>1. PICK x : /\ main' = [main EXCEPT ![Host] = [main[Host] EXCEPT !.err = x]]
               /\ t = Main(Host) => x = IF main[Host].handler = "answer" THEN main[Host].err ELSE e
               /\ t # Main(Host) /\ ~Awaited(t) => x = main[Host].err
  BY <1>0 DEF Throw
<1>2. main'[Host] = [main[Host] EXCEPT !.err = x]
  BY <1>0, <1>1 DEF IInv, MainOK
<1>3. /\ \A f \in {"kind", "handler", "slot", "attempt", "late", "target", "value"} :
           main'[Host][f] = main[Host][f]
      /\ main'[Host].err = x
      /\ x = main[Host].err => main'[Host] = main[Host]
  BY <1>2, Typed DEF MainLocals
<1>4. /\ pc'[Main(Host)] = IF t = Main(Host) \/ Awaited(t) THEN main[Host].handler
                                                          ELSE pc[Main(Host)]
      /\ \A w \in Workers : pc'[w] = IF w = t THEN "done" ELSE pc[w]
  BY ThrowHere
<1>5. main[Host].handler # "store"
  BY <1>0 DEF RecordInv, MainsOK, MainFact, Handlers
<1>6. QED
  BY <1>0, <1>1, <1>3, <1>4, <1>5

LEMMA IssuesMain ==
  ASSUME IInv, NEW t \in Threads, NEW k, NEW c, NEW x, Issues(t, k, c, x)
  PROVE  /\ pc'[t] = "store" /\ Aim(t)' = k
         /\ \A u \in Threads : u # t => pc'[u] = pc[u] /\ op'[u] = op[u]
BY DEF Issues, IInv, PcOK, Aim

(* A step that issues at most one store call, not of a completed checkpoint.*)
LEMMA IncompleteStays ==
  ASSUME Incomplete, ckpt' = ckpt, Ran' # "completed",
         \A u \in Threads : pc'[u] = "store" => \/ pc[u] = "store" /\ op'[u] = op[u]
                                               \/ op'[u].rec.state # "completed"
  PROVE  Incomplete'
BY DEF Incomplete

LEMMA IncompleteRefused ==
  ASSUME OneHost, IInv, RecordInv, Incomplete, ckpt' = ckpt, Ran' # "completed",
         NEW t \in Threads, NEW e, Throw(t, e), op' = op
  PROVE  Incomplete'
BY ThrowMain, IncompleteStays

LEMMA IncompleteIssued ==
  ASSUME OneHost, IInv, RecordInv, Incomplete, ckpt' = ckpt, Ran' # "completed",
         NEW t \in Threads, NEW k, NEW c, NEW x, Refuses(t) \/ Issues(t, k, c, x),
         x # "completed"
  PROVE  Incomplete'
<1>1. CASE Refuses(t)
  BY <1>1, IncompleteRefused DEF Refuses
<1>2. CASE Issues(t, k, c, x)
  <2>1. op'[t].rec.state # "completed"
    BY <1>2 DEF Issues
  <2>2. QED
    BY <1>2, <2>1, IssuesMain, IncompleteStays
<1>3. QED
  BY <1>1, <1>2

LEMMA IncompleteMoved ==
  ASSUME IInv, Incomplete, ckpt' = ckpt, Ran' # "completed", op' = op,
         NEW t \in Threads, NEW k, pc' = [pc EXCEPT ![t] = k], k # "store"
  PROVE  Incomplete'
<1>1. \A u \in Threads : pc'[u] = IF u = t THEN k ELSE pc[u]
  BY DEF IInv, PcOK
<1>2. QED
  BY <1>1, IncompleteStays

-----------------------------------------------------------------------------
(* A worker.                                                                *)

(* It completes nothing: it stores what its manager, or the record, says.   *)
LEMMA WorkerStepIncomplete ==
  ASSUME OneHost, IInv, RecordInv, Exact(ckpt), Incomplete, NEW w \in Workers, WorkerStep(w)
  PROVE  Incomplete' /\ Ran' \in {Ran, "planning", "executing"}
<1>0. /\ w \in Threads /\ w[1] = Host /\ Host \in Procs /\ "run" \in Slot /\ ckpt' = ckpt
      /\ Loaded(w) = ckpt /\ ckpt \in ExecutionCheckpoint /\ cur[w] \in ExecutionCheckpoint
      /\ mgr[Host]["run"] \in Seq(ExecutionState) /\ LegalPath(mgr[Host]["run"])
      /\ Ran # "completed" /\ ckpt.state # "completed"
      /\ loc[w] \in WorkerLocals /\ ckpt.stage \in ExecutionStage
      /\ cur[w].stage \in ExecutionStage
  <2>1. w \in Threads /\ w[1] = Host /\ Host \in Procs /\ "run" \in Slot
    BY HostFacts DEF Slot
  <2>2. ckpt' = ckpt
    BY WorkerMoves
  <2>3. ckpt \in ExecutionCheckpoint /\ cur[w] \in ExecutionCheckpoint
    BY <2>1, Typed
  <2>4. loc[w] \in WorkerLocals /\ mgr[Host]["run"] \in Seq(ExecutionState)
        /\ LegalPath(mgr[Host]["run"])
    BY <2>1 DEF IInv, LocOK, MgrOK
  <2>5. QED
    BY <2>1, <2>2, <2>3, <2>4, LoadedIs DEF Incomplete, ExecutionCheckpoint
<1>m. mgr' = mgr => Ran' = Ran
  BY DEF Ran, StateOf, Host
<1>t. ASSUME NEW e, Throw(w, e), op' = op, mgr' = mgr
      PROVE  Incomplete' /\ Ran' = Ran
  BY <1>0, <1>m, <1>t, IncompleteRefused
<1>g. ASSUME NEW k, pc' = [pc EXCEPT ![w] = k], k # "store", op' = op, mgr' = mgr
      PROVE  Incomplete' /\ Ran' = Ran
  BY <1>0, <1>m, <1>g, IncompleteMoved
<1>s. ASSUME NEW c \in ExecutionCheckpoint, NEW next \in {"planning", "executing"},
             NEW stage \in ExecutionStage, NEW k,
             transitionAndCheckpoint(w, "run", c, next, stage, k)
      PROVE  Incomplete' /\ Ran' \in {Ran, "planning", "executing"}
  <2>1. Ran' \in {Ran, next} /\ (Refuses(w) \/ Issues(w, k, c, next))
    BY <1>0, <1>s, TransitionRan
  <2>2. QED
    BY <1>0, <2>1, IncompleteIssued
<1>u. ASSUME NEW c \in ExecutionCheckpoint, c.state \in {Ran, ckpt.state}, NEW k,
             upsert(w, c, k), mgr' = mgr
      PROVE  Incomplete' /\ Ran' = Ran
  <2>1. Refuses(w) \/ Issues(w, k, c, c.state)
    BY <1>0, <1>u, UpsertIs
  <2>2. QED
    BY <1>0, <1>m, <1>u, <2>1, IncompleteIssued
<1>v. ASSUME NEW c \in ExecutionCheckpoint, NEW k,
             upsert(w, Stamped(c, mgr[Host]["run"]), k), mgr' = mgr
      PROVE  Incomplete' /\ Ran' = Ran
  <2>1. PICK d : d = Stamped(c, mgr[Host]["run"])
    OBVIOUS
  <2>2. d \in ExecutionCheckpoint /\ d.state = Ran
    BY <1>0, <2>1, StampedPath DEF Ran, StateOf
  <2>3. QED
    BY <1>u, <1>v, <2>1, <2>2
<1>2. CASE Enter(w)
  <2>1. PICK next \in {"planning", "executing"} :
          \/ \E e : Throw(w, e) /\ op' = op /\ mgr' = mgr
          \/ \E k \in {"return", "plan"} : pc' = [pc EXCEPT ![w] = k] /\ op' = op /\ mgr' = mgr
          \/ transitionAndCheckpoint(w, "run", ckpt, next, ckpt.stage, "plan")
    BY <1>0, <1>2 DEF Enter, Goto
  <2>2. QED
    BY <1>0, <1>t, <1>g, <1>s, <2>1
<1>3. CASE PlanStage(w) \/ WorkStage(w)
  <2>1. \/ \E e : Throw(w, e) /\ op' = op /\ mgr' = mgr
        \/ \E k \in {"work", "planning", "ready", "working"} :
             pc' = [pc EXCEPT ![w] = k] /\ op' = op /\ mgr' = mgr
        \/ transitionAndCheckpoint(w, "run", cur[w], "planning", cur[w].stage, "planning")
        \/ transitionAndCheckpoint(w, "run", cur[w], "executing", "post-planning", "working")
    BY <1>0, <1>3 DEF PlanStage, WorkStage, Goto
  <2>2. "post-planning" \in ExecutionStage
    BY DEF ExecutionStage
  <2>3. QED
    BY <1>0, <1>t, <1>g, <1>s, <2>1, <2>2
<1>4. CASE Planning(w)
  <2>1. PICK c : c = [cur[w] EXCEPT !.plan = TRUE, !.stage = "post-planning"]
    OBVIOUS
  <2>2. c \in ExecutionCheckpoint
    BY <1>0, <2>1 DEF ExecutionCheckpoint, ExecutionStage
  <2>3. \/ \E e : Throw(w, e) /\ op' = op /\ mgr' = mgr
        \/ upsert(w, Stamped(c, mgr[Host]["run"]), "work") /\ mgr' = mgr
    BY <1>0, <1>4, <2>1 DEF Planning
  <2>4. QED
    BY <1>t, <1>v, <2>2, <2>3
<1>5. CASE Working(w)
  <2>1. PICK c : c = [cur[w] EXCEPT !.plan = loc[w].plan, !.work = TRUE, !.stage = "post-workflow"]
    OBVIOUS
  <2>2. c \in ExecutionCheckpoint
    BY <1>0, <2>1 DEF ExecutionCheckpoint, ExecutionStage, WorkerLocals
  <2>3. \/ \E e : Throw(w, e) /\ op' = op /\ mgr' = mgr
        \/ upsert(w, Stamped(c, mgr[Host]["run"]), "ready") /\ mgr' = mgr
    BY <1>0, <1>5, <2>1 DEF Working
  <2>4. QED
    BY <1>t, <1>v, <2>2, <2>3
<1>6. CASE Ready(w)
  <2>1. PICK c : c = [cur[w] EXCEPT !.plan = loc[w].plan, !.work = loc[w].work,
                                    !.stage = "pre-invoke"]
    OBVIOUS
  <2>2. c \in ExecutionCheckpoint
    BY <1>0, <2>1 DEF ExecutionCheckpoint, ExecutionStage, WorkerLocals
  <2>3. upsert(w, Stamped(c, mgr[Host]["run"]), "invoke") /\ mgr' = mgr
    BY <1>0, <1>6, <2>1 DEF Ready
  <2>4. QED
    BY <1>v, <2>2, <2>3
<1>7. CASE Invoked(w)
  <2>1. PICK c : c = [ckpt EXCEPT !.plan = loc[w].plan, !.work = loc[w].work,
                                  !.result = loc[w].call, !.stage = "post-invoke"]
    OBVIOUS
  <2>2. c \in ExecutionCheckpoint
    BY <1>0, <2>1 DEF ExecutionCheckpoint, ExecutionStage, WorkerLocals
  <2>3. upsert(w, Stamped(c, mgr[Host]["run"]), "return") /\ mgr' = mgr
    BY <1>0, <1>7, <2>1 DEF Invoked
  <2>4. QED
    BY <1>v, <2>2, <2>3
<1>8. CASE PersistToolLoop(w)
  <2>1. upsert(w, ckpt, "invoking") /\ mgr' = mgr
    BY <1>0, <1>8 DEF PersistToolLoop
  <2>2. QED
    BY <1>0, <1>u, <2>1
<1>9. CASE Invoke(w) \/ InvokeReturns(w)
  <2>1. \/ \E e : Throw(w, e) /\ op' = op /\ mgr' = mgr
        \/ \E k \in {"invoking", "invoked"} : pc' = [pc EXCEPT ![w] = k] /\ op' = op /\ mgr' = mgr
    BY <1>9 DEF Invoke, InvokeReturns, Goto
  <2>2. QED
    BY <1>t, <1>g, <2>1
<1>10. CASE Return(w)
  <2>1. \A u \in Threads : pc'[u] = "store" => pc[u] = "store"
    BY <1>10 DEF Return
  <2>2. op' = op /\ Ran' = Ran
    BY <1>10, <1>m DEF Return
  <2>3. QED
    BY <1>0, <2>1, <2>2, IncompleteStays
<1>11. QED
  BY <1>2, <1>3, <1>4, <1>5, <1>6, <1>7, <1>8, <1>9, <1>10 DEF WorkerStep

(* What the main coroutine notices of a worker: nothing, or the end of the  *)
(* one that it awaits.                                                      *)
Apart    == main'[Host] = main[Host] /\ pc'[Main(Host)] = pc[Main(Host)]
Hears(w) ==
  /\ pc[Main(Host)] = "await" /\ pc'[w] = "done"
  /\ main'[Host].kind = main[Host].kind /\ main'[Host].slot = main[Host].slot
  /\ \/ pc'[Main(Host)] = main[Host].handler /\ main'[Host].handler = main[Host].handler
     \/ main[Host].kind # "execute"
     \/ /\ pc'[Main(Host)] = "succeeded"
        /\ main'[Host].handler = IF main[Host].handler = "retry" THEN "catch"
                                 ELSE main[Host].handler

LEMMA ThrowHeard ==
  ASSUME OneHost, IInv, RecordInv, NEW w \in Workers, NEW e, Throw(w, e)
  PROVE  Apart \/ Hears(w)
<1>0. w \in Threads /\ w # Main(Host) /\ w[1] = Host
  BY HostFacts
<1>1. /\ \A f \in {"kind", "handler", "slot", "attempt", "late", "target", "value"} :
           main'[Host][f] = main[Host][f]
      /\ ~Awaited(w) => main'[Host] = main[Host]
      /\ pc'[Main(Host)] = IF Awaited(w) THEN main[Host].handler ELSE pc[Main(Host)]
      /\ pc'[w] = "done"
  BY <1>0, ThrowMain
<1>2. Awaited(w) => pc[Main(Host)] = "await"
  BY <1>0 DEF Awaited
<1>3. CASE Awaited(w)
  BY <1>1, <1>2, <1>3 DEF Hears
<1>4. CASE ~Awaited(w)
  BY <1>1, <1>4 DEF Apart
<1>5. QED
  BY <1>3, <1>4

LEMMA ReturnHeard ==
  ASSUME OneHost, IInv, NEW w \in Workers, Return(w)
  PROVE  Apart \/ Hears(w)
<1>0. /\ w \in Threads /\ w # Main(Host) /\ w[1] = Host /\ Host \in Procs
      /\ Main(Host) \in Threads
  BY HostFacts
<1>1. /\ pc'[w] = "done"
      /\ pc'[Main(Host)] = IF Awaited(w) THEN IF main[Host].kind = "execute" THEN "succeeded"
                                              ELSE "resumed"
                           ELSE pc[Main(Host)]
  BY <1>0 DEF Return
<1>2. CASE ~Awaited(w)
  <2>1. main' = main
    BY <1>2 DEF Return
  <2>2. QED
    BY <1>1, <1>2, <2>1 DEF Apart
<1>3. CASE Awaited(w)
  <2>1. PICK h : h = IF main[Host].handler = "retry" THEN "catch" ELSE main[Host].handler
    OBVIOUS
  <2>2. PICK m : m = [main[Host] EXCEPT !.value = loc[w].call, !.target = "completing",
                                        !.handler = h]
    OBVIOUS
  <2>3. main' = [main EXCEPT ![Host] = m]
    BY <1>0, <1>3, <2>1, <2>2 DEF Return
  <2>4. main'[Host] = m
    BY <1>0, <2>3 DEF IInv, MainOK
  <2>5. m.kind = main[Host].kind /\ m.slot = main[Host].slot /\ m.handler = h
    BY <2>2, Typed DEF MainLocals
  <2>6. pc[Main(Host)] = "await"
    BY <1>0, <1>3 DEF Awaited
  <2>7. QED
    BY <1>1, <1>3, <2>1, <2>4, <2>5, <2>6 DEF Hears
<1>4. QED
  BY <1>2, <1>3

LEMMA WorkerHeard ==
  ASSUME OneHost, IInv, RecordInv, NEW w \in Workers, WorkerStep(w) \/ StoreStep(w)
  PROVE  /\ Apart \/ Hears(w)
         /\ Alive(w) /\ op'[Main(Host)] = op[Main(Host)] /\ expired' = expired
         /\ \A v \in Workers : v # w => pc'[v] = pc[v]
<1>0. w \in Threads /\ w # Main(Host) /\ Main(Host) \in Threads /\ \A v \in Workers : v \in Threads
  BY HostFacts
<1>1. expired' = expired /\ Alive(w)
  BY DEF StoreStep, StoreCommits, StoreConflicts, StoreFails, Reload, PublishFails, WorkerStep,
     Enter, PlanStage, Planning, WorkStage, Working, Ready, Invoke, InvokeReturns,
     PersistToolLoop, Invoked, Return, env, Alive
<1>2. op'[Main(Host)] = op[Main(Host)]
  <2>1. CASE WorkerStep(w)
    BY <1>0, <2>1, WorkerMoves
  <2>2. CASE StoreStep(w)
    <3>1. op' = op \/ op' = [op EXCEPT ![w] = NoOp]
      BY <2>2 DEF StoreStep, StoreCommits, StoreConflicts, StoreFails, Reload, PublishFails
    <3>2. QED
      BY <1>0, <3>1 DEF IInv, OpOK
  <2>3. QED
    BY <2>1, <2>2
<1> DEFINE Moves == main' = main /\ \E k : pc' = [pc EXCEPT ![w] = k]
           Fails1 == \E e : Throw(w, e)
<1>3. Fails1 \/ Return(w) \/ Moves
  <2>u. \A c, k : upsert(w, c, k) => Fails1 \/ Moves
    BY DEF upsert, CallStore
  <2>v. \A s, c, next, stage, k :
          transitionAndCheckpoint(w, s, c, next, stage, k) => Fails1 \/ Moves
    BY DEF transitionAndCheckpoint, CallStore
  <2>e. \A e : Throw(w, e) => Fails1
    OBVIOUS
  <2>g. \A k : main' = main /\ pc' = [pc EXCEPT ![w] = k] => Moves
    OBVIOUS
  <2> HIDE DEF Moves, Fails1
  <2>1. CASE Enter(w) \/ PlanStage(w) \/ WorkStage(w)
    BY <2>v, <2>e, <2>g, <2>1 DEF Enter, PlanStage, WorkStage, Goto
  <2>2. CASE Planning(w) \/ Working(w) \/ Ready(w) \/ PersistToolLoop(w) \/ Invoked(w)
    BY <2>u, <2>e, <2>2 DEF Planning, Working, Ready, PersistToolLoop, Invoked
  <2>3. CASE Invoke(w) \/ InvokeReturns(w)
    BY <2>e, <2>g, <2>3 DEF Invoke, InvokeReturns, Goto
  <2>4. CASE StoreStep(w)
    BY <2>e, <2>g, <2>4 DEF StoreStep, StoreCommits, StoreConflicts, StoreFails, Reload,
       PublishFails, Goto
  <2>5. QED
    BY <2>1, <2>2, <2>3, <2>4 DEF WorkerStep
<1>4. CASE Fails1
  <2>1. PICK e : Throw(w, e)
    BY <1>4
  <2>2. \A v \in Workers : v # w => pc'[v] = pc[v]
    BY <1>0, <2>1, ThrowMain
  <2>3. QED
    BY <1>1, <1>2, <2>1, <2>2, ThrowHeard
<1>5. CASE Return(w)
  <2>1. \A v \in Workers : v # w => pc'[v] = pc[v]
    BY <1>0, <1>5, HostFacts DEF Return
  <2>2. QED
    BY <1>1, <1>2, <1>5, <2>1, ReturnHeard
<1>6. CASE Moves
  <2>1. \A t \in Threads : t # w => pc'[t] = pc[t]
    BY <1>6 DEF IInv, PcOK
  <2>2. QED
    BY <1>0, <1>1, <1>2, <1>6, <2>1 DEF Apart
<1>7. QED
  BY <1>3, <1>4, <1>5, <1>6

(* Storing completes nothing that was not about to be.                      *)
LEMMA StoreStepIncomplete ==
  ASSUME OneHost, IInv, RecordInv, Incomplete, NEW t \in Threads, StoreStep(t)
  PROVE  Incomplete' /\ Ran' = Ran
<1>0. op[t].rec \in ExecutionCheckpoint
  BY Typed
<1>1. mgr' = mgr
  BY DEF StoreStep, StoreCommits, StoreConflicts, StoreFails, Reload, PublishFails
<1>2. Ran' = Ran
  BY <1>1 DEF Ran, StateOf, Host
<1>3. /\ ckpt' = ckpt \/ (pc[t] = "store" /\ ckpt' = [op[t].rec EXCEPT !.rev = @ + 1])
  BY DEF StoreStep, StoreCommits, StoreConflicts, StoreFails, Reload, PublishFails, store
<1>4. ckpt'.state # "completed"
  BY <1>0, <1>3 DEF Incomplete, ExecutionCheckpoint
<1>5. \A u \in Threads : pc'[u] = "store" => \/ pc[u] = "store" /\ op'[u] = op[u]
                                             \/ op'[u] = NoOp
  <2>1. CASE StoreCommits(t)
    <3>1. pc' = [pc EXCEPT ![t] = "reload"] /\ op' = op
      BY <2>1 DEF StoreCommits, Goto
    <3>2. QED
      BY <3>1 DEF IInv, PcOK
  <2>2. CASE StoreConflicts(t) \/ StoreFails(t)
    <3>1. (\E e : Throw(t, e)) /\ op' = op
      BY <2>2 DEF StoreConflicts, StoreFails
    <3>2. QED
      BY <3>1, ThrowMain
  <2>3. CASE PublishFails(t)
    <3>1. Throw(t, "FAILED") /\ op' = [op EXCEPT ![t] = NoOp] /\ pc[t] = "reload"
      BY <2>3 DEF PublishFails
    <3>2. \A u \in Threads : u # t => op'[u] = op[u]
      BY <3>1 DEF IInv, OpOK
    <3>3. QED
      BY <3>1, <3>2, ThrowMain
  <2>4. CASE Reload(t)
    <3>1. /\ pc' = [pc EXCEPT ![t] = op[t].then] /\ op' = [op EXCEPT ![t] = NoOp]
          /\ pc[t] = "reload"
      BY <2>4 DEF Reload, Goto
    <3>2. op'[t] = NoOp /\ \A u \in Threads : u # t => op'[u] = op[u] /\ pc'[u] = pc[u]
      BY <3>1 DEF IInv, OpOK, PcOK
    <3>3. QED
      BY <3>2
  <2>5. QED
    BY <2>1, <2>2, <2>3, <2>4 DEF StoreStep
<1>6. NoOp.rec.state # "completed"
  BY DEF NoOp, seedCheckpoint
<1>7. QED
  BY <1>2, <1>4, <1>5, <1>6 DEF Incomplete

-----------------------------------------------------------------------------
(* Given up: it is not completed any more.                                  *)

LEMMA GoneIs ==
  ASSUME Incomplete', Giving(Aim(Main(Host))', pc'[Main(Host)], main'[Host])
  PROVE  Gone'
BY DEF Gone, Main, Host

LEMMA GoneFacts ==
  ASSUME OneHost, IInv, RecordInv, Exact(ckpt), Gone
  PROVE  /\ Main(Host) \in Threads /\ Main(Host)[1] = Host /\ Host \in Procs
         /\ main[Host] \in MainLocals /\ main[Host].kind \in {"none", "execute", "recover"}
         /\ main[Host].target \in {"none", "failed", "cancelling"}
         /\ main[Host].slot \in Slot
         /\ Loaded(Main(Host)) = ckpt /\ ckpt \in ExecutionCheckpoint
         /\ cur[Main(Host)] \in ExecutionCheckpoint
         /\ ckpt.state # "completed" /\ Ran # "completed"
         /\ (mgr' = mgr => Ran' = Ran)
<1>1. Main(Host) \in Threads /\ Main(Host)[1] = Host /\ Host \in Procs
  BY HostFacts
<1>2. /\ main[Host] \in MainLocals /\ main[Host].kind \in {"none", "execute", "recover"}
      /\ main[Host].slot \in Slot
      /\ main[Host].target \in {"none", "failed", "cancelling", "completing"}
  BY KindIs DEF MainLocals
<1>3. main[Host].target # "completing" /\ ckpt.state # "completed" /\ Ran # "completed"
  BY DEF Gone, Giving, Incomplete
<1>4. ckpt \in ExecutionCheckpoint /\ cur[Main(Host)] \in ExecutionCheckpoint
      /\ Loaded(Main(Host)) = ckpt
  BY <1>1, Typed, LoadedIs
<1>5. mgr' = mgr => Ran' = Ran
  BY DEF Ran, StateOf, Host
<1>6. QED
  BY <1>1, <1>2, <1>3, <1>4, <1>5

(* Where the main coroutine may go on, and where an exception takes it.     *)
GivesUp(k) ==
  /\ main[Host].kind = "execute" => main[Host].handler = "answer" /\ k \in Ending
  /\ main[Host].kind = "recover" =>
       /\ main[Host].late /\ main[Host].handler = "bootCheck"
       /\ k \in {"recover", "reach", "terminalize", "bootCheck", "finished"}
  /\ main[Host].kind # "none"

LEMMA GoneThrows ==
  ASSUME OneHost, IInv, RecordInv, Exact(ckpt), Gone, NEW k, GivesUp(k), NEW e,
         Throw(Main(Host), e), Incomplete'
  PROVE  Gone'
<1> DEFINE M == Main(Host)
<1>1. /\ \A f \in {"kind", "handler", "slot", "attempt", "late", "target", "value"} :
           main'[Host][f] = main[Host][f]
      /\ pc'[M] = main[Host].handler
  BY ThrowMain, GoneFacts
<1>2. main[Host].handler \in {"answer", "bootCheck"}
  BY GoneFacts DEF GivesUp
<1>3. Aim(M)' = pc'[M]
  BY <1>1, <1>2 DEF Aim, Main, Host
<1>4. Giving(Aim(M)', pc'[M], main'[Host])
  BY <1>1, <1>2, <1>3 DEF Gone, Giving, GivesUp, Ending
<1>5. QED
  BY <1>4, GoneIs

LEMMA GoneIssues ==
  ASSUME OneHost, IInv, RecordInv, Exact(ckpt), Gone, ckpt' = ckpt, Ran' # "completed",
         NEW k, GivesUp(k), NEW c, NEW x, x # "completed",
         Refuses(Main(Host)) \/ Issues(Main(Host), k, c, x)
  PROVE  Gone'
<1> DEFINE M == Main(Host)
<1>0. M \in Threads
  BY GoneFacts
<1>1. Incomplete'
  BY <1>0, IncompleteIssued DEF Gone
<1>2. CASE Refuses(M)
  BY <1>1, <1>2, GoneThrows DEF Refuses
<1>3. CASE Issues(M, k, c, x)
  <2>1. pc'[M] = "store" /\ Aim(M)' = k /\ main' = main
    BY <1>0, <1>3, IssuesMain DEF Issues
  <2>2. Giving(k, pc'[M], main'[Host])
    BY <2>1 DEF Gone, Giving, GivesUp
  <2>3. QED
    BY <1>1, <2>1, <2>2, GoneIs
<1>4. QED
  BY <1>2, <1>3

LEMMA GoneMoves ==
  ASSUME OneHost, IInv, RecordInv, Exact(ckpt), Gone, ckpt' = ckpt, Ran' = Ran, op' = op,
         NEW k, pc' = [pc EXCEPT ![Main(Host)] = k], k \notin {"store", "reload"},
         Giving(k, k, main'[Host])
  PROVE  Gone'
<1> DEFINE M == Main(Host)
<1>0. M \in Threads /\ Ran' # "completed"
  BY GoneFacts
<1>1. Incomplete'
  BY <1>0, IncompleteMoved DEF Gone
<1>2. pc'[M] = k
  BY <1>0 DEF IInv, PcOK
<1>3. Aim(M)' = k
  BY <1>2 DEF Aim, Main, Host
<1>4. QED
  BY <1>1, <1>2, <1>3, GoneIs

(* A process that stops leaves nobody to complete it.                       *)
LEMMA StopIs ==
  ASSUME OneHost, IInv, StopProcess(Host)
  PROVE  /\ \A u \in Threads : pc'[u] \in {"down", "off"}
         /\ \A w \in Workers : pc'[w] = "off"
         /\ pc'[Main(Host)] = "down" /\ main'[Host] = NoMain /\ Ran' = "created"
         /\ ~WorkerAlive'
<1>0. /\ Host \in Procs /\ Main(Host) \in Threads /\ \A t \in Threads : t[1] = Host
      /\ Main(Host)[2] = 0 /\ \A w \in Workers : w \in Threads /\ w[2] # 0
  BY HostFacts
<1>1. \A u \in Threads : pc'[u] = IF u[2] = 0 THEN "down" ELSE "off"
  BY <1>0 DEF StopProcess
<1>2. main'[Host] = NoMain
  BY <1>0 DEF StopProcess, IInv, MainOK
<1>3. mgr'[Host]["run"] = <<"created">>
  BY <1>0 DEF StopProcess, IInv, MgrOK, Slot
<1>4. Ran' = "created"
  <2>1. Last(<<"created">>) = "created"
    BY DEF Last
  <2>2. Ran' = Last(mgr'[Host]["run"])
    BY DEF Ran, StateOf, Host
  <2>3. QED
    BY <1>3, <2>1, <2>2
<1>5. ~WorkerAlive'
  BY <1>0, <1>1 DEF WorkerAlive, Alive
<1>6. QED
  BY <1>0, <1>1, <1>2, <1>4, <1>5

LEMMA GoneStops ==
  ASSUME OneHost, IInv, Gone, StopProcess(Host), ckpt' = ckpt
  PROVE  Gone'
<1>1. Incomplete'
  BY StopIs, IncompleteStays DEF Gone
<1>2. NoMain.kind = "none" /\ NoMain.target = "none"
  BY DEF NoMain
<1>3. Giving(Aim(Main(Host))', pc'[Main(Host)], main'[Host])
  BY <1>2, StopIs DEF Giving
<1>4. QED
  BY <1>1, <1>3, GoneIs

(* Only the request starts an execute(), and only its end answers it.       *)
LEMMA KindKept ==
  ASSUME OneHost, IInv, RecordInv, DeferInv, answer.kind # "unsent", [Next]_vars
  PROVE  /\ main'[Host].kind = "execute" =>
              main[Host].kind = "execute" /\ (pc[Main(Host)] = "finished" => pc'[Main(Host)] = "finished")
         /\ expired => expired'
         /\ answer' = answer \/ (pc[Main(Host)] \in {"answer", "completed"} /\ (Answer(Host) \/ Completed(Host)))
<1> DEFINE M == Main(Host)
           Kind == main'[Host].kind = main[Host].kind
           Keeps == main'[Host].kind = "execute" =>
                      main[Host].kind = "execute" /\ (pc[M] = "finished" => pc'[M] = "finished")
<1>0. /\ Procs = {Host} /\ Host \in Procs /\ M \in Threads /\ main[Host] \in MainLocals
      /\ \A w \in Workers : w \in Threads /\ w # M /\ w[1] = Host
  BY HostFacts, Typed
<1>t. \A e : Throw(M, e) => Kind
  BY <1>0, ThrowMain
<1>u. \A c, k : upsert(M, c, k) => Kind
  BY <1>t DEF upsert, CallStore
<1>v. \A s, c, next, stage, k : transitionAndCheckpoint(M, s, c, next, stage, k) => Kind
  BY <1>t DEF transitionAndCheckpoint, CallStore
<1>e. \A m : main' = [main EXCEPT ![Host] = m] => main'[Host] = m
  BY <1>0 DEF IInv, MainOK
<1>m. main' = main => Kind
  OBVIOUS
<1>k. Kind /\ pc[M] # "finished" => Keeps
  OBVIOUS
<1>n. NoMain.kind = "none"
  BY DEF NoMain
<1>1. ASSUME StopProcess(Host) PROVE Keeps
  <2>1. main'[Host] = NoMain
    BY <1>1, <1>e DEF StopProcess
  <2>2. QED
    BY <1>n, <2>1
<1>f. ASSUME NEW m, main' = [main EXCEPT ![Host] = m], m.kind = main[Host].kind PROVE Kind
  BY <1>e, <1>f
<1> HIDE DEF Keeps, Kind
<1>2. ASSUME ExecuteStep(Host) PROVE Keeps
  <2>1. CASE Authorize(Host) \/ Schedule(Host) \/ TimerFires(Host) \/ Backoff(Host) \/ Succeeded(Host)
    BY <1>t, <1>u, <1>v, <1>m, <1>k, <2>1
    DEF Authorize, Schedule, TimerFires, Backoff, Succeeded
  <2>2. CASE Run(Host) \/ Fail(Host) \/ Cancelled(Host) \/ Completed(Host) \/ Answer(Host)
    BY <1>t, <1>u, <1>v, <1>m, <1>k, <2>2
    DEF Run, StartWorker, Fail, Cancelled, Completed, Answer
  <2>3. CASE Attempt(Host)
    <3>1. PICK m : m = [main[Host] EXCEPT !.attempt = @ + 1, !.handler = "retry"]
      OBVIOUS
    <3>2. m.kind = main[Host].kind
      BY <1>0, <3>1 DEF MainLocals
    <3>3. main' = [main EXCEPT ![Host] = m] /\ pc[M] # "finished"
      BY <1>0, <2>3, <3>1 DEF Attempt, IInv, MainOK
    <3>4. QED
      BY <1>k, <1>f, <3>2, <3>3
  <2>4. CASE Retry(Host)
    <3>1. PICK m : m = [main[Host] EXCEPT !.handler = "catch"]
      OBVIOUS
    <3>2. m.kind = main[Host].kind
      BY <1>0, <3>1 DEF MainLocals
    <3>3. main' = [main EXCEPT ![Host] = m] /\ pc[M] # "finished"
      BY <1>0, <2>4, <3>1 DEF Retry
    <3>4. QED
      BY <1>k, <1>f, <3>2, <3>3
  <2>5. CASE Catch(Host)
    <3>1. PICK m : m = [main[Host] EXCEPT !.handler = "answer",
                                          !.target = IF main[Host].err = "CANCELLED"
                                                     THEN "cancelling" ELSE "failed"]
      OBVIOUS
    <3>2. m.kind = main[Host].kind
      BY <1>0, <3>1 DEF MainLocals
    <3>3. main' = [main EXCEPT ![Host] = m] /\ pc[M] # "finished"
      BY <1>0, <2>5, <3>1 DEF Catch, IInv, MainOK
    <3>4. QED
      BY <1>k, <1>f, <3>2, <3>3
  <2>6. QED
    BY <1>2, <2>1, <2>2, <2>3, <2>4, <2>5 DEF ExecuteStep
<1>3. ASSUME FinishStep(Host) PROVE Keeps
  <2>1. CASE Reach(Host) \/ Terminalize(Host)
    BY <1>u, <1>v, <1>m, <1>k, <2>1 DEF Reach, Terminalize
  <2>2. CASE Finished(Host)
    <3>1. main'[Host] = NoMain
      BY <1>e, <2>2 DEF Finished
    <3>2. QED
      BY <1>n, <3>1 DEF Keeps
  <2>3. QED
    BY <1>3, <2>1, <2>2 DEF FinishStep
<1>4. ASSUME RecoverStep(Host) PROVE Keeps
  <2>1. CASE RecoverIgnores(Host) \/ Resume(Host) \/ ResumeRun(Host) \/ Resumed(Host)
    BY <1>u, <1>v, <1>m, <1>k, <2>1 DEF RecoverIgnores, Resume, ResumeRun, StartWorker, Resumed
  <2>2. CASE RecoverTerminalizes(Host) \/ RecoverResumes(Host)
    <3>1. main[Host].kind = "recover" /\ pc[M] # "finished"
      BY <2>2 DEF RecoverTerminalizes, RecoverResumes, DeferInv, KindsOK, Kinds, Place, RecoverAt
    <3>2. PICK d, m : /\ m = [main[Host] EXCEPT !.slot = "end", !.target = d]
                         \/ m = [main[Host] EXCEPT !.handler = "resumeCatch", !.attempt = 1]
                      /\ main' = [main EXCEPT ![Host] = m]
      BY <1>0, <2>2 DEF RecoverTerminalizes, RecoverResumes, IInv, MainOK
    <3>3. m.kind = main[Host].kind
      BY <1>0, <3>2 DEF MainLocals
    <3>4. QED
      BY <1>k, <1>f, <3>1, <3>2, <3>3
  <2>3. CASE ResumeCatch(Host)
    <3>1. PICK m : m = [main[Host] EXCEPT !.slot = "end", !.handler = "bootCheck",
                                          !.target = "failed"]
      OBVIOUS
    <3>2. m.kind = main[Host].kind
      BY <1>0, <3>1 DEF MainLocals
    <3>3. (main' = main \/ main' = [main EXCEPT ![Host] = m]) /\ pc[M] # "finished"
      BY <1>0, <2>3, <3>1 DEF ResumeCatch, IInv, MainOK
    <3>4. QED
      BY <1>k, <1>m, <1>f, <3>2, <3>3
  <2>4. CASE BootCheck(Host) \/ RecoveryFactFails(Host)
    BY <1>1, <1>m, <1>k, <2>4 DEF BootCheck, RecoveryFactFails
  <2>5. QED
    BY <1>4, <2>1, <2>2, <2>3, <2>4 DEF RecoverStep
<1>5. ASSUME NEW w \in Workers, WorkerStep(w) \/ StoreStep(w) PROVE Keeps
  <2>1. Apart \/ Hears(w)
    BY <1>5, WorkerHeard
  <2>2. QED
    BY <2>1 DEF Apart, Hears, Keeps
<1>6. ASSUME StoreStep(M) PROVE Keeps
  BY <1>6, <1>t, <1>m, <1>k DEF StoreStep, StoreCommits, StoreConflicts, StoreFails, Reload, PublishFails
<1>7. CASE Boot(Host)
  <2>1. PICK m : m = [NoMain EXCEPT !.kind = "recover", !.handler = "bootCheck", !.late = expired]
    OBVIOUS
  <2>2. main' = [main EXCEPT ![Host] = m] \/ main' = [main EXCEPT ![Host] = NoMain]
    BY <1>7, <2>1 DEF Boot
  <2>3. m.kind = "recover"
    BY <2>1 DEF NoMain
  <2>4. Keeps /\ expired' = expired /\ answer' = answer
    BY <1>7, <1>e, <1>n, <2>2, <2>3 DEF Keeps, Boot, env, ghost
  <2>5. QED
    BY <2>4 DEF Keeps
<1>8. CASE Abort(Host)
  <2>1. (Throw(M, "CANCELLED") /\ pc[M] = "await") \/ (pc' = pc /\ main' = main)
    BY <1>8 DEF Abort
  <2>2. Keeps
    BY <1>t, <1>k, <2>1 DEF Keeps, Kind
  <2>3. expired' = expired /\ answer' = answer
    BY <1>8 DEF Abort, ghost
  <2>4. QED
    BY <2>2, <2>3 DEF Keeps
<1>9. CASE Crash(Host)
  <2>1. StopProcess(Host) /\ expired' = expired /\ answer' = answer
    BY <1>9 DEF Crash, ghost
  <2>2. QED
    BY <1>1, <2>1 DEF Keeps
<1>10. CASE Expire \/ UNCHANGED vars
  <2>1. pc' = pc /\ main' = main /\ answer' = answer /\ (expired => expired')
    BY <1>10 DEF Expire, local, ghost, vars
  <2>2. QED
    BY <2>1
<1>11. CASE ExecuteStep(Host) \/ FinishStep(Host) \/ RecoverStep(Host)
  <2>1. Keeps
    BY <1>2, <1>3, <1>4, <1>11
  <2>2. expired' = expired
    <3>1. CASE ExecuteStep(Host)
      BY <3>1 DEF ExecuteStep, Authorize, Schedule, Attempt, Run, TimerFires, Retry, Backoff,
         Succeeded, Completed, Catch, Fail, Cancelled, Answer, env
    <3>2. CASE FinishStep(Host) \/ RecoverStep(Host)
      BY <3>2 DEF FinishStep, Reach, Terminalize, Finished, RecoverStep, RecoverIgnores,
         RecoverTerminalizes, RecoverResumes, Resume, ResumeRun, Resumed, ResumeCatch,
         BootCheck, RecoveryFactFails, env
    <3>3. QED
      BY <1>11, <3>1, <3>2
  <2>3. answer' = answer \/ (pc[M] \in {"answer", "completed"} /\ (Answer(Host) \/ Completed(Host)))
    <3>1. CASE ExecuteStep(Host)
      BY <3>1 DEF ExecuteStep, Authorize, Schedule, Attempt, Run, TimerFires, Retry, Backoff,
         Succeeded, Completed, Catch, Fail, Cancelled, Answer, ghost
    <3>2. CASE FinishStep(Host) \/ RecoverStep(Host)
      BY <3>2 DEF FinishStep, Reach, Terminalize, Finished, RecoverStep, RecoverIgnores,
         RecoverTerminalizes, RecoverResumes, Resume, ResumeRun, Resumed, ResumeCatch,
         BootCheck, RecoveryFactFails, ghost
    <3>3. QED
      BY <1>11, <3>1, <3>2
  <2>4. QED
    BY <2>1, <2>2, <2>3 DEF Keeps
<1>12. CASE \/ \E t \in Threads : StoreStep(t)
            \/ \E w \in Workers : WorkerStep(w)
  <2>1. Keeps
    BY <1>5, <1>6, <1>12, HostFacts
  <2>2. expired' = expired /\ answer' = answer
    <3>1. CASE \E t \in Threads : StoreStep(t)
      BY <3>1 DEF StoreStep, StoreCommits, StoreConflicts, StoreFails, Reload, PublishFails, env, ghost
    <3>2. CASE \E w \in Workers : WorkerStep(w)
      BY <3>2 DEF WorkerStep, Enter, PlanStage, Planning, WorkStage, Working, Ready, Invoke,
         InvokeReturns, PersistToolLoop, Invoked, Return, env, ghost
    <3>3. QED
      BY <1>12, <3>1, <3>2
  <2>3. QED
    BY <2>1, <2>2 DEF Keeps
<1>13. ~Start(Host)
  BY DEF Start
<1>14. QED
  BY <1>0, <1>7, <1>8, <1>9, <1>10, <1>11, <1>12, <1>13 DEF Next

(* Where a main coroutine that has given up may be.                         *)
LEMMA GoneAt ==
  ASSUME OneHost, IInv, Gone
  PROVE  /\ pc[Main(Host)] \in Ending \cup {"store", "reload", "recover", "bootCheck", "finished",
                                            "down", "idle"}
         /\ pc[Main(Host)] \in {"store", "reload"} => GivesUp(op[Main(Host)].then) \/ op[Main(Host)].then = "finished"
         /\ pc[Main(Host)] \in Ending \cup {"recover", "bootCheck"} => GivesUp(pc[Main(Host)])
         /\ pc[Main(Host)] \in {"store", "reload"} => GivesUp("reach") \/ GivesUp("terminalize")
<1> DEFINE M == Main(Host)
           a == Aim(M)
<1>1. main[Host].kind \in {"none", "execute", "recover"}
  BY KindIs
<1>2. Giving(a, pc[M], main[Host])
  BY DEF Gone
<1>3. a = IF pc[M] \in {"store", "reload"} THEN op[M].then ELSE pc[M]
  BY DEF Aim
<1> HIDE DEF a
<1>4. CASE pc[M] \in {"store", "reload"}
  BY <1>1, <1>2, <1>3, <1>4 DEF Giving, GivesUp, Ending
<1>5. CASE pc[M] \notin {"store", "reload"}
  BY <1>1, <1>2, <1>3, <1>5 DEF Giving, GivesUp, Ending
<1>6. QED
  BY <1>4, <1>5

(* A store of the main coroutine that has given up.                         *)
LEMMA GoneStores ==
  ASSUME OneHost, IInv, RecordInv, DeferInv, Exact(ckpt), Gone, StoreStep(Main(Host))
  PROVE  Gone'
<1> DEFINE M == Main(Host)
<1>0. /\ M \in Threads /\ Host \in Procs /\ Incomplete' /\ Ran' = Ran
      /\ pc[M] \in {"store", "reload"}
  <2>1. M \in Threads /\ Host \in Procs /\ Incomplete
    BY HostFacts DEF Gone
  <2>2. pc[M] \in {"store", "reload"}
    BY DEF StoreStep, StoreCommits, StoreConflicts, StoreFails, Reload, PublishFails
  <2>3. QED
    BY <2>1, <2>2, StoreStepIncomplete
<1>1. Giving(op[M].then, pc[M], main[Host]) /\ op[M].then \in AfterStore
  BY <1>0 DEF Gone, Aim, DeferInv, KindsOK, Kinds
<1>2. CASE \E e : Throw(M, e)
  BY <1>0, <1>2, GoneAt, GoneThrows
<1>3. CASE StoreCommits(M)
  <2>1. pc' = [pc EXCEPT ![M] = "reload"] /\ op' = op /\ main' = main
    BY <1>3 DEF StoreCommits, Goto
  <2>2. pc'[M] = "reload"
    BY <1>0, <2>1 DEF IInv, PcOK
  <2>3. Aim(M)' = op[M].then
    BY <2>1, <2>2 DEF Aim, Main, Host
  <2>4. Giving(Aim(M)', pc'[M], main'[Host])
    BY <1>0, <1>1, <2>1, <2>2, <2>3 DEF Giving
  <2>5. QED
    BY <1>0, <2>4, GoneIs
<1>4. CASE Reload(M)
  <2>1. pc' = [pc EXCEPT ![M] = op[M].then] /\ main' = main
    BY <1>4 DEF Reload, Goto
  <2>2. pc'[M] = op[M].then
    BY <1>0, <2>1 DEF IInv, PcOK
  <2>3. Aim(M)' = op[M].then
    BY <1>1, <2>2 DEF Aim, Main, Host, AfterStore
  <2>4. Giving(Aim(M)', pc'[M], main'[Host])
    BY <1>0, <1>1, <2>1, <2>2, <2>3 DEF Giving
  <2>5. QED
    BY <1>0, <2>4, GoneIs
<1>5. QED
  BY <1>2, <1>3, <1>4 DEF StoreStep, StoreConflicts, StoreFails, PublishFails

(* A worker does not disturb it.                                            *)
LEMMA GoneApart ==
  ASSUME OneHost, IInv, RecordInv, Exact(ckpt), Gone, NEW w \in Workers,
         WorkerStep(w) \/ StoreStep(w)
  PROVE  Gone'
<1> DEFINE M == Main(Host)
<1>1. Incomplete'
  BY HostFacts, WorkerStepIncomplete, StoreStepIncomplete DEF Gone
<1>2. pc[M] # "await"
  BY GoneAt DEF Ending
<1>3. Apart /\ op'[M] = op[M]
  BY <1>2, WorkerHeard DEF Hears
<1>4. Aim(M)' = Aim(M) /\ pc'[M] = pc[M] /\ main'[Host] = main[Host]
  BY <1>3 DEF Apart, Aim, Main, Host
<1>5. QED
  BY <1>1, <1>4, GoneIs DEF Gone

(* Its own way to the end of execute().                                     *)
LEMMA GoneEnds ==
  ASSUME OneHost, IInv, RecordInv, DeferInv, Exact(ckpt), Gone, ExecuteStep(Host)
  PROVE  Gone'
<1> DEFINE M == Main(Host)
<1>0. /\ M \in Threads /\ Host \in Procs /\ ckpt \in ExecutionCheckpoint
      /\ Loaded(M) = ckpt /\ ckpt.state # "completed" /\ Ran # "completed"
      /\ (mgr' = mgr => Ran' = Ran)
  BY GoneFacts
<1>1. pc[M] \in {"fail", "cancelled", "answer"}
  BY GoneAt DEF ExecuteStep, Authorize, Schedule, Attempt, Run, TimerFires, Retry, Backoff,
     Succeeded, Completed, Catch, Fail, Cancelled, Answer, Ending
<1>2. /\ main[Host].kind = "execute" /\ main[Host].handler = "answer"
      /\ main[Host].target # "completing"
  <2>1. main[Host].kind = "execute"
    BY <1>1 DEF DeferInv, KindsOK, Kinds, Place, ExecuteAt
  <2>2. Giving(Aim(M), pc[M], main[Host]) /\ pc[M] # "finished"
    BY <1>1 DEF Gone
  <2>3. QED
    BY <2>1, <2>2 DEF Giving
<1>3. \A k \in Ending \cup {"finished"} : main'[Host] = main[Host] => Giving(k, k, main'[Host])
  BY <1>2 DEF Giving
<1>g. ASSUME NEW k \in {"answer", "reach", "finished"}, Goto(M, k), main' = main, op' = op,
             mgr' = mgr, ckpt' = ckpt
      PROVE  Gone'
  <2>1. Giving(k, k, main'[Host]) /\ k \notin {"store", "reload"}
    BY <1>3, <1>g DEF Ending
  <2>2. QED
    BY <1>0, <1>g, <2>1, GoneMoves DEF Goto
<1>4. CASE Fail(Host)
  <2>1. PICK c : c = [ckpt EXCEPT !.cancelled = TRUE]
    OBVIOUS
  <2>2. c \in ExecutionCheckpoint /\ c.state = ckpt.state
    BY <1>0, <2>1 DEF ExecutionCheckpoint
  <2>3. /\ \/ upsert(M, c, "cancelled")
           \/ \E k \in {"answer", "reach"} : Goto(M, k) /\ main' = main /\ op' = op
        /\ mgr' = mgr /\ ckpt' = ckpt
    BY <1>0, <1>4, <2>1 DEF Fail, store
  <2>4. CASE upsert(M, c, "cancelled")
    <3>1. Refuses(M) \/ Issues(M, "cancelled", c, c.state)
      BY <1>0, <2>2, <2>4, UpsertIs
    <3>2. GivesUp("cancelled")
      BY <1>2 DEF GivesUp, Ending
    <3>3. Ran' # "completed" /\ c.state # "completed" /\ ckpt' = ckpt
      BY <1>0, <2>2, <2>3
    <3>4. QED
      BY <3>1, <3>2, <3>3, GoneIssues
  <2>5. QED
    BY <1>g, <2>3, <2>4
<1>5. CASE Cancelled(Host) \/ Answer(Host)
  <2>1. /\ \E k \in {"answer", "reach", "finished"} : Goto(M, k)
        /\ main' = main /\ op' = op /\ mgr' = mgr /\ ckpt' = ckpt
    BY <1>5 DEF Cancelled, Answer, store
  <2>2. QED
    BY <1>g, <2>1
<1>6. QED
  BY <1>1, <1>4, <1>5 DEF ExecuteStep, Authorize, Schedule, Attempt, Run, TimerFires, Retry,
     Backoff, Succeeded, Completed, Catch

(* What #reachState and #terminalize make of it.                            *)
LEMMA GoneFinishes ==
  ASSUME OneHost, IInv, RecordInv, Exact(ckpt), Gone, FinishStep(Host)
  PROVE  Gone'
<1> DEFINE M == Main(Host)
           s == main[Host].slot
<1>0. /\ M \in Threads /\ Host \in Procs /\ cur[M] \in ExecutionCheckpoint
      /\ s \in Slot /\ main[Host].target \in {"none", "failed", "cancelling"}
      /\ main[Host] \in MainLocals /\ main[Host].kind \in {"none", "execute", "recover"}
      /\ Ran # "completed" /\ (mgr' = mgr => Ran' = Ran)
  BY GoneFacts
<1>1. ckpt' = ckpt
  BY DEF FinishStep, Reach, Terminalize, Finished, store
<1>u. ASSUME NEW c \in ExecutionCheckpoint, NEW next, next # "completed",
             NEW stage \in ExecutionStage, NEW k, GivesUp(k) \/ k = "finished",
             transitionAndCheckpoint(M, s, c, next, stage, k),
             k = "finished" => main[Host].kind = "recover" /\ GivesUp(k)
      PROVE  Gone'
  <2>1. Ran' \in {Ran, next} /\ (Refuses(M) \/ Issues(M, k, c, next))
    BY <1>0, <1>u, TransitionRan
  <2>2. GivesUp(k) /\ Ran' # "completed"
    BY <1>0, <1>u, <2>1
  <2>3. QED
    BY <1>1, <1>u, <2>1, <2>2, GoneIssues
<1>2. CASE Reach(Host)
  <2>1. GivesUp("reach") /\ GivesUp("terminalize")
    <3>1. GivesUp("reach")
      BY <1>2, GoneAt DEF Reach, Ending
    <3>2. QED
      BY <3>1 DEF GivesUp, Ending
  <2>2. PICK hop, c : /\ hop = NextHop(StateOf(Host, s), main[Host].target)
                      /\ c = [cur[M] EXCEPT !.cancelled = @ \/ hop = "cancelling"]
    OBVIOUS
  <2>3. hop # "completed"
    BY <1>0, <2>2 DEF NextHop
  <2>4. c \in ExecutionCheckpoint /\ c.stage \in ExecutionStage
    BY <1>0, <2>2 DEF ExecutionCheckpoint
  <2>5. \/ Goto(M, "terminalize") /\ main' = main /\ op' = op /\ mgr' = mgr
        \/ \E k \in {"terminalize", "reach"} : transitionAndCheckpoint(M, s, c, hop, c.stage, k)
    BY <1>2, <2>2 DEF Reach
  <2>6. ASSUME NEW k \in {"terminalize", "reach"}, transitionAndCheckpoint(M, s, c, hop, c.stage, k)
        PROVE  Gone'
    BY <1>u, <2>1, <2>3, <2>4, <2>6
  <2>7. CASE Goto(M, "terminalize") /\ main' = main /\ op' = op /\ mgr' = mgr
    <3>1. Giving("terminalize", "terminalize", main'[Host])
      BY <1>0, <2>1, <2>7 DEF GivesUp, Giving
    <3>2. QED
      BY <1>0, <1>1, <2>7, <3>1, GoneMoves DEF Goto
  <2>8. QED
    BY <2>5, <2>6, <2>7
<1>3. CASE Terminalize(Host)
  <2>1. GivesUp("terminalize")
    BY <1>3, GoneAt DEF Terminalize, Ending
  <2>2. PICK c, k, final :
          /\ c = [cur[M] EXCEPT !.result = IF main[Host].target = "completing"
                                           THEN main[Host].value ELSE @,
                                !.cancelled = @ \/ main[Host].target = "cancelling"]
          /\ k = IF main[Host].kind # "execute" THEN "finished" ELSE "answer"
          /\ final = FinalState(main[Host].target)
    OBVIOUS
  <2>3. final \in {"failed", "cancelled"}
    BY <1>0, <2>2 DEF FinalState
  <2>4. c \in ExecutionCheckpoint
    BY <1>0, <2>2 DEF ExecutionCheckpoint, MainLocals
  <2>5. GivesUp(k) /\ (k = "finished" => main[Host].kind = "recover")
    BY <1>0, <2>1, <2>2 DEF GivesUp, Ending
  <2>6. \/ StateOf(Host, s) = final /\ upsert(M, Stamped(c, mgr[Host][s]), k) /\ mgr' = mgr
        \/ transitionAndCheckpoint(M, s, c, final, "terminal", k)
    BY <1>0, <1>3, <2>2 DEF Terminalize
  <2>7. CASE transitionAndCheckpoint(M, s, c, final, "terminal", k)
    <3>1. "terminal" \in ExecutionStage /\ final # "completed"
      BY <2>3 DEF ExecutionStage
    <3>2. QED
      BY <1>u, <2>4, <2>5, <2>7, <3>1
  <2>8. CASE StateOf(Host, s) = final /\ upsert(M, Stamped(c, mgr[Host][s]), k) /\ mgr' = mgr
    <3>1. PICK d : d = Stamped(c, mgr[Host][s])
      OBVIOUS
    <3>2. mgr[Host][s] \in Seq(ExecutionState) /\ LegalPath(mgr[Host][s])
      BY <1>0 DEF IInv, MgrOK
    <3>3. d \in ExecutionCheckpoint /\ d.state = Last(mgr[Host][s])
      BY <2>4, <3>1, <3>2, StampedPath
    <3>4. d.state # "completed"
      BY <2>3, <2>8, <3>3 DEF StateOf
    <3>5. Refuses(M) \/ Issues(M, k, d, d.state)
      BY <1>0, <2>8, <3>1, <3>3, UpsertIs
    <3>6. Ran' # "completed"
      BY <1>0, <2>8
    <3>7. QED
      BY <1>1, <2>5, <3>4, <3>5, <3>6, GoneIssues
  <2>9. QED
    BY <2>6, <2>7, <2>8
<1>4. CASE Finished(Host)
  <2>1. /\ pc' = [pc EXCEPT ![M] = "idle"] /\ op' = op /\ mgr' = mgr
        /\ main' = [main EXCEPT ![Host] = NoMain]
    BY <1>4 DEF Finished, Goto
  <2>2. main'[Host] = NoMain
    BY <1>0, <2>1 DEF IInv, MainOK
  <2>3. Giving("idle", "idle", main'[Host])
    BY <2>2 DEF Giving, NoMain
  <2>4. QED
    BY <1>0, <1>1, <2>1, <2>3, GoneMoves
<1>5. QED
  BY <1>2, <1>3, <1>4 DEF FinishStep

(* A recovery of an expired execution does not resume it.                   *)
LEMMA GoneRecovers ==
  ASSUME OneHost, ExpiryFails, IInv, RecordInv, Exact(ckpt), FaultsSpent, Gone, RecoverStep(Host)
  PROVE  Gone'
<1> DEFINE M == Main(Host)
<1>0. /\ M \in Threads /\ Host \in Procs /\ Loaded(M) = ckpt
      /\ main[Host] \in MainLocals /\ main[Host].kind \in {"none", "execute", "recover"}
      /\ (mgr' = mgr => Ran' = Ran)
  BY GoneFacts
<1>1. ckpt' = ckpt
  BY DEF RecoverStep, RecoverIgnores, RecoverTerminalizes, RecoverResumes, Resume, ResumeRun,
     Resumed, ResumeCatch, BootCheck, RecoveryFactFails, store
<1>2. ~RecoveryFactFails(Host)
  BY DEF RecoveryFactFails, FaultsSpent
<1>3. pc[M] \in {"recover", "bootCheck"}
  BY <1>2, GoneAt DEF RecoverStep, RecoverIgnores, RecoverTerminalizes, RecoverResumes, Resume,
     ResumeRun, Resumed, ResumeCatch, BootCheck, Ending
<1>4. main[Host].kind = "recover" /\ main[Host].late /\ main[Host].handler = "bootCheck"
  BY <1>0, <1>3, GoneAt DEF GivesUp, Ending
<1>5. main[Host].target # "completing"
  BY DEF Gone, Giving
<1>g. ASSUME Goto(M, "finished"), main' = main, op' = op, mgr' = mgr
      PROVE  Gone'
  <2>1. Giving("finished", "finished", main'[Host])
    BY <1>4, <1>5, <1>g DEF Giving
  <2>2. QED
    BY <1>0, <1>1, <1>g, <2>1, GoneMoves DEF Goto
<1>6. CASE RecoverIgnores(Host)
  BY <1>6, <1>g DEF RecoverIgnores
<1>7. CASE RecoverTerminalizes(Host)
  <2>0. PICK d : /\ d \in {"cancelling", "failed"}
                 /\ main' = [main EXCEPT ![Host].slot = "end", ![Host].target = d]
    BY <1>7 DEF RecoverTerminalizes
  <2>1. PICK m : /\ m = [main[Host] EXCEPT !.slot = "end", !.target = d]
                 /\ main' = [main EXCEPT ![Host] = m]
    BY <1>0, <2>0 DEF IInv, MainOK
  <2>2. main'[Host] = m
    BY <1>0, <2>1 DEF IInv, MainOK
  <2>3. m.kind = "recover" /\ m.late /\ m.handler = "bootCheck" /\ m.target = d
    BY <1>0, <1>4, <2>1 DEF MainLocals
  <2>4. Giving("reach", "reach", main'[Host])
    BY <2>0, <2>2, <2>3 DEF Giving
  <2>5. pc' = [pc EXCEPT ![M] = "reach"] /\ op' = op
    BY <1>7 DEF RecoverTerminalizes, Goto
  <2>6. Ran' = Ran
    <3>1. PICK h : mgr' = [mgr EXCEPT ![Host]["end"] = h]
      BY <1>7 DEF RecoverTerminalizes
    <3>2. mgr'[Host]["run"] = mgr[Host]["run"]
      BY <1>0, <3>1 DEF IInv, MgrOK, Slot
    <3>3. QED
      BY <3>2 DEF Ran, StateOf, Host
  <2>7. QED
    BY <1>0, <1>1, <2>4, <2>5, <2>6, GoneMoves
<1>8. ~RecoverResumes(Host)
  <2>1. recoveryPolicyOf(ckpt).failIfExpired
    BY DEF recoveryPolicyOf, DEFAULT_RECOVERY_POLICY, ExpiryFails, IInv, StoreOK
  <2>2. Decision(ckpt, main[Host].late) # "resume"
    BY <1>4, <2>1 DEF Decision
  <2>3. QED
    BY <1>0, <2>2 DEF RecoverResumes
<1>9. CASE BootCheck(Host)
  <2>1. StopProcess(Host) \/ (Goto(M, "finished") /\ main' = main /\ op' = op /\ mgr' = mgr)
    BY <1>9 DEF BootCheck
  <2>2. QED
    BY <1>1, <1>g, <2>1, GoneStops
<1>10. QED
  BY <1>2, <1>3, <1>6, <1>7, <1>8, <1>9 DEF RecoverStep, Resume, ResumeRun, Resumed, ResumeCatch

(* Once it is given up and late, an execution is not completed: neither by  *)
(* execute(), nor by a recovery, nor by a worker that still runs.           *)
LEMMA GoneNext ==
  ASSUME OneHost, ExpiryFails, Base, Gone, answer.kind # "unsent",
         expired \/ pc[Main(Host)] # "down", [Next]_vars
  PROVE  Gone'
<1> DEFINE M == Main(Host)
<1>0. /\ IInv /\ RecordInv /\ DeferInv /\ SoleInv /\ Exact(ckpt) /\ FaultsSpent
      /\ Procs = {Host} /\ Host \in Procs /\ M \in Threads
      /\ (mgr' = mgr => Ran' = Ran) /\ \A t \in Threads : t = M \/ t \in Workers
  BY GoneFacts, HostFacts DEF Base
<1>s. ASSUME ckpt' = ckpt, mgr' = mgr, pc' = pc, op' = op, main' = main
      PROVE  Gone'
  <2>1. Incomplete'
    BY <1>0, <1>s, IncompleteStays DEF Gone, Incomplete
  <2>2. Aim(M)' = Aim(M) /\ pc'[M] = pc[M] /\ main'[Host] = main[Host]
    BY <1>s DEF Aim, Main, Host
  <2>3. QED
    BY <2>1, <2>2, GoneIs DEF Gone
<1>1. CASE Expire \/ UNCHANGED vars
  <2>1. ckpt' = ckpt /\ mgr' = mgr /\ pc' = pc /\ op' = op /\ main' = main
    BY <1>1 DEF Expire, store, local, vars
  <2>2. QED
    BY <1>s, <2>1
<1>2. CASE Abort(Host)
  <2>1. pc[M] # "await"
    BY <1>0, GoneAt DEF Ending
  <2>2. ckpt' = ckpt /\ mgr' = mgr /\ pc' = pc /\ op' = op /\ main' = main
    BY <1>2, <2>1 DEF Abort, store
  <2>3. QED
    BY <1>s, <2>2
<1>3. CASE Crash(Host)
  <2>1. StopProcess(Host) /\ ckpt' = ckpt
    BY <1>3 DEF Crash, store
  <2>2. QED
    BY <1>0, <2>1, GoneStops
<1>4. CASE Boot(Host)
  <2>3. expired = TRUE
    BY <1>0, <1>4 DEF Boot, IInv, EnvOK
  <2>1. PICK m, k : /\ \/ k = "recover" /\ m = [NoMain EXCEPT !.kind = "recover", !.handler = "bootCheck",
                                                           !.late = TRUE]
                       \/ k = "idle" /\ m = NoMain
                    /\ main' = [main EXCEPT ![Host] = m] /\ pc' = [pc EXCEPT ![M] = k]
    BY <1>4, <2>3 DEF Boot, Goto
  <2>2. main'[Host] = m
    BY <1>0, <2>1 DEF IInv, MainOK
  <2>n. /\ m.target = "none"
        /\ \/ k = "recover" /\ m.kind = "recover" /\ m.late /\ m.handler = "bootCheck"
           \/ k = "idle" /\ m.kind = "none"
    <3>1. CASE k = "recover" /\ m = [NoMain EXCEPT !.kind = "recover", !.handler = "bootCheck",
                                                    !.late = TRUE]
      <4>1. m.target = "none" /\ m.kind = "recover" /\ m.handler = "bootCheck"
        BY <3>1 DEF NoMain
      <4>2. m.late = TRUE
        BY <3>1 DEF NoMain
      <4>3. QED
        BY <3>1, <4>1, <4>2
    <3>2. CASE k = "idle" /\ m = NoMain
      BY <3>2 DEF NoMain
    <3>3. QED
      BY <2>1, <3>1, <3>2
  <2>4. Giving(k, k, m)
    BY <2>n DEF Giving
  <2>5. ckpt' = ckpt /\ mgr' = mgr /\ op' = op
    BY <1>4 DEF Boot, store
  <2>6. k \notin {"store", "reload"} /\ Ran' = Ran
    BY <1>0, <2>1, <2>5
  <2>7. QED
    BY <1>0, <2>1, <2>2, <2>4, <2>5, <2>6, GoneMoves
<1>5. CASE ExecuteStep(Host)
  BY <1>0, <1>5, GoneEnds
<1>6. CASE FinishStep(Host)
  BY <1>0, <1>6, GoneFinishes
<1>7. CASE RecoverStep(Host)
  BY <1>0, <1>7, GoneRecovers
<1>8. CASE \/ \E t \in Threads : StoreStep(t)
           \/ \E w \in Workers : WorkerStep(w)
  <2>1. StoreStep(M) \/ \E w \in Workers : WorkerStep(w) \/ StoreStep(w)
    BY <1>0, <1>8
  <2>2. QED
    BY <1>0, <2>1, GoneStores, GoneApart
<1>9. ~Start(Host)
  BY DEF Start
<1>10. QED
  BY <1>0, <1>1, <1>2, <1>3, <1>4, <1>5, <1>6, <1>7, <1>8, <1>9 DEF Next

(* It keeps the error that it gave up for.                                  *)
LEMMA GoneKeepsError ==
  ASSUME OneHost, Base, Gone, main[Host].kind = "execute", pc[Main(Host)] # "finished",
         main'[Host].kind = "execute", [Next]_vars
  PROVE  main'[Host].err = main[Host].err
<1> DEFINE M == Main(Host)
           Keeps == main'[Host].err = main[Host].err
<1>0. /\ IInv /\ RecordInv /\ DeferInv /\ SoleInv /\ Exact(ckpt) /\ FaultsSpent
      /\ Procs = {Host} /\ Host \in Procs /\ M \in Threads
      /\ \A t \in Threads : t = M \/ t \in Workers
  BY HostFacts DEF Base
<1>1. main[Host].handler = "answer" /\ pc[M] \in Ending \cup {"store", "reload"}
  <2>1. Giving(Aim(M), pc[M], main[Host])
    BY DEF Gone
  <2>2. main[Host].handler = "answer" /\ Aim(M) \in Ending
    BY <2>1 DEF Giving
  <2>3. QED
    BY <2>2 DEF Aim
<1>t. ASSUME NEW e, Throw(M, e) PROVE Keeps
  BY <1>0, <1>1, <1>t, ThrowMain
<1>u. \A c, k : upsert(M, c, k) => Keeps
  BY <1>t DEF upsert, CallStore
<1>v. \A s, c, next, stage, k : transitionAndCheckpoint(M, s, c, next, stage, k) => Keeps
  BY <1>t DEF transitionAndCheckpoint, CallStore
<1>m. main' = main => Keeps
  OBVIOUS
<1>n. main' # [main EXCEPT ![Host] = NoMain] /\ NoMain.kind = "none"
  BY <1>0 DEF IInv, MainOK, NoMain
<1> HIDE DEF Keeps
<1>2. ASSUME ExecuteStep(Host) PROVE Keeps
  <2>1. Fail(Host) \/ Cancelled(Host) \/ Answer(Host)
    BY <1>1, <1>2 DEF ExecuteStep, Authorize, Schedule, Attempt, Run, TimerFires, Retry, Backoff,
       Succeeded, Completed, Catch, Ending
  <2>2. QED
    BY <1>u, <1>m, <2>1 DEF Fail, Cancelled, Answer
<1>3. ASSUME FinishStep(Host) PROVE Keeps
  <2>1. Reach(Host) \/ Terminalize(Host)
    BY <1>3 DEF FinishStep, Finished
  <2>2. QED
    BY <1>u, <1>v, <1>m, <2>1 DEF Reach, Terminalize
<1>4. ~RecoverStep(Host)
  BY <1>0, <1>1 DEF RecoverStep, RecoverIgnores, RecoverTerminalizes, RecoverResumes, Resume,
     ResumeRun, Resumed, ResumeCatch, BootCheck, RecoveryFactFails, FaultsSpent, Ending
<1>5. ASSUME StoreStep(M) PROVE Keeps
  BY <1>5, <1>t, <1>m DEF StoreStep, StoreCommits, StoreConflicts, StoreFails, Reload, PublishFails
<1>6. ASSUME NEW w \in Workers, WorkerStep(w) \/ StoreStep(w) PROVE Keeps
  BY <1>0, <1>1, <1>6, WorkerHeard DEF Apart, Hears, Ending, Keeps
<1>7. ~Boot(Host) /\ ~Start(Host)
  BY <1>1 DEF Boot, Start, Ending
<1>8. ASSUME Abort(Host) \/ Expire \/ UNCHANGED vars PROVE Keeps
  <2>1. main' = main
    BY <1>1, <1>8 DEF Abort, Expire, local, vars, Ending
  <2>2. QED
    BY <1>m, <2>1
<1>9. ~Crash(Host)
  BY <1>n DEF Crash, StopProcess
<1>10. QED
  BY <1>0, <1>2, <1>3, <1>4, <1>5, <1>6, <1>7, <1>8, <1>9 DEF Next, Keeps

-----------------------------------------------------------------------------
(* It has ended.                                                            *)

(* A terminal record with nobody left to write stays, through crashes and   *)
(* boots, and so does the answer.                                           *)
LEMMA RestsNext ==
  ASSUME OneHost, Base, Rests, answer.kind # "unsent", [Next]_vars
  PROVE  Rests' /\ ckpt' = ckpt /\ answer' = answer
<1> DEFINE M == Main(Host)
<1>0. /\ IInv /\ RecordInv /\ Procs = {Host} /\ Host \in Procs /\ M \in Threads
      /\ \A w \in Workers : w \in Threads /\ w # M
      /\ \A t \in Threads : t = M \/ t \in Workers
  BY HostFacts DEF Base
<1>1. /\ ~WorkerAlive /\ pc[M] \in {"finished", "idle", "down"} /\ ckpt.terminal
      /\ main[Host].kind # "recover"
  BY DEF Rests
<1>a. ASSUME ckpt' = ckpt, answer' = answer, ~WorkerAlive', pc'[M] \in {"finished", "idle", "down"},
             main'[Host].kind # "recover"
      PROVE  Rests' /\ ckpt' = ckpt /\ answer' = answer
  BY <1>1, <1>a DEF Rests, Main, Host
<1>b. ASSUME NEW k, pc' = [pc EXCEPT ![M] = k] \/ pc' = pc
      PROVE  ~WorkerAlive'
  <2>1. \A w \in Workers : pc'[w] = pc[w]
    BY <1>0, <1>b DEF IInv, PcOK
  <2>2. QED
    BY <1>1, <2>1 DEF WorkerAlive, Alive
<1>n. NoMain.kind = "none"
  BY DEF NoMain
<1>2. CASE Expire \/ Abort(Host) \/ UNCHANGED vars
  <2>1. pc' = pc /\ main' = main /\ ckpt' = ckpt /\ answer' = answer
    BY <1>1, <1>2 DEF Expire, Abort, vars, store, local, ghost
  <2>2. QED
    BY <1>1, <1>a, <1>b, <2>1
<1>3. CASE Crash(Host)
  <2>1. StopProcess(Host) /\ ckpt' = ckpt /\ answer' = answer
    BY <1>3 DEF Crash, store, ghost
  <2>2. QED
    BY <1>0, <1>a, <1>n, <2>1, StopIs
<1>4. CASE Boot(Host) \/ Finished(Host)
  <2>1. /\ pc' = [pc EXCEPT ![M] = "idle"] /\ main' = [main EXCEPT ![Host] = NoMain]
        /\ ckpt' = ckpt /\ answer' = answer
    BY <1>1, <1>4 DEF Boot, Finished, Goto, store, ghost
  <2>2. pc'[M] = "idle" /\ main'[Host] = NoMain
    BY <1>0, <2>1 DEF IInv, PcOK, MainOK
  <2>3. ~WorkerAlive'
    BY <1>b, <2>1
  <2>4. QED
    BY <1>a, <1>n, <2>1, <2>2, <2>3
<1>5. ~ExecuteStep(Host) /\ ~Start(Host)
  BY <1>1 DEF Start, ExecuteStep, Authorize, Schedule, Attempt, Run, TimerFires, Retry, Backoff,
     Succeeded, Completed, Catch, Fail, Cancelled, Answer
<1>6. FinishStep(Host) => Finished(Host)
  BY <1>1 DEF FinishStep, Reach, Terminalize
<1>7. ~RecoverStep(Host)
  BY <1>1 DEF RecoverStep, RecoverIgnores, RecoverTerminalizes, RecoverResumes, Resume,
     ResumeRun, Resumed, ResumeCatch, BootCheck, RecoveryFactFails
<1>8. ~StoreStep(M)
  BY <1>1 DEF StoreStep, StoreCommits, StoreConflicts, StoreFails, Reload, PublishFails
<1>9. \A w \in Workers : ~WorkerStep(w) /\ ~StoreStep(w)
  BY <1>0, <1>1, WorkerHeard DEF WorkerAlive
<1>10. QED
  BY <1>0, <1>2, <1>3, <1>4, <1>5, <1>6, <1>7, <1>8, <1>9 DEF Next

(* A main coroutine that ends execute() alone: only it moves, or it stops.  *)
LEMMA AloneNext ==
  ASSUME OneHost, Base, ~WorkerAlive, main[Host].kind = "execute", pc[Main(Host)] # "await",
         answer.kind # "unsent", [Next]_vars
  PROVE  \/ main'[Host].kind # "execute"
         \/ ckpt' = ckpt /\ mgr' = mgr /\ pc' = pc /\ op' = op /\ main' = main /\ answer' = answer
            /\ cur' = cur
         \/ ExecuteStep(Host) \/ FinishStep(Host) \/ StoreStep(Main(Host))
<1>0. /\ IInv /\ RecordInv /\ DeferInv /\ Procs = {Host} /\ Host \in Procs
      /\ \A t \in Threads : t = Main(Host) \/ t \in Workers
  BY HostFacts DEF Base
<1>1. CASE Expire \/ Abort(Host) \/ UNCHANGED vars
  BY <1>1 DEF Expire, Abort, vars, store, local, ghost
<1>2. CASE Crash(Host)
  <2>1. main'[Host] = NoMain
    BY <1>0, <1>2, StopIs DEF Crash
  <2>2. QED
    BY <2>1 DEF NoMain
<1>3. ~RecoverStep(Host)
  BY <1>0 DEF RecoverStep, RecoverIgnores, RecoverTerminalizes, RecoverResumes, Resume,
     ResumeRun, Resumed, ResumeCatch, BootCheck, RecoveryFactFails, DeferInv, KindsOK, Kinds,
     Place, RecoverAt
<1>4. ~Boot(Host) /\ ~Start(Host)
  BY <1>0 DEF Boot, Start, DeferInv, KindsOK, Kinds
<1>5. \A w \in Workers : ~WorkerStep(w) /\ ~StoreStep(w)
  BY <1>0, WorkerHeard DEF WorkerAlive
<1>6. QED
  BY <1>0, <1>1, <1>2, <1>3, <1>4, <1>5 DEF Next

(* Without faults, a store of the durable revision succeeds.                *)
LEMMA StoreSucceeds ==
  ASSUME OneHost, Base, StoreStep(Main(Host)),
         pc[Main(Host)] = "store" => op[Main(Host)].rec.rev = ckpt.rev
  PROVE  /\ main' = main /\ Ran' = Ran /\ (~WorkerAlive => ~WorkerAlive')
         /\ \/ /\ pc[Main(Host)] = "store" /\ pc'[Main(Host)] = "reload" /\ op' = op
               /\ ckpt'.state = op[Main(Host)].rec.state /\ ckpt'.result = op[Main(Host)].rec.result
            \/ /\ pc[Main(Host)] = "reload" /\ pc'[Main(Host)] = op[Main(Host)].then
               /\ cur'[Main(Host)] = ckpt /\ ckpt' = ckpt
<1> DEFINE M == Main(Host)
<1>0. /\ IInv /\ FaultsSpent /\ M \in Threads /\ op[M].rec \in ExecutionCheckpoint
      /\ \A w \in Workers : w \in Threads /\ w # M
  BY HostFacts, Typed DEF Base
<1>1. StoreCommits(M) \/ Reload(M)
  BY <1>0 DEF StoreStep, StoreConflicts, StoreFails, PublishFails, FaultsSpent
<1>2. Ran' = Ran /\ main' = main
  BY <1>1 DEF StoreCommits, Reload, Ran, StateOf, Host
<1>3. PICK k : pc' = [pc EXCEPT ![M] = k]
  BY <1>1 DEF StoreCommits, Reload, Goto
<1>4. \A w \in Workers : pc'[w] = pc[w]
  BY <1>0, <1>3 DEF IInv, PcOK
<1>5. ~WorkerAlive => ~WorkerAlive'
  BY <1>4 DEF WorkerAlive, Alive
<1>6. CASE StoreCommits(M)
  <2>1. /\ pc[M] = "store" /\ pc' = [pc EXCEPT ![M] = "reload"] /\ op' = op
        /\ ckpt' = [op[M].rec EXCEPT !.rev = @ + 1]
    BY <1>6 DEF StoreCommits, Goto
  <2>2. ckpt'.state = op[M].rec.state /\ ckpt'.result = op[M].rec.result
    BY <1>0, <2>1 DEF ExecutionCheckpoint
  <2>3. pc'[M] = "reload"
    BY <1>0, <2>1 DEF IInv, PcOK
  <2>4. QED
    BY <1>2, <1>5, <2>1, <2>2, <2>3
<1>7. CASE Reload(M)
  <2>1. /\ pc[M] = "reload" /\ pc' = [pc EXCEPT ![M] = op[M].then] /\ ckpt' = ckpt
        /\ cur' = [cur EXCEPT ![M] = ckpt]
    BY <1>7 DEF Reload, Goto, store
  <2>2. pc'[M] = op[M].then /\ cur'[M] = ckpt
    BY <1>0, <2>1 DEF IInv, PcOK, CurOK
  <2>3. QED
    BY <1>2, <1>5, <2>1, <2>2
<1>8. QED
  BY <1>1, <1>6, <1>7

(* The main coroutine moves alone.                                          *)
LEMMA AloneMoves ==
  ASSUME OneHost, IInv, ~WorkerAlive, NEW k, pc' = [pc EXCEPT ![Main(Host)] = k]
  PROVE  ~WorkerAlive' /\ pc'[Main(Host)] = k
<1>0. Main(Host) \in Threads /\ \A w \in Workers : w \in Threads /\ w # Main(Host)
  BY HostFacts
<1>1. pc'[Main(Host)] = k /\ \A w \in Workers : pc'[w] = pc[w]
  BY <1>0 DEF IInv, PcOK
<1>2. QED
  BY <1>1 DEF WorkerAlive, Alive

LEMMA CompletesIs ==
  ASSUME ~WorkerAlive',
         Completion(pc'[Main(Host)], op'[Main(Host)], main'[Host], cur'[Main(Host)], ckpt', Ran')
  PROVE  Completes'
BY DEF Completes, Main, Host

LEMMA FailsIs ==
  ASSUME ~WorkerAlive',
         Failure(pc'[Main(Host)], op'[Main(Host)], main'[Host], cur'[Main(Host)], ckpt', Ran')
  PROVE  Fails'
BY DEF Fails, Main, Host

(* From the completing checkpoint to the completed one and to the answer.   *)
LEMMA CompletesNext ==
  ASSUME OneHost, Base, Completes, answer.kind # "unsent", [Next]_vars
  PROVE  \/ main'[Host].kind # "execute"
         \/ Completes'
         \/ /\ Rests' /\ pc'[Main(Host)] = "finished" /\ answer'.kind = "completed"
            /\ ckpt'.state = "completed" /\ ckpt'.result = answer'.value
<1> DEFINE M == Main(Host)
           k == pc[M]
           m == main[Host]
           o == op[M]
<1>0. /\ IInv /\ RecordInv /\ Exact(ckpt) /\ Host \in Procs /\ M \in Threads
      /\ cur[M] \in ExecutionCheckpoint /\ ckpt \in ExecutionCheckpoint /\ Lawful(ckpt)
      /\ m \in MainLocals
  BY HostFacts, Typed DEF Base
<1>1. /\ ~WorkerAlive /\ Completion(k, o, m, cur[M], ckpt, Ran)
      /\ m.kind = "execute" /\ m.slot = "run" /\ m.target = "completing" /\ m.handler = "catch"
      /\ k \in {"store", "reload", "terminalize", "completed"}
  BY DEF Completes, Completion
<1>2. \/ main'[Host].kind # "execute"
      \/ /\ ckpt' = ckpt /\ mgr' = mgr /\ pc' = pc /\ op' = op /\ main' = main /\ answer' = answer
         /\ cur' = cur
      \/ ExecuteStep(Host) \/ FinishStep(Host) \/ StoreStep(M)
  BY <1>1, AloneNext
<1>3. CASE /\ ckpt' = ckpt /\ mgr' = mgr /\ pc' = pc /\ op' = op /\ main' = main /\ answer' = answer
           /\ cur' = cur
  <2>1. Ran' = Ran /\ ~WorkerAlive'
    BY <1>1, <1>3 DEF Ran, StateOf, Host, WorkerAlive, Alive
  <2>2. QED
    BY <1>1, <1>3, <2>1, CompletesIs
<1>4. CASE StoreStep(M)
  <2>1. k = "store" => o.rec.rev = ckpt.rev
    BY <1>1 DEF Completion
  <2>2. /\ main' = main /\ Ran' = Ran /\ ~WorkerAlive'
        /\ \/ /\ k = "store" /\ pc'[M] = "reload" /\ op' = op
              /\ ckpt'.state = o.rec.state /\ ckpt'.result = o.rec.result
           \/ k = "reload" /\ pc'[M] = o.then /\ cur'[M] = ckpt /\ ckpt' = ckpt
    BY <1>1, <1>4, <2>1, StoreSucceeds
  <2>3. Completion(pc'[M], op'[M], main'[Host], cur'[M], ckpt', Ran')
    BY <1>1, <2>2 DEF Completion
  <2>4. QED
    BY <2>2, <2>3, CompletesIs
<1>5. CASE ExecuteStep(Host)
  <2>1. Completed(Host)
    BY <1>1, <1>5 DEF ExecuteStep, Authorize, Schedule, Attempt, Run, TimerFires, Retry, Backoff,
       Succeeded, Catch, Fail, Cancelled, Answer
  <2>2. /\ k = "completed" /\ answer' = [kind |-> "completed", value |-> m.value]
        /\ pc' = [pc EXCEPT ![M] = "finished"] /\ ckpt' = ckpt /\ main' = main
    BY <2>1 DEF Completed, Goto, store
  <2>3. ckpt.state = "completed" /\ ckpt.result = m.value
    BY <1>1, <2>2 DEF Completion
  <2>4. ckpt.terminal
    BY <1>0, <2>3 DEF Lawful, isTerminalState
  <2>5. ~WorkerAlive' /\ pc'[M] = "finished"
    BY <1>0, <1>1, <2>2, AloneMoves
  <2>6. Rests'
    BY <1>1, <2>2, <2>4, <2>5 DEF Rests, Main, Host
  <2>7. QED
    BY <2>2, <2>3, <2>5, <2>6
<1>6. CASE FinishStep(Host)
  <2>1. Terminalize(Host)
    BY <1>1, <1>6 DEF FinishStep, Reach, Finished
  <2>2. k = "terminalize" /\ cur[M] = ckpt /\ Ran = "completing"
    BY <1>1, <2>1 DEF Terminalize, Completion
  <2>3. PICK c : c = [cur[M] EXCEPT !.result = m.value,
                                    !.cancelled = @ \/ m.target = "cancelling"]
    OBVIOUS
  <2>4. c \in ExecutionCheckpoint /\ c.rev = ckpt.rev /\ c.result = m.value
    BY <1>0, <2>2, <2>3 DEF ExecutionCheckpoint, MainLocals
  <2>5. FinalState(m.target) = "completed" /\ StateOf(Host, "run") = "completing"
    BY <1>1, <2>2 DEF FinalState, Ran
  <2>6. transitionAndCheckpoint(M, "run", c, "completed", "terminal", "completed") /\ ckpt' = ckpt
    BY <1>1, <2>1, <2>3, <2>5 DEF Terminalize, store
  <2>7. "completed" \in transitions[Ran] /\ isTerminalState("completed") /\ "run" \in Slot
        /\ "terminal" \in ExecutionStage
    BY <2>2 DEF transitions, isTerminalState, Slot, ExecutionStage
  <2>8. Issues(M, "completed", c, "completed")
    BY <1>0, <2>4, <2>6, <2>7, TransitionRan
  <2>9. /\ main' = main /\ pc' = [pc EXCEPT ![M] = "store"] /\ op'[M].then = "completed"
        /\ op'[M].rec.rev = ckpt.rev /\ op'[M].rec.state = "completed"
        /\ op'[M].rec.result = m.value
    BY <2>4, <2>8 DEF Issues
  <2>10. ~WorkerAlive' /\ pc'[M] = "store"
    BY <1>0, <1>1, <2>9, AloneMoves
  <2>11. Completion(pc'[M], op'[M], main'[Host], cur'[M], ckpt', Ran')
    BY <1>1, <2>6, <2>9, <2>10 DEF Completion
  <2>12. QED
    BY <2>10, <2>11, CompletesIs
<1>7. QED
  BY <1>2, <1>3, <1>4, <1>5, <1>6

(* From an error that leaves no worker behind to the failed checkpoint and  *)
(* to the answer.                                                           *)
LEMMA FailsNext ==
  ASSUME OneHost, Base, Fails, answer.kind # "unsent", [Next]_vars
  PROVE  \/ main'[Host].kind # "execute"
         \/ Fails'
         \/ /\ Rests' /\ pc'[Main(Host)] = "finished" /\ answer'.kind = "failed"
            /\ ckpt'.state # "completed"
<1> DEFINE M == Main(Host)
           k == pc[M]
           m == main[Host]
           o == op[M]
<1>0. /\ IInv /\ RecordInv /\ Exact(ckpt) /\ Host \in Procs /\ M \in Threads
      /\ cur[M] \in ExecutionCheckpoint /\ ckpt \in ExecutionCheckpoint /\ Lawful(ckpt)
      /\ m \in MainLocals /\ Loaded(M) = ckpt
  BY HostFacts, Typed, LoadedIs DEF Base
<1>1. /\ ~WorkerAlive /\ Failure(k, o, m, cur[M], ckpt, Ran)
      /\ m.kind = "execute" /\ m.slot = "run" /\ m.target = "failed" /\ m.handler = "answer"
      /\ m.err # "CANCELLED"
      /\ k \in {"fail", "reach", "store", "reload", "terminalize", "answer"}
  BY DEF Fails, Failure
<1>2. \/ main'[Host].kind # "execute"
      \/ /\ ckpt' = ckpt /\ mgr' = mgr /\ pc' = pc /\ op' = op /\ main' = main /\ answer' = answer
         /\ cur' = cur
      \/ ExecuteStep(Host) \/ FinishStep(Host) \/ StoreStep(M)
  BY <1>1, AloneNext
<1>r. mgr' = mgr => Ran' = Ran
  BY DEF Ran, StateOf, Host
<1>3. CASE /\ ckpt' = ckpt /\ mgr' = mgr /\ pc' = pc /\ op' = op /\ main' = main /\ answer' = answer
           /\ cur' = cur
  <2>1. Ran' = Ran /\ ~WorkerAlive'
    BY <1>1, <1>3, <1>r DEF WorkerAlive, Alive
  <2>2. QED
    BY <1>1, <1>3, <2>1, FailsIs
<1>4. CASE StoreStep(M)
  <2>1. k = "store" => o.rec.rev = ckpt.rev
    BY <1>1 DEF Failure
  <2>2. /\ main' = main /\ Ran' = Ran /\ ~WorkerAlive'
        /\ \/ /\ k = "store" /\ pc'[M] = "reload" /\ op' = op
              /\ ckpt'.state = o.rec.state /\ ckpt'.result = o.rec.result
           \/ k = "reload" /\ pc'[M] = o.then /\ cur'[M] = ckpt /\ ckpt' = ckpt
    BY <1>1, <1>4, <2>1, StoreSucceeds
  <2>3. Failure(pc'[M], op'[M], main'[Host], cur'[M], ckpt', Ran')
    BY <1>1, <2>2 DEF Failure
  <2>4. QED
    BY <2>2, <2>3, FailsIs
<1>5. CASE ExecuteStep(Host)
  <2>1. Fail(Host) \/ Answer(Host)
    BY <1>1, <1>5 DEF ExecuteStep, Authorize, Schedule, Attempt, Run, TimerFires, Retry, Backoff,
       Succeeded, Catch, Completed, Cancelled
  <2>2. CASE Fail(Host)
    <3>1. k = "fail" /\ Ran \in Live
      BY <1>1, <2>2 DEF Fail, Failure
    <3>2. ~isTerminalState(StateOf(Host, "run"))
      BY <3>1 DEF Ran, Live, isTerminalState
    <3>3. /\ cur' = [cur EXCEPT ![M] = ckpt] /\ pc' = [pc EXCEPT ![M] = "reach"]
          /\ main' = main /\ op' = op /\ mgr' = mgr /\ ckpt' = ckpt
      BY <1>0, <1>1, <2>2, <3>2 DEF Fail, Goto, store
    <3>4. ~WorkerAlive' /\ pc'[M] = "reach"
      BY <1>0, <1>1, <3>3, AloneMoves
    <3>5. cur'[M] = ckpt
      BY <1>0, <3>3 DEF IInv, CurOK
    <3>6. Failure(pc'[M], op'[M], main'[Host], cur'[M], ckpt', Ran')
      BY <1>1, <1>r, <3>1, <3>3, <3>4, <3>5 DEF Failure
    <3>7. QED
      BY <3>4, <3>6, FailsIs
  <2>3. CASE Answer(Host)
    <3>1. /\ k = "answer" /\ answer'.kind = "failed"
          /\ pc' = [pc EXCEPT ![M] = "finished"] /\ ckpt' = ckpt /\ main' = main
      BY <1>1, <2>3 DEF Answer, Goto, store
    <3>2. ckpt.state = "failed"
      BY <1>1, <3>1 DEF Failure
    <3>3. ckpt.terminal
      BY <1>0, <3>2 DEF Lawful, isTerminalState
    <3>4. ~WorkerAlive' /\ pc'[M] = "finished"
      BY <1>0, <1>1, <3>1, AloneMoves
    <3>5. Rests'
      BY <1>1, <3>1, <3>3, <3>4 DEF Rests, Main, Host
    <3>6. QED
      BY <3>1, <3>2, <3>4, <3>5
  <2>4. QED
    BY <2>1, <2>2, <2>3
<1>6. CASE FinishStep(Host)
  <2>1. Reach(Host) \/ Terminalize(Host)
    BY <1>1, <1>6 DEF FinishStep, Finished
  <2>2. ckpt' = ckpt
    BY <1>6 DEF FinishStep, Reach, Terminalize, Finished, store
  <2>s. ASSUME NEW c, c.rev = ckpt.rev, NEW j \in {"terminalize", "answer"},
               Issues(M, j, c, "failed"), Ran' = "failed"
        PROVE  Fails'
    <3>1. /\ main' = main /\ pc' = [pc EXCEPT ![M] = "store"] /\ op'[M].then = j
          /\ op'[M].rec.rev = ckpt.rev /\ op'[M].rec.state = "failed"
      BY <2>s DEF Issues
    <3>2. ~WorkerAlive' /\ pc'[M] = "store"
      BY <1>0, <1>1, <3>1, AloneMoves
    <3>3. Failure(pc'[M], op'[M], main'[Host], cur'[M], ckpt', Ran')
      BY <1>1, <2>2, <2>s, <3>1, <3>2 DEF Failure
    <3>4. QED
      BY <3>2, <3>3, FailsIs
  <2>3. CASE Reach(Host)
    <3>1. k = "reach" /\ cur[M] = ckpt /\ Ran \in Live
      BY <1>1, <2>3 DEF Reach, Failure
    <3>2. "failed" \in transitions[Ran] /\ Ran # "failed"
      BY <3>1 DEF Live, transitions
    <3>3. NextHop(StateOf(Host, "run"), "failed") = "failed"
      BY <3>2 DEF NextHop, Ran
    <3>4. PICK c : c = [cur[M] EXCEPT !.cancelled = @ \/ "failed" = "cancelling"]
      OBVIOUS
    <3>5. c \in ExecutionCheckpoint /\ c.rev = ckpt.rev /\ c.stage \in ExecutionStage
      BY <1>0, <3>1, <3>4 DEF ExecutionCheckpoint
    <3>6. transitionAndCheckpoint(M, "run", c, "failed", c.stage, "terminalize")
      BY <1>1, <2>3, <3>2, <3>3, <3>4 DEF Reach, Ran
    <3>7. isTerminalState("failed") /\ "run" \in Slot
      BY DEF isTerminalState, Slot
    <3>8. Issues(M, "terminalize", c, "failed") /\ Ran' = "failed"
      BY <1>0, <3>2, <3>5, <3>6, <3>7, TransitionRan
    <3>9. QED
      BY <2>s, <3>5, <3>8
  <2>4. CASE Terminalize(Host)
    <3>1. k = "terminalize" /\ cur[M] = ckpt /\ Ran = "failed" /\ ckpt.state = "failed"
      BY <1>1, <2>4 DEF Terminalize, Failure
    <3>2. PICK c : c = [cur[M] EXCEPT !.result = @, !.cancelled = @ \/ m.target = "cancelling"]
      OBVIOUS
    <3>3. c \in ExecutionCheckpoint /\ c.rev = ckpt.rev /\ c.stage = ckpt.stage
      BY <1>0, <3>1, <3>2 DEF ExecutionCheckpoint
    <3>4. FinalState(m.target) = "failed" /\ StateOf(Host, "run") = "failed"
      BY <1>1, <3>1 DEF FinalState, Ran
    <3>5. upsert(M, Stamped(c, mgr[Host]["run"]), "answer") /\ mgr' = mgr
      BY <1>1, <2>4, <3>2, <3>4 DEF Terminalize
    <3>6. PICK d : d = Stamped(c, mgr[Host]["run"])
      OBVIOUS
    <3>7. mgr[Host]["run"] \in Seq(ExecutionState) /\ LegalPath(mgr[Host]["run"])
      BY <1>0 DEF IInv, MgrOK, Slot
    <3>8. d \in ExecutionCheckpoint /\ d.state = "failed"
      BY <3>3, <3>4, <3>6, <3>7, StampedPath DEF StateOf
    <3>9. d.rev = ckpt.rev /\ d.stage = ckpt.stage
      BY <3>3, <3>6 DEF Stamped, ExecutionCheckpoint
    <3>10. ckpt.stage = "terminal"
      BY <1>0, <3>1 DEF Lawful, isTerminalState
    <3>11. Issues(M, "answer", d, "failed")
      BY <1>0, <3>5, <3>6, <3>8, <3>9, <3>10, UpsertIs
    <3>12. QED
      BY <1>r, <2>s, <3>1, <3>5, <3>9, <3>11
  <2>5. QED
    BY <2>1, <2>3, <2>4
<1>7. QED
  BY <1>2, <1>3, <1>4, <1>5, <1>6

-----------------------------------------------------------------------------
(* It still tries.                                                          *)

LEMMA ProceedsIs ==
  ASSUME Incomplete', Ran' \in Live, NEW a \in Trying, Aim(Main(Host))' = a,
         main'[Host].kind = "execute", main'[Host].handler \in {"catch", "retry"},
         main'[Host].slot = "run", a = "run" => main'[Host].attempt # 0,
         pc'[Main(Host)] = "succeeded" => main'[Host].handler = "catch",
         WorkerAlive' => \/ /\ pc'[Main(Host)] = "await"
                            /\ \A w \in Workers : Alive(w)' => w[2] = main'[Host].attempt
                         \/ /\ pc'[Main(Host)] \in {"retry", "catch"}
                            /\ main'[Host].err = "CANCELLED" \/ expired'
  PROVE  Proceeds'
BY DEF Proceeds, Undecided, Awaiting, Abandons, Main, Host

LEMMA ProceedsFacts ==
  ASSUME OneHost, Base, Proceeds
  PROVE  /\ Main(Host) \in Threads /\ Main(Host)[1] = Host /\ Host \in Procs /\ "run" \in Slot
         /\ \A w \in Workers : w \in Threads /\ w # Main(Host) /\ w[1] = Host
         /\ main[Host] \in MainLocals /\ main[Host].kind = "execute" /\ main[Host].slot = "run"
         /\ main[Host].handler \in {"catch", "retry"}
         /\ Loaded(Main(Host)) = ckpt /\ ckpt \in ExecutionCheckpoint
         /\ cur[Main(Host)] \in ExecutionCheckpoint
         /\ mgr[Host]["run"] \in Seq(ExecutionState) /\ LegalPath(mgr[Host]["run"])
         /\ Last(mgr[Host]["run"]) = Ran
         /\ ckpt.state # "completed" /\ Ran # "completed" /\ Ran \in Live
         /\ (mgr' = mgr => Ran' = Ran)
         /\ pc[Main(Host)] \in Trying \cup {"store", "reload"}
         /\ (pc[Main(Host)] \notin {"await", "retry", "catch"} => ~WorkerAlive)
         /\ (pc[Main(Host)] \in {"store", "reload"} => op[Main(Host)].then \in Trying)
         /\ (Aim(Main(Host)) = "run" => main[Host].attempt # 0)
<1>1. /\ Main(Host) \in Threads /\ Main(Host)[1] = Host /\ Host \in Procs /\ "run" \in Slot
      /\ \A w \in Workers : w \in Threads /\ w # Main(Host) /\ w[1] = Host
  BY HostFacts DEF Slot
<1>2. /\ main[Host] \in MainLocals /\ ckpt \in ExecutionCheckpoint
      /\ cur[Main(Host)] \in ExecutionCheckpoint /\ Loaded(Main(Host)) = ckpt
  BY <1>1, Typed, LoadedIs DEF Base
<1>3. Undecided(Aim(Main(Host)), pc[Main(Host)], main[Host], expired) /\ Incomplete /\ Ran \in Live
  BY DEF Proceeds
<1>4. mgr[Host]["run"] \in Seq(ExecutionState) /\ LegalPath(mgr[Host]["run"])
      /\ Last(mgr[Host]["run"]) = Ran /\ (mgr' = mgr => Ran' = Ran)
  BY <1>1 DEF Base, IInv, MgrOK, Ran, StateOf, Host
<1>5. /\ pc[Main(Host)] \in Trying \cup {"store", "reload"}
      /\ (pc[Main(Host)] \in {"store", "reload"} => op[Main(Host)].then \in Trying)
  BY <1>3 DEF Undecided, Aim
<1>6. /\ main[Host].kind = "execute" /\ main[Host].slot = "run"
      /\ main[Host].handler \in {"catch", "retry"}
      /\ (pc[Main(Host)] \notin {"await", "retry", "catch"} => ~WorkerAlive)
      /\ (Aim(Main(Host)) = "run" => main[Host].attempt # 0)
  BY <1>3 DEF Undecided
<1>7. ckpt.state # "completed" /\ Ran # "completed"
  BY <1>3 DEF Incomplete
<1>8. QED
  BY <1>1, <1>2, <1>3, <1>4, <1>5, <1>6, <1>7

LEMMA ProceedsThrows ==
  ASSUME OneHost, Base, Proceeds, NEW e, Throw(Main(Host), e), Incomplete', Ran' \in Live,
         WorkerAlive => e = "CANCELLED" \/ expired'
  PROVE  Proceeds'
<1> DEFINE M == Main(Host)
<1>0. /\ IInv /\ RecordInv /\ M \in Threads /\ \A w \in Workers : w # M
      /\ main[Host].kind = "execute" /\ main[Host].slot = "run"
      /\ main[Host].handler \in {"catch", "retry"}
  BY ProceedsFacts DEF Base
<1>1. /\ \A f \in {"kind", "handler", "slot", "attempt", "late", "target", "value"} :
           main'[Host][f] = main[Host][f]
      /\ main'[Host].err = e
      /\ pc'[M] = main[Host].handler
      /\ \A w \in Workers : pc'[w] = pc[w]
  BY <1>0, ThrowMain
<1>2. WorkerAlive' => WorkerAlive
  BY <1>1 DEF WorkerAlive, Alive
<1>3. Aim(M)' = main[Host].handler /\ main[Host].handler \in Trying
  BY <1>0, <1>1 DEF Aim, Main, Host, Trying
<1>4. /\ main'[Host].kind = "execute" /\ main'[Host].slot = "run"
      /\ main'[Host].handler \in {"catch", "retry"}
  BY <1>0, <1>1
<1>5. WorkerAlive' => main'[Host].err = "CANCELLED" \/ expired'
  BY <1>1, <1>2
<1>6. QED
  BY <1>0, <1>1, <1>3, <1>4, <1>5, ProceedsIs

LEMMA ProceedsIssues ==
  ASSUME OneHost, Base, Proceeds, ~WorkerAlive, ckpt' = ckpt, Ran' \in Live,
         NEW k \in Trying, k # "run", NEW c, NEW x, x # "completed",
         Refuses(Main(Host)) \/ Issues(Main(Host), k, c, x)
  PROVE  Proceeds'
<1> DEFINE M == Main(Host)
<1>0. /\ IInv /\ RecordInv /\ M \in Threads /\ \A w \in Workers : w # M /\ w \in Threads
      /\ main[Host].kind = "execute" /\ main[Host].slot = "run"
      /\ main[Host].handler \in {"catch", "retry"}
  BY ProceedsFacts DEF Base
<1>1. Incomplete'
  <2>1. Ran' # "completed"
    BY DEF Live
  <2>2. QED
    BY <1>0, <2>1, IncompleteIssued DEF Proceeds
<1>2. CASE Refuses(M)
  BY <1>1, <1>2, ProceedsThrows DEF Refuses
<1>3. CASE Issues(M, k, c, x)
  <2>0. /\ pc'[M] = "store" /\ Aim(M)' = k
        /\ \A u \in Threads : u # M => pc'[u] = pc[u] /\ op'[u] = op[u]
    BY <1>0, <1>3, IssuesMain
  <2>1. /\ pc'[M] = "store" /\ Aim(M)' = k /\ main' = main
        /\ \A w \in Workers : pc'[w] = pc[w]
    BY <1>0, <1>3, <2>0 DEF Issues
  <2>2. ~WorkerAlive'
    BY <2>1 DEF WorkerAlive, Alive
  <2>3. QED
    BY <1>0, <1>1, <2>1, <2>2, ProceedsIs
<1>4. QED
  BY <1>2, <1>3

LEMMA ProceedsMoves ==
  ASSUME OneHost, Base, Proceeds, ckpt' = ckpt, mgr' = mgr, op' = op,
         NEW k \in Trying, pc' = [pc EXCEPT ![Main(Host)] = k],
         main'[Host].kind = "execute", main'[Host].slot = "run",
         main'[Host].handler \in {"catch", "retry"}, k \notin {"run", "succeeded"},
         WorkerAlive => k \in {"retry", "catch"} /\ (main'[Host].err = "CANCELLED" \/ expired')
  PROVE  Proceeds'
<1> DEFINE M == Main(Host)
<1>0. /\ IInv /\ M \in Threads /\ Ran' = Ran /\ Ran \in Live /\ Ran # "completed"
      /\ \A w \in Workers : w # M /\ w \in Threads
  BY ProceedsFacts DEF Base
<1>1. k \notin {"store", "reload"}
  BY DEF Trying
<1>2. Incomplete'
  BY <1>0, <1>1, IncompleteMoved DEF Proceeds
<1>3. pc'[M] = k /\ \A w \in Workers : pc'[w] = pc[w]
  BY <1>0 DEF IInv, PcOK
<1>4. Aim(M)' = k
  BY <1>1, <1>3 DEF Aim, Main, Host
<1>5. WorkerAlive' => WorkerAlive
  BY <1>3 DEF WorkerAlive, Alive
<1>6. QED
  BY <1>0, <1>2, <1>3, <1>4, <1>5, ProceedsIs

(* A store of its own.                                                      *)
LEMMA ProceedsStores ==
  ASSUME OneHost, Base, Proceeds, StoreStep(Main(Host))
  PROVE  Proceeds'
<1> DEFINE M == Main(Host)
<1>0. /\ IInv /\ RecordInv /\ M \in Threads /\ Incomplete' /\ Ran' = Ran /\ Ran \in Live
      /\ pc[M] \in {"store", "reload"} /\ op[M].then \in Trying /\ ~WorkerAlive
      /\ (op[M].then = "run" => main[Host].attempt # 0)
      /\ main[Host].kind = "execute" /\ main[Host].slot = "run"
      /\ main[Host].handler \in {"catch", "retry"}
  <2>1. pc[M] \in {"store", "reload"}
    BY DEF StoreStep, StoreCommits, StoreConflicts, StoreFails, Reload, PublishFails
  <2>2. IInv /\ RecordInv /\ M \in Threads /\ Incomplete
    BY ProceedsFacts DEF Base, Proceeds
  <2>3. Incomplete' /\ Ran' = Ran
    BY <2>2, StoreStepIncomplete
  <2>4. op[M].then = "run" => main[Host].attempt # 0
    BY <2>1, ProceedsFacts DEF Aim
  <2>5. QED
    BY <2>1, <2>2, <2>3, <2>4, ProceedsFacts
<1>1. CASE \E e : Throw(M, e)
  BY <1>0, <1>1, ProceedsThrows
<1>2. CASE StoreCommits(M)
  <2>1. pc' = [pc EXCEPT ![M] = "reload"] /\ op' = op /\ main' = main
    BY <1>2 DEF StoreCommits, Goto
  <2>2. pc'[M] = "reload" /\ ~WorkerAlive'
    BY <1>0, <2>1, AloneMoves
  <2>3. Aim(M)' = op[M].then
    BY <2>1, <2>2 DEF Aim, Main, Host
  <2>4. QED
    BY <1>0, <2>1, <2>2, <2>3, ProceedsIs
<1>3. CASE Reload(M)
  <2>1. pc' = [pc EXCEPT ![M] = op[M].then] /\ main' = main
    BY <1>3 DEF Reload, Goto
  <2>2. pc'[M] = op[M].then /\ ~WorkerAlive'
    BY <1>0, <2>1, AloneMoves
  <2>3. Aim(M)' = op[M].then
    BY <1>0, <2>2 DEF Aim, Main, Host, Trying
  <2>4. op[M].then # "succeeded"
    BY <1>0, HostFacts DEF RecordInv, MainsOK, MainFact
  <2>5. QED
    BY <1>0, <2>1, <2>2, <2>3, <2>4, ProceedsIs
<1>4. QED
  BY <1>1, <1>2, <1>3 DEF StoreStep, StoreConflicts, StoreFails, PublishFails

(* A step of the worker.                                                    *)
LEMMA ProceedsWorks ==
  ASSUME OneHost, Base, Proceeds, NEW w \in Workers, WorkerStep(w) \/ StoreStep(w)
  PROVE  Proceeds'
<1> DEFINE M == Main(Host)
<1>0. /\ IInv /\ RecordInv /\ Exact(ckpt) /\ SoleInv /\ w \in Threads /\ Incomplete
      /\ Ran \in Live /\ main[Host].kind = "execute" /\ main[Host].slot = "run"
      /\ main[Host].handler \in {"catch", "retry"}
      /\ Undecided(Aim(M), pc[M], main[Host], expired)
  BY ProceedsFacts DEF Base, Proceeds
<1>1. Incomplete' /\ Ran' \in Live
  <2>1. Incomplete' /\ Ran' \in {Ran, "planning", "executing"}
    BY <1>0, WorkerStepIncomplete, StoreStepIncomplete
  <2>2. QED
    BY <1>0, <2>1 DEF Live
<1>2. /\ Apart \/ Hears(w)
      /\ Alive(w) /\ op'[M] = op[M] /\ expired' = expired
      /\ \A v \in Workers : v # w => pc'[v] = pc[v]
  BY <1>0, WorkerHeard
<1>3. CASE Apart
  <2>1. main'[Host] = main[Host] /\ pc'[M] = pc[M] /\ Aim(M)' = Aim(M)
    BY <1>2, <1>3 DEF Apart, Aim, Main, Host
  <2>2. WorkerAlive
    BY <1>2 DEF WorkerAlive
  <2>3. \A v \in Workers : Alive(v)' => Alive(v)
    BY <1>2 DEF Alive
  <2>4. /\ Aim(M) \in Trying
        /\ pc[M] = "succeeded" => main[Host].handler = "catch"
        /\ Aim(M) = "run" => main[Host].attempt # 0
        /\ \/ /\ pc[M] = "await"
              /\ \A v \in Workers : Alive(v) => v[2] = main[Host].attempt
           \/ pc[M] \in {"retry", "catch"} /\ (main[Host].err = "CANCELLED" \/ expired)
    BY <1>0, <2>2 DEF Undecided, Awaiting, Abandons
  <2>5. QED
    BY <1>0, <1>1, <1>2, <2>1, <2>3, <2>4, ProceedsIs
<1>4. CASE Hears(w)
  <2>1. \A v \in Workers : ~Alive(v)'
    BY <1>0, <1>2, <1>4 DEF Hears, Alive, SoleInv
  <2>2. ~WorkerAlive'
    BY <2>1 DEF WorkerAlive
  <2>3. /\ main'[Host].kind = "execute" /\ main'[Host].slot = "run"
        /\ \/ pc'[M] \in {"catch", "retry"} /\ main'[Host].handler \in {"catch", "retry"}
           \/ pc'[M] = "succeeded" /\ main'[Host].handler = "catch"
    BY <1>0, <1>4 DEF Hears
  <2>4. Aim(M)' = pc'[M] /\ pc'[M] \in Trying
    BY <2>3 DEF Aim, Main, Host, Trying
  <2>5. QED
    BY <1>1, <2>2, <2>3, <2>4, ProceedsIs
<1>5. QED
  BY <1>2, <1>3, <1>4

(* Where the steps of execute() lead while it still tries.                  *)
AnyWay == \/ Proceeds' \/ Completes' \/ Fails'
          \/ Gone' /\ (main'[Host].err = "CANCELLED" \/ expired')

(* Before the worker is started.                                            *)
LEMMA ProceedsAdmits ==
  ASSUME OneHost, Base, Proceeds,
         Authorize(Host) \/ Schedule(Host) \/ Attempt(Host) \/ Run(Host) \/ Backoff(Host)
  PROVE  Proceeds'
<1> DEFINE M == Main(Host)
<1>0. /\ IInv /\ RecordInv /\ M \in Threads /\ Host \in Procs /\ M[1] = Host
      /\ \A w \in Workers : w \in Threads /\ w # M
      /\ main[Host] \in MainLocals /\ main[Host].kind = "execute" /\ main[Host].slot = "run"
      /\ main[Host].handler \in {"catch", "retry"}
      /\ Loaded(M) = ckpt /\ ckpt \in ExecutionCheckpoint /\ cur[M] \in ExecutionCheckpoint
      /\ mgr[Host]["run"] \in Seq(ExecutionState) /\ LegalPath(mgr[Host]["run"])
      /\ Last(mgr[Host]["run"]) = Ran
      /\ ckpt.state # "completed" /\ Ran # "completed" /\ Ran \in Live /\ Incomplete
      /\ (mgr' = mgr => Ran' = Ran)
  BY ProceedsFacts DEF Base, Proceeds
<1>1. ~WorkerAlive
  BY ProceedsFacts DEF Authorize, Schedule, Attempt, Run, Backoff
<1>2. ckpt' = ckpt
  BY DEF Authorize, Schedule, Attempt, Run, Backoff, store
<1>t. ASSUME NEW e, Throw(M, e), op' = op, mgr' = mgr
      PROVE  Proceeds'
  <2>1. Incomplete' /\ Ran' \in Live
    BY <1>0, <1>2, <1>t, IncompleteRefused
  <2>2. QED
    BY <1>1, <1>t, <2>1, ProceedsThrows
<1>3. CASE Authorize(Host)
  <2>1. PICK c, d : c = [cur[M] EXCEPT !.snapshot = TRUE] /\ d = Stamped(c, mgr[Host]["run"])
    OBVIOUS
  <2>2. c \in ExecutionCheckpoint
    BY <1>0, <2>1 DEF ExecutionCheckpoint
  <2>3. d \in ExecutionCheckpoint /\ d.state = Ran
    BY <1>0, <2>1, <2>2, StampedPath
  <2>4. /\ (Throw(M, "FAILED") /\ op' = op) \/ upsert(M, d, "schedule")
        /\ mgr' = mgr
    BY <1>3, <2>1 DEF Authorize
  <2>5. CASE upsert(M, d, "schedule")
    <3>1. Refuses(M) \/ Issues(M, "schedule", d, d.state)
      BY <1>0, <2>3, <2>5, UpsertIs
    <3>2. Ran' \in Live /\ "schedule" \in Trying /\ d.state # "completed"
      BY <1>0, <2>3, <2>4 DEF Trying
    <3>3. QED
      BY <1>1, <1>2, <3>1, <3>2, ProceedsIssues
  <2>6. QED
    BY <1>t, <2>4, <2>5
<1>4. CASE Schedule(Host)
  <2>1. /\ Throw(M, "FAILED") \/ (pc' = [pc EXCEPT ![M] = "attempt"] /\ main' = main)
        /\ op' = op /\ mgr' = mgr
    BY <1>4 DEF Schedule, Goto
  <2>2. "attempt" \in Trying
    BY DEF Trying
  <2>3. QED
    BY <1>t, <1>0, <1>1, <1>2, <2>1, <2>2, ProceedsMoves
<1>5. CASE Attempt(Host)
  <2>1. PICK m, o : /\ m = [main[Host] EXCEPT !.attempt = @ + 1, !.handler = "retry"]
                    /\ o = [rec |-> Normalized(ckpt), fact |-> FALSE, then |-> "run"]
    OBVIOUS
  <2>2. /\ main' = [main EXCEPT ![Host] = m] /\ op' = [op EXCEPT ![M] = o]
        /\ pc' = [pc EXCEPT ![M] = "store"] /\ mgr' = mgr
    BY <1>0, <1>5, <2>1 DEF Attempt, IInv, MainOK
  <2>3. /\ main'[Host] = m /\ op'[M] = o /\ \A u \in Threads : u # M => op'[u] = op[u] /\ pc'[u] = pc[u]
    BY <1>0, <2>2 DEF IInv, MainOK, OpOK, PcOK
  <2>4. m.kind = "execute" /\ m.slot = "run" /\ m.handler = "retry" /\ m.attempt # 0
    BY <1>0, <2>1 DEF MainLocals
  <2>5. o.rec.state = ckpt.state /\ o.then = "run"
    BY <1>0, <2>1, NormalizedIs
  <2>6. Incomplete'
    BY <1>0, <1>2, <2>2, <2>3, <2>5, IncompleteStays
  <2>7. ~WorkerAlive' /\ pc'[M] = "store"
    BY <1>0, <1>1, <2>2, AloneMoves
  <2>8. Aim(M)' = "run" /\ "run" \in Trying
    BY <2>3, <2>5, <2>7 DEF Aim, Main, Host, Trying
  <2>9. QED
    BY <1>0, <2>2, <2>3, <2>4, <2>6, <2>7, <2>8, ProceedsIs
<1>6. CASE Run(Host)
  <2>1. PICK v : v = <<Host, main[Host].attempt>>
    OBVIOUS
  <2>2. /\ pc' = [pc EXCEPT ![M] = "await", ![v] = "enter"]
        /\ main' = main /\ op' = op /\ mgr' = mgr
    BY <1>6, <2>1 DEF Run, StartWorker
  <2>3. v # M
    <3>1. pc[M] = "run"
      BY <1>6 DEF Run
    <3>2. Aim(M) = "run"
      BY <3>1 DEF Aim
    <3>3. main[Host].attempt # 0
      BY <3>2, ProceedsFacts
    <3>4. QED
      BY <2>1, <3>3 DEF Main
  <2>4. /\ pc'[M] = "await"
        /\ \A u \in Threads : u # M => pc'[u] = (IF u = v THEN "enter" ELSE pc[u])
    BY <1>0, <2>2, <2>3 DEF IInv, PcOK
  <2>5. Incomplete'
    <3>1. \A u \in Threads : pc'[u] = "store" => pc[u] = "store" /\ op'[u] = op[u]
      BY <2>2, <2>4
    <3>2. QED
      BY <1>0, <1>2, <2>2, <3>1, IncompleteStays
  <2>6. \A w \in Workers : Alive(w)' => w = v
    BY <1>0, <1>1, <2>4 DEF WorkerAlive, Alive
  <2>7. \A w \in Workers : Alive(w)' => w[2] = main'[Host].attempt
    BY <2>1, <2>2, <2>6
  <2>8. Aim(M)' = "await" /\ "await" \in Trying
    BY <2>4 DEF Aim, Main, Host, Trying
  <2>9. QED
    BY <1>0, <2>2, <2>4, <2>5, <2>7, <2>8, ProceedsIs
<1>7. CASE Backoff(Host)
  <2>1. transitionAndCheckpoint(M, "run", ckpt, "recovering", ckpt.stage, "attempt")
    BY <1>0, <1>7 DEF Backoff
  <2>2. ckpt.stage \in ExecutionStage /\ "run" \in Slot /\ "attempt" \in Trying
    BY <1>0 DEF ExecutionCheckpoint, Slot, Trying
  <2>3. Ran' \in {Ran, "recovering"} /\ (Refuses(M) \/ Issues(M, "attempt", ckpt, "recovering"))
    BY <1>0, <2>1, <2>2, TransitionRan
  <2>4. Ran' \in Live
    BY <1>0, <2>3 DEF Live
  <2>5. QED
    BY <1>1, <1>2, <2>2, <2>3, <2>4, ProceedsIssues
<1>8. QED
  BY <1>3, <1>4, <1>5, <1>6, <1>7

(* Once the worker is awaited no more.                                      *)
LEMMA ProceedsSettles ==
  ASSUME OneHost, Base, Proceeds,
         TimerFires(Host) \/ Retry(Host) \/ Succeeded(Host) \/ Catch(Host)
  PROVE  AnyWay
<1> DEFINE M == Main(Host)
<1>0. /\ IInv /\ RecordInv /\ SoleInv /\ M \in Threads /\ Host \in Procs /\ M[1] = Host
      /\ \A w \in Workers : w \in Threads /\ w # M
      /\ main[Host] \in MainLocals /\ main[Host].kind = "execute" /\ main[Host].slot = "run"
      /\ main[Host].handler \in {"catch", "retry"}
      /\ Loaded(M) = ckpt /\ ckpt \in ExecutionCheckpoint
      /\ ckpt.state # "completed" /\ Ran # "completed" /\ Ran \in Live /\ Incomplete
      /\ (mgr' = mgr => Ran' = Ran)
      /\ Undecided(Aim(M), pc[M], main[Host], expired)
  BY ProceedsFacts DEF Base, Proceeds
<1>2. ckpt' = ckpt
  BY DEF TimerFires, Retry, Succeeded, Catch, store
<1>k. pc[M] \in {"retry", "catch"} /\ WorkerAlive => main[Host].err = "CANCELLED" \/ expired
  BY <1>0 DEF Undecided, Abandons
<1>3. CASE TimerFires(Host)
  <2>1. PICK e : Throw(M, e)
    BY <1>3 DEF TimerFires
  <2>2. expired' = expired /\ expired /\ op' = op /\ mgr' = mgr
    BY <1>3 DEF TimerFires, env
  <2>3. Incomplete' /\ Ran' \in Live
    BY <1>0, <1>2, <2>1, <2>2, IncompleteRefused
  <2>4. Proceeds'
    BY <2>1, <2>2, <2>3, ProceedsThrows
  <2>5. QED
    BY <2>4 DEF AnyWay
<1>4. CASE Retry(Host)
  <2>1. PICK m, k : /\ m = [main[Host] EXCEPT !.handler = "catch"]
                    /\ k \in {"backoff", "catch"}
                    /\ k = "backoff" => main[Host].err \in Retryable
                    /\ main' = [main EXCEPT ![Host] = m]
                    /\ pc' = [pc EXCEPT ![M] = k]
    BY <1>0, <1>4 DEF Retry, Goto
  <2>2. pc[M] = "retry" /\ expired' = expired /\ op' = op /\ mgr' = mgr
    BY <1>4 DEF Retry, env
  <2>3. main'[Host] = m
    BY <1>0, <2>1 DEF IInv, MainOK
  <2>4. m.kind = "execute" /\ m.slot = "run" /\ m.handler = "catch" /\ m.err = main[Host].err
    BY <1>0, <2>1 DEF MainLocals
  <2>5. WorkerAlive => main[Host].err \notin Retryable
    BY <1>0, <2>2 DEF SoleInv, LeavesOK, Leaves
  <2>6. WorkerAlive => k = "catch" /\ (main'[Host].err = "CANCELLED" \/ expired')
    BY <1>k, <2>1, <2>2, <2>3, <2>4, <2>5
  <2>7. k \in Trying /\ k \notin {"run", "succeeded"}
    BY <2>1 DEF Trying
  <2>8. Proceeds'
    BY <1>2, <2>1, <2>2, <2>3, <2>4, <2>6, <2>7, ProceedsMoves
  <2>9. QED
    BY <2>8 DEF AnyWay
<1>5. CASE Succeeded(Host)
  <2>0. pc[M] = "succeeded" /\ ~WorkerAlive /\ main[Host].handler = "catch"
    BY <1>0, <1>5 DEF Succeeded, Undecided
  <2>1. main[Host].target = "completing"
    BY <1>0, <2>0 DEF RecordInv, MainsOK, MainFact
  <2>2. PICK c : c = [ckpt EXCEPT !.result = main[Host].value]
    OBVIOUS
  <2>3. c \in ExecutionCheckpoint /\ c.rev = ckpt.rev
    BY <1>0, <2>2 DEF ExecutionCheckpoint, MainLocals
  <2>4. transitionAndCheckpoint(M, "run", c, "completing", "post-invoke", "terminalize")
    BY <1>0, <1>5, <2>2 DEF Succeeded
  <2>5. "run" \in Slot /\ "post-invoke" \in ExecutionStage
    BY DEF Slot, ExecutionStage
  <2>6. /\ Ran' \in {Ran, "completing"} /\ (Refuses(M) \/ Issues(M, "terminalize", c, "completing"))
        /\ Issues(M, "terminalize", c, "completing") /\ ~Refuses(M) => Ran' = "completing"
    BY <1>0, <2>3, <2>4, <2>5, TransitionRan
  <2>7. CASE Refuses(M)
    <3>1. Throw(M, "FAILED") /\ op' = op /\ Ran' \in Live /\ Ran' # "completed"
      BY <1>0, <2>6, <2>7 DEF Refuses, Live
    <3>2. Incomplete'
      BY <1>0, <1>2, <3>1, IncompleteRefused
    <3>3. Proceeds'
      BY <2>0, <3>1, <3>2, ProceedsThrows
    <3>4. QED
      BY <3>3 DEF AnyWay
  <2>8. CASE Issues(M, "terminalize", c, "completing") /\ Ran' = "completing"
    <3>1. /\ main' = main /\ pc' = [pc EXCEPT ![M] = "store"] /\ op'[M].then = "terminalize"
          /\ op'[M].rec.rev = ckpt.rev
      BY <2>3, <2>8 DEF Issues
    <3>2. ~WorkerAlive' /\ pc'[M] = "store"
      BY <1>0, <2>0, <3>1, AloneMoves
    <3>3. Completion(pc'[M], op'[M], main'[Host], cur'[M], ckpt', Ran')
      BY <1>0, <1>2, <2>0, <2>1, <2>8, <3>1, <3>2 DEF Completion
    <3>4. Completes'
      BY <3>2, <3>3, CompletesIs
    <3>5. QED
      BY <3>4 DEF AnyWay
  <2>9. QED
    BY <2>6, <2>7, <2>8
<1>6. CASE Catch(Host)
  <2>1. PICK m : /\ m = [main[Host] EXCEPT !.handler = "answer",
                                           !.target = IF main[Host].err = "CANCELLED"
                                                      THEN "cancelling" ELSE "failed"]
                 /\ main' = [main EXCEPT ![Host] = m]
    BY <1>0, <1>6 DEF Catch, IInv, MainOK
  <2>2. /\ pc[M] = "catch" /\ pc' = [pc EXCEPT ![M] = "fail"] /\ expired' = expired
        /\ op' = op /\ mgr' = mgr
    BY <1>6 DEF Catch, Goto, env
  <2>3. main'[Host] = m
    BY <1>0, <2>1 DEF IInv, MainOK
  <2>4. /\ m.kind = "execute" /\ m.slot = "run" /\ m.handler = "answer" /\ m.err = main[Host].err
        /\ m.target = IF main[Host].err = "CANCELLED" THEN "cancelling" ELSE "failed"
    BY <1>0, <2>1 DEF MainLocals
  <2>5. pc'[M] = "fail"
    BY <1>0, <2>2 DEF IInv, PcOK
  <2>6. CASE main[Host].err # "CANCELLED" /\ ~WorkerAlive
    <3>1. ~WorkerAlive'
      BY <1>0, <2>2, <2>6, AloneMoves
    <3>2. Failure(pc'[M], op'[M], main'[Host], cur'[M], ckpt', Ran')
      BY <1>0, <2>2, <2>3, <2>4, <2>5, <2>6 DEF Failure
    <3>3. Fails'
      BY <3>1, <3>2, FailsIs
    <3>4. QED
      BY <3>3 DEF AnyWay
  <2>7. CASE main[Host].err = "CANCELLED" \/ WorkerAlive
    <3>1. main'[Host].err = "CANCELLED" \/ expired'
      BY <1>k, <2>2, <2>3, <2>4, <2>7
    <3>2. Incomplete'
      BY <1>0, <1>2, <2>2, IncompleteMoved
    <3>3. Aim(M)' = "fail" /\ "fail" \in Ending
      BY <2>5 DEF Aim, Main, Host, Ending
    <3>4. Giving(Aim(M)', pc'[M], main'[Host])
      BY <2>3, <2>4, <3>3 DEF Giving
    <3>5. Gone'
      BY <3>2, <3>4, GoneIs
    <3>6. QED
      BY <3>1, <3>5 DEF AnyWay
  <2>8. QED
    BY <2>6, <2>7
<1>7. QED
  BY <1>3, <1>4, <1>5, <1>6

(* An execute() that tries goes on trying, completes it, fails, or gives up *)
(* on a worker that it has abandoned.                                       *)
LEMMA ProceedsNext ==
  ASSUME OneHost, Base, Proceeds, answer.kind # "unsent", [Next]_vars
  PROVE  main'[Host].kind # "execute" \/ AnyWay
<1> DEFINE M == Main(Host)
<1>0. /\ IInv /\ RecordInv /\ DeferInv /\ Procs = {Host} /\ Host \in Procs /\ M \in Threads
      /\ \A t \in Threads : t = M \/ t \in Workers
      /\ main[Host].kind = "execute" /\ main[Host].slot = "run"
      /\ main[Host].handler \in {"catch", "retry"}
      /\ pc[M] \in Trying \cup {"store", "reload"} /\ Incomplete /\ Ran \in Live
      /\ (mgr' = mgr => Ran' = Ran)
      /\ Undecided(Aim(M), pc[M], main[Host], expired)
  BY ProceedsFacts, HostFacts DEF Base, Proceeds
<1>s. ASSUME ckpt' = ckpt, mgr' = mgr, pc' = pc, op' = op, main' = main, expired => expired'
      PROVE  Proceeds'
  <2>1. Incomplete' /\ Ran' \in Live
    BY <1>0, <1>s DEF Incomplete
  <2>2. Aim(M)' = Aim(M) /\ \A w \in Workers : Alive(w)' <=> Alive(w)
    BY <1>s DEF Aim, Main, Host, Alive
  <2>3. WorkerAlive' => WorkerAlive
    BY <2>2 DEF WorkerAlive
  <2>4. /\ Aim(M) \in Trying
        /\ pc[M] = "succeeded" => main[Host].handler = "catch"
        /\ Aim(M) = "run" => main[Host].attempt # 0
        /\ WorkerAlive =>
             \/ /\ pc[M] = "await"
                /\ \A v \in Workers : Alive(v) => v[2] = main[Host].attempt
             \/ pc[M] \in {"retry", "catch"} /\ (main[Host].err = "CANCELLED" \/ expired)
    BY <1>0 DEF Undecided, Awaiting, Abandons
  <2>5. QED
    BY <1>0, <1>s, <2>1, <2>2, <2>3, <2>4, ProceedsIs
<1>1. CASE Expire \/ UNCHANGED vars
  <2>1. /\ ckpt' = ckpt /\ mgr' = mgr /\ pc' = pc /\ op' = op /\ main' = main
        /\ (expired => expired')
    BY <1>1 DEF Expire, store, local, vars
  <2>2. QED
    BY <1>s, <2>1 DEF AnyWay
<1>2. CASE Abort(Host)
  <2>1. ckpt' = ckpt /\ mgr' = mgr /\ op' = op /\ expired' = expired
    BY <1>2 DEF Abort, store
  <2>2. CASE pc[M] = "await"
    <3>1. Throw(M, "CANCELLED")
      BY <1>2, <2>2 DEF Abort
    <3>2. Incomplete' /\ Ran' \in Live
      <4>1. Ran' \in Live /\ Ran' # "completed"
        BY <1>0, <2>1 DEF Live
      <4>2. QED
        BY <1>0, <2>1, <3>1, <4>1, IncompleteRefused
    <3>3. Proceeds'
      BY <3>1, <3>2, ProceedsThrows
    <3>4. QED
      BY <3>3 DEF AnyWay
  <2>3. CASE pc[M] # "await"
    <3>1. pc' = pc /\ main' = main
      BY <1>2, <2>3 DEF Abort
    <3>2. QED
      BY <1>s, <2>1, <3>1 DEF AnyWay
  <2>4. QED
    BY <2>2, <2>3
<1>3. CASE Crash(Host)
  <2>1. main'[Host] = NoMain
    BY <1>0, <1>3, StopIs DEF Crash
  <2>2. QED
    BY <2>1 DEF NoMain
<1>4. CASE ExecuteStep(Host)
  <2>1. \/ Authorize(Host) \/ Schedule(Host) \/ Attempt(Host) \/ Run(Host) \/ Backoff(Host)
        \/ TimerFires(Host) \/ Retry(Host) \/ Succeeded(Host) \/ Catch(Host)
    BY <1>0, <1>4 DEF ExecuteStep, Completed, Fail, Cancelled, Answer, Trying
  <2>2. QED
    BY <2>1, ProceedsAdmits, ProceedsSettles DEF AnyWay
<1>5. ~FinishStep(Host)
  BY <1>0 DEF FinishStep, Reach, Terminalize, Finished, Trying
<1>6. ~RecoverStep(Host)
  BY <1>0 DEF RecoverStep, RecoverIgnores, RecoverTerminalizes, RecoverResumes, Resume,
     ResumeRun, Resumed, ResumeCatch, BootCheck, RecoveryFactFails, Trying
<1>7. CASE \/ \E t \in Threads : StoreStep(t)
           \/ \E w \in Workers : WorkerStep(w)
  <2>1. StoreStep(M) \/ \E w \in Workers : WorkerStep(w) \/ StoreStep(w)
    BY <1>0, <1>7
  <2>2. QED
    BY <2>1, ProceedsStores, ProceedsWorks DEF AnyWay
<1>8. ~Boot(Host) /\ ~Start(Host)
  BY <1>0 DEF Boot, Start, Trying
<1>9. QED
  BY <1>0, <1>1, <1>2, <1>3, <1>4, <1>5, <1>6, <1>7, <1>8 DEF Next

(* The request arrives.                                                     *)
LEMMA ProceedsFirst ==
  ASSUME OneHost, Base, Start(Host)
  PROVE  Proceeds' /\ answer'.kind = "pending"
<1> DEFINE M == Main(Host)
<1>0. /\ IInv /\ SoleInv /\ Exact(ckpt) /\ M \in Threads /\ Host \in Procs
      /\ \A w \in Workers : w \in Threads /\ w # M
      /\ \A t \in Threads : t = M \/ t \in Workers
  BY HostFacts DEF Base
<1>1. answer.kind = "unsent"
  BY DEF Start
<1>2. ~WorkerAlive /\ ckpt = seedCheckpoint
  BY <1>0, <1>1 DEF SoleInv, Unsent, Exact
<1>3. PICK m, o : /\ m = [NoMain EXCEPT !.kind = "execute", !.handler = "catch"]
                  /\ o = [rec |-> Stamped(seedCheckpoint, <<"created", "initializing">>),
                          fact |-> TRUE, then |-> "authorize"]
  OBVIOUS
<1>4. /\ main' = [main EXCEPT ![Host] = m] /\ op' = [op EXCEPT ![M] = o]
      /\ pc' = [pc EXCEPT ![M] = "store"] /\ ckpt' = ckpt
      /\ mgr' = [mgr EXCEPT ![Host]["run"] = <<"created", "initializing">>]
  BY <1>3 DEF Start, store
<1>5. answer'.kind = "pending"
  BY <1>0 DEF Start, IInv, GhostOK
<1>6. /\ main'[Host] = m /\ op'[M] = o /\ \A u \in Threads : u # M => op'[u] = op[u] /\ pc'[u] = pc[u]
  BY <1>0, <1>4 DEF IInv, MainOK, OpOK, PcOK
<1>7. m.kind = "execute" /\ m.slot = "run" /\ m.handler = "catch" /\ o.then = "authorize"
  BY <1>3 DEF NoMain
<1>8. Last(<<"created", "initializing">>) = "initializing"
  BY DEF Last
<1>9. o.rec.state = "initializing"
  BY <1>3, <1>8 DEF Stamped, seedCheckpoint
<1>10. Ran' = "initializing"
  <2>1. mgr'[Host]["run"] = <<"created", "initializing">>
    BY <1>0, <1>4 DEF IInv, MgrOK, Slot
  <2>2. Ran' = Last(mgr'[Host]["run"])
    BY DEF Ran, StateOf, Host
  <2>3. QED
    BY <1>8, <2>1, <2>2
<1>11. ~WorkerAlive' /\ pc'[M] = "store"
  BY <1>0, <1>2, <1>4, AloneMoves
<1>12. \A u \in Threads : pc'[u] = "store" => u = M
  BY <1>0, <1>11 DEF WorkerAlive, Alive
<1>13. Incomplete'
  <2>1. ckpt'.state # "completed"
    BY <1>2, <1>4 DEF seedCheckpoint
  <2>2. QED
    BY <1>6, <1>9, <1>10, <1>12, <2>1 DEF Incomplete
<1>14. Aim(M)' = "authorize" /\ "authorize" \in Trying /\ Ran' \in Live
  BY <1>6, <1>7, <1>10, <1>11 DEF Aim, Main, Host, Trying, Live
<1>15. QED
  BY <1>5, <1>6, <1>7, <1>11, <1>13, <1>14, ProceedsIs

-----------------------------------------------------------------------------
(* The answer.                                                              *)

(* No fault is left to inject when there is none to begin with.             *)
LEMMA FaultsSpentNext ==
  ASSUME IInv, FaultsSpent, [Next]_vars
  PROVE  FaultsSpent'
<1> DEFINE Idle == \/ budget' = budget
                   \/ budget' = [budget EXCEPT !.crash = @ - 1]
<1>1. ASSUME Idle PROVE FaultsSpent'
  <2>1. budget.store = 0 /\ budget.publish = 0
    BY DEF FaultsSpent
  <2>2. budget \in [crash : Nat, store : Nat, publish : Nat]
    BY DEF IInv, EnvOK
  <2>3. budget'.store = budget.store /\ budget'.publish = budget.publish
    BY <1>1, <2>2
  <2>4. QED
    BY <2>1, <2>3 DEF FaultsSpent
<1>2. ASSUME NEW p \in Procs, Boot(p) \/ Start(p) \/ Abort(p) \/ Crash(p)
      PROVE  Idle
  BY <1>2 DEF Boot, Start, Abort, Crash, env
<1>3. ASSUME NEW p \in Procs, ExecuteStep(p)
      PROVE  Idle
  BY <1>3 DEF ExecuteStep, Authorize, Schedule, Attempt, Run, TimerFires, Retry, Backoff,
     Succeeded, Completed, Catch, Fail, Cancelled, Answer, env
<1>4. ASSUME NEW p \in Procs, FinishStep(p)
      PROVE  Idle
  BY <1>4 DEF FinishStep, Reach, Terminalize, Finished, env
<1>5. ASSUME NEW p \in Procs, RecoverStep(p)
      PROVE  Idle
  BY <1>5 DEF RecoverStep, RecoverIgnores, RecoverTerminalizes, RecoverResumes, Resume,
     ResumeRun, Resumed, ResumeCatch, BootCheck, RecoveryFactFails, FaultsSpent, env
<1>6. ASSUME NEW t \in Threads, StoreStep(t)
      PROVE  Idle
  BY <1>6 DEF StoreStep, StoreCommits, StoreConflicts, StoreFails, Reload, PublishFails,
     FaultsSpent, env
<1>7. ASSUME NEW w \in Workers, WorkerStep(w)
      PROVE  Idle
  BY <1>7 DEF WorkerStep, Enter, PlanStage, Planning, WorkStage, Working, Ready, Invoke,
     InvokeReturns, PersistToolLoop, Invoked, Return, env
<1>8. CASE Expire \/ UNCHANGED vars
  BY <1>1, <1>8 DEF Expire, vars
<1> HIDE DEF Idle
<1>9. QED
  BY <1>1, <1>2, <1>3, <1>4, <1>5, <1>6, <1>7, <1>8 DEF Next

(* Before the request only a boot, a crash or the request itself happens.   *)
LEMMA UnsentNext ==
  ASSUME OneHost, Base, answer.kind = "unsent", [Next]_vars
  PROVE  Start(Host) \/ (main'[Host].kind = "none" /\ answer' = answer)
<1> DEFINE M == Main(Host)
           Still == main'[Host].kind = "none" /\ answer' = answer
<1>0. /\ IInv /\ DeferInv /\ SoleInv /\ Procs = {Host} /\ Host \in Procs
      /\ \A t \in Threads : t = M \/ t \in Workers
  BY HostFacts DEF Base
<1>1. /\ main[Host].kind = "none" /\ pc[M] \in {"down", "idle"} /\ ckpt.rev = 0
      /\ \A w \in Workers : pc[w] \in {"off", "done"}
  <2>1. main[Host].kind = "none" /\ ckpt.rev = 0 /\ ~WorkerAlive
    BY <1>0 DEF SoleInv, Unsent
  <2>2. pc[M] \in {"down", "idle"}
    BY <1>0, <2>1 DEF DeferInv, KindsOK, Kinds
  <2>3. QED
    BY <2>1, <2>2 DEF WorkerAlive, Alive
<1>2. \A m : main' = [main EXCEPT ![Host] = m] => main'[Host] = m
  BY <1>0 DEF IInv, MainOK
<1>3. NoMain.kind = "none"
  BY DEF NoMain
<1>4. CASE Boot(Host) \/ Crash(Host)
  <2>1. main'[Host] = NoMain
    BY <1>1, <1>2, <1>4 DEF Boot, Crash, StopProcess
  <2>2. answer' = answer
    BY <1>4 DEF Boot, Crash, ghost
  <2>3. QED
    BY <1>3, <2>1, <2>2
<1>5. CASE Abort(Host)
  <2>1. main' = main /\ answer' = answer
    BY <1>1, <1>5 DEF Abort, ghost
  <2>2. QED
    BY <1>1, <2>1
<1>6. CASE UNCHANGED vars
  BY <1>1, <1>6 DEF vars, local, ghost
<1>7. ~Expire
  BY DEF Expire
<1>8. ~ExecuteStep(Host)
  BY <1>1 DEF ExecuteStep, Authorize, Schedule, Attempt, Run, TimerFires, Retry, Backoff,
     Succeeded, Completed, Catch, Fail, Cancelled, Answer
<1>9. ~FinishStep(Host) /\ ~RecoverStep(Host)
  BY <1>1 DEF FinishStep, Reach, Terminalize, Finished, RecoverStep, RecoverIgnores,
     RecoverTerminalizes, RecoverResumes, Resume, ResumeRun, Resumed, ResumeCatch, BootCheck,
     RecoveryFactFails
<1>10. ASSUME NEW t \in Threads PROVE ~StoreStep(t)
  <2>1. pc[t] \in {"down", "idle", "off", "done"}
    BY <1>0, <1>1
  <2>2. QED
    BY <2>1 DEF StoreStep, StoreCommits, StoreConflicts, StoreFails, Reload, PublishFails
<1>11. ASSUME NEW w \in Workers PROVE ~WorkerStep(w)
  <2>1. pc[w] \in {"off", "done"}
    BY <1>1
  <2>2. QED
    BY <2>1 DEF WorkerStep, Enter, PlanStage, Planning, WorkStage, Working, Ready, Invoke,
       InvokeReturns, PersistToolLoop, Invoked, Return
<1>12. QED
  BY <1>0, <1>4, <1>5, <1>6, <1>7, <1>8, <1>9, <1>10, <1>11 DEF Next

(* A coroutine that ends well or badly has its answer ahead.                *)
LEMMA EndsAhead ==
  ASSUME Completes \/ Fails
  PROVE  pc[Main(Host)] # "finished"
BY DEF Completes, Fails, Completion, Failure

LEMMA AnswerInit ==
  ASSUME OneHost, NoFaults, Init
  PROVE  FaultsSpent /\ Placed /\ Told
<1>1. main[Host].kind = "none"
  BY HostFacts DEF Init, NoMain
<1>2. FaultsSpent
  BY DEF Init, NoFaults, FaultsSpent
<1>3. answer.kind = "unsent"
  BY DEF Init
<1>4. QED
  BY <1>1, <1>2, <1>3 DEF Placed, Told

(* What is answered: Answer says how it was given up.                       *)
LEMMA AnswerIs ==
  ASSUME OneHost, IInv, Answer(Host)
  PROVE  /\ main' = main /\ pc'[Main(Host)] = "finished"
         /\ answer'.kind = IF main[Host].err = "CANCELLED" THEN "cancelled" ELSE "failed"
<1>1. Main(Host) \in Threads
  BY HostFacts
<1>2. QED
  BY <1>1 DEF Answer, Goto, IInv, PcOK

(* Told: a step keeps what has been said, and says what is so.              *)
LEMMA GoneAnswers ==
  ASSUME OneHost, ExpiryFails, Base, Gone, answer.kind # "unsent",
         answer.kind # "completed", expired \/ pc[Main(Host)] # "down",
         main[Host].kind = "execute" /\ pc[Main(Host)] # "finished" =>
            Abandons(main[Host], expired),
         answer.kind = "failed" => expired, [Next]_vars
  PROVE  Placed' /\ Told'
<1> DEFINE M == Main(Host)
<1>0. /\ IInv /\ RecordInv /\ DeferInv /\ Host' = Host /\ Main(Host)' = M
  BY DEF Base, Host, Main
<1>1. Gone'
  BY GoneNext
<1>2. /\ main'[Host].kind = "execute" =>
            main[Host].kind = "execute" /\ (pc[M] = "finished" => pc'[M] = "finished")
      /\ expired => expired'
      /\ answer' = answer \/ (pc[M] \in {"answer", "completed"} /\ (Answer(Host) \/ Completed(Host)))
  BY <1>0, KindKept
<1>3. pc[M] # "completed"
  BY <1>0, GoneAt DEF Ending
<1>4. main'[Host].kind = "execute" /\ pc'[M] # "finished" => Abandons(main'[Host], expired')
  <2>1. SUFFICES ASSUME main'[Host].kind = "execute", pc'[M] # "finished"
                 PROVE  Abandons(main'[Host], expired')
    OBVIOUS
  <2>2. main[Host].kind = "execute" /\ pc[M] # "finished"
    BY <1>2, <2>1
  <2>3. main'[Host].err = main[Host].err
    BY <2>1, <2>2, GoneKeepsError
  <2>4. QED
    BY <1>2, <2>2, <2>3 DEF Abandons
<1>5. Placed'
  BY <1>0, <1>1, <1>4 DEF Placed
<1>6. CASE answer' = answer
  BY <1>1, <1>2, <1>5, <1>6 DEF Told
<1>7. CASE answer' # answer
  <2>1. Answer(Host) /\ pc[M] = "answer"
    BY <1>2, <1>3, <1>7 DEF Completed
  <2>2. answer'.kind = IF main[Host].err = "CANCELLED" THEN "cancelled" ELSE "failed"
    BY <1>0, <2>1, AnswerIs
  <2>3. main[Host].kind = "execute"
    BY <1>0, <2>1 DEF DeferInv, KindsOK, Kinds, Place, ExecuteAt
  <2>4. main[Host].err # "CANCELLED" => expired'
    BY <1>2, <2>1, <2>3 DEF Abandons
  <2>5. QED
    BY <1>1, <1>5, <2>2, <2>4 DEF Told
<1>8. QED
  BY <1>6, <1>7

(* The invariant that AnswerKept needs: where an execution is says what it  *)
(* may answer, and what was answered stays so.                              *)
LEMMA AnswerNext ==
  ASSUME OneHost, ExpiryFails, Base, DeferInv', Placed, Told, [Next]_vars
  PROVE  Placed' /\ Told'
<1> DEFINE M == Main(Host)
<1>0. /\ IInv /\ RecordInv /\ DeferInv /\ SoleInv /\ Host' = Host /\ Main(Host)' = M
  BY DEF Base, Host, Main
<1>1. CASE answer.kind = "unsent"
  <2>1. CASE Start(Host)
    <3>1. Proceeds' /\ answer'.kind = "pending"
      BY <2>1, ProceedsFirst
    <3>2. QED
      BY <3>1 DEF Placed, Told
  <2>2. CASE main'[Host].kind = "none" /\ answer' = answer
    BY <1>0, <1>1, <2>2 DEF Placed, Told
  <2>3. QED
    BY <1>1, <2>1, <2>2, UnsentNext
<1>2. CASE answer.kind # "unsent" /\ Rests /\ (answer.kind \in {"failed", "completed"})
  <2>1. Rests' /\ ckpt' = ckpt /\ answer' = answer
    BY <1>2, RestsNext
  <2>2. pc'[M] \in {"finished", "idle", "down"}
    BY <1>0, <2>1 DEF Rests
  <2>3. pc'[M] \in {"idle", "down"} => main'[Host].kind = "none"
    BY <1>0 DEF DeferInv, KindsOK, Kinds
  <2>4. Placed'
    BY <1>0, <2>2, <2>3 DEF Placed
  <2>5. (answer.kind = "failed" => ckpt.state # "completed" \/ (expired /\ Gone))
    BY DEF Told
  <2>6. expired /\ Gone => ckpt.state # "completed"
    BY DEF Gone, Incomplete
  <2>7. Told'
    BY <2>1, <2>5, <2>6 DEF Told
  <2>8. QED
    BY <2>4, <2>7
<1>3. CASE answer.kind = "failed" /\ ~Rests
  <2>1. expired /\ Gone
    BY <1>3 DEF Told
  <2>2. QED
    BY <1>3, <2>1, GoneAnswers DEF Abandons
<1>4. CASE answer.kind \notin {"unsent", "failed", "completed"}
  <2>0. /\ main'[Host].kind = "execute" =>
             main[Host].kind = "execute" /\ (pc[M] = "finished" => pc'[M] = "finished")
        /\ answer' = answer \/ (pc[M] \in {"answer", "completed"} /\ (Answer(Host) \/ Completed(Host)))
    BY <1>0, <1>4, KindKept
  <2>a. answer' # answer => /\ main' = main /\ pc'[M] = "finished"
                            /\ main[Host].kind = "execute" /\ pc[M] \in {"answer", "completed"}
    <3>1. SUFFICES ASSUME answer' # answer
                   PROVE  /\ main' = main /\ pc'[M] = "finished"
                          /\ main[Host].kind = "execute" /\ pc[M] \in {"answer", "completed"}
      OBVIOUS
    <3>2. pc[M] \in {"answer", "completed"} /\ (Answer(Host) \/ Completed(Host))
      BY <2>0, <3>1
    <3>3. main[Host].kind = "execute"
      BY <1>0, <3>2 DEF DeferInv, KindsOK, Kinds, Place, ExecuteAt
    <3>4. main' = main /\ pc'[M] = "finished"
      BY <1>0, <3>2, HostFacts DEF Answer, Completed, Goto, IInv, PcOK
    <3>5. QED
      BY <3>2, <3>3, <3>4
  <2>b. answer' = answer => Told'
    BY <1>4 DEF Told
  <2>1. CASE main[Host].kind # "execute" \/ pc[M] = "finished"
    <3>1. answer' = answer
      BY <2>1, <2>a
    <3>2. Placed'
      BY <1>0, <2>0, <2>1 DEF Placed
    <3>3. QED
      BY <2>b, <3>1, <3>2
  <2>2. CASE main[Host].kind = "execute" /\ pc[M] # "finished"
    <3>n. ASSUME main'[Host].kind # "execute" PROVE Placed' /\ Told'
      <4>1. answer' = answer
        BY <2>2, <2>a, <3>n
      <4>2. Placed'
        BY <1>0, <3>n DEF Placed
      <4>3. QED
        BY <2>b, <4>1, <4>2
    <3>e. ASSUME Completes' \/ Fails' PROVE Placed' /\ Told'
      <4>1. pc'[M] # "finished"
        BY <1>0, <3>e DEF Completes, Fails, Completion, Failure
      <4>2. answer' = answer
        BY <2>a, <4>1
      <4>3. Placed'
        BY <3>e DEF Placed
      <4>4. QED
        BY <2>b, <4>2, <4>3
    <3>1. CASE Proceeds
      <4>1. pc[M] \in Trying \cup {"store", "reload"}
        BY <1>0, ProceedsFacts, <3>1 DEF Base
      <4>2. answer' = answer
        BY <2>0, <4>1 DEF Trying
      <4>3. main'[Host].kind # "execute" \/ AnyWay
        BY <1>4, <3>1, ProceedsNext
      <4>4. AnyWay => Placed'
        BY <1>0 DEF AnyWay, Placed, Abandons
      <4>5. QED
        BY <2>b, <3>n, <4>2, <4>3, <4>4
    <3>2. CASE Completes
      <4>1. \/ main'[Host].kind # "execute"
            \/ Completes'
            \/ /\ Rests' /\ pc'[M] = "finished" /\ answer'.kind = "completed"
               /\ ckpt'.state = "completed" /\ ckpt'.result = answer'.value
        BY <1>4, <3>2, CompletesNext
      <4>2. ASSUME Rests', pc'[M] = "finished", answer'.kind = "completed",
                   ckpt'.state = "completed", ckpt'.result = answer'.value
            PROVE  Placed' /\ Told'
        BY <1>0, <4>2 DEF Placed, Told
      <4>3. QED
        BY <3>n, <3>e, <4>1, <4>2
    <3>3. CASE Fails
      <4>1. \/ main'[Host].kind # "execute"
            \/ Fails'
            \/ /\ Rests' /\ pc'[M] = "finished" /\ answer'.kind = "failed"
               /\ ckpt'.state # "completed"
        BY <1>4, <3>3, FailsNext
      <4>2. ASSUME Rests', pc'[M] = "finished", answer'.kind = "failed",
                   ckpt'.state # "completed"
            PROVE  Placed' /\ Told'
        BY <1>0, <4>2 DEF Placed, Told
      <4>3. QED
        BY <3>n, <3>e, <4>1, <4>2
    <3>4. CASE Gone /\ Abandons(main[Host], expired)
      <4>1. pc[M] # "down"
        BY <1>0, <2>2 DEF DeferInv, KindsOK, Kinds
      <4>2. QED
        BY <1>4, <3>4, <4>1, GoneAnswers
    <3>5. QED
      BY <2>2, <3>1, <3>2, <3>3, <3>4 DEF Placed
  <2>3. QED
    BY <2>1, <2>2
<1>5. CASE answer.kind = "completed" /\ ~Rests
  BY <1>5 DEF Told
<1>6. QED
  BY <1>1, <1>2, <1>3, <1>4, <1>5

(* AnswerKept, for one host whose checkpoint store and event bus do not     *)
(* fail, whose cancelled or timed-out attempt is final, and whose policies  *)
(* fail an expired execution on restart: whatever the process does after it *)
(* has answered (crash, boot, recovery, or a worker that the timeout has    *)
(* abandoned), the caller told of a completion finds it durable with that   *)
(* result, and the one told of a failure never finds a completion           *)
(* (runtime.ts 301-316, 617-711).                                           *)
THEOREM AnswersAreKept ==
  ASSUME OneHost, AbandonedIsFinal, NoFaults, ExpiryFails
  PROVE  Spec => []AnswerKept
<1> DEFINE Inv == Base /\ Placed /\ Told
<1>1. Init => Inv
  BY InitInv, RecordInit, DeferInit, SoleInit, AnswerInit DEF Base
<1>2. Inv /\ [Next]_vars => Inv'
  <2> SUFFICES ASSUME Base, Placed, Told, [Next]_vars
               PROVE  Base' /\ Placed' /\ Told'
    OBVIOUS
  <2>1. IInv' /\ RecordInv' /\ DeferInv' /\ SoleInv' /\ Exact(ckpt)' /\ FaultsSpent'
    BY NextInv, RecordNext, DeferNext, SoleNext, ExactNext, FaultsSpentNext DEF Base
  <2>2. Placed' /\ Told'
    BY <2>1, AnswerNext
  <2>3. QED
    BY <2>1, <2>2 DEF Base
<1>3. Inv => AnswerKept
  BY DEF AnswerKept, CompletedIsDurable, FailedNeverCompletes, Told, Gone, Incomplete
<1>4. QED
  BY <1>1, <1>2, <1>3, PTL DEF Spec

=============================================================================
