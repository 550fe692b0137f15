------------------------- MODULE RuntimeGrowProofs -------------------------
(***************************************************************************)
(* For one host whose deadlines do not pass, and for any attempts,         *)
(* policies, crashes, faults and aborts: the durable history is only       *)
(* extended and a terminal checkpoint stays as it is (RecordGrows), and    *)
(* the execution announces its end once (TerminalInv).                     *)
(*                                                                         *)
(* The argument: one state manager is in charge of the execution, it has   *)
(* walked the durable history and on from there, and every store under way *)
(* carries a part of its walk.  A store that the revision lets through     *)
(* therefore extends what is durable, and since a manager does not leave a *)
(* terminal state, at most one store carries the terminal fact.  Both      *)
(* hypotheses are needed: a deadline brings in a second manager while the  *)
(* worker it abandons goes on, and a second host a third.                  *)
(*                                                                         *)
(* For one host, deadlines included: what manual recovery defers stays as  *)
(* it is (DeferredIsUntouched).  Once the request is gone with its process *)
(* no coroutine is left but the one that boots, and it decides to ignore   *)
(* the record.                                                             *)
(***************************************************************************)
EXTENDS RuntimeExecutionProofs

-----------------------------------------------------------------------------
(* One host whose deadlines do not pass: the record only grows.             *)

OneHost    == \E p \in Procs : Procs = {p}
NoDeadline == ~MayExpire

Host == CHOOSE p : p \in Procs

Alive(w)    == pc[w] \notin {"off", "done"}
WorkerAlive == \E w \in Workers : Alive(w)

(* The manager in charge of the execution, and whether a coroutine is left  *)
(* that may stamp a checkpoint with its history.                            *)
Steered  == mgr[Host][main[Host].slot]
Stamping == {"catch", "retry", "answer", "resumeCatch"}
Steering == main[Host].handler \in Stamping \/ main[Host].slot = "end" \/ WorkerAlive

(* Where a main coroutine at k with store call o and locals m may be.       *)
ExecuteAt == {"authorize", "schedule", "attempt", "run", "retry", "backoff", "succeeded",
              "completed", "catch", "fail", "cancelled", "answer"}
RecoverAt == {"recover", "resume", "resumeRun", "resumed", "resumeCatch", "bootCheck"}
AfterStore == {"authorize", "schedule", "run", "attempt", "terminalize", "completed",
               "cancelled", "reach", "answer", "finished", "resumeRun"}
ResumeAt  == {"recover", "resume", "resumeRun", "resumed"}
Runs(k, m) == /\ k \in ExecuteAt => m.kind = "execute"
              /\ k \in RecoverAt => m.kind = "recover"
              /\ k \in ResumeAt \cup {"await"} => m.slot = "run"
Control(k, o, m) ==
  /\ m.kind = "execute" <=> m.handler \in {"catch", "retry", "answer"}
  /\ m.kind = "recover" <=> m.handler \in {"bootCheck", "resumeCatch"}
  /\ k \in {"down", "idle"} <=> m.kind = "none"
  /\ Runs(k, m)
  /\ k \in {"store", "reload"} => Runs(o.then, m) /\ o.then \in AfterStore
  /\ k = "recover" => m.handler = "bootCheck"
  /\ m.slot = "end" => m.handler = "bootCheck"
  /\ m.handler = "bootCheck" /\ m.slot = "run" => k \in {"recover", "finished"}

(* The parts, of whatever d is durable.                                     *)
ControlOK == ~expired /\ Control(pc[Main(Host)], op[Main(Host)], main[Host])
AloneOK   == \A w \in Workers : Alive(w) =>
               /\ main[Host].kind = "recover" => /\ pc[Main(Host)] = "await"
                                                 /\ main[Host].attempt = w[2]
               /\ pc[Main(Host)] # "down" /\ answer.kind # "unsent"
Unsent(d) == answer.kind = "unsent" => d.rev = 0 /\ main[Host].kind = "none"

(* A copy of the durable revision is the durable checkpoint.                *)
Exact(d)  == /\ d.rev = 0 => d = seedCheckpoint
             /\ \A t \in Threads : cur[t].rev = d.rev => cur[t] = d

(* The manager in charge has walked the durable history and on.             *)
Grows(d)  == Steering => IsPrefix(d.history, Steered)

(* A store that the revision lets through extends the durable history, and  *)
(* none is ahead of the manager in charge.                                  *)
Extends(d, c) == /\ c.rev = d.rev => IsPrefix(d.history, c.history)
                 /\ IsPrefix(c.history, Steered)
Stores(d) == \A t \in Threads : pc[t] = "store" => Extends(d, op[t].rec)

(* One store at most carries the terminal fact, once the manager is there.  *)
Announces(t) == /\ pc[t] \in {"store", "reload"}
                /\ op[t].fact /\ isTerminalState(op[t].rec.state)
Ended     == isTerminalState(Last(Steered))
Facts(d)  == /\ finals <= 1 /\ (finals = 1 => d.terminal)
             /\ \A t \in Threads : Announces(t) =>
                  /\ finals = 0 /\ Ended
                  /\ pc[t] = "reload" => d.terminal
                  /\ \A u \in Threads : Announces(u) => u = t

GrowInv(d) == /\ ControlOK /\ AloneOK /\ Unsent(d) /\ Exact(d)
              /\ Grows(d) /\ Stores(d) /\ Facts(d)

-----------------------------------------------------------------------------
(* Histories. *)

LEMMA PrefixIs ==
  ASSUME NEW S, NEW s \in Seq(S), NEW t \in Seq(S)
  PROVE  IsPrefix(s, t) <=> Len(s) <= Len(t) /\ \A i \in 1 .. Len(s) : s[i] = t[i]
BY DEF IsPrefix

LEMMA PrefixSelf ==
  ASSUME NEW S, NEW s \in Seq(S)
  PROVE  IsPrefix(s, s)
BY PrefixIs

LEMMA PrefixOn ==
  ASSUME NEW S, NEW s \in Seq(S), NEW t \in Seq(S), NEW u \in Seq(S),
         IsPrefix(s, t), IsPrefix(t, u)
  PROVE  IsPrefix(s, u)
BY PrefixIs

LEMMA PrefixAppend ==
  ASSUME NEW S, NEW s \in Seq(S), NEW x \in S
  PROVE  IsPrefix(s, Append(s, x))
<1>1. PICK a : a = Append(s, x)
  OBVIOUS
<1>2. a \in Seq(S) /\ Len(a) = Len(s) + 1 /\ \A i \in 1 .. Len(s) : a[i] = s[i]
  BY <1>1
<1>3. IsPrefix(s, a)
  BY <1>2, PrefixIs
<1>4. QED
  BY <1>1, <1>3

LEMMA CreatedPrefix ==
  ASSUME NEW h \in Seq(ExecutionState), LegalPath(h)
  PROVE  IsPrefix(<<"created">>, h)
<1>1. PICK a : a = <<"created">>
  OBVIOUS
<1>2. a \in Seq(ExecutionState) /\ Len(a) = 1 /\ a[1] = "created"
  BY <1>1, SeedLawful
<1>3. Len(h) \in Nat /\ Len(h) > 0 /\ h[1] = "created"
  BY DEF LegalPath
<1>4. IsPrefix(a, h)
  BY <1>2, <1>3, PrefixIs
<1>5. QED
  BY <1>1, <1>4

(* A legal path does not go on from a terminal state.                       *)
LEMMA TerminalStays ==
  ASSUME NEW g \in Seq(ExecutionState), NEW h \in Seq(ExecutionState),
         LegalPath(g), LegalPath(h), IsPrefix(g, h), isTerminalState(Last(g))
  PROVE  g = h
<1>1. /\ Len(g) \in Nat /\ Len(h) \in Nat /\ Len(g) > 0 /\ Len(g) <= Len(h)
      /\ \A i \in 1 .. Len(g) : g[i] = h[i]
  BY PrefixIs DEF LegalPath
<1>2. transitions[g[Len(g)]] = {}
  BY DEF Last, isTerminalState, transitions
<1>3. Len(g) = Len(h)
  <2> SUFFICES ASSUME Len(g) < Len(h) PROVE FALSE
    BY <1>1
  <2>1. Len(g) \in 1 .. Len(h) - 1
    BY <1>1
  <2>2. h[Len(g) + 1] \in transitions[h[Len(g)]]
    BY <2>1 DEF LegalPath
  <2>3. QED
    BY <1>1, <1>2, <2>2
<1>4. QED
  BY <1>1, <1>3

LEMMA NormalizedFields ==
  ASSUME NEW c \in ExecutionCheckpoint
  PROVE  /\ Normalized(c) \in ExecutionCheckpoint
         /\ Normalized(c).history = c.history /\ Normalized(c).state = c.state
         /\ Normalized(c).rev = c.rev
<1>1. isTerminalState(c.state) \in BOOLEAN
  BY DEF isTerminalState
<1>2. Normalized(c) \in ExecutionCheckpoint
  BY <1>1 DEF Normalized, ExecutionCheckpoint, ExecutionStage
<1>3. QED
  BY <1>2 DEF Normalized, ExecutionCheckpoint

-----------------------------------------------------------------------------
(* The host and its threads. *)

LEMMA HostFacts ==
  ASSUME OneHost
  PROVE  /\ Procs = {Host} /\ Host \in Procs
         /\ Main(Host) \in Threads /\ Main(Host) \notin Workers
         /\ Main(Host)[1] = Host /\ Main(Host)[2] = 0
         /\ \A w \in Workers : w \in Threads /\ w[1] = Host /\ w[2] # 0 /\ w # Main(Host)
         /\ \A t \in Threads : t = Main(Host) \/ t \in Workers
<1>1. Procs = {Host} /\ Host \in Procs
  BY DEF OneHost, Host
<1>2. QED
  BY <1>1, ThreadFacts, ThreadKinds

(* What the types of the state give.                                        *)
LEMMA Typed ==
  ASSUME OneHost, IInv
  PROVE  /\ ckpt \in ExecutionCheckpoint /\ Lawful(ckpt) /\ ckpt.rev \in Nat
         /\ ckpt.history \in Seq(ExecutionState) /\ LegalPath(ckpt.history)
         /\ main[Host] \in MainLocals /\ main[Host].slot \in Slot
         /\ Steered \in Seq(ExecutionState) /\ LegalPath(Steered)
         /\ \A t \in Threads : /\ op[t] \in StoreCall /\ op[t].rec \in ExecutionCheckpoint
                               /\ op[t].rec.history \in Seq(ExecutionState)
                               /\ Lawful(op[t].rec) /\ LegalPath(op[t].rec.history)
                               /\ cur[t] \in ExecutionCheckpoint /\ Lawful(cur[t])
                               /\ cur[t].history \in Seq(ExecutionState)
         /\ finals \in Nat
<1>1. Host \in Procs
  BY HostFacts
<1>2. ckpt \in ExecutionCheckpoint /\ Lawful(ckpt) /\ ckpt.rev \in Nat
      /\ ckpt.history \in Seq(ExecutionState) /\ LegalPath(ckpt.history)
  BY DEF IInv, StoreOK, ExecutionCheckpoint, Lawful
<1>3. main[Host] \in MainLocals /\ main[Host].slot \in Slot
  BY <1>1 DEF IInv, MainOK, MainLocals
<1>4. Steered \in Seq(ExecutionState) /\ LegalPath(Steered)
  BY <1>1, <1>3 DEF IInv, MgrOK, Steered
<1>5. \A t \in Threads : /\ op[t] \in StoreCall /\ op[t].rec \in ExecutionCheckpoint
                         /\ Lawful(op[t].rec)
  BY DEF IInv, OpOK, StoreCall
<1>6. \A t \in Threads : cur[t] \in ExecutionCheckpoint /\ Lawful(cur[t])
  BY DEF IInv, CurOK
<1>7. \A c \in ExecutionCheckpoint : c.history \in Seq(ExecutionState)
  BY DEF ExecutionCheckpoint
<1>8. QED
  BY <1>2, <1>3, <1>4, <1>5, <1>6, <1>7 DEF Lawful, IInv, GhostOK

LEMMA SteeredTyped ==
  ASSUME OneHost, IInv'
  PROVE  Steered' \in Seq(ExecutionState)
<1>1. Host \in Procs
  BY HostFacts
<1>2. main'[Host].slot \in Slot
  BY <1>1 DEF IInv, MainOK, MainLocals
<1>3. QED
  BY <1>1, <1>2 DEF IInv, MgrOK, Steered

(* No copy and no store is newer than the store.                            *)
LEMMA NoneNewer ==
  ASSUME RecordInv
  PROVE  \A t \in Threads : cur[t].rev <= ckpt.rev /\ op[t].rec.rev <= ckpt.rev
BY DEF RecordInv, CopiesOK, CallsOK, Read, Copy

(* A load returns what is durable.                                          *)
LEMMA LoadedIs ==
  ASSUME OneHost, IInv, RecordInv, Exact(ckpt), NEW t \in Threads
  PROVE  Loaded(t) = ckpt
<1>1. cur[t].rev \in Nat /\ ckpt.rev \in Nat
  BY Typed DEF ExecutionCheckpoint
<1>2. QED
  BY <1>1, NoneNewer DEF Loaded, Exact

(* A coroutine at a store may stamp; nothing else moves in a recovery.      *)
LEMMA Stampers ==
  ASSUME OneHost, IInv, ControlOK, AloneOK
  PROVE  /\ \A t \in Threads : pc[t] \in {"store", "reload"} => Steering
         /\ WorkerAlive => main[Host].slot = "run"
         /\ main[Host].kind = "recover" /\ pc[Main(Host)] # "await" => ~WorkerAlive
<1>1. main[Host].slot \in Slot
  BY Typed
<1>2. main[Host].kind \in {"none", "execute", "recover"}
  BY Typed DEF MainLocals
<1>3. main[Host].slot = "run" \/ main[Host].slot = "end"
  BY <1>1 DEF Slot
<1>4. pc[Main(Host)] \in {"store", "reload"} => Steering
  BY <1>2, <1>3 DEF ControlOK, Control, Steering, Stamping
<1>5. ASSUME NEW w \in Workers, pc[w] \in {"store", "reload"} PROVE Steering
  BY <1>5 DEF Steering, WorkerAlive, Alive
<1>6. WorkerAlive => main[Host].slot = "run"
  BY <1>3 DEF WorkerAlive, AloneOK, ControlOK, Control, Runs
<1>7. main[Host].kind = "recover" /\ pc[Main(Host)] # "await" => ~WorkerAlive
  BY DEF WorkerAlive, AloneOK
<1>8. QED
  BY <1>4, <1>5, <1>6, <1>7, HostFacts

(* Where a terminal state is durable, the manager in charge is there.       *)
LEMMA TerminalReached ==
  ASSUME OneHost, IInv, Grows(ckpt), Steering, ckpt.terminal
  PROVE  Steered = ckpt.history /\ Ended
<1>1. isTerminalState(Last(ckpt.history))
  BY DEF IInv, StoreOK, Lawful
<1>2. QED
  BY <1>1, Typed, TerminalStays DEF Grows, Ended

-----------------------------------------------------------------------------
(* One step. *)

(* What a step does to the store call of a thread t: nothing, it ends, it   *)
(* is issued, or it is committed.                                          *)
Untouched(t) == /\ pc'[t] = pc[t] /\ op'[t] = op[t]
                /\ pc[t] = "store" => IsPrefix(Steered, Steered')
                /\ Announces(t) => Ended'
Issued(t) == /\ pc'[t] = "store" /\ Extends(ckpt, op[t].rec)'
             /\ Announces(t)' => /\ finals = 0 /\ Ended' /\ ~ckpt'.terminal
                                 /\ \A u \in Threads : ~Announces(u)
Committed(t) == /\ pc[t] = "store" /\ pc'[t] = "reload" /\ op'[t] = op[t]
                /\ Announces(t) => Ended' /\ ckpt'.terminal
Calls(t) == \/ Untouched(t)
            \/ pc'[t] # "store" /\ ~Announces(t)'
            \/ Issued(t)
            \/ Committed(t)

(* One thread at most issues a store in a step.                             *)
OneIssues == \E t \in Threads : \A u \in Threads : Issued(u) /\ ~Untouched(u) => u = t

(* A terminal fact is published once a terminal state is durable.           *)
Published == /\ finals' = 1 /\ ckpt'.terminal
             /\ \A u \in Threads : ~Announces(u)'

LEMMA Carry ==
  ASSUME OneHost, IInv, IInv', GrowInv(ckpt'),
         ControlOK', AloneOK', Unsent(ckpt)', Exact(ckpt)', Grows(ckpt)',
         \A t \in Threads : Calls(t), OneIssues,
         finals' = finals \/ Published
  PROVE  GrowInv(ckpt)'
<1>1. Stores(ckpt)'
  <2> SUFFICES ASSUME NEW t \in Threads, pc'[t] = "store"
               PROVE  Extends(ckpt, op[t].rec)'
    BY DEF Stores
  <2>1. CASE Untouched(t)
    <3>1. Extends(ckpt', op[t].rec)
      BY <2>1 DEF GrowInv, Stores, Untouched
    <3>2. IsPrefix(op[t].rec.history, Steered')
      <4>1. /\ op[t].rec.history \in Seq(ExecutionState)
            /\ Steered \in Seq(ExecutionState) /\ Steered' \in Seq(ExecutionState)
        BY Typed, SteeredTyped
      <4>2. IsPrefix(op[t].rec.history, Steered) /\ IsPrefix(Steered, Steered')
        BY <2>1, <3>1 DEF Extends, Untouched
      <4>3. QED
        BY <4>1, <4>2, PrefixOn
    <3>3. QED
      BY <2>1, <3>1, <3>2 DEF Extends, Untouched
  <2>2. CASE Issued(t)
    BY <2>2 DEF Issued
  <2>3. QED
    BY <2>1, <2>2 DEF Calls, Committed
<1>2. Facts(ckpt)'
  <2>1. CASE Published
    BY <2>1 DEF Published, Facts
  <2>2. CASE finals' = finals
    <3>1. finals <= 1 /\ (finals = 1 => ckpt'.terminal)
      BY DEF GrowInv, Facts
    <3>2. ASSUME NEW t \in Threads, Announces(t)'
          PROVE  \/ Announces(t) /\ ~(Issued(t) /\ ~Untouched(t))
                 \/ Issued(t) /\ \A u \in Threads : ~Announces(u)
      BY <3>2 DEF Calls, Announces, Untouched, Issued, Committed
    <3>3. ASSUME NEW t \in Threads, Announces(t)'
          PROVE  /\ finals = 0 /\ Ended'
                 /\ pc'[t] = "reload" => ckpt'.terminal
      <4>1. CASE Untouched(t)
        BY <3>3, <4>1 DEF GrowInv, Facts, Untouched, Announces
      <4>2. CASE Issued(t)
        BY <3>3, <4>2 DEF Issued
      <4>3. CASE Committed(t)
        BY <3>3, <4>3 DEF GrowInv, Facts, Committed, Announces
      <4>4. QED
        BY <3>3, <4>1, <4>2, <4>3 DEF Calls, Announces
    <3>4. ASSUME NEW t \in Threads, NEW u \in Threads, Announces(t)', Announces(u)'
          PROVE  u = t
      <4>1. CASE Announces(t) /\ Announces(u)
        BY <4>1 DEF GrowInv, Facts
      <4>2. CASE \A v \in Threads : ~Announces(v)
        <5>1. Issued(t) /\ ~Untouched(t) /\ Issued(u) /\ ~Untouched(u)
          BY <3>2, <3>4, <4>2 DEF Untouched, Announces
        <5>2. QED
          BY <5>1 DEF OneIssues
      <4>3. QED
        BY <3>2, <3>4, <4>1, <4>2
    <3>5. QED
      BY <2>2, <3>1, <3>3, <3>4 DEF Facts
  <2>3. QED
    BY <2>1, <2>2
<1>3. QED
  BY <1>1, <1>2 DEF GrowInv

-----------------------------------------------------------------------------
(* The building blocks. *)

(* Where a thread t may throw, or store and go on at k.                     *)
Busy(t) == IF t = Main(Host)
           THEN pc[t] \notin {"down", "idle", "recover", "finished", "await"}
           ELSE Alive(t)
GoesOn(t, k) == Busy(t) /\ (t = Main(Host) => Runs(k, main[Host]) /\ k \in AfterStore)

LEMMA BusySteers ==
  ASSUME OneHost, IInv, ControlOK, AloneOK, NEW t \in Threads, Busy(t),
         answer.kind = "unsent" => main[Host].kind = "none"
  PROVE  Steering /\ answer.kind # "unsent"
<1>1. main[Host].slot \in Slot /\ main[Host].kind \in {"none", "execute", "recover"}
  BY Typed DEF MainLocals
<1>2. CASE t = Main(Host)
  <2>1. Steering
    BY <1>1, <1>2 DEF Busy, ControlOK, Control, Steering, Stamping, Slot
  <2>2. main[Host].kind # "none"
    BY <1>2 DEF Busy, ControlOK, Control
  <2>3. QED
    BY <2>1, <2>2 DEF GrowInv, Unsent
<1>3. CASE t \in Workers /\ t # Main(Host)
  BY <1>3 DEF Busy, Steering, WorkerAlive, AloneOK
<1>4. QED
  BY <1>2, <1>3, HostFacts

LEMMA BusyStamps ==
  ASSUME OneHost, IInv, GrowInv(ckpt'), NEW t \in Threads, Busy(t)
  PROVE  Steering /\ answer.kind # "unsent"
BY BusySteers DEF GrowInv, Unsent

(* What an exception does here.                                             *)
LEMMA ThrowHere ==
  ASSUME OneHost, IInv, NEW t \in Threads, NEW e, Throw(t, e)
  PROVE  /\ pc'[Main(Host)] = IF t = Main(Host) \/ Awaited(t) THEN main[Host].handler
                                                            ELSE pc[Main(Host)]
         /\ \A w \in Workers : pc'[w] = IF w = t THEN "done" ELSE pc[w]
         /\ \A f \in {"kind", "handler", "slot", "attempt", "late"} : main'[Host][f] = main[Host][f]
<1>0. t[1] = Host /\ (t[2] = 0 <=> t = Main(Host))
  BY HostFacts DEF Main, Workers, Threads
<1>1. pc'[Main(Host)] = IF t = Main(Host) \/ Awaited(t) THEN main[Host].handler
                                                        ELSE pc[Main(Host)]
  BY <1>0, HostFacts DEF Throw
<1>2. \A w \in Workers : pc'[w] = IF w = t THEN "done" ELSE pc[w]
  BY <1>0, HostFacts DEF Throw
<1>3. PICK x : main' = [main EXCEPT ![Host] = [main[Host] EXCEPT !.err = x]]
  BY <1>0 DEF Throw
<1>4. main'[Host] = [main[Host] EXCEPT !.err = x]
  BY <1>3, HostFacts DEF IInv, MainOK
<1>5. \A f \in {"kind", "handler", "slot", "attempt", "late"} : main'[Host][f] = main[Host][f]
  BY <1>4, Typed DEF MainLocals
<1>6. QED
  BY <1>1, <1>2, <1>5

LEMMA ThrowGrows ==
  ASSUME OneHost, IInv, IInv', GrowInv(ckpt'), NEW t \in Threads, NEW e, Throw(t, e),
         UNCHANGED <<expired, finals, answer>>, Exact(ckpt)',
         \A u \in Threads : u # t => op'[u] = op[u],
         IsPrefix(Steered, mgr'[Host][main[Host].slot]),
         mgr' = mgr \/ \A u \in Threads : ~Announces(u),
         Busy(t) \/ (t = Main(Host) /\ main[Host].kind = "execute" /\ pc[t] = "await")
  PROVE  GrowInv(ckpt)'
<1> DEFINE M == Main(Host)
<1>0. /\ main'[Host].kind = main[Host].kind /\ main'[Host].handler = main[Host].handler
      /\ main'[Host].slot = main[Host].slot /\ main'[Host].attempt = main[Host].attempt
  BY ThrowHere
<1>1. /\ pc'[M] = IF t = M \/ Awaited(t) THEN main[Host].handler ELSE pc[M]
      /\ \A w \in Workers : pc'[w] = IF w = t THEN "done" ELSE pc[w]
  BY ThrowHere
<1>2. M \notin Workers /\ M \in Threads
  BY HostFacts
<1>3. Awaited(t) => pc[M] = "await" /\ main[Host].attempt = t[2]
  BY HostFacts DEF Awaited
<1>4. main[Host] \in MainLocals /\ main[Host].kind \in {"none", "execute", "recover"}
      /\ main[Host].slot \in {"run", "end"}
  BY Typed DEF MainLocals, Slot
<1>5. Control(pc[M], op[M], main[Host]) /\ ~expired
  BY DEF GrowInv, ControlOK
<1>6. pc'[M] \in {main[Host].handler, pc[M]}
  BY <1>1
<1>7. t = M \/ Awaited(t) => main[Host].handler \in Handlers \ {"down"}
  <2>1. main[Host].handler \in Label
    BY <1>4 DEF MainLocals
  <2>2. CASE t = M
    BY <1>2, <1>4, <1>5, <2>2 DEF Busy, Control, Handlers
  <2>3. CASE Awaited(t)
    BY <1>3, <1>4, <1>5, <2>3 DEF Control, Handlers
  <2>4. QED
    BY <2>2, <2>3
<1>8. ControlOK'
  <2>1. CASE t = M \/ Awaited(t)
    <3>1. pc'[M] = main[Host].handler /\ pc'[M] \in Handlers \ {"down"}
      BY <1>1, <1>7, <2>1
    <3>2. ~(main[Host].handler = "bootCheck" /\ main[Host].slot = "run")
      BY <1>2, <1>3, <1>4, <1>5, <2>1 DEF Busy, Control
    <3>3. Control(pc'[M], op'[M], main'[Host])
      BY <1>0, <1>4, <1>5, <3>1, <3>2 DEF Control, Runs, ExecuteAt, RecoverAt, ResumeAt, Handlers
    <3>4. QED
      BY <1>5, <3>3 DEF ControlOK, Main
  <2>2. CASE t # M /\ ~Awaited(t)
    <3>1. Control(pc'[M], op'[M], main'[Host])
      BY <1>0, <1>1, <1>2, <1>5, <2>2 DEF Control, Runs
    <3>2. QED
      BY <1>5, <3>1 DEF ControlOK, Main
  <2>3. QED
    BY <2>1, <2>2
<1>9. AloneOK'
  <2> SUFFICES ASSUME NEW w \in Workers, Alive(w)'
               PROVE  /\ main'[Host].kind = "recover" => /\ pc'[M] = "await"
                                                         /\ main'[Host].attempt = w[2]
                      /\ pc'[M] # "down" /\ answer'.kind # "unsent"
    BY DEF AloneOK, Main
  <2>1. w # t /\ Alive(w)
    BY <1>1 DEF Alive
  <2>2. /\ main[Host].kind = "recover" => pc[M] = "await" /\ main[Host].attempt = w[2]
        /\ pc[M] # "down" /\ answer.kind # "unsent"
    BY <2>1 DEF GrowInv, AloneOK
  <2>3. pc'[M] # "down"
    BY <1>1, <1>7, <2>2 DEF Handlers
  <2>4. ASSUME main[Host].kind = "recover"
        PROVE  pc'[M] = pc[M]
    <3>1. t # M
      BY <2>2, <2>4 DEF Busy
    <3>2. ~(Awaited(t))
      <4>1. t[1] = w[1] /\ w \in Workers /\ t \in Workers
        BY <3>1, HostFacts
      <4>2. t[2] # w[2]
        BY <2>1, <4>1 DEF Workers
      <4>3. QED
        BY <1>3, <2>2, <2>4, <4>2
    <3>3. QED
      BY <1>1, <3>1, <3>2
  <2>5. QED
    BY <1>0, <2>2, <2>3, <2>4
<1>10. Unsent(ckpt)'
  BY <1>0 DEF GrowInv, Unsent
<1>11. Steered' = mgr'[Host][main[Host].slot] /\ IsPrefix(Steered, Steered')
  BY <1>0 DEF Steered
<1>12. Grows(ckpt)'
  <2>1. Steering' => Steering
    BY <1>0, <1>1 DEF Steering, WorkerAlive, Alive
  <2>2. ASSUME Steering PROVE IsPrefix(ckpt'.history, Steered')
    <3>1. IsPrefix(ckpt'.history, Steered)
      BY <2>2 DEF GrowInv, Grows
    <3>2. /\ ckpt'.history \in Seq(ExecutionState) /\ Steered \in Seq(ExecutionState)
          /\ Steered' \in Seq(ExecutionState)
      BY Typed, SteeredTyped DEF IInv, StoreOK, ExecutionCheckpoint
    <3>3. QED
      BY <1>11, <3>1, <3>2, PrefixOn
  <2>3. QED
    BY <2>1, <2>2 DEF Grows
<1>13. ASSUME NEW u \in Threads
       PROVE  \/ pc'[u] \in {"done"} \cup Handlers
              \/ Untouched(u) /\ u # t
  <2>1. CASE u = t \/ (u = M /\ Awaited(t))
    BY <1>1, <1>7, <2>1, HostFacts
  <2>2. CASE u # t /\ ~(u = M /\ Awaited(t))
    <3>1. pc'[u] = pc[u] /\ op'[u] = op[u]
      BY <1>1, <2>2, HostFacts
    <3>2. Announces(u) => Ended'
      <4>1. CASE mgr' = mgr
        BY <1>11, <4>1 DEF GrowInv, Facts, Ended, Steered
      <4>2. QED
        BY <4>1
    <3>3. QED
      BY <1>11, <2>2, <3>1, <3>2 DEF Untouched
  <2>3. QED
    BY <2>1, <2>2
<1>14. (\A u \in Threads : Calls(u)) /\ OneIssues
  BY <1>13 DEF Calls, OneIssues, Issued, Handlers, Announces
<1>15. QED
  BY <1>8, <1>9, <1>10, <1>12, <1>13, <1>14, Carry

(* A store is issued.                                                       *)
LEMMA CallGrows ==
  ASSUME OneHost, IInv, IInv', GrowInv(ckpt), NEW t \in Threads,
         NEW c \in ExecutionCheckpoint, NEW fact, NEW k,
         pc' = [pc EXCEPT ![t] = "store"],
         op' = [op EXCEPT ![t] = [rec |-> c, fact |-> fact, then |-> k]],
         UNCHANGED <<ckpt, expired, finals, answer>>, Exact(ckpt)',
         IsPrefix(Steered, Steered'), Steered' = Steered \/ ~Ended,
         fact /\ isTerminalState(c.state) => ~Ended /\ Ended',
         c.rev = ckpt.rev => IsPrefix(ckpt.history, c.history),
         IsPrefix(c.history, Steered'), Busy(t),
         main'[Host].kind = main[Host].kind, main'[Host].slot = main[Host].slot,
         t # Main(Host) => main'[Host] = main[Host],
         t = Main(Host) => Control("store", [then |-> k], main'[Host])
  PROVE  GrowInv(ckpt)'
<1> DEFINE M == Main(Host)
           call == [rec |-> c, fact |-> fact, then |-> k]
<1>0. GrowInv(ckpt') /\ M \in Threads
  BY HostFacts
<1>1. /\ pc'[t] = "store" /\ op'[t].rec = c /\ op'[t].fact = fact /\ op'[t].then = k
      /\ \A u \in Threads : u # t => pc'[u] = pc[u] /\ op'[u] = op[u]
  BY DEF IInv, PcOK, OpOK
<1>2. Steering /\ answer.kind # "unsent"
  BY <1>0, BusyStamps
<1>3. ~ckpt.terminal \/ Ended
  BY <1>2, TerminalReached DEF GrowInv
<1>4. ControlOK'
  <2>1. CASE t = M
    <3>1. Control(pc'[M], op'[M], main'[Host])
      BY <1>1, <2>1 DEF Control
    <3>2. QED
      BY <3>1 DEF GrowInv, ControlOK, Main
  <2>2. CASE t # M
    BY <1>0, <1>1, <2>2 DEF GrowInv, ControlOK, Main
  <2>3. QED
    BY <2>1, <2>2
<1>5. AloneOK'
  <2> SUFFICES ASSUME NEW w \in Workers, Alive(w)'
               PROVE  /\ main'[Host].kind = "recover" => /\ pc'[M] = "await"
                                                         /\ main'[Host].attempt = w[2]
                      /\ pc'[M] # "down" /\ answer'.kind # "unsent"
    BY DEF AloneOK, Main
  <2>1. Alive(w)
    BY <1>1, HostFacts DEF Alive, Busy
  <2>2. /\ main[Host].kind = "recover" => pc[M] = "await" /\ main[Host].attempt = w[2]
        /\ pc[M] # "down"
    BY <2>1 DEF GrowInv, AloneOK
  <2>3. CASE t = M
    BY <1>1, <1>2, <2>2, <2>3 DEF Busy
  <2>4. CASE t # M
    BY <1>0, <1>1, <1>2, <2>2, <2>4
  <2>5. QED
    BY <2>3, <2>4
<1>6. Unsent(ckpt)'
  BY <1>2 DEF Unsent
<1>7. Grows(ckpt)'
  <2>1. IsPrefix(ckpt.history, Steered)
    BY <1>2 DEF GrowInv, Grows
  <2>2. /\ ckpt.history \in Seq(ExecutionState) /\ Steered \in Seq(ExecutionState)
        /\ Steered' \in Seq(ExecutionState)
    BY Typed, SteeredTyped
  <2>3. QED
    BY <2>1, <2>2, PrefixOn DEF Grows
<1>8. \A u \in Threads : u # t => Untouched(u)
  BY <1>1 DEF Untouched, GrowInv, Facts, Ended
<1>9. Issued(t)
  <2>1. Extends(ckpt, op[t].rec)'
    BY <1>1 DEF Extends
  <2>2. Announces(t)' => fact /\ isTerminalState(c.state)
    BY <1>1 DEF Announces
  <2>3. ~Ended => /\ \A u \in Threads : ~Announces(u)
                  /\ ~ckpt.terminal /\ finals = 0
    BY <1>3, Typed DEF GrowInv, Facts
  <2>4. QED
    BY <1>1, <2>1, <2>2, <2>3 DEF Issued
<1>10. (\A u \in Threads : Calls(u)) /\ OneIssues
  BY <1>8, <1>9 DEF Calls, OneIssues
<1>11. QED
  BY <1>0, <1>4, <1>5, <1>6, <1>7, <1>10, Carry

LEMMA CallStoreGrows ==
  ASSUME OneHost, IInv, IInv', GrowInv(ckpt), NEW t \in Threads,
         NEW c \in ExecutionCheckpoint, NEW fact, NEW k, CallStore(t, c, fact, k),
         GoesOn(t, k), UNCHANGED <<ckpt, expired, finals, answer>>, Exact(ckpt)',
         IsPrefix(Steered, Steered'), Steered' = Steered \/ ~Ended,
         fact /\ isTerminalState(c.state) => ~Ended /\ Ended',
         c.rev = ckpt.rev => IsPrefix(ckpt.history, c.history),
         IsPrefix(c.history, Steered')
  PROVE  GrowInv(ckpt)'
<1>1. /\ pc' = [pc EXCEPT ![t] = "store"]
      /\ op' = [op EXCEPT ![t] = [rec |-> c, fact |-> fact, then |-> k]]
      /\ main' = main
  BY DEF CallStore
<1>2. t = Main(Host) => Control("store", [then |-> k], main[Host])
  BY DEF GoesOn, Busy, GrowInv, ControlOK, Control, Runs, ExecuteAt, RecoverAt, ResumeAt
<1>3. /\ Busy(t) /\ main'[Host].kind = main[Host].kind /\ main'[Host].slot = main[Host].slot
      /\ t # Main(Host) => main'[Host] = main[Host]
      /\ t = Main(Host) => Control("store", [then |-> k], main'[Host])
  BY <1>1, <1>2 DEF GoesOn
<1>4. QED
  BY <1>1, <1>3, CallGrows

(* #upsert of a checkpoint with the durable history, or the manager's.      *)
LEMMA UpsertGrows ==
  ASSUME OneHost, IInv, IInv', GrowInv(ckpt), NEW t \in Threads,
         NEW c \in ExecutionCheckpoint, NEW k, upsert(t, c, k), GoesOn(t, k),
         UNCHANGED <<ckpt, expired, finals, answer, mgr>>, Exact(ckpt)',
         c.history \in {ckpt.history, Steered}
  PROVE  GrowInv(ckpt)'
<1>0. Steering /\ GrowInv(ckpt')
  BY BusyStamps DEF GoesOn
<1>1. /\ ckpt.history \in Seq(ExecutionState) /\ Steered \in Seq(ExecutionState)
      /\ IsPrefix(ckpt.history, Steered)
  BY <1>0, Typed DEF GrowInv, Grows
<1>2. IsPrefix(ckpt.history, c.history) /\ IsPrefix(c.history, Steered)
  BY <1>1, PrefixSelf
<1>3. CASE Throw(t, "FAILED") /\ UNCHANGED op
  <2>1. IsPrefix(Steered, mgr'[Host][main[Host].slot])
    BY <1>1, PrefixSelf DEF Steered
  <2>2. QED
    BY <1>0, <1>3, <2>1, ThrowGrows DEF GoesOn
<1>4. CASE CallStore(t, Normalized(c), FALSE, k)
  <2>1. /\ Normalized(c) \in ExecutionCheckpoint /\ Normalized(c).history = c.history
        /\ Normalized(c).rev = c.rev
    BY NormalizedFields
  <2>2. main' = main
    BY <1>4 DEF CallStore
  <2>3. Steered' = Steered
    BY <2>2 DEF Steered
  <2>4. /\ IsPrefix(Steered, Steered') /\ (Steered' = Steered \/ ~Ended)
        /\ FALSE /\ isTerminalState(Normalized(c).state) => ~Ended /\ Ended'
        /\ Normalized(c).rev = ckpt.rev => IsPrefix(ckpt.history, Normalized(c).history)
        /\ IsPrefix(Normalized(c).history, Steered')
    BY <1>1, <1>2, <2>1, <2>3, PrefixSelf
  <2> HIDE DEF Normalized
  <2>5. QED
    BY <1>4, <2>1, <2>4, CallStoreGrows
<1>5. QED
  BY <1>3, <1>4 DEF upsert

(* A transition appends to the manager in charge.                           *)
LEMMA TransitionGrows ==
  ASSUME OneHost, IInv, IInv', GrowInv(ckpt), NEW t \in Threads, NEW s \in Slot,
         NEW c \in ExecutionCheckpoint, NEW next, NEW stage \in ExecutionStage, NEW k,
         transitionAndCheckpoint(t, s, c, next, stage, k), GoesOn(t, k),
         s = main[Host].slot,
         UNCHANGED <<ckpt, expired, finals, answer>>, Exact(ckpt)'
  PROVE  GrowInv(ckpt)'
<1> DEFINE h == mgr[Host][s]
           history == Append(h, next)
           b == [c EXCEPT !.stage = stage]
           d == Stamped(b, history)
           rec == Normalized(d)
<1>0. Steering /\ GrowInv(ckpt') /\ t[1] = Host /\ Host \in Procs
  BY BusyStamps, HostFacts DEF GoesOn
<1>1. /\ h = Steered /\ h \in Seq(ExecutionState) /\ LegalPath(h)
      /\ ckpt.history \in Seq(ExecutionState) /\ IsPrefix(ckpt.history, h)
  BY <1>0, Typed DEF Steered, GrowInv, Grows
<1>2. CASE next \in transitions[StateOf(Host, s)]
  <2>1. history \in Seq(ExecutionState) /\ LegalPath(history)
    BY <1>1, <1>2, LegalStep DEF StateOf
  <2>2. next \in ExecutionState
    BY <1>1, <1>2, LastState DEF StateOf, transitions, ExecutionState
  <2>3. Last(history) = next /\ IsPrefix(h, history)
    BY <1>1, <2>2, PrefixAppend DEF Last
  <2>4. b \in ExecutionCheckpoint /\ b.rev = c.rev
    BY DEF ExecutionCheckpoint
  <2> HIDE DEF b
  <2>5. d \in ExecutionCheckpoint /\ d.history = history /\ d.state = next /\ d.rev = c.rev
    BY <2>1, <2>3, <2>4, StampedPath, StampedKeeps
  <2>6. mgr' = [mgr EXCEPT ![Host][s] = history]
    BY <1>0, <1>2 DEF transitionAndCheckpoint
  <2>7. \/ Throw(t, "FAILED") /\ UNCHANGED op
        \/ CallStore(t, rec, TRUE, k)
    BY <1>0, <1>2 DEF transitionAndCheckpoint, b
  <2> HIDE DEF d, history
  <2>8. /\ rec \in ExecutionCheckpoint /\ rec.history = history /\ rec.state = next
        /\ rec.rev = c.rev
    BY <2>5, NormalizedFields DEF rec
  <2>9. mgr'[Host][s] = history
    BY <1>0, <2>6 DEF IInv, MgrOK
  <2>10. ~Ended
    <3>1. transitions[Last(h)] # {}
      BY <1>2 DEF StateOf
    <3>2. QED
      BY <1>1, <3>1 DEF Ended, isTerminalState, transitions
  <2> HIDE DEF h, history, rec
  <2>11. CASE Throw(t, "FAILED") /\ UNCHANGED op
    <3>1. \A u \in Threads : ~Announces(u)
      BY <2>10 DEF GrowInv, Facts
    <3>2. IsPrefix(Steered, mgr'[Host][main[Host].slot])
      BY <1>1, <2>3, <2>9
    <3>3. QED
      BY <1>0, <2>11, <3>1, <3>2, ThrowGrows DEF GoesOn
  <2>12. CASE CallStore(t, rec, TRUE, k)
    <3>1. main' = main
      BY <2>12 DEF CallStore
    <3>2. Steered' = history
      BY <2>9, <3>1 DEF Steered
    <3>3. IsPrefix(Steered, Steered') /\ IsPrefix(rec.history, Steered')
      BY <1>1, <2>1, <2>3, <2>8, <3>2, PrefixSelf
    <3>4. IsPrefix(ckpt.history, rec.history)
      BY <1>1, <2>1, <2>3, <2>8, PrefixOn
    <3>5. isTerminalState(rec.state) => Ended'
      BY <2>3, <2>8, <3>2 DEF Ended
    <3>6. /\ Steered' = Steered \/ ~Ended
          /\ TRUE /\ isTerminalState(rec.state) => ~Ended /\ Ended'
          /\ rec.rev = ckpt.rev => IsPrefix(ckpt.history, rec.history)
      BY <2>10, <3>4, <3>5
    <3>7. QED
      BY <2>8, <2>12, <3>3, <3>6, CallStoreGrows
  <2>13. QED
    BY <2>7, <2>11, <2>12
<1>3. CASE next \notin transitions[StateOf(Host, s)]
  <2>1. Throw(t, "FAILED") /\ UNCHANGED <<mgr, op>>
    BY <1>0, <1>3 DEF transitionAndCheckpoint
  <2>2. IsPrefix(Steered, mgr'[Host][main[Host].slot])
    BY <1>1, <2>1, PrefixSelf DEF Steered
  <2>3. QED
    BY <1>0, <2>1, <2>2, ThrowGrows DEF GoesOn
<1>4. QED
  BY <1>2, <1>3

-----------------------------------------------------------------------------
(* Steps that issue no store. *)

LEMMA CopiesExact ==
  ASSUME OneHost, IInv, Exact(ckpt), UNCHANGED ckpt,
         \A t \in Threads : \/ cur'[t] \in {ckpt, seedCheckpoint}
                            \/ \E u \in Threads : cur'[t] = cur[u]
  PROVE  Exact(ckpt)'
<1>1. seedCheckpoint.rev = 0
  BY DEF seedCheckpoint
<1>2. ASSUME NEW t \in Threads, cur'[t].rev = ckpt.rev PROVE cur'[t] = ckpt
  BY <1>1, <1>2 DEF Exact
<1>3. QED
  BY <1>2 DEF Exact

LEMMA MoveGrows ==
  ASSUME OneHost, IInv, IInv', GrowInv(ckpt), UNCHANGED <<ckpt, finals>>,
         ControlOK', AloneOK', Unsent(ckpt)', Exact(ckpt)', Grows(ckpt)',
         \A t \in Threads : \/ pc'[t] \notin {"store", "reload"}
                            \/ pc'[t] = pc[t] /\ op'[t] = op[t] /\ Steered' = Steered
  PROVE  GrowInv(ckpt)'
<1>1. ASSUME NEW t \in Threads, pc'[t] = pc[t], op'[t] = op[t], Steered' = Steered
      PROVE  Untouched(t)
  <2>1. IsPrefix(Steered, Steered')
    BY <1>1, Typed, PrefixSelf
  <2>2. Announces(t) => Ended'
    BY <1>1 DEF GrowInv, Facts, Ended
  <2>3. QED
    BY <1>1, <2>1, <2>2 DEF Untouched
<1>2. (\A t \in Threads : Calls(t)) /\ OneIssues
  <2>1. \A t \in Threads : Untouched(t) \/ pc'[t] \notin {"store", "reload"}
    BY <1>1
  <2>2. QED
    BY <2>1, HostFacts DEF Calls, OneIssues, Issued, Announces
<1>3. GrowInv(ckpt')
  OBVIOUS
<1>4. QED
  BY <1>2, <1>3, Carry

(* A thread goes on at k.                                                   *)
LEMMA GotoGrows ==
  ASSUME OneHost, IInv, IInv', GrowInv(ckpt), NEW t \in Threads, NEW k,
         pc' = [pc EXCEPT ![t] = k], k \notin {"store", "reload", "down"},
         UNCHANGED <<ckpt, finals, expired, op, mgr>>, Exact(ckpt)',
         answer' = answer \/ answer'.kind # "unsent",
         main' = main \/ Busy(t),
         /\ main'[Host].kind = main[Host].kind /\ main'[Host].slot = main[Host].slot
         /\ main'[Host].attempt = main[Host].attempt,
         t = Main(Host) => pc[t] # "await" /\ Control(k, op[t], main'[Host]),
         t # Main(Host) => Alive(t) /\ main' = main
  PROVE  GrowInv(ckpt)'
<1> DEFINE M == Main(Host)
<1>0. M \in Threads /\ M \notin Workers
  BY HostFacts
<1>1. pc'[t] = k /\ \A u \in Threads : u # t => pc'[u] = pc[u]
  BY DEF IInv, PcOK
<1>2. ControlOK'
  <2>1. CASE t = M
    BY <1>1, <2>1 DEF GrowInv, ControlOK, Main
  <2>2. CASE t # M
    BY <1>0, <1>1, <2>2 DEF GrowInv, ControlOK, Main
  <2>3. QED
    BY <2>1, <2>2
<1>3. AloneOK'
  <2> SUFFICES ASSUME NEW w \in Workers, Alive(w)'
               PROVE  /\ main'[Host].kind = "recover" => /\ pc'[M] = "await"
                                                         /\ main'[Host].attempt = w[2]
                      /\ pc'[M] # "down" /\ answer'.kind # "unsent"
    BY DEF AloneOK, Main
  <2>1. Alive(w) /\ w \in Threads
    BY <1>0, <1>1, HostFacts DEF Alive
  <2>2. /\ main[Host].kind = "recover" => pc[M] = "await" /\ main[Host].attempt = w[2]
        /\ pc[M] # "down" /\ answer.kind # "unsent"
    BY <2>1 DEF GrowInv, AloneOK
  <2>3. CASE t = M
    BY <1>1, <2>2, <2>3
  <2>4. CASE t # M
    BY <1>0, <1>1, <2>2, <2>4
  <2>5. QED
    BY <2>3, <2>4
<1>4. Unsent(ckpt)'
  BY DEF GrowInv, Unsent
<1>5. Steered' = Steered
  BY DEF Steered
<1>6. Grows(ckpt)'
  <2>1. Steering' => Steering
    <3>1. WorkerAlive' => WorkerAlive
      BY <1>0, <1>1, HostFacts DEF WorkerAlive, Alive
    <3>2. CASE main' = main
      BY <3>1, <3>2 DEF Steering
    <3>3. CASE Busy(t)
      BY <3>3, BusyStamps
    <3>4. QED
      BY <3>2, <3>3
  <2>2. QED
    BY <1>5, <2>1 DEF GrowInv, Grows
<1>7. \A u \in Threads : \/ pc'[u] \notin {"store", "reload"}
                         \/ pc'[u] = pc[u] /\ op'[u] = op[u] /\ Steered' = Steered
  BY <1>1, <1>5
<1>8. QED
  BY <1>2, <1>3, <1>4, <1>6, <1>7, MoveGrows

-----------------------------------------------------------------------------
(* The store. *)

(* A write that the revision lets through extends the durable history, and  *)
(* leaves a terminal one as it is.                                          *)
LEMMA CommitGrows ==
  ASSUME OneHost, IInv, RecordInv, GrowInv(ckpt), NEW t \in Threads, pc[t] = "store",
         op[t].rec.rev = ckpt.rev, ckpt' = [op[t].rec EXCEPT !.rev = @ + 1]
  PROVE  /\ GrowInv(ckpt') /\ IsPrefix(ckpt.history, ckpt'.history)
         /\ ckpt.terminal => ckpt'.history = ckpt.history /\ ckpt'.state = ckpt.state
         /\ ckpt'.terminal = op[t].rec.terminal
<1> DEFINE c == op[t].rec
<1>1. /\ c \in ExecutionCheckpoint /\ Lawful(c) /\ LegalPath(c.history)
      /\ c.history \in Seq(ExecutionState)
  BY Typed
<1>2. /\ ckpt'.rev = ckpt.rev + 1 /\ ckpt'.history = c.history /\ ckpt'.state = c.state
      /\ ckpt'.terminal = c.terminal /\ ckpt.rev \in Nat
  BY <1>1, Typed DEF ExecutionCheckpoint
<1>3. Extends(ckpt, c)
  BY DEF GrowInv, Stores
<1>4. Steering /\ answer.kind # "unsent"
  BY BusySteers DEF Busy, Alive, GrowInv, Unsent
<1> HIDE DEF c
<1>5. IsPrefix(ckpt.history, c.history) /\ IsPrefix(c.history, Steered)
  BY <1>3 DEF Extends, c
<1>6. ckpt.terminal => c.history = ckpt.history /\ c.state = ckpt.state /\ c.terminal
  <2> SUFFICES ASSUME ckpt.terminal PROVE c.history = ckpt.history /\ c.state = ckpt.state
                                          /\ c.terminal
    OBVIOUS
  <2>1. isTerminalState(Last(ckpt.history)) /\ ckpt.state = Last(ckpt.history)
    BY DEF IInv, StoreOK, Lawful
  <2>2. c.history = ckpt.history
    BY <1>1, <1>5, <2>1, Typed, TerminalStays
  <2>3. QED
    BY <1>1, <2>1, <2>2 DEF Lawful
<1>7. Exact(ckpt')
  BY <1>2, NoneNewer, Typed DEF Exact, ExecutionCheckpoint
<1>8. Grows(ckpt') /\ Unsent(ckpt')
  BY <1>2, <1>4, <1>5 DEF Grows, Unsent
<1>9. Stores(ckpt')
  <2> SUFFICES ASSUME NEW u \in Threads, pc[u] = "store" PROVE Extends(ckpt', op[u].rec)
    BY DEF Stores
  <2>1. op[u].rec.rev <= ckpt.rev /\ op[u].rec.rev \in Nat
    BY NoneNewer, Typed DEF ExecutionCheckpoint
  <2>2. Extends(ckpt, op[u].rec)
    BY DEF GrowInv, Stores
  <2>3. QED
    BY <1>2, <2>1, <2>2 DEF Extends
<1>10. Facts(ckpt')
  <2>1. ckpt.terminal => ckpt'.terminal
    BY <1>2, <1>6
  <2>2. QED
    BY <2>1 DEF GrowInv, Facts
<1>11. QED
  BY <1>2, <1>5, <1>6, <1>7, <1>8, <1>9, <1>10 DEF GrowInv, c

LEMMA StoreStepGrows ==
  ASSUME OneHost, IInv, IInv', RecordInv, GrowInv(ckpt), NEW t \in Threads, StoreStep(t)
  PROVE  /\ GrowInv(ckpt)' /\ IsPrefix(ckpt.history, ckpt'.history)
         /\ ckpt.terminal => ckpt'.history = ckpt.history /\ ckpt'.state = ckpt.state
<1> DEFINE M == Main(Host)
<1>0. /\ M \in Threads /\ M \notin Workers
      /\ pc[t] \in {"store", "reload"}
      /\ IsPrefix(ckpt.history, ckpt.history) /\ IsPrefix(Steered, Steered)
  BY HostFacts, Typed, PrefixSelf
     DEF StoreStep, StoreCommits, StoreConflicts, StoreFails, Reload, PublishFails
<1>1. Busy(t)
  BY <1>0 DEF Busy, Alive
<1>2. Steering /\ answer.kind # "unsent"
  BY <1>1, BusySteers DEF GrowInv, Unsent
<1>3. CASE StoreCommits(t)
  <2>1. /\ pc[t] = "store" /\ op[t].rec.rev = ckpt.rev /\ UNCHANGED <<expired, answer, finals>>
        /\ ckpt' = [op[t].rec EXCEPT !.rev = @ + 1] /\ pc' = [pc EXCEPT ![t] = "reload"]
        /\ op' = op /\ main' = main /\ mgr' = mgr /\ cur' = cur
    BY <1>3 DEF StoreCommits, Goto, env, ghost
  <2>2. /\ GrowInv(ckpt') /\ IsPrefix(ckpt.history, ckpt'.history)
        /\ ckpt.terminal => ckpt'.history = ckpt.history /\ ckpt'.state = ckpt.state
        /\ ckpt'.terminal = op[t].rec.terminal
    BY <2>1, CommitGrows
  <2>3. pc'[t] = "reload" /\ \A u \in Threads : u # t => pc'[u] = pc[u]
    BY <2>1 DEF IInv, PcOK
  <2>4. Steered' = Steered /\ (Ended' <=> Ended)
    BY <2>1 DEF Steered, Ended
  <2>5. ControlOK'
    <3>1. Control(pc[M], op[M], main[Host]) /\ ~expired
      BY DEF GrowInv, ControlOK
    <3>2. Control(pc'[M], op[M], main[Host])
      BY <1>0, <2>1, <2>3, <3>1 DEF Control, Runs, ExecuteAt, RecoverAt, ResumeAt
    <3>3. QED
      BY <2>1, <3>1, <3>2 DEF ControlOK, Main
  <2>6. AloneOK'
    <3> SUFFICES ASSUME NEW w \in Workers, Alive(w)'
                 PROVE  /\ main'[Host].kind = "recover" => /\ pc'[M] = "await"
                                                           /\ main'[Host].attempt = w[2]
                        /\ pc'[M] # "down" /\ answer'.kind # "unsent"
      BY DEF AloneOK, Main
    <3>1. Alive(w)
      BY <2>1, <2>3, HostFacts DEF Alive
    <3>2. QED
      BY <1>0, <2>1, <2>3, <3>1 DEF GrowInv, AloneOK
  <2>7. Unsent(ckpt)' /\ Exact(ckpt)'
    BY <1>2, <2>1, <2>2 DEF Unsent, GrowInv, Exact
  <2>8. Grows(ckpt)'
    BY <1>2, <2>2, <2>4 DEF GrowInv, Grows
  <2>9. Committed(t)
    <3>1. Announces(t) => Ended
      BY DEF GrowInv, Facts
    <3>2. Announces(t) => op[t].rec.terminal
      BY Typed DEF Announces, Lawful
    <3>3. QED
      BY <2>1, <2>2, <2>3, <2>4, <3>1, <3>2 DEF Committed
  <2>10. \A u \in Threads : u # t => Untouched(u)
    BY <1>0, <2>1, <2>3, <2>4 DEF Untouched, GrowInv, Facts
  <2>11. (\A u \in Threads : Calls(u)) /\ OneIssues
    BY <2>9, <2>10 DEF Calls, OneIssues, Issued, Committed
  <2>12. GrowInv(ckpt)'
    BY <2>1, <2>2, <2>5, <2>6, <2>7, <2>8, <2>11, Carry
  <2>13. QED
    BY <2>2, <2>12
<1>4. CASE StoreConflicts(t)
  <2>1. /\ Throw(t, "CONFLICT") /\ UNCHANGED <<expired, finals, answer>>
        /\ ckpt' = ckpt /\ op' = op /\ mgr' = mgr /\ cur' = cur
    BY <1>4 DEF StoreConflicts, store, env, ghost
  <2>2. Exact(ckpt)' /\ GrowInv(ckpt') /\ IsPrefix(Steered, mgr'[Host][main[Host].slot])
    BY <1>0, <2>1 DEF GrowInv, Exact, Steered
  <2>3. QED
    BY <1>0, <1>1, <2>1, <2>2, ThrowGrows
<1>5. CASE StoreFails(t)
  <2>1. /\ Throw(t, "FAILED") /\ UNCHANGED <<expired, finals, answer>> /\ pc[t] = "store"
        /\ op' = op /\ mgr' = mgr /\ cur' = cur
        /\ \/ ckpt' = ckpt
           \/ op[t].rec.rev = ckpt.rev /\ ckpt' = [op[t].rec EXCEPT !.rev = @ + 1]
    BY <1>5 DEF StoreFails, ghost
  <2>2. /\ GrowInv(ckpt') /\ IsPrefix(ckpt.history, ckpt'.history)
        /\ ckpt.terminal => ckpt'.history = ckpt.history /\ ckpt'.state = ckpt.state
    BY <1>0, <2>1, CommitGrows
  <2>3. Exact(ckpt)' /\ IsPrefix(Steered, mgr'[Host][main[Host].slot])
    BY <1>0, <2>1, <2>2 DEF GrowInv, Exact, Steered
  <2>4. QED
    BY <1>1, <2>1, <2>2, <2>3, ThrowGrows
<1>6. CASE PublishFails(t)
  <2>1. /\ Throw(t, "FAILED") /\ UNCHANGED <<expired, finals, answer>>
        /\ ckpt' = ckpt /\ op' = [op EXCEPT ![t] = NoOp] /\ mgr' = mgr /\ cur' = cur
    BY <1>6 DEF PublishFails, store, ghost
  <2>2. Exact(ckpt)' /\ GrowInv(ckpt') /\ IsPrefix(Steered, mgr'[Host][main[Host].slot])
    BY <1>0, <2>1 DEF GrowInv, Exact, Steered
  <2>3. \A u \in Threads : u # t => op'[u] = op[u]
    BY <2>1 DEF IInv, OpOK
  <2>4. QED
    BY <1>0, <1>1, <2>1, <2>2, <2>3, ThrowGrows
<1>7. CASE Reload(t)
  <2>1. /\ pc[t] = "reload" /\ UNCHANGED <<expired, answer>>
        /\ ckpt' = ckpt /\ main' = main /\ mgr' = mgr
        /\ cur' = [cur EXCEPT ![t] = ckpt] /\ op' = [op EXCEPT ![t] = NoOp]
        /\ pc' = [pc EXCEPT ![t] = op[t].then]
        /\ finals' = IF op[t].fact /\ isTerminalState(op[t].rec.state)
                     THEN finals + 1 ELSE finals
    BY <1>7 DEF Reload, Goto, store, env
  <2>2. /\ pc'[t] = op[t].then /\ \A u \in Threads : u # t => pc'[u] = pc[u]
        /\ op'[t] = NoOp /\ \A u \in Threads : u # t => op'[u] = op[u]
    BY <2>1 DEF IInv, PcOK, OpOK
  <2>3. Steered' = Steered /\ (Ended' <=> Ended)
    BY <2>1 DEF Steered, Ended
  <2>4. ControlOK'
    <3>1. Control(pc[M], op[M], main[Host]) /\ ~expired
      BY DEF GrowInv, ControlOK
    <3>2. CASE t = M
      <4>1. Control(op[M].then, NoOp, main[Host])
        BY <2>1, <3>1, <3>2 DEF Control, AfterStore
      <4>2. QED
        BY <2>1, <2>2, <3>1, <3>2, <4>1 DEF ControlOK, Main
    <3>3. CASE t # M
      BY <1>0, <2>1, <2>2, <3>1, <3>3 DEF ControlOK, Main
    <3>4. QED
      BY <3>2, <3>3
  <2>5. AloneOK'
    <3> SUFFICES ASSUME NEW w \in Workers, Alive(w)'
                 PROVE  /\ main'[Host].kind = "recover" => /\ pc'[M] = "await"
                                                           /\ main'[Host].attempt = w[2]
                        /\ pc'[M] # "down" /\ answer'.kind # "unsent"
      BY DEF AloneOK, Main
    <3>1. Alive(w)
      BY <2>1, <2>2, HostFacts DEF Alive
    <3>2. /\ main[Host].kind = "recover" => pc[M] = "await" /\ main[Host].attempt = w[2]
          /\ pc[M] # "down" /\ answer.kind # "unsent"
      BY <3>1 DEF GrowInv, AloneOK
    <3>3. t = M => op[t].then # "down"
      BY <2>1 DEF GrowInv, ControlOK, Control, AfterStore
    <3>4. QED
      BY <1>0, <2>1, <2>2, <3>2, <3>3
  <2>6. Unsent(ckpt)' /\ Grows(ckpt)'
    BY <1>2, <2>1, <2>3 DEF Unsent, GrowInv, Grows
  <2>7. Exact(ckpt)'
    <3>1. \A u \in Threads : cur'[u] = ckpt \/ cur'[u] = cur[u]
      BY <2>1 DEF IInv, CurOK
    <3>2. QED
      BY <2>1, <3>1, CopiesExact DEF GrowInv
  <2>8. \A u \in Threads : u # t => Untouched(u)
    BY <1>0, <2>2, <2>3 DEF Untouched, GrowInv, Facts
  <2>9. ~Announces(t)'
    BY <2>2 DEF Announces, NoOp
  <2>10. pc'[t] = "store" => Issued(t)
    <3>1. NoOp.rec = seedCheckpoint /\ seedCheckpoint.rev = 0
          /\ seedCheckpoint.history = <<"created">>
      BY DEF NoOp, seedCheckpoint
    <3>2. ckpt.rev = 0 => ckpt = seedCheckpoint
      BY DEF GrowInv, Exact
    <3>3. IsPrefix(<<"created">>, Steered)
      BY Typed, CreatedPrefix
    <3>4. Extends(ckpt, op[t].rec)'
      BY <1>0, <2>1, <2>2, <2>3, <3>1, <3>2, <3>3 DEF Extends
    <3>5. QED
      BY <2>9, <3>4 DEF Issued
  <2>11. (\A u \in Threads : Calls(u)) /\ OneIssues
    BY <2>8, <2>9, <2>10 DEF Calls, OneIssues
  <2>12. finals' = finals \/ Published
    <3>1. CASE Announces(t)
      <4>1. finals = 0 /\ ckpt.terminal /\ \A u \in Threads : Announces(u) => u = t
        BY <2>1, <3>1 DEF GrowInv, Facts
      <4>2. \A u \in Threads : u # t => ~Announces(u)'
        BY <2>2, <4>1 DEF Announces
      <4>3. QED
        BY <2>1, <2>9, <3>1, <4>1, <4>2 DEF Published, Announces
    <3>2. QED
      BY <2>1, <3>1 DEF Announces
  <2>13. GrowInv(ckpt)'
    BY <2>1, <2>4, <2>5, <2>6, <2>7, <2>11, <2>12, Carry
  <2>14. QED
    BY <1>0, <2>1, <2>13
<1>8. QED
  BY <1>3, <1>4, <1>5, <1>6, <1>7 DEF StoreStep

-----------------------------------------------------------------------------
(* execute(). *)

LEMMA CurExact ==
  ASSUME OneHost, IInv, RecordInv, GrowInv(ckpt), UNCHANGED ckpt, NEW t \in Threads,
         \/ cur' = cur
         \/ cur' = [cur EXCEPT ![t] = Loaded(t)]
         \/ cur' = [cur EXCEPT ![t] = seedCheckpoint]
  PROVE  Exact(ckpt)'
<1>1. Loaded(t) = ckpt /\ Exact(ckpt)
  BY LoadedIs DEF GrowInv
<1>2. \A u \in Threads : cur'[u] \in {ckpt, seedCheckpoint, cur[u]}
  BY <1>1 DEF IInv, CurOK
<1>3. QED
  BY <1>1, <1>2, CopiesExact

(* A worker starts, and the main coroutine waits for it: after an attempt    *)
(* of execute(), or as the only worker of a recovery.                       *)
LEMMA StartWorkerGrows ==
  ASSUME OneHost, IInv, IInv', GrowInv(ckpt), NEW i, NEW from, NEW reinvoke,
         StartWorker(Host, i, from, reinvoke), i = main[Host].attempt,
         UNCHANGED <<ckpt, expired, finals, answer, main, op, mgr>>,
         Busy(Main(Host)), Runs("await", main[Host])
  PROVE  GrowInv(ckpt)'
<1> DEFINE M == Main(Host)
<1>0. M \in Threads /\ M \notin Workers /\ GrowInv(ckpt') /\ Host \in Procs
  BY HostFacts
<1>1. Steering /\ answer.kind # "unsent"
  BY <1>0, BusyStamps
<1>2. ASSUME NEW u \in Threads
      PROVE  pc'[u] = IF u = <<Host, i>> THEN "enter" ELSE IF u = M THEN "await" ELSE pc[u]
  BY DEF StartWorker, IInv, PcOK
<1>3. \A u \in Threads : cur'[u] \in {cur[u], cur[M]}
  BY DEF StartWorker, IInv, CurOK
<1>4. pc'[M] \in {"await", "enter"}
  BY <1>0, <1>2
<1>5. ControlOK'
  <2>1. Control(pc[M], op[M], main[Host]) /\ ~expired
    BY DEF GrowInv, ControlOK
  <2>2. pc[M] \notin {"down", "idle", "recover", "finished", "await"}
    BY DEF Busy
  <2>3. Control(pc'[M], op[M], main[Host])
    BY <1>4, <2>1, <2>2 DEF Control, Runs, ExecuteAt, RecoverAt, ResumeAt
  <2>4. QED
    BY <2>1, <2>3 DEF ControlOK, Main
<1>6. AloneOK'
  <2> SUFFICES ASSUME NEW w \in Workers, Alive(w)'
               PROVE  /\ main'[Host].kind = "recover" => /\ pc'[M] = "await"
                                                         /\ main'[Host].attempt = w[2]
                      /\ pc'[M] # "down" /\ answer'.kind # "unsent"
    BY DEF AloneOK, Main
  <2>1. CASE w = <<Host, i>>
    BY <1>0, <1>1, <1>2, <2>1
  <2>2. CASE w # <<Host, i>>
    <3>1. Alive(w)
      BY <1>0, <1>2, <2>2, HostFacts DEF Alive
    <3>2. main[Host].kind # "recover"
      BY <3>1 DEF GrowInv, AloneOK, Busy
    <3>3. QED
      BY <1>1, <1>4, <3>2
  <2>3. QED
    BY <2>1, <2>2
<1>7. Steered' = Steered /\ Unsent(ckpt)' /\ Grows(ckpt)'
  BY <1>1 DEF Steered, Unsent, Grows, GrowInv
<1>8. Exact(ckpt)'
  BY <1>0, <1>3, CopiesExact DEF GrowInv
<1>9. \A u \in Threads : \/ pc'[u] \notin {"store", "reload"}
                         \/ pc'[u] = pc[u] /\ op'[u] = op[u] /\ Steered' = Steered
  BY <1>2, <1>7
<1>10. QED
  BY <1>5, <1>6, <1>7, <1>8, <1>9, MoveGrows

LEMMA ExecuteStepGrows ==
  ASSUME OneHost, NoDeadline, IInv, IInv', RecordInv, GrowInv(ckpt), ExecuteStep(Host)
  PROVE  GrowInv(ckpt)' /\ ckpt' = ckpt
<1> DEFINE t == Main(Host)
<1>0. /\ t \in Threads /\ t \notin Workers /\ t[1] = Host /\ Host \in Procs
      /\ main[Host] \in MainLocals /\ "run" \in Slot
      /\ Loaded(t) = ckpt /\ ckpt \in ExecutionCheckpoint /\ cur[t] \in ExecutionCheckpoint
      /\ ckpt.stage \in ExecutionStage
      /\ Steered \in Seq(ExecutionState) /\ IsPrefix(Steered, Steered)
  BY HostFacts, Typed, LoadedIs, PrefixSelf DEF GrowInv, ExecutionCheckpoint, Slot
<1>1. Control(pc[t], op[t], main[Host]) /\ ~expired
  BY DEF GrowInv, ControlOK
<1>2. pc[t] \in ExecuteAt \cup {"await"} /\ ckpt' = ckpt /\ UNCHANGED <<expired, finals>>
      /\ GrowInv(ckpt')
  BY DEF ExecuteStep, Authorize, Schedule, Attempt, Run, TimerFires, Retry, Backoff,
         Succeeded, Completed, Catch, Fail, Cancelled, Answer, ExecuteAt, store, env, ghost
<1>3. ~TimerFires(Host)
  BY <1>1 DEF TimerFires
<1>4. pc[t] \in ExecuteAt
  BY <1>3 DEF ExecuteStep, Authorize, Schedule, Attempt, Run, Retry, Backoff,
         Succeeded, Completed, Catch, Fail, Cancelled, Answer, ExecuteAt
<1>5. main[Host].kind = "execute" /\ main[Host].slot = "run"
  BY <1>0, <1>1, <1>4 DEF Control, Runs, MainLocals, Slot
<1>6. Busy(t)
  BY <1>4 DEF Busy, ExecuteAt
<1>7. Steered = mgr[Host]["run"]
  BY <1>5 DEF Steered
<1>c. ASSUME NEW k \in ExecuteAt \cup {"reach", "terminalize", "finished"}, NEW m,
             m.kind = "execute", m.slot = "run", m.handler \in {"catch", "retry", "answer"}
      PROVE  /\ Control(k, op[t], m)
             /\ k \in AfterStore => Control("store", [then |-> k], m)
  BY <1>c DEF Control, Runs, ExecuteAt, RecoverAt, ResumeAt
<1>g. ASSUME NEW k \in ExecuteAt \cup {"reach", "terminalize", "finished"}, Goto(t, k),
             main' = main, op' = op, mgr' = mgr, Exact(ckpt)',
             answer' = answer \/ answer'.kind # "unsent"
      PROVE  GrowInv(ckpt)'
  <2>1. Control(k, op[t], main[Host])
    BY <1>1, <1>5, <1>c DEF Control
  <2>2. pc' = [pc EXCEPT ![t] = k] /\ k \notin {"store", "reload", "down"} /\ pc[t] # "await"
    BY <1>4, <1>g DEF Goto, ExecuteAt
  <2>3. QED
    BY <1>0, <1>2, <1>g, <2>1, <2>2, GotoGrows
<1>t. ASSUME NEW e, Throw(t, e), op' = op, mgr' = mgr, answer' = answer, Exact(ckpt)'
      PROVE  GrowInv(ckpt)'
  <2>1. IsPrefix(Steered, mgr'[Host][main[Host].slot])
    BY <1>0, <1>t DEF Steered
  <2>2. QED
    BY <1>0, <1>2, <1>6, <1>t, <2>1, ThrowGrows
<1>k. ASSUME NEW k \in {"schedule", "attempt", "terminalize", "cancelled"}
      PROVE  GoesOn(t, k)
  BY <1>5, <1>6 DEF GoesOn, Runs, ExecuteAt, RecoverAt, ResumeAt, AfterStore
<1>8. CASE Authorize(Host)
  <2> DEFINE c == [cur[t] EXCEPT !.snapshot = TRUE]
             d == Stamped(c, mgr[Host]["run"])
  <2>1. c \in ExecutionCheckpoint
    BY <1>0 DEF ExecutionCheckpoint
  <2>2. d \in ExecutionCheckpoint /\ d.history = Steered
    <3> HIDE DEF c
    <3>1. QED
      BY <1>0, <1>7, <2>1, Typed, StampedPath
  <2>3. /\ \/ Throw(t, "FAILED") /\ UNCHANGED op
           \/ upsert(t, d, "schedule")
        /\ cur' = cur /\ mgr' = mgr /\ answer' = answer
    BY <1>8 DEF Authorize, ghost
  <2> HIDE DEF c, d
  <2>4. Exact(ckpt)'
    BY <1>0, <1>2, <2>3, CurExact
  <2>5. CASE Throw(t, "FAILED") /\ UNCHANGED op
    BY <1>2, <1>t, <2>3, <2>4, <2>5
  <2>6. CASE upsert(t, d, "schedule")
    BY <1>0, <1>2, <1>k, <2>2, <2>3, <2>4, <2>6, UpsertGrows
  <2>7. QED
    BY <1>2, <2>3, <2>5, <2>6
<1>9. CASE Schedule(Host)
  <2>1. /\ Throw(t, "FAILED") \/ (Goto(t, "attempt") /\ main' = main)
        /\ cur' = cur /\ mgr' = mgr /\ answer' = answer /\ op' = op
    BY <1>9 DEF Schedule, ghost
  <2>2. Exact(ckpt)'
    BY <1>0, <1>2, <2>1, CurExact
  <2>3. QED
    BY <1>2, <1>g, <1>t, <2>1, <2>2 DEF ExecuteAt
<1>10. CASE Attempt(Host)
  <2> DEFINE c == Normalized(ckpt)
  <2>1. /\ pc' = [pc EXCEPT ![t] = "store"] /\ mgr' = mgr /\ answer' = answer
        /\ cur' = [cur EXCEPT ![t] = Loaded(t)]
        /\ op' = [op EXCEPT ![t] = [rec |-> c, fact |-> FALSE, then |-> "run"]]
    BY <1>0, <1>10 DEF Attempt, ghost
  <2>2. c \in ExecutionCheckpoint /\ c.history = ckpt.history
    BY <1>0, NormalizedFields
  <2> HIDE DEF c
  <2>3. PICK m : m = [main[Host] EXCEPT !.attempt = main[Host].attempt + 1,
                                        !.handler = "retry"]
    OBVIOUS
  <2>4. main' = [main EXCEPT ![Host] = m]
    BY <1>10, <2>3 DEF Attempt
  <2>5. m.kind = "execute" /\ m.slot = "run" /\ m.handler = "retry"
    BY <1>0, <1>5, <2>3 DEF MainLocals
  <2>6. main'[Host] = m
    BY <1>0, <2>4 DEF IInv, MainOK
  <2>7. Control("store", [then |-> "run"], main'[Host])
    BY <1>c, <2>5, <2>6 DEF AfterStore, ExecuteAt
  <2>8. Steered' = Steered
    BY <1>5, <2>1, <2>5, <2>6 DEF Steered
  <2>9. IsPrefix(ckpt.history, Steered)
    <3>1. Steering
      BY <1>0, <1>2, <1>6, BusyStamps
    <3>2. QED
      BY <3>1 DEF GrowInv, Grows
  <2>10. IsPrefix(ckpt.history, ckpt.history)
    BY Typed, PrefixSelf
  <2>11. Exact(ckpt)'
    BY <1>0, <1>2, <2>1, CurExact
  <2>12. /\ IsPrefix(Steered, Steered') /\ (Steered' = Steered \/ ~Ended)
         /\ FALSE /\ isTerminalState(c.state) => ~Ended /\ Ended'
         /\ c.rev = ckpt.rev => IsPrefix(ckpt.history, c.history)
         /\ IsPrefix(c.history, Steered')
         /\ main'[Host].kind = main[Host].kind /\ main'[Host].slot = main[Host].slot
    BY <1>0, <1>5, <2>2, <2>5, <2>6, <2>8, <2>9, <2>10
  <2>13. QED
    BY <1>0, <1>2, <1>6, <2>1, <2>2, <2>7, <2>11, <2>12, CallGrows
<1>11. CASE Run(Host)
  <2>1. /\ StartWorker(Host, main[Host].attempt, "accepted", TRUE)
        /\ main' = main /\ op' = op /\ mgr' = mgr /\ answer' = answer
    BY <1>11 DEF Run, ghost
  <2>2. Runs("await", main[Host])
    BY <1>5 DEF Runs, ExecuteAt, RecoverAt
  <2>3. QED
    BY <1>0, <1>2, <1>5, <1>6, <2>1, <2>2, StartWorkerGrows
<1>12. CASE Retry(Host)
  <2>1. PICK k \in {"backoff", "catch"} : Goto(t, k)
    BY <1>12 DEF Retry
  <2>2. cur' = cur /\ op' = op /\ mgr' = mgr /\ answer' = answer
    BY <1>12 DEF Retry, ghost
  <2>3. PICK m : m = [main[Host] EXCEPT !.handler = "catch"]
    OBVIOUS
  <2>4. main' = [main EXCEPT ![Host] = m]
    BY <1>12, <2>3 DEF Retry
  <2>5. /\ m.kind = "execute" /\ m.slot = "run" /\ m.handler = "catch"
        /\ m.attempt = main[Host].attempt
    BY <1>0, <1>5, <2>3 DEF MainLocals
  <2>6. main'[Host] = m
    BY <1>0, <2>4 DEF IInv, MainOK
  <2>7. Control(k, op[t], main'[Host])
    BY <1>c, <2>1, <2>5, <2>6 DEF ExecuteAt
  <2>8. Exact(ckpt)'
    BY <1>0, <1>2, <2>2, CurExact
  <2>9. pc' = [pc EXCEPT ![t] = k] /\ k \notin {"store", "reload", "down"} /\ pc[t] # "await"
    BY <1>4, <2>1 DEF Goto, ExecuteAt
  <2>10. QED
    BY <1>0, <1>2, <1>5, <1>6, <2>2, <2>5, <2>6, <2>7, <2>8, <2>9, GotoGrows
<1>13. CASE Backoff(Host)
  <2>1. /\ transitionAndCheckpoint(t, "run", ckpt, "recovering", ckpt.stage, "attempt")
        /\ cur' = [cur EXCEPT ![t] = Loaded(t)] /\ answer' = answer
    BY <1>0, <1>13 DEF Backoff, ghost
  <2>2. Exact(ckpt)'
    BY <1>0, <1>2, <2>1, CurExact
  <2>3. QED
    BY <1>0, <1>2, <1>5, <1>k, <2>1, <2>2, TransitionGrows
<1>14. CASE Succeeded(Host)
  <2> DEFINE c == [ckpt EXCEPT !.result = main[Host].value]
  <2>1. /\ transitionAndCheckpoint(t, "run", c, "completing", "post-invoke", "terminalize")
        /\ cur' = [cur EXCEPT ![t] = Loaded(t)] /\ answer' = answer
    BY <1>0, <1>14 DEF Succeeded, ghost
  <2>2. c \in ExecutionCheckpoint
    BY <1>0 DEF ExecutionCheckpoint, MainLocals
  <2>3. Exact(ckpt)'
    BY <1>0, <1>2, <2>1, CurExact
  <2> HIDE DEF c
  <2>4. QED
    BY <1>0, <1>2, <1>5, <1>k, <2>1, <2>2, <2>3, TransitionGrows DEF ExecutionStage
<1>15. CASE Completed(Host) \/ Answer(Host)
  <2>1. /\ Goto(t, "finished") /\ cur' = cur /\ main' = main /\ op' = op /\ mgr' = mgr
        /\ answer'.kind # "unsent"
    BY <1>15 DEF Completed, Answer
  <2>2. Exact(ckpt)'
    BY <1>0, <1>2, <2>1, CurExact
  <2>3. QED
    BY <1>2, <1>g, <2>1, <2>2
<1>16. CASE Catch(Host)
  <2>1. cur' = cur /\ op' = op /\ mgr' = mgr /\ answer' = answer
    BY <1>16 DEF Catch, ghost
  <2>2. PICK m : m = [main[Host] EXCEPT !.handler = "answer",
                         !.target = IF main[Host].err = "CANCELLED" THEN "cancelling"
                                    ELSE "failed"]
    OBVIOUS
  <2>3. main' = [main EXCEPT ![Host] = m]
    BY <1>16, <2>2 DEF Catch
  <2>4. /\ m.kind = "execute" /\ m.slot = "run" /\ m.handler = "answer"
        /\ m.attempt = main[Host].attempt
    BY <1>0, <1>5, <2>2 DEF MainLocals
  <2>5. main'[Host] = m
    BY <1>0, <2>3 DEF IInv, MainOK
  <2>6. Control("fail", op[t], main'[Host])
    BY <1>c, <2>4, <2>5 DEF ExecuteAt
  <2>7. Exact(ckpt)'
    BY <1>0, <1>2, <2>1, CurExact
  <2>8. pc' = [pc EXCEPT ![t] = "fail"] /\ pc[t] # "await"
    BY <1>4, <1>16 DEF Catch, Goto, ExecuteAt
  <2>9. QED
    BY <1>0, <1>2, <1>5, <1>6, <2>1, <2>4, <2>5, <2>6, <2>7, <2>8, GotoGrows
<1>17. CASE Fail(Host)
  <2> DEFINE c == [ckpt EXCEPT !.cancelled = TRUE]
  <2>1. c \in ExecutionCheckpoint /\ c.history = ckpt.history
    BY <1>0 DEF ExecutionCheckpoint
  <2>2. /\ \/ upsert(t, c, "cancelled")
           \/ \E k \in {"answer", "reach"} : Goto(t, k) /\ main' = main /\ op' = op
        /\ cur' = [cur EXCEPT ![t] = Loaded(t)] /\ mgr' = mgr /\ answer' = answer
    BY <1>0, <1>17 DEF Fail, ghost
  <2> HIDE DEF c
  <2>3. Exact(ckpt)'
    BY <1>0, <1>2, <2>2, CurExact
  <2>4. CASE upsert(t, c, "cancelled")
    BY <1>0, <1>2, <1>k, <2>1, <2>2, <2>3, <2>4, UpsertGrows
  <2>5. CASE \E k \in {"answer", "reach"} : Goto(t, k) /\ main' = main /\ op' = op
    BY <1>2, <1>g, <2>2, <2>3, <2>5 DEF ExecuteAt
  <2>6. QED
    BY <1>2, <2>2, <2>4, <2>5
<1>18. CASE Cancelled(Host)
  <2>1. /\ \E k \in {"answer", "reach"} : Goto(t, k)
        /\ cur' = cur /\ main' = main /\ op' = op /\ mgr' = mgr /\ answer' = answer
    BY <1>18 DEF Cancelled, ghost
  <2>2. Exact(ckpt)'
    BY <1>0, <1>2, <2>1, CurExact
  <2>3. QED
    BY <1>2, <1>g, <2>1, <2>2 DEF ExecuteAt
<1>19. QED
  BY <1>3, <1>8, <1>9, <1>10, <1>11, <1>12, <1>13, <1>14, <1>15, <1>16, <1>17, <1>18
     DEF ExecuteStep

-----------------------------------------------------------------------------
(* #reachState, #terminalize, and the end of a main coroutine. *)

LEMMA FinishStepGrows ==
  ASSUME OneHost, IInv, IInv', RecordInv, GrowInv(ckpt), FinishStep(Host)
  PROVE  GrowInv(ckpt)' /\ ckpt' = ckpt
<1> DEFINE t == Main(Host)
           s == main[Host].slot
           target == main[Host].target
<1>0. /\ t \in Threads /\ t \notin Workers /\ t[1] = Host /\ Host \in Procs
      /\ main[Host] \in MainLocals /\ s \in Slot
      /\ cur[t] \in ExecutionCheckpoint /\ cur[t].stage \in ExecutionStage
      /\ GrowInv(ckpt) /\ mgr[Host][s] = Steered
      /\ Steered \in Seq(ExecutionState) /\ LegalPath(Steered)
  BY HostFacts, Typed DEF ExecutionCheckpoint, Steered
<1>1. Control(pc[t], op[t], main[Host]) /\ ~expired
  BY DEF GrowInv, ControlOK
<1>2. ckpt' = ckpt /\ UNCHANGED <<expired, finals, answer>> /\ GrowInv(ckpt')
  BY DEF FinishStep, Reach, Terminalize, Finished, store, env, ghost
<1>3. CASE Reach(Host)
  <2> DEFINE hop == NextHop(StateOf(Host, s), target)
             c == [cur[t] EXCEPT !.cancelled = @ \/ hop = "cancelling"]
             k == IF hop = target THEN "terminalize" ELSE "reach"
  <2>1. /\ \/ Goto(t, "terminalize") /\ main' = main /\ op' = op /\ mgr' = mgr
           \/ transitionAndCheckpoint(t, s, c, hop, c.stage, k)
        /\ cur' = cur /\ pc[t] = "reach"
    BY <1>3 DEF Reach
  <2>2. Exact(ckpt)' /\ Busy(t)
    BY <1>0, <1>2, <2>1, CurExact DEF Busy
  <2>3. CASE Goto(t, "terminalize") /\ main' = main /\ op' = op /\ mgr' = mgr
    <3>1. Control("terminalize", op[t], main[Host])
      BY <1>1, <2>1 DEF Control, Runs, ExecuteAt, RecoverAt, ResumeAt
    <3>2. pc' = [pc EXCEPT ![t] = "terminalize"]
      BY <2>3 DEF Goto
    <3>3. QED
      BY <1>0, <1>2, <2>1, <2>2, <2>3, <3>1, <3>2, GotoGrows
  <2>4. CASE transitionAndCheckpoint(t, s, c, hop, c.stage, k)
    <3>1. GoesOn(t, k)
      BY <1>0, <2>2 DEF GoesOn, Runs, ExecuteAt, RecoverAt, ResumeAt, AfterStore
    <3>2. c \in ExecutionCheckpoint /\ c.stage \in ExecutionStage
      <4>1. (cur[t].cancelled \/ hop = "cancelling") \in BOOLEAN
        OBVIOUS
      <4>2. QED
        BY <1>0, <4>1 DEF ExecutionCheckpoint
    <3> HIDE DEF c, hop, k
    <3>3. QED
      BY <1>0, <1>2, <2>2, <2>4, <3>1, <3>2, TransitionGrows
  <2>5. QED
    BY <1>2, <2>1, <2>3, <2>4
<1>4. CASE Terminalize(Host)
  <2> DEFINE c == [cur[t] EXCEPT !.result = IF target = "completing" THEN main[Host].value
                                            ELSE @,
                                 !.cancelled = @ \/ target = "cancelling"]
             k == IF main[Host].kind # "execute" THEN "finished"
                  ELSE IF target = "completing" THEN "completed" ELSE "answer"
             d == Stamped(c, mgr[Host][s])
  <2>1. /\ \/ upsert(t, d, k) /\ mgr' = mgr
           \/ transitionAndCheckpoint(t, s, c, FinalState(target), "terminal", k)
        /\ cur' = cur /\ pc[t] = "terminalize"
    BY <1>4 DEF Terminalize
  <2>2. Exact(ckpt)' /\ Busy(t)
    BY <1>0, <1>2, <2>1, CurExact DEF Busy
  <2>3. GoesOn(t, k)
    BY <1>0, <2>2 DEF GoesOn, Runs, ExecuteAt, RecoverAt, ResumeAt, AfterStore
  <2>4. c \in ExecutionCheckpoint
    <3>1. (cur[t].cancelled \/ target = "cancelling") \in BOOLEAN
      OBVIOUS
    <3>2. (IF target = "completing" THEN main[Host].value ELSE cur[t].result) \in Nat
      BY <1>0 DEF ExecutionCheckpoint, MainLocals
    <3>3. QED
      BY <1>0, <3>1, <3>2 DEF ExecutionCheckpoint
  <2> HIDE DEF c, k
  <2>5. d \in ExecutionCheckpoint /\ d.history = Steered
    BY <1>0, <2>4, StampedPath
  <2> HIDE DEF d
  <2>6. CASE upsert(t, d, k) /\ mgr' = mgr
    BY <1>0, <1>2, <2>2, <2>3, <2>5, <2>6, UpsertGrows
  <2>7. CASE transitionAndCheckpoint(t, s, c, FinalState(target), "terminal", k)
    BY <1>0, <1>2, <2>2, <2>3, <2>4, <2>7, TransitionGrows DEF ExecutionStage
  <2>8. QED
    BY <1>2, <2>1, <2>6, <2>7
<1>5. CASE Finished(Host)
  <2>1. /\ pc[t] = "finished" /\ pc' = [pc EXCEPT ![t] = "idle"] /\ op' = op /\ mgr' = mgr
        /\ cur' = [cur EXCEPT ![t] = seedCheckpoint]
        /\ main' = [main EXCEPT ![Host] = NoMain]
    BY <1>5 DEF Finished, Goto
  <2>2. /\ pc'[t] = "idle" /\ \A u \in Threads : u # t => pc'[u] = pc[u]
        /\ main'[Host] = NoMain
    BY <1>0, <2>1 DEF IInv, PcOK, MainOK
  <2>3. NoMain.kind = "none" /\ NoMain.handler = "down" /\ NoMain.slot = "run"
    BY DEF NoMain
  <2>4. ControlOK'
    <3>1. Control("idle", op'[t], NoMain)
      BY <2>3 DEF Control, Runs, ExecuteAt, RecoverAt, ResumeAt
    <3>2. QED
      BY <1>1, <1>2, <2>2, <3>1 DEF ControlOK, Main
  <2>5. \A w \in Workers : Alive(w)' => Alive(w)
    BY <2>2, HostFacts DEF Alive
  <2>6. AloneOK'
    <3>1. t = Main(Host)'
      BY DEF Main
    <3>2. QED
      BY <1>2, <2>2, <2>3, <2>5, <3>1 DEF GrowInv, AloneOK
  <2>7. Unsent(ckpt)' /\ Exact(ckpt)'
    BY <1>0, <1>2, <2>1, <2>2, <2>3, CurExact DEF GrowInv, Unsent
  <2>8. Grows(ckpt)'
    <3> SUFFICES ASSUME Steering' PROVE IsPrefix(ckpt'.history, Steered')
      BY DEF Grows
    <3>1. WorkerAlive
      BY <2>2, <2>3, <2>5 DEF Steering, Stamping, WorkerAlive
    <3>2. main[Host].slot = "run"
      BY <3>1, Stampers DEF GrowInv
    <3>3. Steered' = Steered
      BY <2>1, <2>2, <2>3, <3>2 DEF Steered
    <3>4. QED
      BY <1>2, <3>1, <3>3 DEF GrowInv, Grows, Steering
  <2>9. \A u \in Threads : pc'[u] \in {"store", "reload"} => Steered' = Steered /\ u # t
    <3> SUFFICES ASSUME NEW u \in Threads, pc'[u] \in {"store", "reload"}
                 PROVE  Steered' = Steered /\ u # t
      OBVIOUS
    <3>1. u # t /\ pc[u] = pc'[u]
      BY <2>2
    <3>2. WorkerAlive
      BY <3>1, HostFacts DEF WorkerAlive, Alive
    <3>3. main[Host].slot = "run"
      BY <3>2, Stampers DEF GrowInv
    <3>4. QED
      BY <2>1, <2>2, <2>3, <3>1, <3>3 DEF Steered
  <2>10. \A u \in Threads : \/ pc'[u] \notin {"store", "reload"}
                            \/ pc'[u] = pc[u] /\ op'[u] = op[u] /\ Steered' = Steered
    BY <2>1, <2>2, <2>9
  <2>11. QED
    BY <1>2, <2>4, <2>6, <2>7, <2>8, <2>10, MoveGrows
<1>6. QED
  BY <1>2, <1>3, <1>4, <1>5 DEF FinishStep

-----------------------------------------------------------------------------
(* The process: stop, boot, request, abort. *)

LEMMA StopGrows ==
  ASSUME OneHost, IInv, IInv', GrowInv(ckpt), StopProcess(Host),
         UNCHANGED <<ckpt, expired, finals, answer>>
  PROVE  GrowInv(ckpt)'
<1>0. Main(Host) \in Threads /\ Main(Host)[2] = 0 /\ Host \in Procs
      /\ \A t \in Threads : t[1] = Host /\ (t[2] = 0 <=> t = Main(Host))
  BY HostFacts DEF Main, Workers, Threads
<1>1. /\ pc'[Main(Host)] = "down"
      /\ \A t \in Threads : t # Main(Host) => pc'[t] = "off"
      /\ \A t \in Threads : cur'[t] = seedCheckpoint
  BY <1>0 DEF StopProcess
<1>2. main'[Host] = NoMain
  BY <1>0 DEF StopProcess, IInv, MainOK
<1>3. NoMain.kind = "none" /\ NoMain.handler = "down" /\ NoMain.slot = "run"
  BY DEF NoMain
<1>4. ControlOK'
  <2>1. Control("down", op'[Main(Host)], NoMain)
    BY <1>3 DEF Control, Runs, ExecuteAt, RecoverAt, ResumeAt
  <2>2. QED
    BY <1>1, <1>2, <2>1 DEF ControlOK, Main, GrowInv
<1>5. \A w \in Workers : ~Alive(w)'
  BY <1>1, HostFacts DEF Alive
<1>6. AloneOK' /\ ~WorkerAlive'
  BY <1>5 DEF AloneOK, WorkerAlive
<1>7. ~Steering'
  BY <1>2, <1>3, <1>6 DEF Steering, Stamping
<1>8. Grows(ckpt)' /\ Unsent(ckpt)'
  BY <1>2, <1>3, <1>7 DEF Grows, Unsent, GrowInv
<1>9. Exact(ckpt)'
  BY <1>1, CopiesExact DEF GrowInv
<1>10. \A t \in Threads : pc'[t] \notin {"store", "reload"}
  BY <1>1
<1>11. QED
  BY <1>4, <1>6, <1>8, <1>9, <1>10, MoveGrows

LEMMA BootGrows ==
  ASSUME OneHost, IInv, IInv', GrowInv(ckpt), Boot(Host)
  PROVE  GrowInv(ckpt)' /\ ckpt' = ckpt
<1> DEFINE t == Main(Host)
           incomplete == ckpt.rev > 0 /\ ~ckpt.terminal
           k == IF incomplete THEN "recover" ELSE "idle"
<1>0. t \in Threads /\ t \notin Workers /\ Host \in Procs
  BY HostFacts
<1>1. /\ pc[t] = "down" /\ pc' = [pc EXCEPT ![t] = k]
      /\ ckpt' = ckpt /\ UNCHANGED <<expired, finals, answer>> /\ op' = op /\ mgr' = mgr
      /\ cur' = [cur EXCEPT ![t] = IF incomplete THEN ckpt ELSE cur[t]]
  BY DEF Boot, Goto, store, env, ghost
<1>2. PICK m : m = IF incomplete THEN [NoMain EXCEPT !.kind = "recover",
                                                     !.handler = "bootCheck",
                                                     !.late = expired]
                                 ELSE NoMain
  OBVIOUS
<1>3. main' = [main EXCEPT ![Host] = m]
  BY <1>2 DEF Boot
<1>4. main'[Host] = m /\ pc'[t] = k /\ \A u \in Threads : u # t => pc'[u] = pc[u]
  BY <1>0, <1>1, <1>3 DEF IInv, PcOK, MainOK
<1>5. /\ m.slot = "run"
      /\ incomplete => m.kind = "recover" /\ m.handler = "bootCheck"
      /\ ~incomplete => m.kind = "none" /\ m.handler = "down"
  BY <1>2 DEF NoMain
<1>6. \A w \in Workers : ~Alive(w)
  BY <1>1 DEF GrowInv, AloneOK
<1>7. \A w \in Workers : ~Alive(w)'
  BY <1>0, <1>4, <1>6, HostFacts DEF Alive
<1>8. ControlOK'
  <2>1. Control(k, op'[t], m)
    BY <1>5 DEF Control, Runs, ExecuteAt, RecoverAt, ResumeAt
  <2>2. QED
    BY <1>1, <1>4, <2>1 DEF ControlOK, Main, GrowInv
<1>9. AloneOK' /\ ~WorkerAlive'
  BY <1>7 DEF AloneOK, WorkerAlive
<1>10. ~Steering'
  BY <1>4, <1>5, <1>9 DEF Steering, Stamping
<1>11. Unsent(ckpt)'
  <2>1. answer.kind = "unsent" => ~incomplete
    BY Typed DEF GrowInv, Unsent
  <2>2. QED
    BY <1>1, <1>4, <1>5, <2>1 DEF GrowInv, Unsent
<1>12. Exact(ckpt)' /\ Grows(ckpt)'
  <2>1. \A u \in Threads : cur'[u] = ckpt \/ cur'[u] = cur[u]
    BY <1>1 DEF IInv, CurOK
  <2>2. QED
    BY <1>1, <1>10, <2>1, CopiesExact DEF GrowInv, Grows
<1>13. \A u \in Threads : pc'[u] \notin {"store", "reload"}
  <2>1. \A u \in Workers : pc[u] \in {"off", "done"}
    BY <1>6 DEF Alive
  <2>2. QED
    BY <1>0, <1>4, <2>1, HostFacts
<1>14. QED
  BY <1>1, <1>8, <1>9, <1>11, <1>12, <1>13, MoveGrows

(* The request arrives: nothing is durable yet, and nobody else is there.   *)
LEMMA StartGrows ==
  ASSUME OneHost, IInv, IInv', RecordInv, GrowInv(ckpt), Start(Host)
  PROVE  GrowInv(ckpt)' /\ ckpt' = ckpt
<1> DEFINE t == Main(Host)
           h == <<"created", "initializing">>
           c == Stamped(seedCheckpoint, h)
<1>0. t \in Threads /\ t \notin Workers /\ Host \in Procs /\ "run" \in Slot
  BY HostFacts DEF Slot
<1>1. /\ pc[t] = "idle" /\ answer.kind = "unsent" /\ answer' = [answer EXCEPT !.kind = "pending"]
      /\ mgr' = [mgr EXCEPT ![Host]["run"] = h]
      /\ pc' = [pc EXCEPT ![t] = "store"]
      /\ cur' = [cur EXCEPT ![t] = seedCheckpoint]
      /\ op' = [op EXCEPT ![t] = [rec |-> c, fact |-> TRUE, then |-> "authorize"]]
      /\ ckpt' = ckpt /\ UNCHANGED <<expired, finals>>
  BY DEF Start, store, env
<1>2. PICK m : m = [NoMain EXCEPT !.kind = "execute", !.handler = "catch"]
  OBVIOUS
<1>3. main' = [main EXCEPT ![Host] = m]
  BY <1>2 DEF Start
<1>4. m.kind = "execute" /\ m.handler = "catch" /\ m.slot = "run"
  BY <1>2 DEF NoMain
<1>5. /\ h \in Seq(ExecutionState) /\ LegalPath(h)
      /\ c \in ExecutionCheckpoint
  BY InitializingLawful
<1>6. c.history = h /\ c.state = "initializing" /\ c.rev = 0
  BY DEF Stamped, seedCheckpoint, Last
<1> HIDE DEF c
<1>7. IsPrefix(<<"created">>, h) /\ IsPrefix(h, h)
  BY <1>5, CreatedPrefix, PrefixSelf
<1> HIDE DEF h
<1>8. /\ main'[Host] = m /\ pc'[t] = "store"
      /\ op'[t].rec = c /\ op'[t].then = "authorize"
      /\ mgr'[Host]["run"] = h
      /\ \A u \in Threads : u # t => pc'[u] = pc[u] /\ op'[u] = op[u]
      /\ answer'.kind = "pending"
  BY <1>0, <1>1, <1>3 DEF IInv, PcOK, MainOK, OpOK, MgrOK, GhostOK
<1>9. Steered' = h
  BY <1>4, <1>8 DEF Steered
<1>10. ckpt.rev = 0 /\ ckpt.history = <<"created">>
  <2>1. ckpt.rev = 0 /\ ckpt = seedCheckpoint
    BY <1>1 DEF GrowInv, Unsent, Exact
  <2>2. QED
    BY <2>1 DEF seedCheckpoint
<1>11. \A w \in Workers : ~Alive(w)
  BY <1>1 DEF GrowInv, AloneOK
<1>12. \A w \in Workers : ~Alive(w)' /\ pc'[w] = pc[w] /\ op'[w] = op[w]
  BY <1>0, <1>8, <1>11, HostFacts DEF Alive
<1>13. ControlOK'
  <2>1. Control(pc'[t], op'[t], m)
    BY <1>4, <1>8 DEF Control, Runs, ExecuteAt, RecoverAt, ResumeAt, AfterStore
  <2>2. QED
    BY <1>1, <1>8, <2>1 DEF ControlOK, Main, GrowInv
<1>14. AloneOK' /\ Unsent(ckpt)'
  BY <1>8, <1>12 DEF AloneOK, Unsent
<1>15. Exact(ckpt)'
  BY <1>0, <1>1, CurExact
<1>16. Grows(ckpt)'
  BY <1>1, <1>7, <1>9, <1>10 DEF Grows
<1>17. Issued(t)
  <2>1. Extends(ckpt, op[t].rec)'
    BY <1>1, <1>6, <1>7, <1>8, <1>9, <1>10 DEF Extends
  <2>2. ~Announces(t)'
    BY <1>6, <1>8 DEF Announces, isTerminalState
  <2>3. QED
    BY <1>8, <2>1, <2>2 DEF Issued
<1>18. \A u \in Threads : u # t => Untouched(u)
  <2>1. \A w \in Workers : pc[w] \in {"off", "done"}
    BY <1>11 DEF Alive
  <2>2. QED
    BY <1>8, <2>1, HostFacts DEF Untouched, Announces
<1>19. (\A u \in Threads : Calls(u)) /\ OneIssues
  BY <1>0, <1>17, <1>18 DEF Calls, OneIssues
<1>20. GrowInv(ckpt')
  BY <1>1
<1>21. QED
  BY <1>1, <1>13, <1>14, <1>15, <1>16, <1>19, <1>20, Carry

LEMMA AbortGrows ==
  ASSUME OneHost, IInv, IInv', RecordInv, GrowInv(ckpt), Abort(Host)
  PROVE  GrowInv(ckpt)' /\ ckpt' = ckpt
<1> DEFINE t == Main(Host)
<1>0. t \in Threads /\ Steered \in Seq(ExecutionState) /\ IsPrefix(Steered, Steered)
  BY HostFacts, Typed, PrefixSelf
<1>1. /\ ckpt' = ckpt /\ UNCHANGED <<expired, finals, answer>> /\ op' = op /\ mgr' = mgr
      /\ cur' = cur /\ main[Host].kind = "execute"
      /\ \/ pc[t] = "await" /\ Throw(t, "CANCELLED")
         \/ pc' = pc /\ main' = main
  BY DEF Abort, store, ghost
<1>2. Exact(ckpt)' /\ GrowInv(ckpt')
  BY <1>0, <1>1, CurExact
<1>3. CASE pc[t] = "await" /\ Throw(t, "CANCELLED")
  <2>1. IsPrefix(Steered, mgr'[Host][main[Host].slot])
    BY <1>0, <1>1 DEF Steered
  <2>2. QED
    BY <1>0, <1>1, <1>2, <1>3, <2>1, ThrowGrows
<1>4. CASE pc' = pc /\ main' = main
  <2>1. ControlOK' /\ AloneOK' /\ Unsent(ckpt)' /\ Grows(ckpt)' /\ Steered' = Steered
    BY <1>1, <1>4 DEF GrowInv, ControlOK, AloneOK, Alive, Unsent, Grows, Steering, WorkerAlive,
                      Steered, Main
  <2>2. QED
    BY <1>1, <1>2, <1>4, <2>1, MoveGrows
<1>5. QED
  BY <1>1, <1>3, <1>4

-----------------------------------------------------------------------------
(* Boot recovery. *)

(* A recovery takes the durable history: nobody else is there, so the       *)
(* manager in charge may be any that has walked it.                         *)
LEMMA RebuildGrows ==
  ASSUME OneHost, IInv, IInv', GrowInv(ckpt), NEW k \in {"resume", "reach"}, NEW m, NEW s \in Slot,
         pc[Main(Host)] \in {"recover", "resumeCatch"},
         pc' = [pc EXCEPT ![Main(Host)] = k],
         main' = [main EXCEPT ![Host] = m],
         mgr' = [mgr EXCEPT ![Host][s] = ckpt.history],
         UNCHANGED <<ckpt, expired, finals, answer>>, op' = op, Exact(ckpt)',
         m.slot = s, Control(k, op[Main(Host)], m)
  PROVE  GrowInv(ckpt)'
<1> DEFINE t == Main(Host)
<1>0. t \in Threads /\ t \notin Workers /\ Host \in Procs
  BY HostFacts
<1>1. /\ main'[Host] = m /\ pc'[t] = k /\ \A u \in Threads : u # t => pc'[u] = pc[u]
      /\ mgr'[Host][s] = ckpt.history
  BY <1>0 DEF IInv, PcOK, MainOK, MgrOK
<1>2. main[Host].kind = "recover" /\ answer.kind # "unsent"
  BY DEF GrowInv, ControlOK, Control, Runs, RecoverAt, Unsent
<1>3. \A w \in Workers : ~Alive(w)
  BY <1>2 DEF GrowInv, AloneOK
<1>4. \A w \in Workers : ~Alive(w)' /\ pc[w] \in {"off", "done"} /\ pc'[w] = pc[w]
  BY <1>0, <1>1, <1>3, HostFacts DEF Alive
<1>5. ControlOK' /\ AloneOK' /\ Unsent(ckpt)'
  BY <1>1, <1>2, <1>4 DEF GrowInv, ControlOK, AloneOK, Unsent, Main
<1>6. Grows(ckpt)'
  BY <1>1, Typed, PrefixSelf DEF Grows, Steered
<1>7. \A u \in Threads : pc'[u] \notin {"store", "reload"}
  BY <1>1, <1>4, HostFacts
<1>8. QED
  BY <1>5, <1>6, <1>7, MoveGrows

LEMMA RecoverStepGrows ==
  ASSUME OneHost, IInv, IInv', RecordInv, GrowInv(ckpt), RecoverStep(Host)
  PROVE  GrowInv(ckpt)' /\ ckpt' = ckpt
<1> DEFINE t == Main(Host)
<1>0. /\ t \in Threads /\ t \notin Workers /\ t[1] = Host /\ Host \in Procs
      /\ main[Host] \in MainLocals /\ "run" \in Slot /\ "end" \in Slot
      /\ Loaded(t) = ckpt /\ cur[t] \in ExecutionCheckpoint
      /\ cur[t].stage \in ExecutionStage
      /\ Steered \in Seq(ExecutionState) /\ IsPrefix(Steered, Steered)
  BY HostFacts, Typed, LoadedIs, PrefixSelf DEF GrowInv, ExecutionCheckpoint, Slot
<1>1. Control(pc[t], op[t], main[Host]) /\ ~expired
  BY DEF GrowInv, ControlOK
<1>2. /\ ckpt' = ckpt /\ UNCHANGED <<expired, finals, answer>> /\ GrowInv(ckpt')
  BY DEF RecoverStep, RecoverIgnores, RecoverTerminalizes, RecoverResumes, Resume, ResumeRun,
         Resumed, ResumeCatch, BootCheck, RecoveryFactFails, store, env, ghost
<1>c. ASSUME NEW k \in {"resume", "resumeRun", "reach", "finished"}, NEW m,
             m.kind = "recover", m.slot = "run", m.handler = "resumeCatch"
      PROVE  Control(k, op[t], m)
  BY <1>c DEF Control, Runs, ExecuteAt, RecoverAt, ResumeAt
<1>d. ASSUME NEW m, m.kind = "recover", m.slot = "end", m.handler = "bootCheck"
      PROVE  Control("reach", op[t], m)
  BY <1>d DEF Control, Runs, ExecuteAt, RecoverAt, ResumeAt
<1>f. ASSUME pc[t] \in {"recover", "resumed", "resumeCatch", "bootCheck"}
      PROVE  Control("finished", op[t], main[Host])
  BY <1>1, <1>f DEF Control, Runs, ExecuteAt, RecoverAt, ResumeAt
<1>g. ASSUME NEW k \in {"resumeRun", "reach", "finished"}, Goto(t, k),
             main' = main, op' = op, mgr' = mgr, Exact(ckpt)',
             pc[t] # "await", Control(k, op[t], main[Host])
      PROVE  GrowInv(ckpt)'
  BY <1>0, <1>2, <1>g, GotoGrows DEF Goto
<1>3. CASE RecoverIgnores(Host)
  <2>1. /\ pc[t] = "recover" /\ Goto(t, "finished") /\ main' = main /\ op' = op
        /\ mgr' = mgr /\ cur' = cur
    BY <1>3 DEF RecoverIgnores
  <2>2. Exact(ckpt)'
    BY <1>0, <1>2, <2>1, CurExact
  <2>3. QED
    BY <1>2, <1>f, <1>g, <2>1, <2>2
<1>4. CASE RecoverTerminalizes(Host)
  <2>1. PICK d : main' = [main EXCEPT ![Host].slot = "end", ![Host].target = d]
    BY <1>4 DEF RecoverTerminalizes
  <2>2. PICK m : m = [main[Host] EXCEPT !.slot = "end", !.target = d]
    OBVIOUS
  <2>3. main' = [main EXCEPT ![Host] = m]
    BY <2>1, <2>2
  <2>4. /\ pc[t] = "recover" /\ pc' = [pc EXCEPT ![t] = "reach"] /\ op' = op
        /\ cur' = [cur EXCEPT ![t] = Loaded(t)]
        /\ mgr' = [mgr EXCEPT ![Host]["end"] = ckpt.history]
    BY <1>0, <1>4 DEF RecoverTerminalizes, Goto
  <2>5. main[Host].kind = "recover" /\ main[Host].handler = "bootCheck"
    BY <1>1, <2>4 DEF Control, Runs, RecoverAt
  <2>6. m.kind = "recover" /\ m.slot = "end" /\ m.handler = "bootCheck"
    BY <1>0, <2>2, <2>5 DEF MainLocals
  <2>7. Exact(ckpt)'
    BY <1>0, <1>2, <2>4, CurExact
  <2>8. QED
    BY <1>0, <1>2, <1>d, <2>3, <2>4, <2>6, <2>7, RebuildGrows
<1>5. CASE RecoverResumes(Host)
  <2>1. PICK m : m = [main[Host] EXCEPT !.handler = "resumeCatch", !.attempt = 1]
    OBVIOUS
  <2>2. main' = [main EXCEPT ![Host] = m]
    BY <1>5, <2>1 DEF RecoverResumes
  <2>3. /\ pc[t] = "recover" /\ pc' = [pc EXCEPT ![t] = "resume"] /\ op' = op
        /\ cur' = [cur EXCEPT ![t] = Loaded(t)]
        /\ mgr' = [mgr EXCEPT ![Host]["run"] = ckpt.history]
    BY <1>0, <1>5 DEF RecoverResumes, Goto
  <2>4. main[Host].kind = "recover" /\ main[Host].slot = "run"
    BY <1>1, <2>3 DEF Control, Runs, RecoverAt, ResumeAt
  <2>5. m.kind = "recover" /\ m.slot = "run" /\ m.handler = "resumeCatch"
    BY <1>0, <2>1, <2>4 DEF MainLocals
  <2>6. Exact(ckpt)'
    BY <1>0, <1>2, <2>3, CurExact
  <2>7. QED
    BY <1>0, <1>2, <1>c, <2>2, <2>3, <2>5, <2>6, RebuildGrows
<1>6. CASE Resume(Host)
  <2>1. /\ pc[t] = "resume" /\ cur' = cur
        /\ \/ transitionAndCheckpoint(t, "run", cur[t], "recovering", cur[t].stage, "resumeRun")
           \/ Goto(t, "resumeRun") /\ main' = main /\ op' = op /\ mgr' = mgr
    BY <1>6 DEF Resume
  <2>2. main[Host].kind = "recover" /\ main[Host].slot = "run"
    BY <1>1, <2>1 DEF Control, Runs, RecoverAt, ResumeAt
  <2>3. main[Host].handler = "resumeCatch"
    BY <1>1, <2>1, <2>2 DEF Control
  <2>4. Exact(ckpt)'
    BY <1>0, <1>2, <2>1, CurExact
  <2>5. GoesOn(t, "resumeRun")
    BY <2>1, <2>2 DEF GoesOn, Busy, Runs, ExecuteAt, RecoverAt, ResumeAt, AfterStore
  <2>6. CASE transitionAndCheckpoint(t, "run", cur[t], "recovering", cur[t].stage, "resumeRun")
    BY <1>0, <1>2, <2>2, <2>4, <2>5, <2>6, TransitionGrows
  <2>7. CASE Goto(t, "resumeRun") /\ main' = main /\ op' = op /\ mgr' = mgr
    BY <1>0, <1>2, <1>c, <1>g, <2>1, <2>2, <2>3, <2>4, <2>7
  <2>8. QED
    BY <1>2, <2>1, <2>6, <2>7
<1>7. CASE ResumeRun(Host)
  <2>1. PICK b : /\ StartWorker(Host, main[Host].attempt, cur[t].stage, b)
                 /\ main' = main /\ op' = op /\ mgr' = mgr /\ pc[t] = "resumeRun"
    BY <1>7 DEF ResumeRun
  <2>2. main[Host].slot = "run" /\ Busy(t)
    BY <1>1, <2>1 DEF Control, Runs, ResumeAt, Busy
  <2>3. Runs("await", main[Host])
    BY <2>2 DEF Runs, ExecuteAt, RecoverAt
  <2>4. QED
    BY <1>0, <1>2, <2>1, <2>2, <2>3, StartWorkerGrows
<1>8. CASE Resumed(Host)
  <2>1. /\ \E k \in {"finished", "reach"} : Goto(t, k)
        /\ pc[t] = "resumed" /\ main' = main /\ op' = op /\ mgr' = mgr
        /\ cur' = [cur EXCEPT ![t] = Loaded(t)]
    BY <1>8 DEF Resumed
  <2>2. main[Host].kind = "recover" /\ main[Host].slot = "run"
    BY <1>1, <2>1 DEF Control, Runs, RecoverAt, ResumeAt
  <2>3. main[Host].handler = "resumeCatch"
    BY <1>1, <2>1, <2>2 DEF Control
  <2>4. Exact(ckpt)'
    BY <1>0, <1>2, <2>1, CurExact
  <2>5. QED
    BY <1>0, <1>2, <1>c, <1>g, <2>1, <2>2, <2>3, <2>4
<1>9. CASE ResumeCatch(Host)
  <2> DEFINE lost == main[Host].err = "CONFLICT" \/ ckpt.terminal
  <2>1. /\ pc[t] = "resumeCatch" /\ op' = op
        /\ cur' = cur \/ cur' = [cur EXCEPT ![t] = Loaded(t)]
    BY <1>0, <1>9 DEF ResumeCatch, IInv, CurOK
  <2>2. Exact(ckpt)'
    BY <1>0, <1>2, <2>1, CurExact
  <2>3. CASE lost
    <3>1. Goto(t, "finished") /\ main' = main /\ mgr' = mgr
      BY <1>0, <1>9, <2>3 DEF ResumeCatch
    <3>2. QED
      BY <1>2, <1>f, <1>g, <2>1, <2>2, <3>1
  <2>4. CASE ~lost
    <3>1. PICK m : m = [main[Host] EXCEPT !.slot = "end", !.handler = "bootCheck",
                                          !.target = "failed"]
      OBVIOUS
    <3>2. main' = [main EXCEPT ![Host] = m]
      BY <1>0, <1>9, <2>4, <3>1 DEF ResumeCatch
    <3>3. /\ pc' = [pc EXCEPT ![t] = "reach"]
          /\ mgr' = [mgr EXCEPT ![Host]["end"] = ckpt.history]
      BY <1>0, <1>9, <2>4 DEF ResumeCatch, Goto
    <3>4. main[Host].kind = "recover"
      BY <1>1, <2>1 DEF Control, Runs, RecoverAt
    <3>5. m.kind = "recover" /\ m.slot = "end" /\ m.handler = "bootCheck"
      BY <1>0, <3>1, <3>4 DEF MainLocals
    <3>6. QED
      BY <1>0, <1>2, <1>d, <2>1, <2>2, <3>2, <3>3, <3>5, RebuildGrows
  <2>5. QED
    BY <1>2, <2>3, <2>4
<1>10. CASE BootCheck(Host)
  <2>1. /\ pc[t] = "bootCheck"
        /\ \/ Goto(t, "finished") /\ main' = main /\ cur' = cur /\ op' = op /\ mgr' = mgr
           \/ StopProcess(Host)
    BY <1>10 DEF BootCheck
  <2>2. CASE Goto(t, "finished") /\ main' = main /\ cur' = cur /\ op' = op /\ mgr' = mgr
    <3>1. Exact(ckpt)'
      BY <1>0, <1>2, <2>2, CurExact
    <3>2. QED
      BY <1>2, <1>f, <1>g, <2>1, <2>2, <3>1
  <2>3. CASE StopProcess(Host)
    BY <1>2, <2>3, StopGrows
  <2>4. QED
    BY <1>2, <2>1, <2>2, <2>3
<1>11. CASE RecoveryFactFails(Host)
  BY <1>2, <1>11, StopGrows DEF RecoveryFactFails
<1>12. QED
  BY <1>3, <1>4, <1>5, <1>6, <1>7, <1>8, <1>9, <1>10, <1>11 DEF RecoverStep

-----------------------------------------------------------------------------
(* Delegated work. *)

(* A worker returns; if it was awaited it was the only one of a recovery.   *)
LEMMA ReturnGrows ==
  ASSUME OneHost, IInv, IInv', RecordInv, GrowInv(ckpt), NEW w \in Workers, Return(w)
  PROVE  GrowInv(ckpt)'
<1> DEFINE M == Main(Host)
           next == IF main[Host].kind = "execute" THEN "succeeded" ELSE "resumed"
<1>0. /\ w \in Threads /\ w[1] = Host /\ w # M /\ M \in Threads /\ M \notin Workers
      /\ Host \in Procs /\ main[Host] \in MainLocals
  BY HostFacts, Typed
<1>1. /\ pc[w] = "return" /\ ckpt' = ckpt /\ UNCHANGED <<expired, finals, answer>>
      /\ cur' = cur /\ op' = op /\ mgr' = mgr
  BY DEF Return, store, env, ghost
<1>2. /\ pc'[M] = IF Awaited(w) THEN next ELSE pc[M]
      /\ \A u \in Workers : pc'[u] = IF u = w THEN "done" ELSE pc[u]
  BY <1>0, HostFacts DEF Return
<1>3. Awaited(w) => pc[M] = "await" /\ main[Host].attempt = w[2]
  BY <1>0 DEF Awaited
<1>4. /\ main'[Host].kind = main[Host].kind /\ main'[Host].slot = main[Host].slot
      /\ main'[Host].attempt = main[Host].attempt
      /\ main'[Host].handler = IF Awaited(w) /\ main[Host].handler = "retry" THEN "catch"
                               ELSE main[Host].handler
  <2>1. CASE Awaited(w)
    <3>1. PICK m : m = [main[Host] EXCEPT !.value = loc[w].call, !.target = "completing",
                          !.handler = IF main[Host].handler = "retry" THEN "catch"
                                      ELSE main[Host].handler]
      OBVIOUS
    <3>2. main' = [main EXCEPT ![Host] = m]
      BY <1>0, <2>1, <3>1 DEF Return
    <3>3. main'[Host] = m
      BY <1>0, <3>2 DEF IInv, MainOK
    <3>4. QED
      BY <1>0, <2>1, <3>1, <3>3 DEF MainLocals
  <2>2. CASE ~Awaited(w)
    BY <2>2 DEF Return
  <2>3. QED
    BY <2>1, <2>2
<1>5. Alive(w) /\ WorkerAlive /\ Steering
  BY <1>1 DEF Alive, WorkerAlive, Steering
<1>6. answer.kind # "unsent"
  BY <1>5 DEF GrowInv, AloneOK
<1>7. main[Host].slot = "run"
  BY <1>5, Stampers DEF GrowInv
<1>8. ControlOK'
  <2>1. Control(pc[M], op[M], main[Host]) /\ ~expired
    BY DEF GrowInv, ControlOK
  <2>2. main[Host].kind \in {"none", "execute", "recover"}
    BY <1>0 DEF MainLocals
  <2>3. Control(pc'[M], op[M], main'[Host])
    <3>1. CASE Awaited(w)
      BY <1>2, <1>3, <1>4, <1>7, <2>1, <2>2, <3>1
         DEF Control, Runs, ExecuteAt, RecoverAt, ResumeAt
    <3>2. CASE ~Awaited(w)
      BY <1>2, <1>4, <2>1, <3>2 DEF Control, Runs
    <3>3. QED
      BY <3>1, <3>2
  <2>4. QED
    BY <1>1, <2>1, <2>3 DEF ControlOK, Main
<1>9. AloneOK'
  <2> SUFFICES ASSUME NEW u \in Workers, Alive(u)'
               PROVE  /\ main'[Host].kind = "recover" => /\ pc'[M] = "await"
                                                         /\ main'[Host].attempt = u[2]
                      /\ pc'[M] # "down" /\ answer'.kind # "unsent"
    BY DEF AloneOK, Main
  <2>1. u # w /\ Alive(u) /\ u[1] = Host
    BY <1>2, HostFacts DEF Alive
  <2>2. /\ main[Host].kind = "recover" => /\ pc[M] = "await" /\ main[Host].attempt = u[2]
                                          /\ main[Host].attempt = w[2]
        /\ pc[M] # "down"
    BY <1>5, <2>1 DEF GrowInv, AloneOK
  <2>3. u[2] # w[2]
    BY <1>0, <2>1 DEF Workers
  <2>4. QED
    BY <1>1, <1>2, <1>4, <1>6, <2>2, <2>3
<1>10. Steered' = Steered
  BY <1>1, <1>4 DEF Steered
<1>11. Unsent(ckpt)' /\ Grows(ckpt)' /\ Exact(ckpt)'
  BY <1>1, <1>5, <1>6, <1>10 DEF GrowInv, Unsent, Grows, Exact
<1>12. \A u \in Threads : \/ pc'[u] \notin {"store", "reload"}
                          \/ pc'[u] = pc[u] /\ op'[u] = op[u] /\ Steered' = Steered
  BY <1>1, <1>2, <1>10, HostFacts
<1>13. QED
  BY <1>1, <1>8, <1>9, <1>11, <1>12, MoveGrows

LEMMA WorkerStepGrows ==
  ASSUME OneHost, IInv, IInv', RecordInv, GrowInv(ckpt), NEW w \in Workers, WorkerStep(w)
  PROVE  GrowInv(ckpt)' /\ ckpt' = ckpt
<1>0. /\ w \in Threads /\ w[1] = Host /\ w # Main(Host) /\ Host \in Procs /\ "run" \in Slot
      /\ Loaded(w) = ckpt /\ ckpt \in ExecutionCheckpoint /\ ckpt.stage \in ExecutionStage
      /\ cur[w] \in ExecutionCheckpoint /\ cur[w].stage \in ExecutionStage
      /\ loc[w] \in WorkerLocals
      /\ Steered \in Seq(ExecutionState) /\ LegalPath(Steered) /\ IsPrefix(Steered, Steered)
  BY HostFacts, Typed, LoadedIs, PrefixSelf
     DEF GrowInv, ExecutionCheckpoint, Slot, IInv, LocOK
<1>1. ckpt' = ckpt /\ UNCHANGED <<expired, finals, answer>> /\ GrowInv(ckpt') /\ Alive(w)
  BY DEF WorkerStep, Enter, PlanStage, Planning, WorkStage, Working, Ready, Invoke,
         InvokeReturns, PersistToolLoop, Invoked, Return, store, env, ghost, Alive
<1>2. Busy(w) /\ WorkerAlive
  BY <1>0, <1>1 DEF Busy, WorkerAlive
<1>3. main[Host].slot = "run" /\ Steered = mgr[Host]["run"]
  <2>1. main[Host].slot = "run"
    BY <1>2, Stampers DEF GrowInv
  <2>2. QED
    BY <2>1 DEF Steered
<1>k. \A k : GoesOn(w, k)
  BY <1>0, <1>2 DEF GoesOn
<1>x. \/ cur' = cur
      \/ cur' = [cur EXCEPT ![w] = Loaded(w)]
  BY DEF WorkerStep, Enter, PlanStage, Planning, WorkStage, Working, Ready, Invoke,
         InvokeReturns, PersistToolLoop, Invoked, Return
<1>4. Exact(ckpt)'
  BY <1>0, <1>1, <1>x, CurExact
<1>g. ASSUME NEW k \in WorkerLabel, Goto(w, k), main' = main, op' = op, mgr' = mgr
      PROVE  GrowInv(ckpt)'
  BY <1>0, <1>1, <1>2, <1>4, <1>g, GotoGrows DEF Goto, WorkerLabel
<1>t. ASSUME NEW e, Throw(w, e), op' = op, mgr' = mgr
      PROVE  GrowInv(ckpt)'
  <2>1. IsPrefix(Steered, mgr'[Host][main[Host].slot])
    BY <1>0, <1>t DEF Steered
  <2>2. QED
    BY <1>0, <1>1, <1>2, <1>4, <1>t, <2>1, ThrowGrows
<1>s. ASSUME NEW c \in ExecutionCheckpoint
      PROVE  /\ Stamped(c, mgr[w[1]]["run"]) \in ExecutionCheckpoint
             /\ Stamped(c, mgr[w[1]]["run"]).history = Steered
  BY <1>0, <1>3, StampedPath
<1>u. ASSUME NEW c \in ExecutionCheckpoint, c.history \in {ckpt.history, Steered},
             NEW k, upsert(w, c, k), mgr' = mgr
      PROVE  GrowInv(ckpt)'
  BY <1>0, <1>1, <1>4, <1>k, <1>u, UpsertGrows
<1>v. ASSUME NEW c \in ExecutionCheckpoint, NEW next, NEW stage \in ExecutionStage, NEW k,
             transitionAndCheckpoint(w, "run", c, next, stage, k)
      PROVE  GrowInv(ckpt)'
  BY <1>0, <1>1, <1>3, <1>4, <1>k, <1>v, TransitionGrows
<1>5. CASE Enter(w)
  <2>1. \/ Goto(w, "return") /\ main' = main /\ op' = op /\ mgr' = mgr
        \/ Throw(w, "FAILED") /\ op' = op /\ mgr' = mgr
        \/ \E next : transitionAndCheckpoint(w, "run", ckpt, next, ckpt.stage, "plan")
        \/ Goto(w, "plan") /\ main' = main /\ op' = op /\ mgr' = mgr
    BY <1>0, <1>5 DEF Enter
  <2>2. QED
    BY <1>0, <1>1, <1>g, <1>t, <1>v, <2>1 DEF WorkerLabel
<1>6. CASE PlanStage(w)
  <2>1. \/ \E k \in {"work", "planning"} : Goto(w, k) /\ main' = main /\ op' = op /\ mgr' = mgr
        \/ Throw(w, "FAILED") /\ op' = op /\ mgr' = mgr
        \/ transitionAndCheckpoint(w, "run", cur[w], "planning", cur[w].stage, "planning")
    BY <1>6 DEF PlanStage
  <2>2. QED
    BY <1>0, <1>1, <1>g, <1>t, <1>v, <2>1 DEF WorkerLabel
<1>7. CASE Planning(w)
  <2> DEFINE c == [cur[w] EXCEPT !.plan = TRUE, !.stage = "post-planning"]
  <2>1. c \in ExecutionCheckpoint
    BY <1>0 DEF ExecutionCheckpoint, ExecutionStage
  <2>2. /\ \/ upsert(w, Stamped(c, mgr[w[1]]["run"]), "work")
           \/ Throw(w, "FAILED") /\ op' = op
        /\ mgr' = mgr
    BY <1>7 DEF Planning
  <2> HIDE DEF c
  <2>3. QED
    BY <1>1, <1>s, <1>t, <1>u, <2>1, <2>2
<1>8. CASE WorkStage(w)
  <2>1. \/ \E k \in {"ready", "working"} : Goto(w, k) /\ main' = main /\ op' = op /\ mgr' = mgr
        \/ Throw(w, "FAILED") /\ op' = op /\ mgr' = mgr
        \/ transitionAndCheckpoint(w, "run", cur[w], "executing", "post-planning", "working")
    BY <1>8 DEF WorkStage
  <2>2. "post-planning" \in ExecutionStage
    BY DEF ExecutionStage
  <2>3. QED
    BY <1>0, <1>1, <1>g, <1>t, <1>v, <2>1, <2>2 DEF WorkerLabel
<1>9. CASE Working(w)
  <2> DEFINE c == [cur[w] EXCEPT !.plan = loc[w].plan, !.work = TRUE,
                                 !.stage = "post-workflow"]
  <2>1. c \in ExecutionCheckpoint
    BY <1>0 DEF ExecutionCheckpoint, ExecutionStage, WorkerLocals
  <2>2. /\ \/ upsert(w, Stamped(c, mgr[w[1]]["run"]), "ready")
           \/ Throw(w, "FAILED") /\ op' = op
        /\ mgr' = mgr
    BY <1>9 DEF Working
  <2> HIDE DEF c
  <2>3. QED
    BY <1>1, <1>s, <1>t, <1>u, <2>1, <2>2
<1>10. CASE Ready(w)
  <2> DEFINE c == [cur[w] EXCEPT !.plan = loc[w].plan, !.work = loc[w].work,
                                 !.stage = "pre-invoke"]
  <2>1. c \in ExecutionCheckpoint
    BY <1>0 DEF ExecutionCheckpoint, ExecutionStage, WorkerLocals
  <2>2. upsert(w, Stamped(c, mgr[w[1]]["run"]), "invoke") /\ mgr' = mgr
    BY <1>10 DEF Ready
  <2> HIDE DEF c
  <2>3. QED
    BY <1>1, <1>s, <1>u, <2>1, <2>2
<1>11. CASE Invoke(w)
  <2>1. /\ \/ Throw(w, "FAILED")
           \/ Goto(w, "invoking") /\ main' = main
        /\ op' = op /\ mgr' = mgr
    BY <1>11 DEF Invoke
  <2>2. QED
    BY <1>1, <1>g, <1>t, <2>1 DEF WorkerLabel
<1>12. CASE InvokeReturns(w)
  <2>1. /\ \/ Throw(w, "FAILED")
           \/ Goto(w, "invoked") /\ main' = main
        /\ op' = op /\ mgr' = mgr
    BY <1>12 DEF InvokeReturns
  <2>2. QED
    BY <1>1, <1>g, <1>t, <2>1 DEF WorkerLabel
<1>13. CASE PersistToolLoop(w)
  <2>1. upsert(w, ckpt, "invoking") /\ mgr' = mgr
    BY <1>0, <1>13 DEF PersistToolLoop
  <2>2. QED
    BY <1>0, <1>1, <1>u, <2>1
<1>14. CASE Invoked(w)
  <2> DEFINE c == [ckpt EXCEPT !.plan = loc[w].plan, !.work = loc[w].work,
                               !.result = loc[w].call, !.stage = "post-invoke"]
  <2>1. c \in ExecutionCheckpoint
    BY <1>0 DEF ExecutionCheckpoint, ExecutionStage, WorkerLocals
  <2>2. upsert(w, Stamped(c, mgr[w[1]]["run"]), "return") /\ mgr' = mgr
    BY <1>0, <1>14 DEF Invoked
  <2> HIDE DEF c
  <2>3. QED
    BY <1>1, <1>s, <1>u, <2>1, <2>2
<1>15. CASE Return(w)
  BY <1>1, <1>15, ReturnGrows
<1>16. QED
  BY <1>5, <1>6, <1>7, <1>8, <1>9, <1>10, <1>11, <1>12, <1>13, <1>14, <1>15
     DEF WorkerStep

-----------------------------------------------------------------------------
(* The theorems. *)

LEMMA GrowInit ==
  ASSUME OneHost, Init
  PROVE  GrowInv(ckpt)
<1>0. Host \in Procs /\ Main(Host) \in Threads /\ Main(Host)[2] = 0
      /\ \A w \in Workers : w \in Threads /\ w[2] # 0
  BY HostFacts
<1>1. /\ ckpt = seedCheckpoint /\ ~expired /\ finals = 0 /\ answer.kind = "unsent"
      /\ main[Host] = NoMain /\ pc[Main(Host)] = "down"
      /\ \A t \in Threads : cur[t] = seedCheckpoint /\ pc[t] \in {"down", "off"}
      /\ \A w \in Workers : pc[w] = "off"
  BY <1>0 DEF Init
<1>2. NoMain.kind = "none" /\ NoMain.handler = "down" /\ NoMain.slot = "run"
      /\ seedCheckpoint.rev = 0
  BY DEF NoMain, seedCheckpoint
<1>3. Control("down", op[Main(Host)], NoMain)
  BY <1>2 DEF Control, Runs, ExecuteAt, RecoverAt, ResumeAt
<1>4. \A w \in Workers : ~Alive(w)
  BY <1>1 DEF Alive
<1>5. ControlOK /\ AloneOK /\ Unsent(ckpt) /\ Exact(ckpt)
  BY <1>1, <1>2, <1>3, <1>4 DEF ControlOK, AloneOK, Unsent, Exact
<1>6. Grows(ckpt) /\ Stores(ckpt) /\ Facts(ckpt)
  BY <1>1, <1>2, <1>4 DEF Grows, Steering, Stamping, WorkerAlive, Stores, Facts, Announces
<1>7. QED
  BY <1>5, <1>6 DEF GrowInv

(* A step keeps the invariant, and extends the durable history; a terminal  *)
(* one it leaves as it is.                                                  *)
LEMMA GrowNext ==
  ASSUME OneHost, NoDeadline, IInv, RecordInv, GrowInv(ckpt), [Next]_vars
  PROVE  /\ GrowInv(ckpt)' /\ IsPrefix(ckpt.history, ckpt'.history)
         /\ ckpt.terminal => ckpt'.history = ckpt.history /\ ckpt'.state = ckpt.state
<1>0. IInv' /\ Procs = {Host} /\ IsPrefix(ckpt.history, ckpt.history)
  BY NextInv, HostFacts, Typed, PrefixSelf
<1>1. CASE UNCHANGED vars
  BY <1>0, <1>1 DEF vars, GrowInv, ControlOK, AloneOK, Unsent, Exact, Grows, Stores, Facts,
     Alive, WorkerAlive, Steered, Steering, Extends, Announces, Ended, Main
<1>2. CASE Boot(Host) \/ Start(Host) \/ Abort(Host)
  BY <1>0, <1>2, BootGrows, StartGrows, AbortGrows
<1>3. CASE Crash(Host)
  <2>1. StopProcess(Host) /\ UNCHANGED <<ckpt, expired, finals, answer>>
    BY <1>3 DEF Crash, store, ghost
  <2>2. QED
    BY <1>0, <2>1, StopGrows
<1>4. CASE ExecuteStep(Host)
  BY <1>0, <1>4, ExecuteStepGrows
<1>5. CASE FinishStep(Host)
  BY <1>0, <1>5, FinishStepGrows
<1>6. CASE RecoverStep(Host)
  BY <1>0, <1>6, RecoverStepGrows
<1>7. CASE \E t \in Threads : StoreStep(t)
  BY <1>0, <1>7, StoreStepGrows
<1>8. CASE \E w \in Workers : WorkerStep(w)
  BY <1>0, <1>8, WorkerStepGrows
<1>9. ~Expire
  BY DEF Expire, NoDeadline
<1>10. QED
  BY <1>0, <1>1, <1>2, <1>3, <1>4, <1>5, <1>6, <1>7, <1>8, <1>9 DEF Next

(* RecordGrows, for one host whose deadlines do not pass (runtime.ts 1145-  *)
(* 1212, adapters.ts 45-88), whatever crashes, fails or is retried: the     *)
(* durable history only grows, what is durable stays, and a terminal        *)
(* checkpoint keeps its state and its history.                              *)
THEOREM RecordOnlyGrows ==
  ASSUME OneHost, NoDeadline
  PROVE  Spec => RecordGrows
<1>1. Init => IInv /\ RecordInv /\ GrowInv(ckpt)
  BY InitInv, RecordInit, GrowInit
<1>2. IInv /\ RecordInv /\ GrowInv(ckpt) /\ [Next]_vars
        => (IInv /\ RecordInv /\ GrowInv(ckpt))'
  BY NextInv, RecordNext, GrowNext
<1>3. IInv /\ RecordInv /\ GrowInv(ckpt) /\ [Next]_vars
        => /\ [ckpt.terminal => ckpt'.state = ckpt.state /\ ckpt'.history = ckpt.history]_ckpt
           /\ [IsPrefix(ckpt.history, ckpt'.history)]_ckpt
           /\ [Kept(ckpt, ckpt')]_ckpt
  BY RecordNext, GrowNext
<1>4. QED
  BY <1>1, <1>2, <1>3, PTL
     DEF Spec, RecordGrows, TerminalIsFinal, HistoryAppendOnly, ArtifactsKept

(* TerminalInv, for one host whose deadlines do not pass (runtime.ts        *)
(* 781-809, 1145-1212): the execution announces its terminal state once,    *)
(* and is completed only with the result of its capability.                 *)
THEOREM EndsOnce ==
  ASSUME OneHost, NoDeadline
  PROVE  Spec => []TerminalInv
<1>1. Init => IInv /\ RecordInv /\ GrowInv(ckpt)
  BY InitInv, RecordInit, GrowInit
<1>2. IInv /\ RecordInv /\ GrowInv(ckpt) /\ [Next]_vars
        => (IInv /\ RecordInv /\ GrowInv(ckpt))'
  BY NextInv, RecordNext, GrowNext
<1>3. RecordInv /\ GrowInv(ckpt) => TerminalInv
  <2>1. GrowInv(ckpt) => OneTerminalFact
    BY DEF GrowInv, Facts, OneTerminalFact
  <2>2. RecordInv => CompletedHasResult
    BY DEF RecordInv, StoredOK, Copy, Completing, CompletedHasResult
  <2>3. QED
    BY <2>1, <2>2 DEF TerminalInv
<1>4. QED
  BY <1>1, <1>2, <1>3, PTL DEF Spec

-----------------------------------------------------------------------------
(* One host that has restarted: manual recovery leaves the record alone.    *)

Calm == {"down", "idle", "recover", "finished"}
Quiet == pc[Main(Host)] \in Calm /\ \A w \in Workers : ~Alive(w)

(* The request is gone with its process, unanswered.                        *)
Interrupted == answer.kind = "pending" /\ main[Host].kind # "execute"

(* Where a coroutine of each kind may be while the answer is a.             *)
Place(k, m, a) == /\ k \in ExecuteAt => m.kind = "execute"
                  /\ k \in RecoverAt => m.kind = "recover"
                  /\ k = "finished" /\ m.kind = "execute" => a # "pending"
Kinds(k, o, m, a) ==
  /\ m.kind = "execute" <=> m.handler \in {"catch", "retry", "answer"}
  /\ m.kind = "recover" <=> m.handler \in {"bootCheck", "resumeCatch"}
  /\ k \in {"down", "idle"} <=> m.kind = "none"
  /\ Place(k, m, a)
  /\ k \in {"store", "reload"} => Place(o.then, m, a) /\ o.then \in AfterStore
KindsOK == Kinds(pc[Main(Host)], op[Main(Host)], main[Host], answer.kind)

(* A policy snapshot comes from the durable record.                         *)
Taken(c)   == c.snapshot => ckpt.snapshot
BootsLate  == pc[Main(Host)] = "recover" /\ main[Host].late => expired
LeavesAlone ==
  Interrupted => /\ \A t \in Threads : Taken(cur[t]) /\ Taken(op[t].rec)
                 /\ Deferred => Quiet
DeferInv == /\ KindsOK /\ BootsLate /\ LeavesAlone
            /\ ckpt.snapshot => ckpt.rev > 0

Moving(t) == IF t = Main(Host) THEN pc[t] \notin Calm ELSE Alive(t)

-----------------------------------------------------------------------------

LEMMA KindIs ==
  ASSUME OneHost, IInv
  PROVE  /\ main[Host] \in MainLocals /\ main[Host].kind \in {"none", "execute", "recover"}
         /\ main[Host].handler \in Label
BY Typed DEF MainLocals

(* What a step makes of the record.                                         *)
Follows == /\ Kept(ckpt, ckpt') /\ (ckpt'.snapshot => ckpt'.rev > 0)
           /\ Interrupted => Taken(ckpt')

LEMMA FollowsItself == DeferInv /\ ckpt' = ckpt => Follows
BY KeptReflexive DEF Follows, DeferInv, Taken

LEMMA StepKeeps ==
  ASSUME OneHost, IInv, DeferInv, Follows, UNCHANGED policy, expired => expired',
         KindsOK', BootsLate', Interrupted' => Interrupted,
         Interrupted /\ Deferred => Quiet',
         Interrupted => \A u \in Threads : Taken(cur'[u]) /\ Taken(op'[u].rec)
  PROVE  DeferInv'
<1>1. Interrupted' /\ Deferred' => Deferred
  <2> SUFFICES ASSUME Interrupted', Deferred' PROVE Deferred
    OBVIOUS
  <2>1. ckpt.snapshot /\ (ckpt.cancelled => ckpt'.cancelled)
    BY DEF Follows, Kept, Taken, Deferred
  <2>2. answer.kind = "pending" /\ \A p \in Procs : main[p].kind # "execute"
    BY HostFacts DEF Interrupted
  <2>3. QED
    BY <2>1, <2>2 DEF Deferred
<1>2. LeavesAlone'
  BY <1>1 DEF LeavesAlone, Follows, Taken, Kept
<1>3. QED
  BY <1>2 DEF DeferInv, Follows

(* What a coroutine on its way leaves true.                                 *)
LEMMA ActKeeps ==
  ASSUME OneHost, IInv, DeferInv, NEW t \in Threads, Moving(t), Follows,
         UNCHANGED <<policy, expired>>, KindsOK',
         main'[Host].kind = main[Host].kind, main'[Host].late = main[Host].late,
         answer'.kind = "pending" => answer.kind = "pending",
         pc'[Main(Host)] = "recover" => pc[Main(Host)] = "recover",
         Interrupted => \A u \in Threads : Taken(cur'[u]) /\ Taken(op'[u].rec)
  PROVE  DeferInv'
<1>1. Interrupted' => Interrupted
  BY DEF Interrupted
<1>2. ~Quiet
  BY HostFacts DEF Moving, Quiet
<1>3. Interrupted => ~Deferred
  BY <1>2 DEF DeferInv, LeavesAlone
<1>4. BootsLate'
  BY DEF DeferInv, BootsLate, Main
<1>5. QED
  BY <1>1, <1>3, <1>4, StepKeeps

LEMMA ThrowKeeps ==
  ASSUME OneHost, IInv, IInv', DeferInv, NEW t \in Threads, NEW e, Throw(t, e), Moving(t),
         Follows, UNCHANGED <<policy, expired, answer>>,
         \A u \in Threads : u # t => op'[u] = op[u],
         Interrupted => \A u \in Threads : Taken(cur'[u]) /\ Taken(op'[u].rec)
  PROVE  DeferInv'
<1> DEFINE M == Main(Host)
<1>1. /\ main'[Host].kind = main[Host].kind /\ main'[Host].handler = main[Host].handler
      /\ main'[Host].late = main[Host].late
      /\ pc'[M] = IF t = M \/ Awaited(t) THEN main[Host].handler ELSE pc[M]
  BY ThrowHere
<1>2. Awaited(t) => pc[M] = "await"
  BY HostFacts DEF Awaited
<1>3. t # M => t \in Workers
  BY HostFacts
<1>4. Kinds(pc[M], op[M], main[Host], answer.kind)
  BY DEF DeferInv, KindsOK
<1>5. KindsOK' /\ (pc'[M] = "recover" => pc[M] = "recover")
  <2>1. CASE t = M \/ Awaited(t)
    <3>1. pc[M] \notin Calm
      BY <1>2, <2>1 DEF Moving, Calm
    <3>2. main[Host].kind \in {"execute", "recover"}
      BY <1>4, <3>1, KindIs DEF Kinds, Calm
    <3>3. pc'[M] \in {"catch", "retry", "answer", "bootCheck", "resumeCatch"}
      BY <1>1, <1>4, <2>1, <3>2 DEF Kinds
    <3>4. Kinds(pc'[M], op'[M], main'[Host], answer'.kind) /\ pc'[M] # "recover"
      BY <1>1, <1>4, <2>1, <3>2, <3>3 DEF Kinds, Place, ExecuteAt, RecoverAt
    <3>5. QED
      BY <3>4 DEF KindsOK, Main
  <2>2. CASE t # M /\ ~Awaited(t)
    <3>1. op'[M] = op[M] /\ pc'[M] = pc[M]
      BY <1>1, <2>2, HostFacts
    <3>2. Kinds(pc'[M], op'[M], main'[Host], answer'.kind)
      BY <1>1, <1>4, <3>1 DEF Kinds, Place
    <3>3. QED
      BY <3>1, <3>2 DEF KindsOK, Main
  <2>3. QED
    BY <2>1, <2>2
<1>6. QED
  BY <1>1, <1>5, ActKeeps

(* A coroutine moves, with or without a store call.                         *)
LEMMA GotoKeeps ==
  ASSUME OneHost, IInv, IInv', DeferInv, NEW t \in Threads, NEW k, Moving(t),
         pc' = [pc EXCEPT ![t] = k], t = Main(Host) => k # "recover",
         Follows, UNCHANGED <<policy, expired>>,
         answer'.kind = "pending" => answer.kind = "pending",
         main'[Host].kind = main[Host].kind, main'[Host].late = main[Host].late,
         t # Main(Host) => main'[Host] = main[Host] /\ op'[Main(Host)] = op[Main(Host)],
         t = Main(Host) => Kinds(k, op'[Main(Host)], main'[Host], answer'.kind),
         Interrupted => \A u \in Threads : Taken(cur'[u]) /\ Taken(op'[u].rec)
  PROVE  DeferInv'
<1> DEFINE M == Main(Host)
<1>1. M \in Threads /\ pc'[M] = IF t = M THEN k ELSE pc[M]
  BY HostFacts DEF IInv, PcOK
<1>2. Kinds(pc'[M], op'[M], main'[Host], answer'.kind)
  <2>1. CASE t = M
    BY <1>1, <2>1
  <2>2. CASE t # M
    BY <1>1, <2>2 DEF DeferInv, KindsOK, Kinds, Place
  <2>3. QED
    BY <2>1, <2>2
<1>3. KindsOK'
  BY <1>2 DEF KindsOK, Main
<1>4. QED
  BY <1>1, <1>3, ActKeeps

LEMMA CallStoreKeeps ==
  ASSUME OneHost, IInv, IInv', DeferInv, NEW t \in Threads, NEW c, NEW fact, NEW k, Moving(t),
         CallStore(t, c, fact, k), UNCHANGED <<ckpt, policy, expired, answer>>,
         t = Main(Host) => Place(k, main[Host], answer.kind) /\ k \in AfterStore,
         Interrupted => Taken(c) /\ \A u \in Threads : Taken(cur'[u])
  PROVE  DeferInv'
<1> DEFINE M == Main(Host)
<1>1. /\ pc' = [pc EXCEPT ![t] = "store"] /\ main' = main
      /\ op'[t].rec = c /\ op'[t].then = k /\ \A u \in Threads : u # t => op'[u] = op[u]
  BY DEF CallStore, IInv, OpOK
<1>2. M \in Threads
  BY HostFacts
<1>3. t = M => Kinds("store", op'[M], main'[Host], answer'.kind)
  BY <1>1 DEF DeferInv, KindsOK, Kinds, Place, Moving, Calm, ExecuteAt, RecoverAt
<1>4. Interrupted => \A u \in Threads : Taken(op'[u].rec)
  BY <1>1 DEF DeferInv, LeavesAlone
<1>5. QED
  BY <1>1, <1>2, <1>3, <1>4, FollowsItself, GotoKeeps

LEMMA UpsertKeeps ==
  ASSUME OneHost, IInv, IInv', DeferInv, NEW t \in Threads, NEW c \in ExecutionCheckpoint, NEW k, Moving(t),
         upsert(t, c, k), UNCHANGED <<ckpt, policy, expired, answer>>,
         t = Main(Host) => Place(k, main[Host], answer.kind) /\ k \in AfterStore,
         Interrupted => Taken(c) /\ \A u \in Threads : Taken(cur'[u])
  PROVE  DeferInv'
<1>1. CASE Unbacked(c)
  <2>1. Throw(t, "FAILED") /\ op' = op
    BY <1>1 DEF upsert
  <2>2. QED
    BY <2>1, FollowsItself, ThrowKeeps DEF DeferInv, LeavesAlone
<1>2. CASE ~Unbacked(c)
  <2>1. CallStore(t, Normalized(c), FALSE, k)
    BY <1>2 DEF upsert
  <2>2. Normalized(c).snapshot = c.snapshot
    BY DEF Normalized, ExecutionCheckpoint
  <2>3. QED
    BY <2>1, <2>2, CallStoreKeeps DEF Taken
<1>3. QED
  BY <1>1, <1>2

LEMMA TransitionKeeps ==
  ASSUME OneHost, IInv, IInv', DeferInv, NEW t \in Threads, NEW s, NEW c \in ExecutionCheckpoint, NEW next,
         NEW stage, NEW k, Moving(t), transitionAndCheckpoint(t, s, c, next, stage, k),
         UNCHANGED <<ckpt, policy, expired, answer>>,
         t = Main(Host) => Place(k, main[Host], answer.kind) /\ k \in AfterStore,
         Interrupted => Taken(c) /\ \A u \in Threads : Taken(cur'[u])
  PROVE  DeferInv'
<1> DEFINE history == Append(mgr[t[1]][s], next)
           rec     == Normalized(Stamped([c EXCEPT !.stage = stage], history))
<1>1. rec.snapshot = c.snapshot
  BY DEF Normalized, Stamped, ExecutionCheckpoint
<1>2. CASE Throw(t, "FAILED") /\ op' = op
  BY <1>2, FollowsItself, ThrowKeeps DEF DeferInv, LeavesAlone
<1>3. CASE CallStore(t, rec, TRUE, k)
  BY <1>1, <1>3, CallStoreKeeps DEF Taken
<1>4. QED
  BY <1>2, <1>3 DEF transitionAndCheckpoint

LEMMA StopKeeps ==
  ASSUME OneHost, IInv, DeferInv, StopProcess(Host), UNCHANGED <<ckpt, policy, expired, answer>>
  PROVE  DeferInv'
<1> DEFINE M == Main(Host)
<1>1. M \in Threads /\ M[2] = 0 /\ \A t \in Threads : t[1] = Host /\ (t[2] = 0 <=> t = M)
  BY HostFacts DEF Main, Workers, Threads
<1>2. /\ pc'[M] = "down" /\ \A w \in Workers : pc'[w] = "off"
      /\ \A t \in Threads : cur'[t] = seedCheckpoint /\ op'[t] = NoOp
  BY <1>1, HostFacts DEF StopProcess
<1>3. main'[Host] = NoMain /\ NoMain.kind = "none" /\ NoMain.handler = "down"
  BY HostFacts DEF StopProcess, IInv, MainOK, NoMain
<1>4. Kinds(pc'[M], op'[M], main'[Host], answer'.kind)
  BY <1>2, <1>3 DEF Kinds, Place, ExecuteAt, RecoverAt
<1>5. KindsOK' /\ BootsLate' /\ Quiet'
  BY <1>2, <1>4 DEF KindsOK, BootsLate, Quiet, Calm, Alive, Main
<1>6. ~seedCheckpoint.snapshot /\ ~NoOp.rec.snapshot
  BY DEF seedCheckpoint, NoOp
<1>7. LeavesAlone'
  BY <1>2, <1>5, <1>6 DEF LeavesAlone, Taken
<1>8. QED
  BY <1>5, <1>7 DEF DeferInv

LEMMA StoreStepKeeps ==
  ASSUME OneHost, IInv, IInv', DeferInv, Kept(ckpt, ckpt'), NEW t \in Threads, StoreStep(t)
  PROVE  DeferInv'
<1> DEFINE M == Main(Host)
<1>0. M \in Threads /\ (t # M => t \in Workers) /\ ~NoOp.rec.snapshot
  BY HostFacts DEF NoOp, seedCheckpoint
<1>1. pc[t] \in {"store", "reload"} /\ Moving(t)
  BY DEF StoreStep, StoreCommits, StoreConflicts, StoreFails, Reload, PublishFails,
         Moving, Calm, Alive
<1>2. Interrupted => \A u \in Threads : Taken(cur[u]) /\ Taken(op[u].rec)
  BY DEF DeferInv, LeavesAlone
<1>3. Kinds(pc[M], op[M], main[Host], answer.kind)
  BY DEF DeferInv, KindsOK
<1>4. ASSUME ckpt' = [op[t].rec EXCEPT !.rev = @ + 1]
      PROVE  Follows
  <2>1. op[t].rec \in ExecutionCheckpoint /\ op[t].rec.rev \in Nat
    BY Typed DEF ExecutionCheckpoint
  <2>2. ckpt'.snapshot = op[t].rec.snapshot /\ ckpt'.rev = op[t].rec.rev + 1
    BY <1>4, <2>1 DEF ExecutionCheckpoint
  <2>3. QED
    BY <1>2, <2>1, <2>2 DEF Follows, Taken
<1>5. CASE StoreCommits(t)
  <2>1. /\ Follows /\ pc' = [pc EXCEPT ![t] = "reload"] /\ op' = op /\ main' = main /\ cur' = cur
        /\ UNCHANGED <<policy, expired, answer>> /\ pc[t] = "store"
    BY <1>4, <1>5 DEF StoreCommits, Goto, env, ghost
  <2>2. t = M => Kinds("reload", op'[M], main'[Host], answer'.kind)
    BY <1>3, <2>1 DEF Kinds, Place, ExecuteAt, RecoverAt
  <2>3. QED
    BY <1>1, <1>2, <2>1, <2>2, GotoKeeps
<1>6. CASE StoreConflicts(t)
  BY <1>1, <1>2, <1>6, FollowsItself, ThrowKeeps DEF StoreConflicts, store, env, ghost
<1>7. CASE StoreFails(t)
  BY <1>1, <1>2, <1>4, <1>7, FollowsItself, ThrowKeeps DEF StoreFails, store, env, ghost
<1>8. CASE Reload(t)
  <2>1. /\ pc' = [pc EXCEPT ![t] = op[t].then] /\ ckpt' = ckpt /\ main' = main
        /\ op' = [op EXCEPT ![t] = NoOp] /\ cur' = [cur EXCEPT ![t] = ckpt]
        /\ UNCHANGED <<policy, expired, answer>> /\ pc[t] = "reload"
    BY <1>8 DEF Reload, Goto, store, env
  <2>2. /\ op'[t] = NoOp /\ \A u \in Threads : u # t => op'[u] = op[u]
        /\ \A u \in Threads : cur'[u] \in {cur[u], ckpt}
    BY <2>1 DEF IInv, OpOK, CurOK
  <2>3. Interrupted => \A u \in Threads : Taken(cur'[u]) /\ Taken(op'[u].rec)
    BY <1>0, <1>2, <2>2 DEF Taken
  <2>4. t = M => Kinds(op[t].then, op'[M], main'[Host], answer'.kind) /\ op[t].then # "recover"
    BY <1>3, <2>1 DEF Kinds, Place, AfterStore
  <2>5. /\ t # M => main'[Host] = main[Host] /\ op'[M] = op[M]
        /\ main'[Host].kind = main[Host].kind /\ main'[Host].late = main[Host].late
        /\ t = M => op[t].then # "recover"
        /\ Follows /\ answer'.kind = answer.kind
    BY <1>0, <2>1, <2>2, <2>4, FollowsItself
  <2>6. QED
    BY <1>1, <2>1, <2>3, <2>4, <2>5, GotoKeeps
<1>9. CASE PublishFails(t)
  <2>1. /\ Throw(t, "FAILED") /\ ckpt' = ckpt /\ cur' = cur /\ op' = [op EXCEPT ![t] = NoOp]
        /\ UNCHANGED <<policy, expired, answer>>
    BY <1>9 DEF PublishFails, store, ghost
  <2>2. op'[t] = NoOp /\ \A u \in Threads : u # t => op'[u] = op[u]
    BY <2>1 DEF IInv, OpOK
  <2>3. Interrupted => \A u \in Threads : Taken(cur'[u]) /\ Taken(op'[u].rec)
    BY <1>0, <1>2, <2>1, <2>2 DEF Taken
  <2>4. QED
    BY <1>1, <2>1, <2>2, <2>3, FollowsItself, ThrowKeeps
<1>10. QED
  BY <1>5, <1>6, <1>7, <1>8, <1>9 DEF StoreStep

-----------------------------------------------------------------------------
(* execute() *)

LEMMA StartWorkerDefers ==
  ASSUME OneHost, IInv, IInv', DeferInv, NEW i, NEW from, NEW reinvoke,
         StartWorker(Host, i, from, reinvoke),
         UNCHANGED <<ckpt, policy, expired, answer, main, op>>, Moving(Main(Host))
  PROVE  DeferInv'
<1> DEFINE M == Main(Host)
<1>0. M \in Threads /\ M \notin Workers /\ Host \in Procs
  BY HostFacts
<1>2. pc'[M] \in {"await", "enter"}
  BY <1>0 DEF StartWorker, IInv, PcOK
<1>3. \A u \in Threads : cur'[u] \in {cur[u], cur[M]}
  BY DEF StartWorker, IInv, CurOK
<1>4. Interrupted => \A u \in Threads : Taken(cur'[u]) /\ Taken(op'[u].rec)
  BY <1>0, <1>3 DEF DeferInv, LeavesAlone
<1>5. KindsOK'
  <2>1. Kinds(pc[M], op[M], main[Host], answer.kind) /\ pc[M] \notin {"down", "idle"}
    BY DEF DeferInv, KindsOK, Moving, Calm
  <2>2. Kinds(pc'[M], op[M], main[Host], answer.kind)
    BY <1>2, <2>1 DEF Kinds, Place, ExecuteAt, RecoverAt
  <2>3. QED
    BY <2>2 DEF KindsOK, Main
<1>6. Follows /\ M = Main(Host)'
  BY FollowsItself DEF Main
<1>7. QED
  BY <1>0, <1>2, <1>4, <1>5, <1>6, ActKeeps

LEMMA ExecuteStepKeeps ==
  ASSUME OneHost, IInv, IInv', DeferInv, ExecuteStep(Host)
  PROVE  DeferInv'
<1> DEFINE t == Main(Host)
<1>0. /\ t \in Threads /\ t \notin Workers /\ t[1] = Host /\ Host \in Procs
      /\ main[Host] \in MainLocals /\ "run" \in Slot
      /\ ckpt \in ExecutionCheckpoint /\ cur[t] \in ExecutionCheckpoint
      /\ mgr[Host]["run"] \in Seq(ExecutionState)
  BY HostFacts, Typed DEF Slot, IInv, MgrOK
<1>1. Kinds(pc[t], op[t], main[Host], answer.kind)
  BY DEF DeferInv, KindsOK
<1>2. pc[t] \in ExecuteAt \cup {"await"} /\ UNCHANGED <<ckpt, policy, expired>>
  BY DEF ExecuteStep, Authorize, Schedule, Attempt, Run, TimerFires, Retry, Backoff,
         Succeeded, Completed, Catch, Fail, Cancelled, Answer, ExecuteAt, store, env
<1>3. Moving(t) /\ Follows
  BY <1>2, FollowsItself DEF Moving, Calm, ExecuteAt
<1>4. Loaded(t) \in ExecutionCheckpoint
  BY <1>0, LoadedOK DEF IInv
<1>5. CASE TimerFires(Host)
  <2>1. /\ \E e : Throw(t, e)
        /\ UNCHANGED answer /\ cur' = cur /\ op' = op
    BY <1>5 DEF TimerFires, ghost
  <2>2. Interrupted => \A u \in Threads : Taken(cur'[u]) /\ Taken(op'[u].rec)
    BY <2>1 DEF DeferInv, LeavesAlone
  <2>3. QED
    BY <1>0, <1>2, <1>3, <2>1, <2>2, ThrowKeeps
<1>6. CASE ~TimerFires(Host)
  <2>1. pc[t] \in ExecuteAt
    BY <1>6 DEF ExecuteStep, Authorize, Schedule, Attempt, Run, Retry, Backoff,
       Succeeded, Completed, Catch, Fail, Cancelled, Answer, ExecuteAt
  <2>2. main[Host].kind = "execute" /\ ~Interrupted
    BY <1>1, <2>1 DEF Kinds, Place, Interrupted
  <2>k. ASSUME NEW k \in ExecuteAt \cup {"reach", "terminalize", "finished", "store"}, NEW o, NEW m,
               m.kind = "execute", m.handler \in {"catch", "retry", "answer"}, NEW a,
               k = "finished" => a # "pending",
               k = "store" => o.then \in (ExecuteAt \cup {"reach", "terminalize"}) \cap AfterStore
        PROVE  Kinds(k, o, m, a)
    BY <2>k DEF Kinds, Place, ExecuteAt, RecoverAt
  <2>t. ASSUME NEW e, Throw(t, e), op' = op, answer' = answer
        PROVE  DeferInv'
    BY <1>0, <1>2, <1>3, <2>2, <2>t, ThrowKeeps
  <2>g. ASSUME NEW k \in ExecuteAt \cup {"reach", "finished"}, Goto(t, k), main' = main,
               answer'.kind = "pending" => answer.kind = "pending" /\ k # "finished"
        PROVE  DeferInv'
    <3>1. Kinds(k, op'[t], main'[Host], answer'.kind) /\ k # "recover"
      BY <1>1, <2>2, <2>g, <2>k DEF Kinds, ExecuteAt
    <3>2. pc' = [pc EXCEPT ![t] = k]
      BY <2>g DEF Goto
    <3>3. QED
      BY <1>0, <1>2, <1>3, <2>2, <2>g, <3>1, <3>2, GotoKeeps
  <2>m. ASSUME NEW k \in ExecuteAt \cup {"store"}, NEW m, m.kind = "execute", m.late = main[Host].late,
               m.handler \in {"catch", "retry", "answer"}, main' = [main EXCEPT ![Host] = m],
               pc' = [pc EXCEPT ![t] = k], answer' = answer,
               k = "store" => op'[t].then = "run"
        PROVE  DeferInv'
    <3>1. main'[Host] = m
      BY <1>0, <2>m DEF IInv, MainOK
    <3>2. Kinds(k, op'[t], main'[Host], answer'.kind) /\ k # "recover"
      BY <2>k, <2>m, <3>1 DEF ExecuteAt, AfterStore
    <3>3. QED
      BY <1>0, <1>2, <1>3, <2>2, <2>m, <3>1, <3>2, GotoKeeps
  <2>p. \A k \in {"schedule", "attempt", "terminalize", "cancelled"} :
           Place(k, main[Host], answer.kind) /\ k \in AfterStore
    BY <2>2 DEF Place, ExecuteAt, RecoverAt, AfterStore
  <2>3. CASE Authorize(Host)
    <3>1. PICK c : c = [cur[t] EXCEPT !.snapshot = TRUE]
      OBVIOUS
    <3>2. c \in ExecutionCheckpoint
      BY <1>0, <3>1 DEF ExecutionCheckpoint
    <3>3. Stamped(c, mgr[Host]["run"]) \in ExecutionCheckpoint
      BY <1>0, <3>2, StampOK DEF IInv
    <3>4. /\ \/ Throw(t, "FAILED") /\ op' = op
             \/ upsert(t, Stamped(c, mgr[Host]["run"]), "schedule")
          /\ answer' = answer
      BY <2>3, <3>1 DEF Authorize, ghost
    <3>5. CASE upsert(t, Stamped(c, mgr[Host]["run"]), "schedule")
      BY <1>0, <1>2, <1>3, <2>2, <2>p, <3>3, <3>4, <3>5, UpsertKeeps
    <3>6. QED
      BY <2>t, <3>4, <3>5
  <2>4. CASE Schedule(Host)
    <3>1. /\ Throw(t, "FAILED") \/ (Goto(t, "attempt") /\ main' = main)
          /\ answer' = answer /\ op' = op
      BY <2>4 DEF Schedule, ghost
    <3>2. QED
      BY <2>g, <2>t, <3>1 DEF ExecuteAt
  <2>5. CASE Attempt(Host)
    <3>1. PICK m : m = [main[Host] EXCEPT !.attempt = main[Host].attempt + 1,
                                          !.handler = "retry"]
      OBVIOUS
    <3>2. main' = [main EXCEPT ![Host] = m]
      BY <2>5, <3>1 DEF Attempt
    <3>3. m.kind = "execute" /\ m.handler = "retry" /\ m.late = main[Host].late
      BY <1>0, <2>2, <3>1 DEF MainLocals
    <3>4. /\ pc' = [pc EXCEPT ![t] = "store"] /\ answer' = answer
          /\ op' = [op EXCEPT ![t] = [rec |-> Normalized(Loaded(t)), fact |-> FALSE,
                                      then |-> "run"]]
      BY <2>5 DEF Attempt, ghost
    <3>5. op'[t].then = "run"
      BY <1>0, <3>4 DEF IInv, OpOK
    <3>6. QED
      BY <2>m, <3>2, <3>3, <3>4, <3>5
  <2>6. CASE Run(Host)
    <3>1. /\ StartWorker(Host, main[Host].attempt, "accepted", TRUE) /\ pc[t] = "run"
          /\ main' = main /\ op' = op /\ answer' = answer
      BY <2>6 DEF Run, ghost
    <3>2. QED
      BY <1>2, <1>3, <3>1, StartWorkerDefers
  <2>7. CASE Retry(Host)
    <3>1. PICK k \in {"backoff", "catch"} : Goto(t, k)
      BY <2>7 DEF Retry
    <3>2. PICK m : m = [main[Host] EXCEPT !.handler = "catch"]
      OBVIOUS
    <3>3. main' = [main EXCEPT ![Host] = m]
      BY <2>7, <3>2 DEF Retry
    <3>4. m.kind = "execute" /\ m.handler = "catch" /\ m.late = main[Host].late
      BY <1>0, <2>2, <3>2 DEF MainLocals
    <3>5. pc' = [pc EXCEPT ![t] = k] /\ answer' = answer /\ k \in ExecuteAt
      BY <2>7, <3>1 DEF Retry, Goto, ghost, ExecuteAt
    <3>6. QED
      BY <2>m, <3>3, <3>4, <3>5 DEF ExecuteAt
  <2>8. CASE Backoff(Host)
    <3>1. /\ transitionAndCheckpoint(t, "run", Loaded(t), "recovering", Loaded(t).stage, "attempt")
          /\ answer' = answer
      BY <2>8 DEF Backoff, ghost
    <3>2. QED
      BY <1>0, <1>2, <1>3, <1>4, <2>2, <2>p, <3>1, TransitionKeeps
  <2>9. CASE Succeeded(Host)
    <3>1. PICK c : c = [Loaded(t) EXCEPT !.result = main[Host].value]
      OBVIOUS
    <3>2. c \in ExecutionCheckpoint
      BY <1>0, <1>4, <3>1 DEF ExecutionCheckpoint, MainLocals
    <3>3. /\ transitionAndCheckpoint(t, "run", c, "completing", "post-invoke", "terminalize")
          /\ answer' = answer
      BY <2>9, <3>1 DEF Succeeded, ghost
    <3>4. QED
      BY <1>0, <1>2, <1>3, <2>2, <2>p, <3>2, <3>3, TransitionKeeps
  <2>10. CASE Completed(Host) \/ Answer(Host)
    <3>1. Goto(t, "finished") /\ main' = main /\ answer'.kind # "pending"
      BY <2>10 DEF Completed, Answer
    <3>2. QED
      BY <2>g, <3>1
  <2>11. CASE Catch(Host)
    <3>1. PICK m : m = [main[Host] EXCEPT !.handler = "answer",
                           !.target = IF main[Host].err = "CANCELLED" THEN "cancelling"
                                      ELSE "failed"]
      OBVIOUS
    <3>2. main' = [main EXCEPT ![Host] = m]
      BY <2>11, <3>1 DEF Catch
    <3>3. m.kind = "execute" /\ m.handler = "answer" /\ m.late = main[Host].late
      BY <1>0, <2>2, <3>1 DEF MainLocals
    <3>4. pc' = [pc EXCEPT ![t] = "fail"] /\ answer' = answer
      BY <2>11 DEF Catch, Goto, ghost
    <3>5. QED
      BY <2>m, <3>2, <3>3, <3>4 DEF ExecuteAt
  <2>12. CASE Fail(Host)
    <3>1. PICK c : c = [Loaded(t) EXCEPT !.cancelled = TRUE]
      OBVIOUS
    <3>2. c \in ExecutionCheckpoint
      BY <1>4, <3>1 DEF ExecutionCheckpoint
    <3>3. /\ \/ upsert(t, c, "cancelled")
             \/ \E k \in {"answer", "reach"} : Goto(t, k) /\ main' = main
          /\ answer' = answer
      BY <2>12, <3>1 DEF Fail, ghost
    <3>4. CASE upsert(t, c, "cancelled")
      BY <1>0, <1>2, <1>3, <2>2, <2>p, <3>2, <3>3, <3>4, UpsertKeeps
    <3>5. QED
      BY <2>g, <3>3, <3>4 DEF ExecuteAt
  <2>13. CASE Cancelled(Host)
    <3>1. /\ \E k \in {"answer", "reach"} : Goto(t, k) /\ main' = main
          /\ answer' = answer
      BY <2>13 DEF Cancelled, ghost
    <3>2. QED
      BY <2>g, <3>1 DEF ExecuteAt
  <2>14. QED
    BY <1>6, <2>3, <2>4, <2>5, <2>6, <2>7, <2>8, <2>9, <2>10, <2>11, <2>12, <2>13
       DEF ExecuteStep
<1>7. QED
  BY <1>5, <1>6

-----------------------------------------------------------------------------
(* #reachState, #terminalize, and the end of a main coroutine. *)

LEMMA FinishStepKeeps ==
  ASSUME OneHost, IInv, IInv', DeferInv, FinishStep(Host)
  PROVE  DeferInv'
<1> DEFINE t == Main(Host)
           s == main[Host].slot
           target == main[Host].target
<1>0. /\ t \in Threads /\ t \notin Workers /\ t[1] = Host /\ Host \in Procs
      /\ main[Host] \in MainLocals /\ s \in Slot
      /\ cur[t] \in ExecutionCheckpoint /\ mgr[Host][s] \in Seq(ExecutionState)
  BY HostFacts, Typed DEF IInv, MgrOK
<1>1. Kinds(pc[t], op[t], main[Host], answer.kind)
  BY DEF DeferInv, KindsOK
<1>2. UNCHANGED <<ckpt, policy, expired, answer>> /\ Follows
  BY FollowsItself DEF FinishStep, Reach, Terminalize, Finished, store, env, ghost
<1>3. Interrupted => \A u \in Threads : Taken(cur[u]) /\ Taken(op[u].rec)
  BY DEF DeferInv, LeavesAlone
<1>4. CASE Reach(Host)
  <2> DEFINE hop == NextHop(StateOf(Host, s), target)
             k == IF hop = target THEN "terminalize" ELSE "reach"
  <2>1. PICK c : c = [cur[t] EXCEPT !.cancelled = @ \/ hop = "cancelling"]
    OBVIOUS
  <2>2. /\ \/ Goto(t, "terminalize") /\ main' = main /\ op' = op /\ mgr' = mgr
           \/ transitionAndCheckpoint(t, s, c, hop, c.stage, k)
        /\ cur' = cur /\ pc[t] = "reach"
    BY <1>4, <2>1 DEF Reach
  <2>3. c \in ExecutionCheckpoint /\ c.snapshot = cur[t].snapshot
    <3>1. (cur[t].cancelled \/ hop = "cancelling") \in BOOLEAN
      OBVIOUS
    <3>2. QED
      BY <1>0, <2>1, <3>1 DEF ExecutionCheckpoint
  <2>4. Moving(t)
    BY <2>2 DEF Moving, Calm
  <2>5. CASE Goto(t, "terminalize") /\ main' = main /\ op' = op /\ mgr' = mgr
    <3>1. Kinds("terminalize", op'[t], main'[Host], answer'.kind)
      BY <1>1, <1>2, <2>2, <2>5 DEF Kinds, Place, ExecuteAt, RecoverAt
    <3>2. pc' = [pc EXCEPT ![t] = "terminalize"]
      BY <2>5 DEF Goto
    <3>3. QED
      BY <1>0, <1>2, <1>3, <2>2, <2>4, <2>5, <3>1, <3>2, GotoKeeps
  <2>6. CASE transitionAndCheckpoint(t, s, c, hop, c.stage, k)
    <3>1. Place(k, main[Host], answer.kind) /\ k \in AfterStore
      BY DEF Place, ExecuteAt, RecoverAt, AfterStore
    <3>2. Interrupted => Taken(c) /\ \A u \in Threads : Taken(cur'[u])
      BY <1>0, <1>3, <2>2, <2>3 DEF Taken
    <3> HIDE DEF k, hop
    <3>3. QED
      BY <1>0, <1>2, <2>3, <2>4, <2>6, <3>1, <3>2, TransitionKeeps
  <2>7. QED
    BY <2>2, <2>5, <2>6
<1>5. CASE Terminalize(Host)
  <2> DEFINE k == IF main[Host].kind # "execute" THEN "finished"
                  ELSE IF target = "completing" THEN "completed" ELSE "answer"
  <2>1. PICK c : c = [cur[t] EXCEPT !.result = IF target = "completing" THEN main[Host].value
                                               ELSE @,
                                    !.cancelled = @ \/ target = "cancelling"]
    OBVIOUS
  <2>2. /\ \/ upsert(t, Stamped(c, mgr[Host][s]), k) /\ mgr' = mgr
           \/ transitionAndCheckpoint(t, s, c, FinalState(target), "terminal", k)
        /\ cur' = cur /\ pc[t] = "terminalize"
    BY <1>5, <2>1 DEF Terminalize
  <2>3. c \in ExecutionCheckpoint /\ c.snapshot = cur[t].snapshot
    <3>1. (cur[t].cancelled \/ target = "cancelling") \in BOOLEAN
      OBVIOUS
    <3>2. (IF target = "completing" THEN main[Host].value ELSE cur[t].result) \in Nat
      BY <1>0 DEF ExecutionCheckpoint, MainLocals
    <3>3. QED
      BY <1>0, <2>1, <3>1, <3>2 DEF ExecutionCheckpoint
  <2>4. Moving(t)
    BY <2>2 DEF Moving, Calm
  <2>5. Place(k, main[Host], answer.kind) /\ k \in AfterStore
    BY DEF Place, ExecuteAt, RecoverAt, AfterStore
  <2>6. Interrupted => Taken(c) /\ \A u \in Threads : Taken(cur'[u])
    BY <1>0, <1>3, <2>2, <2>3 DEF Taken
  <2> HIDE DEF k
  <2>7. CASE upsert(t, Stamped(c, mgr[Host][s]), k)
    <3>1. PICK d : d = Stamped(c, mgr[Host][s])
      OBVIOUS
    <3>2. d \in ExecutionCheckpoint /\ d.snapshot = c.snapshot
      <4>1. d \in ExecutionCheckpoint
        BY <1>0, <2>3, <3>1, StampOK DEF IInv
      <4>2. QED
        BY <2>3, <3>1, <4>1 DEF Stamped, ExecutionCheckpoint
    <3>3. Interrupted => Taken(d) /\ \A u \in Threads : Taken(cur'[u])
      BY <2>6, <3>2 DEF Taken
    <3>4. upsert(t, d, k)
      BY <2>7, <3>1
    <3>5. QED
      BY <1>0, <1>2, <2>4, <2>5, <3>2, <3>3, <3>4, UpsertKeeps
  <2>8. CASE transitionAndCheckpoint(t, s, c, FinalState(target), "terminal", k)
    BY <1>0, <1>2, <2>3, <2>4, <2>5, <2>6, <2>8, TransitionKeeps
  <2>9. QED
    BY <2>2, <2>7, <2>8
<1>6. CASE Finished(Host)
  <2>1. /\ pc[t] = "finished" /\ pc' = [pc EXCEPT ![t] = "idle"] /\ op' = op
        /\ cur' = [cur EXCEPT ![t] = seedCheckpoint]
        /\ main' = [main EXCEPT ![Host] = NoMain]
    BY <1>6 DEF Finished, Goto
  <2>2. /\ pc'[t] = "idle" /\ \A u \in Threads : u # t => pc'[u] = pc[u]
        /\ main'[Host] = NoMain
        /\ \A u \in Threads : cur'[u] \in {cur[u], seedCheckpoint}
    BY <1>0, <2>1 DEF IInv, PcOK, MainOK, CurOK
  <2>3. NoMain.kind = "none" /\ NoMain.handler = "down" /\ ~seedCheckpoint.snapshot
    BY DEF NoMain, seedCheckpoint
  <2>4. t = Main(Host)' /\ Kinds("idle", op'[t], NoMain, answer'.kind)
    BY <2>3 DEF Kinds, Place, ExecuteAt, RecoverAt, Main
  <2>5. KindsOK' /\ BootsLate'
    BY <2>2, <2>4 DEF KindsOK, BootsLate
  <2>6. Interrupted' => Interrupted
    BY <1>1, <1>2, <2>1 DEF Kinds, Place, Interrupted
  <2>7. Interrupted /\ Deferred => Quiet'
    <3>1. \A w \in Workers : ~Alive(w) => ~Alive(w)'
      BY <2>2, HostFacts DEF Alive
    <3>2. QED
      BY <2>2, <2>4, <3>1 DEF DeferInv, LeavesAlone, Quiet, Calm
  <2>8. Interrupted => \A u \in Threads : Taken(cur'[u]) /\ Taken(op'[u].rec)
    BY <1>3, <2>1, <2>2, <2>3 DEF Taken
  <2>9. QED
    BY <1>2, <2>5, <2>6, <2>7, <2>8, StepKeeps
<1>7. QED
  BY <1>4, <1>5, <1>6 DEF FinishStep

-----------------------------------------------------------------------------
(* Boot recovery. *)

(* The decision for a record that is to be left alone.                      *)
LEMMA DecisionIgnores ==
  ASSUME OneHost, IInv, DeferInv, Deferred, pc[Main(Host)] = "recover"
  PROVE  Decision(Loaded(Main(Host)), main[Host].late) = "ignore"
<1>1. Loaded(Main(Host)) = ckpt
  <2>1. ckpt.rev > 0 /\ ckpt.rev \in Nat
    BY Typed DEF Deferred, DeferInv
  <2>2. QED
    BY <2>1 DEF Loaded
<1>2. main[Host].late => expired
  BY DEF DeferInv, BootsLate
<1>3. /\ policy.onRestart = "manual-recovery" /\ ckpt.snapshot
      /\ ~(policy.failIfCancelled /\ ckpt.cancelled)
      /\ ~(policy.failIfExpired /\ main[Host].late)
  BY <1>2 DEF Deferred
<1>4. QED
  BY <1>1, <1>3 DEF Decision, recoveryPolicyOf

LEMMA RecoverStepKeeps ==
  ASSUME OneHost, IInv, IInv', DeferInv, RecoverStep(Host)
  PROVE  DeferInv'
<1> DEFINE t == Main(Host)
<1>0. /\ t \in Threads /\ t \notin Workers /\ t[1] = Host /\ Host \in Procs
      /\ main[Host] \in MainLocals /\ cur[t] \in ExecutionCheckpoint
      /\ t = Main(Host)'
  BY HostFacts, Typed DEF Main
<1>1. Kinds(pc[t], op[t], main[Host], answer.kind)
  BY DEF DeferInv, KindsOK
<1>2. UNCHANGED <<ckpt, policy, expired, answer>> /\ Follows
  BY FollowsItself
     DEF RecoverStep, RecoverIgnores, RecoverTerminalizes, RecoverResumes, Resume, ResumeRun,
         Resumed, ResumeCatch, BootCheck, RecoveryFactFails, store, env, ghost
<1>3. Interrupted => \A u \in Threads : Taken(cur[u]) /\ Taken(op[u].rec)
  BY DEF DeferInv, LeavesAlone
<1>4. Interrupted => Taken(Loaded(t))
  BY <1>0, <1>3 DEF Loaded, Taken
<1>c. ASSUME \/ cur' = cur \/ cur' = [cur EXCEPT ![t] = Loaded(t)], op' = op
      PROVE  Interrupted => \A u \in Threads : Taken(cur'[u]) /\ Taken(op'[u].rec)
  <2>1. \A u \in Threads : cur'[u] \in {cur[u], Loaded(t)}
    BY <1>c DEF IInv, CurOK
  <2>2. QED
    BY <1>2, <1>3, <1>4, <1>c, <2>1 DEF Taken
<1>k. ASSUME NEW k \in {"resume", "resumeRun", "reach", "finished"}, NEW o, NEW m, NEW a,
             m.kind = "recover", m.handler \in {"bootCheck", "resumeCatch"}
      PROVE  Kinds(k, o, m, a)
  BY <1>k DEF Kinds, Place, ExecuteAt, RecoverAt
<1>g. ASSUME NEW k \in {"resumeRun", "reach", "finished"}, Goto(t, k), NEW m,
             main' = [main EXCEPT ![Host] = m], m.kind = "recover", m.late = main[Host].late,
             m.handler \in {"bootCheck", "resumeCatch"}, op' = op, pc[t] \notin Calm,
             \/ cur' = cur \/ cur' = [cur EXCEPT ![t] = Loaded(t)], main[Host].kind = "recover"
      PROVE  DeferInv'
  <2>1. pc' = [pc EXCEPT ![t] = k] /\ Moving(t)
    BY <1>0, <1>g DEF Goto, Moving
  <2>2. main'[Host] = m
    BY <1>0, <1>g DEF IInv, MainOK
  <2>3. Kinds(k, op'[t], main'[Host], answer'.kind)
    BY <1>g, <1>k, <2>2
  <2>4. Interrupted => \A u \in Threads : Taken(cur'[u]) /\ Taken(op'[u].rec)
    BY <1>c, <1>g
  <2>5. QED
    BY <1>0, <1>2, <1>g, <2>1, <2>2, <2>3, <2>4, GotoKeeps
<1>h. ASSUME NEW k \in {"resumeRun", "reach", "finished"}, Goto(t, k), main' = main,
             op' = op, pc[t] \in RecoverAt \ Calm,
             \/ cur' = cur \/ cur' = [cur EXCEPT ![t] = Loaded(t)]
      PROVE  DeferInv'
  <2>1. main[Host].kind = "recover" /\ main[Host].handler \in {"bootCheck", "resumeCatch"}
    BY <1>1, <1>h DEF Kinds, Place
  <2>2. main' = [main EXCEPT ![Host] = main[Host]]
    BY <1>0, <1>h DEF IInv, MainOK
  <2>3. QED
    BY <1>g, <1>h, <2>1, <2>2
(* The gate: Quiet, and anything but "ignore" means that it is not deferred. *)
<1>r. ASSUME NEW k \in {"resume", "reach", "finished"}, Goto(t, k), NEW m,
             main' = [main EXCEPT ![Host] = m], m.kind = "recover",
             m.handler \in {"bootCheck", "resumeCatch"}, op' = op, pc[t] = "recover",
             \/ cur' = cur \/ cur' = [cur EXCEPT ![t] = Loaded(t)],
             Deferred => k = "finished"
      PROVE  DeferInv'
  <2>1. /\ pc'[t] = k /\ \A u \in Threads : u # t => pc'[u] = pc[u]
        /\ main'[Host] = m
    BY <1>0, <1>r DEF Goto, IInv, PcOK, MainOK
  <2>2. Kinds(k, op'[t], main'[Host], answer'.kind)
    BY <1>k, <1>r, <2>1
  <2>3. KindsOK' /\ BootsLate'
    BY <1>0, <2>1, <2>2 DEF KindsOK, BootsLate
  <2>4. Interrupted' => Interrupted
    BY <1>1, <1>2, <1>r DEF Kinds, Place, RecoverAt, Interrupted
  <2>5. Interrupted /\ Deferred => Quiet'
    <3>1. \A w \in Workers : ~Alive(w) => ~Alive(w)'
      BY <2>1, HostFacts DEF Alive
    <3>2. QED
      BY <1>0, <1>r, <2>1, <3>1 DEF DeferInv, LeavesAlone, Quiet, Calm
  <2>6. Interrupted => \A u \in Threads : Taken(cur'[u]) /\ Taken(op'[u].rec)
    BY <1>c, <1>r
  <2>7. QED
    BY <1>2, <2>3, <2>4, <2>5, <2>6, StepKeeps
<1>5. CASE RecoverIgnores(Host)
  <2>1. pc[t] = "recover" /\ Goto(t, "finished") /\ main' = main /\ op' = op /\ cur' = cur
    BY <1>5 DEF RecoverIgnores
  <2>2. main[Host].kind = "recover" /\ main[Host].handler \in {"bootCheck", "resumeCatch"}
    BY <1>1, <2>1 DEF Kinds, Place, RecoverAt
  <2>3. main' = [main EXCEPT ![Host] = main[Host]]
    BY <1>0, <2>1 DEF IInv, MainOK
  <2>4. QED
    BY <1>r, <2>1, <2>2, <2>3
<1>6. CASE RecoverTerminalizes(Host)
  <2>1. PICK d : main' = [main EXCEPT ![Host].slot = "end", ![Host].target = d]
    BY <1>6 DEF RecoverTerminalizes
  <2>2. PICK m : m = [main[Host] EXCEPT !.slot = "end", !.target = d]
    OBVIOUS
  <2>3. main' = [main EXCEPT ![Host] = m]
    BY <2>1, <2>2
  <2>4. /\ pc[t] = "recover" /\ Goto(t, "reach") /\ op' = op
        /\ cur' = [cur EXCEPT ![t] = Loaded(t)]
        /\ Decision(Loaded(t), main[Host].late) # "ignore"
    BY <1>6 DEF RecoverTerminalizes
  <2>5. main[Host].kind = "recover" /\ main[Host].handler \in {"bootCheck", "resumeCatch"}
    BY <1>1, <2>4 DEF Kinds, Place, RecoverAt
  <2>6. m.kind = "recover" /\ m.handler \in {"bootCheck", "resumeCatch"}
    BY <1>0, <2>2, <2>5 DEF MainLocals
  <2>7. ~Deferred
    BY <2>4, DecisionIgnores
  <2>8. QED
    BY <1>r, <2>3, <2>4, <2>6, <2>7
<1>7. CASE RecoverResumes(Host)
  <2>1. PICK m : m = [main[Host] EXCEPT !.handler = "resumeCatch", !.attempt = 1]
    OBVIOUS
  <2>2. main' = [main EXCEPT ![Host] = m]
    BY <1>7, <2>1 DEF RecoverResumes
  <2>3. /\ pc[t] = "recover" /\ Goto(t, "resume") /\ op' = op
        /\ cur' = [cur EXCEPT ![t] = Loaded(t)]
        /\ Decision(Loaded(t), main[Host].late) # "ignore"
    BY <1>7 DEF RecoverResumes
  <2>4. main[Host].kind = "recover"
    BY <1>1, <2>3 DEF Kinds, Place, RecoverAt
  <2>5. m.kind = "recover" /\ m.handler \in {"bootCheck", "resumeCatch"}
    BY <1>0, <2>1, <2>4 DEF MainLocals
  <2>6. ~Deferred
    BY <2>3, DecisionIgnores
  <2>7. QED
    BY <1>r, <2>2, <2>3, <2>5, <2>6
<1>8. CASE Resume(Host)
  <2>1. /\ pc[t] = "resume" /\ cur' = cur
        /\ \/ transitionAndCheckpoint(t, "run", cur[t], "recovering", cur[t].stage, "resumeRun")
           \/ Goto(t, "resumeRun") /\ main' = main /\ op' = op
    BY <1>8 DEF Resume
  <2>2. Moving(t) /\ pc[t] \in RecoverAt \ Calm
    BY <2>1 DEF Moving, Calm, RecoverAt
  <2>3. Place("resumeRun", main[Host], answer.kind) /\ "resumeRun" \in AfterStore
    BY <1>1, <2>1 DEF Kinds, Place, ExecuteAt, RecoverAt, AfterStore
  <2>4. Interrupted => Taken(cur[t]) /\ \A u \in Threads : Taken(cur'[u])
    BY <1>0, <1>2, <1>3, <2>1 DEF Taken
  <2>5. CASE transitionAndCheckpoint(t, "run", cur[t], "recovering", cur[t].stage, "resumeRun")
    BY <1>0, <1>2, <2>2, <2>3, <2>4, <2>5, TransitionKeeps
  <2>6. QED
    BY <1>h, <2>1, <2>2, <2>5
<1>9. CASE ResumeRun(Host)
  <2>1. PICK b : /\ StartWorker(Host, main[Host].attempt, cur[t].stage, b)
                 /\ main' = main /\ op' = op /\ pc[t] = "resumeRun"
    BY <1>9 DEF ResumeRun
  <2>2. Moving(t)
    BY <2>1 DEF Moving, Calm
  <2>3. QED
    BY <1>2, <2>1, <2>2, StartWorkerDefers
<1>10. CASE Resumed(Host)
  <2>1. /\ \E k \in {"finished", "reach"} : Goto(t, k)
        /\ pc[t] = "resumed" /\ main' = main /\ op' = op
        /\ cur' = [cur EXCEPT ![t] = Loaded(t)]
    BY <1>10 DEF Resumed
  <2>2. QED
    BY <1>h, <2>1 DEF RecoverAt, Calm
<1>11. CASE ResumeCatch(Host)
  <2> DEFINE lost == main[Host].err = "CONFLICT" \/ Loaded(t).terminal
  <2>1. /\ pc[t] = "resumeCatch" /\ op' = op
        /\ cur' = cur \/ cur' = [cur EXCEPT ![t] = Loaded(t)]
    BY <1>0, <1>11 DEF ResumeCatch, IInv, CurOK
  <2>2. CASE lost
    <3>1. Goto(t, "finished") /\ main' = main
      BY <1>11, <2>2 DEF ResumeCatch
    <3>2. QED
      BY <1>h, <2>1, <3>1 DEF RecoverAt, Calm
  <2>3. CASE ~lost
    <3>1. PICK m : m = [main[Host] EXCEPT !.slot = "end", !.handler = "bootCheck",
                                          !.target = "failed"]
      OBVIOUS
    <3>2. main' = [main EXCEPT ![Host] = m] /\ Goto(t, "reach")
      BY <1>11, <2>3, <3>1 DEF ResumeCatch
    <3>3. main[Host].kind = "recover" /\ pc[t] \notin Calm
      BY <1>1, <2>1 DEF Kinds, Place, RecoverAt, Calm
    <3>4. m.kind = "recover" /\ m.handler = "bootCheck" /\ m.late = main[Host].late
      BY <1>0, <3>1, <3>3 DEF MainLocals
    <3>5. QED
      BY <1>g, <2>1, <3>2, <3>3, <3>4
  <2>4. QED
    BY <2>2, <2>3
<1>12. CASE BootCheck(Host)
  <2>1. /\ pc[t] = "bootCheck"
        /\ \/ Goto(t, "finished") /\ main' = main /\ cur' = cur /\ op' = op
           \/ StopProcess(Host)
    BY <1>12 DEF BootCheck
  <2>2. CASE Goto(t, "finished") /\ main' = main /\ cur' = cur /\ op' = op
    BY <1>h, <2>1, <2>2 DEF RecoverAt, Calm
  <2>3. QED
    BY <1>2, <2>1, <2>2, StopKeeps
<1>13. CASE RecoveryFactFails(Host)
  BY <1>2, <1>13, StopKeeps DEF RecoveryFactFails
<1>14. QED
  BY <1>5, <1>6, <1>7, <1>8, <1>9, <1>10, <1>11, <1>12, <1>13 DEF RecoverStep

-----------------------------------------------------------------------------
(* The environment: boot, request, abort, the clock. *)

LEMMA EnvironmentKeeps ==
  ASSUME OneHost, IInv, IInv', DeferInv, Boot(Host) \/ Start(Host) \/ Abort(Host) \/ Expire
  PROVE  DeferInv'
<1> DEFINE t == Main(Host)
<1>0. /\ t \in Threads /\ t \notin Workers /\ Host \in Procs /\ t[1] = Host
      /\ main[Host] \in MainLocals /\ t = Main(Host)'
  BY HostFacts, Typed DEF Main
<1>1. Kinds(pc[t], op[t], main[Host], answer.kind)
  BY DEF DeferInv, KindsOK
<1>2. Interrupted => \A u \in Threads : Taken(cur[u]) /\ Taken(op[u].rec)
  BY DEF DeferInv, LeavesAlone
<1>3. UNCHANGED <<ckpt, policy>> /\ Follows /\ (expired => expired')
  BY FollowsItself DEF Boot, Start, Abort, Expire, store, env
<1>4. CASE Boot(Host)
  <2> DEFINE incomplete == ckpt.rev > 0 /\ ~ckpt.terminal
             k == IF incomplete THEN "recover" ELSE "idle"
  <2>1. PICK m : m = IF incomplete THEN [NoMain EXCEPT !.kind = "recover",
                                                       !.handler = "bootCheck",
                                                       !.late = expired]
                                   ELSE NoMain
    OBVIOUS
  <2>2. /\ main' = [main EXCEPT ![Host] = m] /\ pc' = [pc EXCEPT ![t] = k]
        /\ pc[t] = "down" /\ op' = op /\ answer' = answer /\ expired' = expired
        /\ cur' = [cur EXCEPT ![t] = IF incomplete THEN ckpt ELSE cur[t]]
    BY <1>4, <2>1 DEF Boot, Goto, env, ghost
  <2>3. /\ main'[Host] = m /\ pc'[t] = k /\ \A u \in Threads : u # t => pc'[u] = pc[u]
        /\ \A u \in Threads : cur'[u] \in {cur[u], ckpt}
    BY <1>0, <2>2 DEF IInv, PcOK, MainOK, CurOK
  <2>4. /\ incomplete => m.kind = "recover" /\ m.handler = "bootCheck" /\ m.late = expired
        /\ ~incomplete => m.kind = "none" /\ m.handler = "down"
    BY <2>1 DEF NoMain
  <2>5. Kinds(k, op'[t], m, answer'.kind)
    BY <2>4 DEF Kinds, Place, ExecuteAt, RecoverAt
  <2>6. KindsOK' /\ BootsLate'
    BY <1>0, <2>2, <2>3, <2>4, <2>5 DEF KindsOK, BootsLate
  <2>7. Interrupted' => Interrupted
    BY <1>1, <2>2 DEF Kinds, Interrupted
  <2>8. Interrupted /\ Deferred => Quiet'
    <3>1. \A w \in Workers : ~Alive(w) => ~Alive(w)'
      BY <2>3, HostFacts DEF Alive
    <3>2. QED
      BY <1>0, <2>3, <3>1 DEF DeferInv, LeavesAlone, Quiet, Calm
  <2>9. Interrupted => \A u \in Threads : Taken(cur'[u]) /\ Taken(op'[u].rec)
    BY <1>2, <2>2, <2>3 DEF Taken
  <2>10. QED
    BY <1>3, <2>6, <2>7, <2>8, <2>9, StepKeeps
<1>5. CASE Start(Host)
  <2>1. PICK m : m = [NoMain EXCEPT !.kind = "execute", !.handler = "catch"]
    OBVIOUS
  <2>2. /\ main' = [main EXCEPT ![Host] = m] /\ pc' = [pc EXCEPT ![t] = "store"]
        /\ op' = [op EXCEPT ![t] = [rec |-> Stamped(seedCheckpoint, <<"created", "initializing">>),
                                    fact |-> TRUE, then |-> "authorize"]]
        /\ answer.kind = "unsent" /\ expired' = expired
    BY <1>5, <2>1 DEF Start, env
  <2>3. main'[Host] = m /\ pc'[t] = "store" /\ op'[t].then = "authorize"
    BY <1>0, <2>2 DEF IInv, PcOK, MainOK, OpOK
  <2>4. m.kind = "execute" /\ m.handler = "catch"
    BY <2>1 DEF NoMain
  <2>5. Kinds("store", op'[t], m, answer'.kind)
    BY <2>3, <2>4 DEF Kinds, Place, ExecuteAt, RecoverAt, AfterStore
  <2>6. KindsOK' /\ BootsLate' /\ ~Interrupted' /\ ~Interrupted
    BY <1>0, <2>2, <2>3, <2>4, <2>5 DEF KindsOK, BootsLate, Interrupted
  <2>7. QED
    BY <1>3, <2>6, StepKeeps
<1>6. CASE Abort(Host)
  <2>1. /\ main[Host].kind = "execute" /\ answer' = answer /\ expired' = expired
        /\ cur' = cur /\ op' = op
    BY <1>6 DEF Abort, ghost
  <2>2. ~Interrupted
    BY <2>1 DEF Interrupted
  <2>3. CASE pc[t] = "await"
    <3>1. Throw(t, "CANCELLED") /\ Moving(t)
      BY <1>6, <2>3 DEF Abort, Moving, Calm
    <3>2. QED
      BY <1>0, <1>3, <2>1, <2>2, <3>1, ThrowKeeps
  <2>4. CASE pc[t] # "await"
    <3>1. pc' = pc /\ main' = main
      BY <1>6, <2>4 DEF Abort
    <3>2. KindsOK' /\ BootsLate' /\ ~Interrupted'
      BY <1>0, <2>1, <2>2, <3>1 DEF DeferInv, KindsOK, BootsLate, Interrupted
    <3>3. QED
      BY <1>3, <2>2, <3>2, StepKeeps
  <2>5. QED
    BY <2>3, <2>4
<1>7. CASE Expire
  <2>1. expired' /\ answer' = answer /\ pc' = pc /\ main' = main /\ cur' = cur /\ op' = op
    BY <1>7 DEF Expire, local, ghost
  <2>2. KindsOK' /\ BootsLate' /\ (Interrupted' => Interrupted)
    BY <1>0, <2>1 DEF DeferInv, KindsOK, BootsLate, Interrupted
  <2>3. Interrupted /\ Deferred => Quiet'
    <3>1. \A w \in Workers : ~Alive(w) => ~Alive(w)'
      BY <2>1 DEF Alive
    <3>2. QED
      BY <1>0, <2>1, <3>1 DEF DeferInv, LeavesAlone, Quiet
  <2>4. Interrupted => \A u \in Threads : Taken(cur'[u]) /\ Taken(op'[u].rec)
    BY <1>2, <2>1 DEF Taken
  <2>5. QED
    BY <1>3, <2>1, <2>2, <2>3, <2>4, StepKeeps
<1>8. QED
  BY <1>4, <1>5, <1>6, <1>7

-----------------------------------------------------------------------------
(* Delegated work. *)

LEMMA ReturnKeeps ==
  ASSUME OneHost, IInv, IInv', DeferInv, NEW w \in Workers, Return(w)
  PROVE  DeferInv'
<1> DEFINE M == Main(Host)
           next == IF main[Host].kind = "execute" THEN "succeeded" ELSE "resumed"
<1>0. /\ w \in Threads /\ w[1] = Host /\ w # M /\ M \in Threads
      /\ Host \in Procs /\ main[Host] \in MainLocals
  BY HostFacts, Typed
<1>1. /\ pc[w] = "return" /\ UNCHANGED <<ckpt, policy, expired, answer>>
      /\ cur' = cur /\ op' = op
  BY DEF Return, store, env, ghost
<1>2. pc'[M] = IF Awaited(w) THEN next ELSE pc[M]
  BY <1>0, HostFacts DEF Return
<1>3. Awaited(w) => pc[M] = "await"
  BY <1>0 DEF Awaited
<1>4. /\ main'[Host].kind = main[Host].kind /\ main'[Host].late = main[Host].late
      /\ main'[Host].handler = IF Awaited(w) /\ main[Host].handler = "retry" THEN "catch"
                               ELSE main[Host].handler
  <2>1. CASE Awaited(w)
    <3>1. PICK m : m = [main[Host] EXCEPT !.value = loc[w].call, !.target = "completing",
                          !.handler = IF main[Host].handler = "retry" THEN "catch"
                                      ELSE main[Host].handler]
      OBVIOUS
    <3>2. main' = [main EXCEPT ![Host] = m]
      BY <1>0, <2>1, <3>1 DEF Return
    <3>3. main'[Host] = m
      BY <1>0, <3>2 DEF IInv, MainOK
    <3>4. QED
      BY <1>0, <2>1, <3>1, <3>3 DEF MainLocals
  <2>2. CASE ~Awaited(w)
    BY <2>2 DEF Return
  <2>3. QED
    BY <2>1, <2>2
<1>5. Kinds(pc[M], op[M], main[Host], answer.kind)
  BY DEF DeferInv, KindsOK
<1>6. main[Host].kind \in {"none", "execute", "recover"}
  BY KindIs
<1>7. Kinds(pc'[M], op[M], main'[Host], answer.kind)
  <2>1. CASE Awaited(w)
    BY <1>2, <1>3, <1>4, <1>5, <1>6, <2>1 DEF Kinds, Place, ExecuteAt, RecoverAt
  <2>2. CASE ~Awaited(w)
    BY <1>2, <1>4, <1>5, <2>2 DEF Kinds, Place
  <2>3. QED
    BY <2>1, <2>2
<1>8. KindsOK' /\ (pc'[M] = "recover" => pc[M] = "recover")
  BY <1>1, <1>2, <1>7 DEF KindsOK, Main
<1>9. Moving(w) /\ Follows
  BY <1>0, <1>1, FollowsItself DEF Moving, Alive
<1>10. Interrupted => \A u \in Threads : Taken(cur'[u]) /\ Taken(op'[u].rec)
  BY <1>1 DEF DeferInv, LeavesAlone, Taken
<1>11. QED
  BY <1>0, <1>1, <1>4, <1>8, <1>9, <1>10, ActKeeps

LEMMA WorkerStepKeeps ==
  ASSUME OneHost, IInv, IInv', DeferInv, NEW w \in Workers, WorkerStep(w)
  PROVE  DeferInv'
<1>0. /\ w \in Threads /\ w[1] = Host /\ w # Main(Host) /\ Host \in Procs
      /\ Main(Host) \in Threads /\ "run" \in Slot
      /\ cur[w] \in ExecutionCheckpoint /\ loc[w] \in WorkerLocals
      /\ mgr[w[1]]["run"] \in Seq(ExecutionState)
  BY HostFacts, Typed DEF IInv, LocOK, MgrOK, Slot
<1>1. UNCHANGED <<ckpt, policy, expired, answer>> /\ Follows /\ Moving(w)
  BY <1>0, FollowsItself
     DEF WorkerStep, Enter, PlanStage, Planning, WorkStage, Working, Ready, Invoke,
         InvokeReturns, PersistToolLoop, Invoked, Return, store, env, ghost, Alive, Moving
<1>2. Loaded(w) \in ExecutionCheckpoint
  BY <1>0, LoadedOK DEF IInv
<1>3. Interrupted => \A u \in Threads : Taken(cur[u]) /\ Taken(op[u].rec)
  BY DEF DeferInv, LeavesAlone
<1>4. Interrupted => Taken(cur[w]) /\ Taken(Loaded(w))
  BY <1>0, <1>3 DEF Loaded, Taken
<1>x. Interrupted => \A u \in Threads : Taken(cur'[u])
  <2>1. cur' = cur \/ cur' = [cur EXCEPT ![w] = Loaded(w)]
    BY DEF WorkerStep, Enter, PlanStage, Planning, WorkStage, Working, Ready, Invoke,
           InvokeReturns, PersistToolLoop, Invoked, Return
  <2>2. \A u \in Threads : cur'[u] \in {cur[u], Loaded(w)}
    BY <2>1 DEF IInv, CurOK
  <2>3. QED
    BY <1>1, <1>3, <1>4, <2>2 DEF Taken
<1>y. op' = op => (Interrupted => \A u \in Threads : Taken(cur'[u]) /\ Taken(op'[u].rec))
  BY <1>1, <1>3, <1>x DEF Taken
<1>g. ASSUME NEW k, Goto(w, k), main' = main, op' = op
      PROVE  DeferInv'
  <2>1. pc' = [pc EXCEPT ![w] = k]
    BY <1>g DEF Goto
  <2>2. QED
    BY <1>0, <1>1, <1>g, <1>y, <2>1, GotoKeeps
<1>t. ASSUME NEW e, Throw(w, e), op' = op
      PROVE  DeferInv'
  BY <1>0, <1>1, <1>t, <1>y, ThrowKeeps
<1>u. ASSUME NEW c \in ExecutionCheckpoint, NEW k, upsert(w, c, k), Interrupted => Taken(c)
      PROVE  DeferInv'
  BY <1>0, <1>1, <1>u, <1>x, UpsertKeeps
<1>s. ASSUME NEW c \in ExecutionCheckpoint, NEW k, upsert(w, Stamped(c, mgr[w[1]]["run"]), k),
             Interrupted => Taken(c)
      PROVE  DeferInv'
  <2>1. PICK d : d = Stamped(c, mgr[w[1]]["run"])
    OBVIOUS
  <2>2. d \in ExecutionCheckpoint
    BY <1>0, <2>1, StampOK DEF IInv
  <2>3. d.snapshot = c.snapshot
    BY <2>1, <2>2 DEF Stamped, ExecutionCheckpoint
  <2>4. QED
    BY <1>s, <1>u, <2>1, <2>2, <2>3 DEF Taken
<1>v. ASSUME NEW c \in ExecutionCheckpoint, NEW next, NEW stage, NEW k,
             transitionAndCheckpoint(w, "run", c, next, stage, k), Interrupted => Taken(c)
      PROVE  DeferInv'
  BY <1>0, <1>1, <1>v, <1>x, TransitionKeeps
<1>5. CASE Enter(w)
  <2>1. \/ \E k \in {"return", "plan"} : Goto(w, k) /\ main' = main /\ op' = op
        \/ Throw(w, "FAILED") /\ op' = op
        \/ \E next : transitionAndCheckpoint(w, "run", Loaded(w), next, Loaded(w).stage, "plan")
    BY <1>5 DEF Enter
  <2>2. QED
    BY <1>2, <1>4, <1>g, <1>t, <1>v, <2>1
<1>6. CASE PlanStage(w)
  <2>1. \/ \E k \in {"work", "planning"} : Goto(w, k) /\ main' = main /\ op' = op
        \/ Throw(w, "FAILED") /\ op' = op
        \/ transitionAndCheckpoint(w, "run", cur[w], "planning", cur[w].stage, "planning")
    BY <1>6 DEF PlanStage
  <2>2. QED
    BY <1>0, <1>4, <1>g, <1>t, <1>v, <2>1
<1>7. CASE Planning(w)
  <2>1. PICK c : c = [cur[w] EXCEPT !.plan = TRUE, !.stage = "post-planning"]
    OBVIOUS
  <2>2. c \in ExecutionCheckpoint /\ c.snapshot = cur[w].snapshot
    BY <1>0, <2>1 DEF ExecutionCheckpoint, ExecutionStage
  <2>3. \/ upsert(w, Stamped(c, mgr[w[1]]["run"]), "work")
        \/ Throw(w, "FAILED") /\ op' = op
    BY <1>7, <2>1 DEF Planning
  <2>4. QED
    BY <1>4, <1>s, <1>t, <2>2, <2>3 DEF Taken
<1>8. CASE WorkStage(w)
  <2>1. \/ \E k \in {"ready", "working"} : Goto(w, k) /\ main' = main /\ op' = op
        \/ Throw(w, "FAILED") /\ op' = op
        \/ transitionAndCheckpoint(w, "run", cur[w], "executing", "post-planning", "working")
    BY <1>8 DEF WorkStage
  <2>2. QED
    BY <1>0, <1>4, <1>g, <1>t, <1>v, <2>1
<1>9. CASE Working(w)
  <2>1. PICK c : c = [cur[w] EXCEPT !.plan = loc[w].plan, !.work = TRUE,
                                    !.stage = "post-workflow"]
    OBVIOUS
  <2>2. c \in ExecutionCheckpoint /\ c.snapshot = cur[w].snapshot
    BY <1>0, <2>1 DEF ExecutionCheckpoint, ExecutionStage, WorkerLocals
  <2>3. \/ upsert(w, Stamped(c, mgr[w[1]]["run"]), "ready")
        \/ Throw(w, "FAILED") /\ op' = op
    BY <1>9, <2>1 DEF Working
  <2>4. QED
    BY <1>4, <1>s, <1>t, <2>2, <2>3 DEF Taken
<1>10. CASE Ready(w)
  <2>1. PICK c : c = [cur[w] EXCEPT !.plan = loc[w].plan, !.work = loc[w].work,
                                    !.stage = "pre-invoke"]
    OBVIOUS
  <2>2. c \in ExecutionCheckpoint /\ c.snapshot = cur[w].snapshot
    BY <1>0, <2>1 DEF ExecutionCheckpoint, ExecutionStage, WorkerLocals
  <2>3. upsert(w, Stamped(c, mgr[w[1]]["run"]), "invoke")
    BY <1>10, <2>1 DEF Ready
  <2>4. QED
    BY <1>4, <1>s, <2>2, <2>3 DEF Taken
<1>11. CASE Invoke(w) \/ InvokeReturns(w)
  <2>1. /\ \/ Throw(w, "FAILED")
           \/ \E k \in {"invoking", "invoked"} : Goto(w, k) /\ main' = main
        /\ op' = op
    BY <1>11 DEF Invoke, InvokeReturns
  <2>2. QED
    BY <1>g, <1>t, <2>1
<1>12. CASE PersistToolLoop(w)
  <2>1. upsert(w, Loaded(w), "invoking")
    BY <1>12 DEF PersistToolLoop
  <2>2. QED
    BY <1>2, <1>4, <1>u, <2>1
<1>13. CASE Invoked(w)
  <2>1. PICK c : c = [Loaded(w) EXCEPT !.plan = loc[w].plan, !.work = loc[w].work,
                                       !.result = loc[w].call, !.stage = "post-invoke"]
    OBVIOUS
  <2>2. c \in ExecutionCheckpoint /\ c.snapshot = Loaded(w).snapshot
    BY <1>0, <1>2, <2>1 DEF ExecutionCheckpoint, ExecutionStage, WorkerLocals
  <2>3. upsert(w, Stamped(c, mgr[w[1]]["run"]), "return")
    BY <1>13, <2>1 DEF Invoked
  <2>4. QED
    BY <1>4, <1>s, <2>2, <2>3 DEF Taken
<1>14. CASE Return(w)
  BY <1>14, ReturnKeeps
<1>15. QED
  BY <1>5, <1>6, <1>7, <1>8, <1>9, <1>10, <1>11, <1>12, <1>13, <1>14 DEF WorkerStep

-----------------------------------------------------------------------------

LEMMA DeferInit ==
  ASSUME OneHost, Init
  PROVE  DeferInv
<1>0. Host \in Procs /\ Main(Host) \in Threads /\ Main(Host)[2] = 0
      /\ \A w \in Workers : w \in Threads /\ w[2] # 0
  BY HostFacts
<1>1. /\ ckpt = seedCheckpoint /\ answer.kind = "unsent"
      /\ main[Host] = NoMain /\ pc[Main(Host)] = "down"
  BY <1>0 DEF Init
<1>2. NoMain.kind = "none" /\ NoMain.handler = "down" /\ ~seedCheckpoint.snapshot
  BY DEF NoMain, seedCheckpoint
<1>3. Kinds("down", op[Main(Host)], NoMain, answer.kind)
  BY <1>2 DEF Kinds, Place, ExecuteAt, RecoverAt
<1>4. QED
  BY <1>1, <1>2, <1>3 DEF DeferInv, KindsOK, BootsLate, LeavesAlone, Interrupted

LEMMA DeferNext ==
  ASSUME OneHost, IInv, RecordInv, DeferInv, [Next]_vars
  PROVE  DeferInv'
<1>0. IInv' /\ Procs = {Host} /\ Kept(ckpt, ckpt')
  BY NextInv, RecordNext, HostFacts
<1>1. CASE UNCHANGED vars
  BY <1>1 DEF vars, DeferInv, KindsOK, BootsLate, LeavesAlone, Interrupted, Taken,
     Deferred, Quiet, Alive, Main
<1>2. CASE Boot(Host) \/ Start(Host) \/ Abort(Host) \/ Expire
  BY <1>0, <1>2, EnvironmentKeeps
<1>3. CASE Crash(Host)
  <2>1. StopProcess(Host) /\ UNCHANGED <<ckpt, policy, expired, answer>>
    BY <1>3 DEF Crash, store, ghost
  <2>2. QED
    BY <2>1, StopKeeps
<1>4. CASE ExecuteStep(Host)
  BY <1>0, <1>4, ExecuteStepKeeps
<1>5. CASE FinishStep(Host)
  BY <1>0, <1>5, FinishStepKeeps
<1>6. CASE RecoverStep(Host)
  BY <1>0, <1>6, RecoverStepKeeps
<1>7. CASE \E t \in Threads : StoreStep(t)
  BY <1>0, <1>7, StoreStepKeeps
<1>8. CASE \E w \in Workers : WorkerStep(w)
  BY <1>0, <1>8, WorkerStepKeeps
<1>9. QED
  BY <1>0, <1>1, <1>2, <1>3, <1>4, <1>5, <1>6, <1>7, <1>8 DEF Next

(* DeferredIsUntouched, for one host (runtime.ts 838-930): under manual      *)
(* recovery a restarted host leaves an interrupted execution alone, however *)
(* often it crashes and boots again and whether or not the deadline passes. *)
THEOREM ManualRecoveryLeavesAlone ==
  ASSUME OneHost
  PROVE  Spec => DeferredIsUntouched
<1>1. Init => IInv /\ RecordInv /\ DeferInv
  BY InitInv, RecordInit, DeferInit
<1>2. IInv /\ RecordInv /\ DeferInv /\ [Next]_vars => (IInv /\ RecordInv /\ DeferInv)'
  BY NextInv, RecordNext, DeferNext
<1>3. IInv /\ DeferInv /\ [Next]_vars => [Deferred => UNCHANGED ckpt]_vars
  <2> SUFFICES ASSUME IInv, DeferInv, Next, Deferred PROVE ckpt' = ckpt
    OBVIOUS
  <2>1. Procs = {Host} /\ \A t \in Threads : t = Main(Host) \/ t \in Workers
    BY HostFacts
  <2>2. Quiet
    BY <2>1 DEF Deferred, DeferInv, LeavesAlone, Interrupted
  <2>3. \A t \in Threads : pc[t] # "store"
    BY <2>1, <2>2 DEF Quiet, Calm, Alive
  <2>4. ASSUME NEW t \in Threads, StoreStep(t) PROVE ckpt' = ckpt
    BY <2>3, <2>4 DEF StoreStep, StoreCommits, StoreConflicts, StoreFails, Reload,
       PublishFails, store
  <2>5. ASSUME NEW w \in Workers, WorkerStep(w) PROVE ckpt' = ckpt
    BY <2>5 DEF WorkerStep, Enter, PlanStage, Planning, WorkStage, Working, Ready, Invoke,
       InvokeReturns, PersistToolLoop, Invoked, Return, store
  <2>6. ASSUME NEW p \in Procs,
               Boot(p) \/ Start(p) \/ Abort(p) \/ Crash(p) \/ ExecuteStep(p) \/ FinishStep(p)
                 \/ RecoverStep(p)
        PROVE  ckpt' = ckpt
    BY <2>6 DEF Boot, Start, Abort, Crash, ExecuteStep, Authorize, Schedule, Attempt, Run,
       TimerFires, Retry, Backoff, Succeeded, Completed, Catch, Fail, Cancelled, Answer,
       FinishStep, Reach, Terminalize, Finished, RecoverStep, RecoverIgnores,
       RecoverTerminalizes, RecoverResumes, Resume, ResumeRun, Resumed, ResumeCatch,
       BootCheck, RecoveryFactFails, store
  <2>7. Expire => ckpt' = ckpt
    BY DEF Expire, store
  <2>8. QED
    BY <2>4, <2>5, <2>6, <2>7 DEF Next
<1>4. QED
  BY <1>1, <1>2, <1>3, PTL DEF Spec, DeferredIsUntouched

=============================================================================
