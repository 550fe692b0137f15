------------------------------- MODULE AgentsProofs -------------------------------
(* The runs of agents, for every set of tools, steps and members and any number of    *)
(* calls, turns, crashes and faults: the host's tool loop hands a tool its call once   *)
(* (ToolLoopInv, NothingRerun), the embedded agent runs none unapproved (AgentCorrect), *)
(* a workflow records what has run and in its order (WorkflowInv), a team passes over   *)
(* no failure and no cancellation (TeamInv).                                            *)
EXTENDS ToolLoop, AgentApprovals, Workflow, Team, WellFoundedInduction, TLAPS

-----------------------------------------------------------------------------
(* The tool loop: the inductive invariant. *)

InTurn == run.at \in {"call", "invoke", "running", "ran"}
Among(c, proposed) == \E i \in DOMAIN proposed : proposed[i] = c

\* the calls of a turn are made in its order: what was reached follows what is done
InOrder(proposed, calls) ==
  /\ \A i, j \in DOMAIN proposed : proposed[i] = proposed[j] => i = j
  /\ \A c \in ToolCalls : calls[c] # "none" => Among(c, proposed)
  /\ \A i, j \in DOMAIN proposed :
       i < j /\ calls[proposed[j]] # "none" => calls[proposed[i]] = "post-tool"

\* the checkpoint knows of every call of its turn that was started
CheckpointOK ==
  /\ InOrder(saved.proposed, saved.calls)
  /\ saved.proposed = <<>> => saved = NoLoop /\ \A c \in ToolCalls : invoked[c] = 0
  /\ \A c \in ToolCalls :
       invoked[c] > 0 /\ Among(c, saved.proposed) => saved.calls[c] # "none"

\* the attempt is at the call the checkpoint is at
AttemptOK ==
  /\ run.at = "load" => ~run.resumed /\ run.seen = {}
  /\ InTurn => /\ saved.proposed = run.proposed /\ saved.turn = run.turn
               /\ run.proposed # <<>> /\ InOrder(run.proposed, run.admitted)
  /\ run.at = "call" => saved.calls = run.admitted
  /\ run.at \in {"invoke", "running", "ran"} => Turn # {} /\ saved.calls = With("pre-tool")
  /\ run.at = "invoke" /\ Current \in NonIdempotent => invoked[Current] = 0

\* the first attempt remembers every call of the turns before
SeenOK ==
  ~run.resumed =>
    /\ run.at = "ask" => \A c \in ToolCalls : invoked[c] > 0 => c \in run.seen
    /\ InTurn => \A c \in ToolCalls :
         /\ invoked[c] > 0 => c \in run.seen \/ Among(c, run.proposed)
         /\ run.admitted[c] = "post-tool" => c \in run.seen

\* nobody runs on unaborted once the execution has its outcome
OutcomeOK == outcome # "incomplete" => run.aborted \/ run.at \in {"ended", "failed"}

\* a result once stored stays in the checkpoint as long as its turn does
DurableOK ==
  /\ \A c \in durable : invoked[c] > 0
  /\ \A c \in durable : Among(c, saved.proposed) => saved.calls[c] = "post-tool"
  /\ run.at \in {"running", "ran"} => invoked[Current] > 0

ToolLoopIInv ==
  /\ ToolLoopTypeOK /\ CheckpointOK /\ AttemptOK /\ SeenOK /\ OutcomeOK /\ DurableOK
  /\ EffectAtMostOnce

-----------------------------------------------------------------------------
(* Lemmas about the call the loop is at. *)

\* A nonempty set of natural numbers has a smallest member.
LEMMA Smallest ==
  ASSUME NEW T \in SUBSET Nat, T # {}
  PROVE  \E i \in T : \A j \in T : i <= j
<1>1. IsWellFoundedOn(OpToRel(<, Nat), Nat)
  BY NatLessThanWellFounded
<1>2. PICK i \in T : \A j \in T : ~(<<j, i>> \in OpToRel(<, Nat))
  BY <1>1, WFMin, Zenon
<1>3. \A j \in T : ~(j < i)
  BY <1>2, Zenon DEF OpToRel
<1>4. i \in Nat /\ \A j \in T : j \in Nat
  OBVIOUS
<1>5. \A j \in T : i <= j
  BY <1>3, <1>4
<1> QED
  BY <1>5, Zenon

\* Where a turn has calls left, the current one is the first of them.
LEMMA CurrentIsFirst ==
  ASSUME run \in Attempt, Turn # {}
  PROVE  \E i \in DOMAIN run.proposed :
           /\ i \in Turn /\ Current = run.proposed[i]
           /\ \A j \in DOMAIN run.proposed : j < i => Done(run.proposed[j])
<1>1. /\ run.proposed \in Seq(ToolCalls) /\ DOMAIN run.proposed = 1 .. Len(run.proposed)
      /\ Len(run.proposed) \in Nat
  BY DEF Attempt
<1>2. Turn \in SUBSET Nat
  BY <1>1 DEF Turn
<1>3. \E i \in Turn : \A j \in Turn : i <= j
  BY <1>2, Smallest
<1> DEFINE i == CHOOSE i \in Turn : \A j \in Turn : i <= j
<1>4. i \in Turn /\ \A j \in Turn : i <= j
  BY <1>3
<1>5. \A j \in DOMAIN run.proposed : j < i => Done(run.proposed[j])
  BY <1>4, <1>1, <1>2 DEF Turn
<1> QED
  BY <1>4, <1>5 DEF Current, Turn

\* What is saved with the current call: it and the calls before it are reached.
LEMMA WithKeepsOrder ==
  ASSUME run \in Attempt, InOrder(run.proposed, run.admitted), Turn # {},
         NEW stage \in {"pre-tool", "post-tool"}
  PROVE  /\ Current \in ToolCalls /\ Among(Current, run.proposed) /\ ~Done(Current)
         /\ With(stage) \in [ToolCalls -> CallCheckpoint]
         /\ \A c \in ToolCalls : run.admitted[c] # "none" => With(stage)[c] # "none"
         /\ InOrder(run.proposed, With(stage))
<1> DEFINE p == run.proposed
           w == With(stage)
<1>1. /\ p \in Seq(ToolCalls) /\ DOMAIN p \subseteq Nat
      /\ \A j \in DOMAIN p : p[j] \in ToolCalls
      /\ run.admitted \in [ToolCalls -> CallCheckpoint]
  BY DEF Attempt
<1>2. PICK i \in DOMAIN p : /\ i \in Turn /\ Current = p[i]
                            /\ \A j \in DOMAIN p : j < i => Done(p[j])
  BY CurrentIsFirst
<1>3. Current \in ToolCalls /\ Among(Current, p) /\ ~Done(Current)
  BY <1>1, <1>2 DEF Among, Turn
<1>4. w \in [ToolCalls -> CallCheckpoint]
  BY DEF With, CallCheckpoint
<1>5. \A c \in ToolCalls : w[c] = IF c = Current THEN stage
                                  ELSE IF Done(c) THEN "post-tool" ELSE "none"
  BY DEF With
<1>6. /\ \A j, k \in DOMAIN p : p[j] = p[k] => j = k
      /\ \A c \in ToolCalls : run.admitted[c] # "none" => Among(c, p)
      /\ \A j, k \in DOMAIN p :
           j < k /\ run.admitted[p[k]] # "none" => run.admitted[p[j]] = "post-tool"
  BY DEF InOrder
<1>7. ASSUME NEW c \in ToolCalls, run.admitted[c] # "none"
      PROVE  w[c] # "none"
  <2>1. PICK k \in DOMAIN p : p[k] = c
    BY <1>6, <1>7 DEF Among
  <2>2. CASE k < i
    BY <2>1, <2>2, <1>2, <1>5
  <2>3. CASE k = i
    BY <2>1, <2>3, <1>2, <1>5
  <2>4. CASE i < k
    BY <2>1, <2>4, <1>2, <1>3, <1>6, <1>7 DEF Done
  <2> QED
    BY <1>1, <2>1, <2>2, <2>3, <2>4
<1>8. ASSUME NEW c \in ToolCalls, w[c] # "none"
      PROVE  Among(c, p)
  BY <1>8, <1>3, <1>5, <1>6 DEF Done
<1>9. ASSUME NEW j \in DOMAIN p, NEW k \in DOMAIN p, j < k, w[p[k]] # "none"
      PROVE  w[p[j]] = "post-tool"
  <2>1. p[j] \in ToolCalls /\ p[k] \in ToolCalls
    BY <1>1
  <2>2. p[k] = Current \/ Done(p[k])
    BY <1>9, <1>5, <2>1
  <2>3. Done(p[j])
    <3>1. CASE p[k] = Current
      <4>1. k = i
        BY <3>1, <1>2, <1>6
      <4> QED
        BY <4>1, <1>9, <1>2
    <3>2. CASE Done(p[k])
      BY <3>2, <1>9, <1>6 DEF Done
    <3> QED
      BY <2>2, <3>1, <3>2
  <2> QED
    BY <2>1, <2>3, <1>3, <1>5
<1> QED
  BY <1>3, <1>4, <1>6, <1>7, <1>8, <1>9 DEF InOrder

\* The current call is the same while the attempt only moves on.
LEMMA CurrentStays ==
  ASSUME run'.proposed = run.proposed, run'.admitted = run.admitted
  PROVE  /\ Turn' = Turn /\ Current' = Current
         /\ \A stage \in {"pre-tool", "post-tool"} : With(stage)' = With(stage)
  BY DEF Turn, Current, With, Done

-----------------------------------------------------------------------------
(* The tool loop: the invariant is inductive. *)

LEMMA LoopInitOK == ToolLoopInit => ToolLoopIInv
  BY ToolLoopAssumption
  DEF ToolLoopInit, ToolLoopIInv, ToolLoopTypeOK, CheckpointOK, AttemptOK, SeenOK, OutcomeOK,
      DurableOK, EffectAtMostOnce, NoLoop, NoCalls, FreshAttempt, Attempt, ToolLoopCheckpoint,
      CallCheckpoint, InOrder, InTurn, Among

\* A step that leaves the checkpoint and the calls of tools alone.
LEMMA DurableStays ==
  ASSUME ToolLoopIInv, UNCHANGED <<saved, invoked, durable>>,
         run'.at \in {"running", "ran"} => run.at \in {"running", "ran"} /\ Current' = Current
  PROVE  DurableOK'
<1>1. DurableOK
  BY DEF ToolLoopIInv
<1> QED
  BY <1>1 DEF DurableOK, Among

\* A step that moves the attempt to a place outside its turn, and nothing else.
LEMMA LeavesTurn ==
  ASSUME ToolLoopIInv, NEW place \in {"failed", "ended"}, run' = [run EXCEPT !.at = place],
         UNCHANGED <<saved, outcome, invoked, durable, toolCrashes>>
  PROVE  ToolLoopIInv'
<1>1. ToolLoopTypeOK'
  BY DEF ToolLoopIInv, ToolLoopTypeOK, Attempt
<1>2. run'.at = place /\ run'.resumed = run.resumed
  BY DEF ToolLoopIInv, ToolLoopTypeOK, Attempt
<1>3. DurableOK'
  BY <1>2, DurableStays
<1> QED
  BY <1>1, <1>2, <1>3
  DEF ToolLoopIInv, CheckpointOK, AttemptOK, SeenOK, OutcomeOK, EffectAtMostOnce, InTurn,
      InOrder, Among

\* A step inside a call: the attempt moves from one place of it to the next.
LEMMA MovesInCall ==
  ASSUME ToolLoopIInv, NEW place \in {"running", "ran"},
         run.at \in {"invoke", "running"}, run' = [run EXCEPT !.at = place],
         UNCHANGED <<saved, outcome, toolCrashes>>,
         invoked' \in [ToolCalls -> Nat], durable' = durable,
         \A c \in ToolCalls : invoked'[c] > 0 <=> invoked[c] > 0 \/ c = Current,
         EffectAtMostOnce',
         outcome = "incomplete" \/ run.aborted
  PROVE  ToolLoopIInv'
<1>1. /\ run \in Attempt /\ run' \in Attempt
      /\ run'.at = place /\ run'.resumed = run.resumed /\ run'.proposed = run.proposed
      /\ run'.admitted = run.admitted /\ run'.aborted = run.aborted
      /\ run'.seen = run.seen /\ run'.turn = run.turn
  BY DEF ToolLoopIInv, ToolLoopTypeOK, Attempt
<1>2. ToolLoopTypeOK'
  BY <1>1 DEF ToolLoopIInv, ToolLoopTypeOK
<1>3. /\ Turn' = Turn /\ Current' = Current /\ With("pre-tool")' = With("pre-tool")
  BY <1>1, CurrentStays
<1>4. /\ InTurn /\ Turn # {} /\ saved.calls = With("pre-tool")
      /\ saved.proposed = run.proposed /\ saved.turn = run.turn /\ run.proposed # <<>>
      /\ InOrder(run.proposed, run.admitted)
  BY DEF ToolLoopIInv, AttemptOK, InTurn
<1>5. /\ Current \in ToolCalls /\ Among(Current, run.proposed)
      /\ With("pre-tool")[Current] = "pre-tool"
  BY <1>1, <1>4, WithKeepsOrder DEF With
<1>6. CheckpointOK'
  <2>1. CheckpointOK /\ saved' = saved
    BY DEF ToolLoopIInv
  <2>2. InOrder(saved'.proposed, saved'.calls)
    BY <2>1 DEF CheckpointOK
  <2>3. saved'.proposed # <<>>
    BY <2>1, <1>4
  <2>4. ASSUME NEW c \in ToolCalls, invoked'[c] > 0, Among(c, saved.proposed)
        PROVE  saved.calls[c] # "none"
    BY <2>4, <2>1, <1>4, <1>5 DEF CheckpointOK
  <2>5. \A c \in ToolCalls : Among(c, saved.proposed)' = Among(c, saved.proposed)
    BY <2>1 DEF Among
  <2> QED
    BY <2>1, <2>2, <2>3, <2>4, <2>5 DEF CheckpointOK, InOrder, Among
<1>7. AttemptOK'
  BY <1>1, <1>3, <1>4 DEF AttemptOK, InTurn, InOrder, Among
<1>8. SeenOK'
  <2>1. ASSUME ~run.resumed, NEW c \in ToolCalls, invoked'[c] > 0
        PROVE  c \in run.seen \/ Among(c, run.proposed)
    BY <2>1, <1>4, <1>5 DEF ToolLoopIInv, SeenOK
  <2>2. ASSUME ~run.resumed, NEW c \in ToolCalls, run.admitted[c] = "post-tool"
        PROVE  c \in run.seen
    BY <2>2, <1>4 DEF ToolLoopIInv, SeenOK
  <2> QED
    BY <1>1, <2>1, <2>2 DEF SeenOK, InTurn, Among
<1>9. OutcomeOK'
  BY <1>1 DEF OutcomeOK
<1>10. DurableOK'
  <2>1. DurableOK /\ durable \subseteq ToolCalls
    BY DEF ToolLoopIInv, ToolLoopTypeOK
  <2>2. invoked'[Current] > 0
    BY <1>5
  <2> QED
    BY <1>3, <2>1, <2>2 DEF DurableOK, Among
<1> QED
  BY <1>2, <1>6, <1>7, <1>8, <1>9, <1>10 DEF ToolLoopIInv

LEMMA LoadKeeps == ToolLoopIInv /\ Load => ToolLoopIInv'
<1> SUFFICES ASSUME ToolLoopIInv, Load PROVE ToolLoopIInv'
  OBVIOUS
<1>1. CASE saved = NoLoop
  <2>1. /\ run' = [run EXCEPT !.at = "ask"] /\ UNCHANGED <<saved, outcome, invoked, durable, toolCrashes>>
    BY <1>1 DEF Load
  <2>2. /\ run'.at = "ask" /\ run'.resumed = run.resumed /\ run' \in Attempt
        /\ run'.aborted = run.aborted
    BY <2>1 DEF ToolLoopIInv, ToolLoopTypeOK, Attempt
  <2>3. \A c \in ToolCalls : ~(invoked[c] > 0)
    BY <1>1 DEF ToolLoopIInv, CheckpointOK, NoLoop
  <2>4. ToolLoopTypeOK'
    BY <2>1, <2>2 DEF ToolLoopIInv, ToolLoopTypeOK
  <2>5. OutcomeOK'
    BY <2>1, <2>2 DEF Load, ToolLoopIInv, OutcomeOK
  <2>6. DurableOK'
    BY <2>1, <2>2, DurableStays
  <2> QED
    BY <2>1, <2>2, <2>3, <2>4, <2>5, <2>6 DEF ToolLoopIInv, CheckpointOK, AttemptOK, SeenOK, EffectAtMostOnce, InTurn, InOrder, Among
<1>2. CASE saved # NoLoop
  <2>1. /\ run' = [run EXCEPT !.at = "call", !.resumed = TRUE, !.turn = saved.turn,
                    !.proposed = saved.proposed, !.admitted = saved.calls]
        /\ UNCHANGED <<saved, outcome, invoked, durable, toolCrashes>> /\ run.at = "load"
    BY <1>2 DEF Load
  <2>2. /\ run'.at = "call" /\ run'.resumed /\ run' \in Attempt
        /\ run'.aborted = run.aborted /\ run'.turn = saved.turn
        /\ run'.proposed = saved.proposed /\ run'.admitted = saved.calls
    BY <2>1 DEF ToolLoopIInv, ToolLoopTypeOK, Attempt, ToolLoopCheckpoint
  <2>3. saved.proposed # <<>>
    BY <1>2 DEF ToolLoopIInv, CheckpointOK
  <2>4. ToolLoopTypeOK'
    BY <2>1, <2>2 DEF ToolLoopIInv, ToolLoopTypeOK
  <2>5. OutcomeOK'
    BY <2>1, <2>2 DEF ToolLoopIInv, OutcomeOK
  <2>6. CheckpointOK'
    BY <2>1 DEF ToolLoopIInv, CheckpointOK, InOrder, Among
  <2>7. InOrder(run'.proposed, run'.admitted)
    BY <2>2 DEF ToolLoopIInv, CheckpointOK
  <2>8. AttemptOK'
    BY <2>1, <2>2, <2>3, <2>7 DEF AttemptOK, InTurn, InOrder, Among
  <2>9. DurableOK'
    BY <2>1, <2>2, DurableStays
  <2> QED
    BY <2>1, <2>2, <2>4, <2>5, <2>6, <2>8, <2>9 DEF ToolLoopIInv, SeenOK, EffectAtMostOnce
<1> QED
  BY <1>1, <1>2

LEMMA AnswerFailsKeeps ==
  ASSUME ToolLoopIInv, NEW fallback \in BOOLEAN, AnswerFails(fallback)
  PROVE  ToolLoopIInv'
<1>1. CASE run' = [run EXCEPT !.at = "failed"]
  BY <1>1, LeavesTurn DEF AnswerFails
<1>2. CASE run' = [run EXCEPT !.asked = @ + 1] /\ run.asked < Implementations
  <2>1. /\ run'.at = run.at /\ run'.resumed = run.resumed /\ run'.seen = run.seen
        /\ run'.aborted = run.aborted /\ run' \in Attempt
    <3>1. run \in Attempt
      BY DEF ToolLoopIInv, ToolLoopTypeOK
    <3>2. run.asked \in 1 .. Implementations /\ Implementations \in Nat
      BY <3>1, ToolLoopAssumption DEF Attempt
    <3>3. run.asked + 1 \in 1 .. Implementations
      BY <1>2, <3>2
    <3> QED
      BY <1>2, <3>1, <3>3 DEF Attempt
  <2>2. run.at = "ask" /\ UNCHANGED <<saved, outcome, invoked, durable, toolCrashes>>
    BY DEF AnswerFails, Asking
  <2>3. ToolLoopTypeOK'
    BY <2>1, <2>2 DEF ToolLoopIInv, ToolLoopTypeOK
  <2>4. DurableOK'
    BY <2>1, <2>2, DurableStays
  <2> QED
    BY <2>1, <2>2, <2>3, <2>4
    DEF ToolLoopIInv, CheckpointOK, AttemptOK, SeenOK, OutcomeOK, EffectAtMostOnce, InTurn,
        InOrder, Among
<1> QED
  BY <1>1, <1>2 DEF AnswerFails, Rejects

LEMMA ProposesKeeps ==
  ASSUME ToolLoopIInv, NEW proposed \in Proposals, Proposes(proposed)
  PROVE  ToolLoopIInv'
<1>1. CASE ~Acceptable(proposed)
  BY <1>1, LeavesTurn DEF Proposes, Rejects
<1>2. CASE Acceptable(proposed)
  <2>1. /\ saved' = [turn |-> run.turn, proposed |-> proposed, calls |-> NoCalls]
        /\ run' = [run EXCEPT !.at = "call", !.proposed = proposed, !.admitted = NoCalls]
        /\ UNCHANGED <<outcome, invoked, durable, toolCrashes>>
        /\ run.at = "ask" /\ ~run.resumed
    BY <1>2 DEF Proposes, Asking
  <2>2. proposed \in Seq(ToolCalls) /\ proposed # <<>>
    BY ToolLoopAssumption
  <2>3. /\ run'.at = "call" /\ ~run'.resumed /\ run' \in Attempt /\ run'.turn = run.turn
        /\ run'.proposed = proposed /\ run'.admitted = NoCalls /\ run'.seen = run.seen
        /\ run'.aborted = run.aborted
    BY <2>1, <2>2 DEF ToolLoopIInv, ToolLoopTypeOK, Attempt, NoCalls, CallCheckpoint
  <2>4. /\ saved' \in ToolLoopCheckpoint /\ saved'.turn = run.turn
        /\ saved'.proposed = proposed /\ saved'.calls = NoCalls
    BY <2>1, <2>2 DEF ToolLoopIInv, ToolLoopTypeOK, Attempt, NoCalls, CallCheckpoint, ToolLoopCheckpoint
  <2>5. ToolLoopTypeOK'
    BY <2>1, <2>3, <2>4 DEF ToolLoopIInv, ToolLoopTypeOK
  <2>6. \A c \in ToolCalls : NoCalls[c] = "none"
    BY DEF NoCalls
  <2>7. \A i \in DOMAIN proposed : proposed[i] \in ToolCalls
    BY <2>2
  <2>8. InOrder(proposed, NoCalls)
    BY <1>2, <2>6, <2>7 DEF Acceptable, InOrder
  <2>9. \A c \in ToolCalls : invoked[c] > 0 => c \in run.seen
    BY <2>1 DEF ToolLoopIInv, SeenOK
  <2>10. \A c \in ToolCalls : invoked[c] > 0 => ~Among(c, proposed)
    BY <1>2, <2>9 DEF Acceptable, Among
  <2>11. CheckpointOK'
    BY <2>1, <2>2, <2>4, <2>8, <2>10 DEF CheckpointOK, InOrder, Among
  <2>12. AttemptOK'
    BY <2>2, <2>3, <2>4, <2>8 DEF AttemptOK, InTurn, InOrder, Among
  <2>13. SeenOK'
    BY <2>1, <2>3, <2>6, <2>9 DEF SeenOK, InTurn
  <2>14. OutcomeOK'
    BY <2>1, <2>3 DEF ToolLoopIInv, OutcomeOK
  <2>15. DurableOK'
    <3>1. DurableOK /\ durable \subseteq ToolCalls
      BY DEF ToolLoopIInv, ToolLoopTypeOK
    <3> QED
      BY <3>1, <2>1, <2>3, <2>4, <2>10 DEF DurableOK, Among
  <2> QED
    BY <2>1, <2>5, <2>11, <2>12, <2>13, <2>14, <2>15 DEF ToolLoopIInv, EffectAtMostOnce
<1> QED
  BY <1>1, <1>2

\* A call of the turn starts: the attempt is at its invocation, and the
\* checkpoint has the call at pre-tool.
LEMMA EntersCall ==
  ASSUME ToolLoopIInv, run.at = "call", Turn # {},
         run' = [run EXCEPT !.at = "invoke"], saved' \in ToolLoopCheckpoint,
         saved'.turn = run.turn, saved'.proposed = run.proposed,
         saved'.calls = With("pre-tool"),
         UNCHANGED <<outcome, invoked, durable, toolCrashes>>,
         Current \in NonIdempotent => invoked[Current] = 0
  PROVE  ToolLoopIInv'
<1>1. /\ run \in Attempt /\ run' \in Attempt
      /\ run'.at = "invoke" /\ run'.resumed = run.resumed /\ run'.proposed = run.proposed
      /\ run'.admitted = run.admitted /\ run'.aborted = run.aborted
      /\ run'.seen = run.seen /\ run'.turn = run.turn
  BY DEF ToolLoopIInv, ToolLoopTypeOK, Attempt
<1>2. /\ Turn' = Turn /\ Current' = Current /\ With("pre-tool")' = With("pre-tool")
  BY <1>1, CurrentStays
<1>3. /\ saved.proposed = run.proposed /\ run.proposed # <<>> /\ saved.calls = run.admitted
      /\ InOrder(run.proposed, run.admitted)
  BY DEF ToolLoopIInv, AttemptOK, InTurn
<1>4. /\ Current \in ToolCalls /\ InOrder(run.proposed, With("pre-tool"))
      /\ \A c \in ToolCalls : run.admitted[c] # "none" => With("pre-tool")[c] # "none"
  BY <1>1, <1>3, WithKeepsOrder
<1>5. ToolLoopTypeOK'
  BY <1>1 DEF ToolLoopIInv, ToolLoopTypeOK
<1>6. CheckpointOK'
  <2>1. \A c \in ToolCalls :
          invoked[c] > 0 /\ Among(c, run.proposed) => With("pre-tool")[c] # "none"
    BY <1>3, <1>4 DEF ToolLoopIInv, CheckpointOK
  <2> QED
    BY <1>3, <1>4, <2>1 DEF CheckpointOK, InOrder, Among
<1>7. AttemptOK'
  BY <1>1, <1>2, <1>3 DEF AttemptOK, InTurn, InOrder, Among
<1>8. SeenOK'
  BY <1>1 DEF ToolLoopIInv, SeenOK, InTurn, Among
<1>9. OutcomeOK'
  BY <1>1 DEF ToolLoopIInv, OutcomeOK
<1>10. DurableOK'
  <2>1. DurableOK /\ durable \subseteq ToolCalls
    BY DEF ToolLoopIInv, ToolLoopTypeOK
  <2>2. ASSUME NEW c \in durable, Among(c, run.proposed)
        PROVE  With("pre-tool")[c] = "post-tool"
    <3>1. run.admitted[c] = "post-tool"
      BY <2>1, <2>2, <1>3 DEF DurableOK, Among
    <3>2. ~Done(Current)
      BY <1>1, <1>3, WithKeepsOrder
    <3> QED
      BY <2>1, <3>1, <3>2 DEF With, Done
  <2> QED
    BY <1>1, <2>1, <2>2 DEF DurableOK, Among
<1> QED
  BY <1>5, <1>6, <1>7, <1>8, <1>9, <1>10 DEF ToolLoopIInv, EffectAtMostOnce

LEMMA AdmitKeeps == ToolLoopIInv /\ Admit => ToolLoopIInv'
<1> SUFFICES ASSUME ToolLoopIInv, Admit PROVE ToolLoopIInv'
  OBVIOUS
<1>1. /\ run.at = "call" /\ Turn # {} /\ run.admitted[Current] = "none"
      /\ run' = [run EXCEPT !.at = "invoke"] /\ UNCHANGED <<outcome, invoked, durable, toolCrashes>>
      /\ saved' = [turn |-> run.turn, proposed |-> run.proposed, calls |-> With("pre-tool")]
  BY DEF Admit, Persist
<1>2. /\ run \in Attempt /\ saved.proposed = run.proposed /\ saved.calls = run.admitted
      /\ InOrder(run.proposed, run.admitted) /\ invoked \in [ToolCalls -> Nat]
  BY <1>1 DEF ToolLoopIInv, ToolLoopTypeOK, AttemptOK, InTurn
<1>3. /\ Current \in ToolCalls /\ Among(Current, run.proposed)
      /\ With("pre-tool") \in [ToolCalls -> CallCheckpoint]
  BY <1>1, <1>2, WithKeepsOrder
<1>4. saved' \in ToolLoopCheckpoint
  BY <1>1, <1>2, <1>3 DEF Attempt, ToolLoopCheckpoint
<1>5. ~(invoked[Current] > 0)
  BY <1>1, <1>2, <1>3 DEF ToolLoopIInv, CheckpointOK
<1>6. invoked[Current] = 0
  BY <1>2, <1>3, <1>5
<1> QED
  BY <1>1, <1>4, <1>6, EntersCall

LEMMA ReenterKeeps == ToolLoopIInv /\ Reenter => ToolLoopIInv'
<1> SUFFICES ASSUME ToolLoopIInv, Reenter PROVE ToolLoopIInv'
  OBVIOUS
<1>1. CASE Current \in NonIdempotent
  BY <1>1, LeavesTurn DEF Reenter, Rejects
<1>2. CASE Current \notin NonIdempotent
  <2>1. /\ run.at = "call" /\ Turn # {} /\ run.admitted[Current] = "pre-tool"
        /\ run' = [run EXCEPT !.at = "invoke"]
        /\ UNCHANGED <<saved, outcome, invoked, durable, toolCrashes>>
    BY <1>2 DEF Reenter
  <2>2. /\ run \in Attempt /\ saved.proposed = run.proposed /\ saved.calls = run.admitted
        /\ saved.turn = run.turn /\ saved \in ToolLoopCheckpoint
        /\ InOrder(run.proposed, run.admitted)
    BY <2>1 DEF ToolLoopIInv, ToolLoopTypeOK, AttemptOK, InTurn
  <2>3. /\ Current \in ToolCalls /\ With("pre-tool") \in [ToolCalls -> CallCheckpoint]
    BY <2>1, <2>2, WithKeepsOrder
  <2>4. run.admitted \in [ToolCalls -> CallCheckpoint]
    BY <2>2 DEF Attempt
  <2>5. ASSUME NEW c \in ToolCalls
        PROVE  With("pre-tool")[c] = run.admitted[c]
    <3>1. With("pre-tool")[c] = IF c = Current THEN "pre-tool"
                                ELSE IF Done(c) THEN "post-tool" ELSE "none"
      BY DEF With
    <3>2. CASE run.admitted[c] = "none"
      BY <3>1, <3>2, <2>1 DEF Done
    <3>3. CASE run.admitted[c] = "post-tool"
      BY <3>1, <3>3, <2>1 DEF Done
    <3>4. CASE run.admitted[c] = "pre-tool"
      <4>1. With("pre-tool")[c] # "none"
        BY <3>4, <2>1, <2>2, WithKeepsOrder
      <4> QED
        BY <3>1, <3>4, <4>1 DEF Done
    <3> QED
      BY <3>2, <3>3, <3>4, <2>4 DEF CallCheckpoint
  <2>6. run.admitted = With("pre-tool")
    BY <2>3, <2>4, <2>5
  <2> QED
    BY <1>2, <2>1, <2>2, <2>6, EntersCall
<1> QED
  BY <1>1, <1>2

LEMMA InvokeKeeps == ToolLoopIInv /\ Invoke => ToolLoopIInv'
<1> SUFFICES ASSUME ToolLoopIInv, Invoke PROVE ToolLoopIInv'
  OBVIOUS
<1>1. /\ run.at = "invoke" /\ ~run.aborted /\ run' = [run EXCEPT !.at = "running"]
      /\ invoked' = [invoked EXCEPT ![Current] = @ + 1]
      /\ UNCHANGED <<saved, outcome, durable, toolCrashes>>
  BY DEF Invoke
<1>2. /\ run \in Attempt /\ invoked \in [ToolCalls -> Nat] /\ Turn # {}
      /\ InOrder(run.proposed, run.admitted)
      /\ outcome \in {"incomplete", "completed", "failed"}
  BY <1>1 DEF ToolLoopIInv, ToolLoopTypeOK, AttemptOK, InTurn
<1>3. Current \in ToolCalls
  BY <1>2, WithKeepsOrder
<1>4. /\ invoked' \in [ToolCalls -> Nat]
      /\ \A c \in ToolCalls : invoked'[c] = IF c = Current THEN invoked[c] + 1 ELSE invoked[c]
  BY <1>1, <1>2, <1>3
<1>5. Current \in NonIdempotent => invoked[Current] = 0
  BY <1>1 DEF ToolLoopIInv, AttemptOK
<1>6. EffectAtMostOnce'
  BY <1>2, <1>4, <1>5, ToolLoopAssumption DEF ToolLoopIInv, EffectAtMostOnce
<1>8. outcome = "incomplete" \/ run.aborted
  BY <1>1, <1>2 DEF ToolLoopIInv, OutcomeOK
<1>9. \A c \in ToolCalls : invoked'[c] > 0 <=> invoked[c] > 0 \/ c = Current
  BY <1>2, <1>4
<1> QED
  BY <1>1, <1>4, <1>6, <1>8, <1>9, MovesInCall

LEMMA ReturnsKeeps == ToolLoopIInv /\ ToolReturns => ToolLoopIInv'
<1> SUFFICES ASSUME ToolLoopIInv, ToolReturns PROVE ToolLoopIInv'
  OBVIOUS
<1>1. /\ run.at = "running" /\ run' = [run EXCEPT !.at = "ran"]
      /\ UNCHANGED <<saved, outcome, invoked, durable, toolCrashes>>
  BY DEF ToolReturns
<1>2. /\ invoked \in [ToolCalls -> Nat] /\ outcome \in {"incomplete", "completed", "failed"}
      /\ invoked[Current] > 0
  BY <1>1 DEF ToolLoopIInv, ToolLoopTypeOK, DurableOK
<1>3. EffectAtMostOnce'
  BY <1>1 DEF ToolLoopIInv, EffectAtMostOnce
<1>4. outcome = "incomplete" \/ run.aborted
  BY <1>1, <1>2 DEF ToolLoopIInv, OutcomeOK
<1> QED
  BY <1>1, <1>2, <1>3, <1>4, MovesInCall

LEMMA PostToolKeeps == ToolLoopIInv /\ PostTool => ToolLoopIInv'
<1> SUFFICES ASSUME ToolLoopIInv, PostTool PROVE ToolLoopIInv'
  OBVIOUS
<1> DEFINE w == With("post-tool")
<1>1. /\ run.at = "ran"
      /\ run' = [run EXCEPT !.at = "call", !.total = @ + 1, !.seen = @ \cup {Current},
                        !.admitted = w]
      /\ durable' = durable \cup {Current} /\ UNCHANGED <<outcome, invoked, toolCrashes>>
      /\ saved' = [turn |-> run.turn, proposed |-> run.proposed, calls |-> w]
  BY DEF PostTool, Persist
<1>2. /\ run \in Attempt /\ saved.proposed = run.proposed /\ saved.calls = With("pre-tool")
      /\ Turn # {} /\ run.proposed # <<>> /\ InOrder(run.proposed, run.admitted)
      /\ invoked \in [ToolCalls -> Nat]
  BY <1>1 DEF ToolLoopIInv, ToolLoopTypeOK, AttemptOK, InTurn
<1>3. /\ Current \in ToolCalls /\ Among(Current, run.proposed)
      /\ w \in [ToolCalls -> CallCheckpoint] /\ InOrder(run.proposed, w)
  BY <1>2, WithKeepsOrder
<1>4. /\ \A c \in ToolCalls : With("pre-tool")[c] # "none" => w[c] # "none"
      /\ \A c \in ToolCalls : w[c] = "post-tool" => c = Current \/ run.admitted[c] = "post-tool"
      /\ \A c \in ToolCalls : With("pre-tool")[c] = "post-tool" => w[c] = "post-tool"
      /\ Current \in ToolCalls => w[Current] = "post-tool"
  BY DEF With, Done
<1>5. /\ saved' \in ToolLoopCheckpoint /\ saved'.turn = run.turn /\ saved'.proposed = run.proposed
      /\ saved'.calls = w
  BY <1>1, <1>2, <1>3 DEF Attempt, ToolLoopCheckpoint
<1> HIDE DEF w
<1>6. /\ run' \in Attempt /\ run'.at = "call" /\ run'.admitted = w /\ run'.turn = run.turn
      /\ run'.proposed = run.proposed /\ run'.seen = run.seen \cup {Current}
      /\ run'.aborted = run.aborted /\ run'.resumed = run.resumed
  <2>1. run.total + 1 \in Nat /\ run.seen \cup {Current} \in SUBSET ToolCalls
    BY <1>2, <1>3 DEF Attempt
  <2>2. run' \in Attempt
    BY <1>1, <1>2, <1>3, <2>1 DEF Attempt
  <2> QED
    BY <1>1, <1>2, <2>2 DEF Attempt
<1>7. ToolLoopTypeOK'
  BY <1>1, <1>3, <1>5, <1>6 DEF ToolLoopIInv, ToolLoopTypeOK
<1>8. CheckpointOK'
  <2>1. \A c \in ToolCalls : invoked[c] > 0 /\ Among(c, run.proposed) => w[c] # "none"
    BY <1>2, <1>4 DEF ToolLoopIInv, CheckpointOK
  <2> QED
    BY <1>1, <1>2, <1>3, <1>5, <2>1 DEF CheckpointOK, InOrder, Among
<1>9. AttemptOK'
  BY <1>2, <1>3, <1>5, <1>6 DEF AttemptOK, InTurn, InOrder, Among
<1>10. SeenOK'
  <2>1. ASSUME ~run.resumed, NEW c \in ToolCalls
        PROVE  /\ invoked[c] > 0 => c \in run.seen \/ Among(c, run.proposed)
               /\ run.admitted[c] = "post-tool" => c \in run.seen
    BY <2>1, <1>1 DEF ToolLoopIInv, SeenOK, InTurn
  <2> QED
    BY <1>1, <1>4, <1>6, <2>1 DEF SeenOK, Among
<1>11. OutcomeOK'
  BY <1>1, <1>6 DEF ToolLoopIInv, OutcomeOK
<1>12. DurableOK'
  <2>1. DurableOK /\ durable \subseteq ToolCalls /\ invoked[Current] > 0
    BY <1>1 DEF ToolLoopIInv, ToolLoopTypeOK, DurableOK
  <2>2. ASSUME NEW c \in durable', Among(c, run.proposed)
        PROVE  w[c] = "post-tool"
    <3>1. CASE c = Current
      BY <3>1, <1>3, <1>4
    <3>2. CASE c \in durable
      BY <3>2, <2>1, <2>2, <1>2, <1>4 DEF DurableOK, Among
    <3> QED
      BY <2>2, <1>1, <3>1, <3>2
  <2>3. \A c \in durable' : invoked'[c] > 0
    BY <2>1, <1>1 DEF DurableOK
  <2> QED
    BY <1>5, <1>6, <2>2, <2>3 DEF DurableOK, Among
<1> QED
  BY <1>1, <1>7, <1>8, <1>9, <1>10, <1>11, <1>12 DEF ToolLoopIInv, EffectAtMostOnce

LEMMA EndTurnKeeps == ToolLoopIInv /\ EndTurn => ToolLoopIInv'
<1> SUFFICES ASSUME ToolLoopIInv, EndTurn PROVE ToolLoopIInv'
  OBVIOUS
<1>1. /\ run.at = "call" /\ Turn = {} /\ UNCHANGED <<outcome, invoked, durable, toolCrashes>>
      /\ saved' = IF run.resumed THEN saved ELSE [saved EXCEPT !.calls = run.admitted]
      /\ run' = [run EXCEPT !.at = "ask", !.turn = @ + (IF run.resumed THEN 0 ELSE 1)]
  BY DEF EndTurn
<1>2. /\ run \in Attempt /\ saved \in ToolLoopCheckpoint /\ saved.proposed = run.proposed
      /\ saved.calls = run.admitted /\ run.proposed # <<>>
  BY <1>1 DEF ToolLoopIInv, ToolLoopTypeOK, AttemptOK, InTurn
<1>3. saved' = saved
  BY <1>1, <1>2 DEF ToolLoopCheckpoint
<1>4. run.turn + (IF run.resumed THEN 0 ELSE 1) \in Nat
  BY <1>2 DEF Attempt
<1>5. /\ run' \in Attempt /\ run'.at = "ask" /\ run'.resumed = run.resumed
      /\ run'.seen = run.seen /\ run'.aborted = run.aborted
  BY <1>1, <1>2, <1>4 DEF Attempt
<1>6. ToolLoopTypeOK'
  BY <1>1, <1>3, <1>5 DEF ToolLoopIInv, ToolLoopTypeOK
<1>7. CheckpointOK'
  BY <1>1, <1>3 DEF ToolLoopIInv, CheckpointOK, InOrder, Among
<1>8. AttemptOK'
  BY <1>5 DEF AttemptOK, InTurn
<1>9. SeenOK'
  <2>1. ASSUME ~run.resumed, NEW c \in ToolCalls, invoked[c] > 0
        PROVE  c \in run.seen
    <3>1. /\ c \in run.seen \/ Among(c, run.proposed)
          /\ run.admitted[c] = "post-tool" => c \in run.seen
      BY <2>1, <1>1 DEF ToolLoopIInv, SeenOK, InTurn
    <3>2. Among(c, run.proposed) => Done(c)
      BY <1>1 DEF Among, Turn
    <3> QED
      BY <3>1, <3>2 DEF Done
  <2> QED
    BY <1>1, <1>5, <2>1 DEF SeenOK, InTurn
<1>10. OutcomeOK'
  BY <1>1, <1>5 DEF ToolLoopIInv, OutcomeOK
<1>11. DurableOK'
  BY <1>1, <1>3, <1>5, DurableStays
<1> QED
  BY <1>1, <1>6, <1>7, <1>8, <1>9, <1>10, <1>11 DEF ToolLoopIInv, EffectAtMostOnce

LEMMA AbortKeeps == ToolLoopIInv /\ Abort => ToolLoopIInv'
<1> SUFFICES ASSUME ToolLoopIInv, Abort PROVE ToolLoopIInv'
  OBVIOUS
<1>1. run' = [run EXCEPT !.aborted = TRUE] /\ UNCHANGED <<saved, outcome, invoked, durable, toolCrashes>>
  BY DEF Abort
<1>2. /\ run \in Attempt /\ run' \in Attempt /\ run'.aborted
      /\ run'.at = run.at /\ run'.resumed = run.resumed /\ run'.proposed = run.proposed
      /\ run'.admitted = run.admitted /\ run'.seen = run.seen /\ run'.turn = run.turn
  BY <1>1 DEF ToolLoopIInv, ToolLoopTypeOK, Attempt
<1>3. /\ Turn' = Turn /\ Current' = Current /\ With("pre-tool")' = With("pre-tool")
  BY <1>2, CurrentStays
<1>4. ToolLoopTypeOK' /\ OutcomeOK'
  BY <1>1, <1>2 DEF ToolLoopIInv, ToolLoopTypeOK, OutcomeOK
<1>5. CheckpointOK'
  BY <1>1 DEF ToolLoopIInv, CheckpointOK, InOrder, Among
<1>6. AttemptOK'
  BY <1>1, <1>2, <1>3 DEF ToolLoopIInv, AttemptOK, InTurn, InOrder, Among
<1>7. SeenOK'
  BY <1>1, <1>2 DEF ToolLoopIInv, SeenOK, InTurn, Among
<1>8. DurableOK'
  BY <1>1, <1>2, <1>3, DurableStays
<1> QED
  BY <1>1, <1>4, <1>5, <1>6, <1>7, <1>8 DEF ToolLoopIInv, EffectAtMostOnce

\* A step that says how the execution ended.
LEMMA OutcomeKeeps == ToolLoopIInv /\ (Conclude \/ AbortRecorded) => ToolLoopIInv'
<1> SUFFICES ASSUME ToolLoopIInv, Conclude \/ AbortRecorded PROVE ToolLoopIInv'
  OBVIOUS
<1>1. /\ UNCHANGED <<saved, run, invoked, durable, toolCrashes>>
      /\ outcome' \in {"completed", "failed"}
      /\ run.aborted \/ run.at \in {"ended", "failed"}
  BY DEF Conclude, AbortRecorded
<1>2. ToolLoopTypeOK' /\ OutcomeOK'
  BY <1>1 DEF ToolLoopIInv, ToolLoopTypeOK, OutcomeOK
<1>3. CheckpointOK'
  BY <1>1 DEF ToolLoopIInv, CheckpointOK, InOrder, Among
<1>4. AttemptOK'
  BY <1>1 DEF ToolLoopIInv, AttemptOK, InTurn, InOrder, Among, Turn, Current, With, Done
<1>5. SeenOK'
  BY <1>1 DEF ToolLoopIInv, SeenOK, InTurn, Among
<1>6. Current' = Current
  BY <1>1 DEF Current, Turn, Done
<1>7. DurableOK'
  BY <1>1, <1>6, DurableStays
<1> QED
  BY <1>1, <1>2, <1>3, <1>4, <1>5, <1>7 DEF ToolLoopIInv, EffectAtMostOnce

LEMMA CrashKeeps == ToolLoopIInv /\ Crash => ToolLoopIInv'
<1> SUFFICES ASSUME ToolLoopIInv, Crash PROVE ToolLoopIInv'
  OBVIOUS
<1>1. /\ outcome = "incomplete" /\ toolCrashes < MaxToolCrashes
      /\ toolCrashes' = toolCrashes + 1 /\ run' = FreshAttempt
      /\ UNCHANGED <<saved, outcome, invoked, durable>>
  BY DEF Crash
<1>2. /\ FreshAttempt.at = "load" /\ ~FreshAttempt.resumed /\ FreshAttempt.seen = {}
      /\ FreshAttempt \in Attempt
  BY ToolLoopAssumption DEF FreshAttempt, Attempt, NoCalls, CallCheckpoint
<1>3. toolCrashes' \in 0 .. MaxToolCrashes
  BY <1>1, ToolLoopAssumption DEF ToolLoopIInv, ToolLoopTypeOK
<1>4. ToolLoopTypeOK'
  BY <1>1, <1>2, <1>3 DEF ToolLoopIInv, ToolLoopTypeOK
<1>5. CheckpointOK'
  BY <1>1 DEF ToolLoopIInv, CheckpointOK, InOrder, Among
<1>6. AttemptOK' /\ SeenOK' /\ OutcomeOK'
  BY <1>1, <1>2 DEF AttemptOK, SeenOK, OutcomeOK, InTurn
<1>7. DurableOK'
  BY <1>1, <1>2, DurableStays
<1> QED
  BY <1>1, <1>4, <1>5, <1>6, <1>7 DEF ToolLoopIInv, EffectAtMostOnce

LEMMA LoopStepOK == ToolLoopIInv /\ [ToolLoopNext]_toolVars => ToolLoopIInv'
<1> SUFFICES ASSUME ToolLoopIInv, [ToolLoopNext]_toolVars PROVE ToolLoopIInv'
  OBVIOUS
<1>1. CASE Load
  BY <1>1, LoadKeeps
<1>2. CASE Exhausted \/ CallDenied \/ InvokeRefused \/ ToolFails \/ ResultRefused
  BY <1>2, LeavesTurn DEF Exhausted, CallDenied, InvokeRefused, ToolFails, ResultRefused, Rejects
<1>3. CASE Answers
  BY <1>3, LeavesTurn DEF Answers
<1>4. CASE \E fallback \in BOOLEAN : AnswerFails(fallback)
  BY <1>4, AnswerFailsKeeps
<1>5. CASE \E proposed \in Proposals : Proposes(proposed)
  BY <1>5, ProposesKeeps
<1>6. CASE Admit
  BY <1>6, AdmitKeeps
<1>7. CASE Reenter
  BY <1>7, ReenterKeeps
<1>8. CASE Invoke
  BY <1>8, InvokeKeeps
<1>9. CASE ToolReturns
  BY <1>9, ReturnsKeeps
<1>10. CASE PostTool
  BY <1>10, PostToolKeeps
<1>11. CASE EndTurn
  BY <1>11, EndTurnKeeps
<1>12. CASE Conclude \/ AbortRecorded
  BY <1>12, OutcomeKeeps
<1>13. CASE Abort
  BY <1>13, AbortKeeps
<1>14. CASE Crash
  BY <1>14, CrashKeeps
<1>15. CASE UNCHANGED toolVars
  <2>1. UNCHANGED <<saved, outcome, run, invoked, durable, toolCrashes>>
    BY <1>15 DEF toolVars
  <2>2. ToolLoopTypeOK' /\ OutcomeOK'
    BY <2>1 DEF ToolLoopIInv, ToolLoopTypeOK, OutcomeOK
  <2>3. CheckpointOK'
    BY <2>1 DEF ToolLoopIInv, CheckpointOK, InOrder, Among
  <2>4. AttemptOK'
    BY <2>1 DEF ToolLoopIInv, AttemptOK, InTurn, InOrder, Among, Turn, Current, With, Done
  <2>5. SeenOK'
    BY <2>1 DEF ToolLoopIInv, SeenOK, InTurn, Among
  <2>6. Current' = Current
    BY <2>1 DEF Current, Turn, Done
  <2>7. DurableOK'
    BY <2>1, <2>6, DurableStays
  <2> QED
    BY <2>1, <2>2, <2>3, <2>4, <2>5, <2>7 DEF ToolLoopIInv, EffectAtMostOnce
<1> QED
  BY <1>1, <1>2, <1>3, <1>4, <1>5, <1>6, <1>7, <1>8, <1>9, <1>10, <1>11, <1>12, <1>13, <1>14,
     <1>15 DEF ToolLoopNext, LoopStep

\* Whatever the model proposes, in however many turns, crashes and recoveries,
\* a tool that is not idempotent is handed each of its calls at most once
\* (TOOL_UNSAFE_RECOVERY of local-reference-tool-loop.ts).
THEOREM CallsRunOnce == ToolLoopSpec => []ToolLoopInv
<1>1. ToolLoopIInv => ToolLoopInv
  BY DEF ToolLoopIInv, ToolLoopInv
<1> QED
  BY LoopInitOK, LoopStepOK, <1>1, PTL DEF ToolLoopSpec

\* Only Invoke hands a call to its adapter: the current one, which is at
\* pre-tool in the checkpoint of its turn and belongs to a run not given up.
LEMMA OnlyInvokes ==
  ASSUME ToolLoopIInv, [ToolLoopNext]_toolVars, NEW c \in ToolCalls,
         invoked'[c] # invoked[c]
  PROVE  c \notin durable /\ outcome = "incomplete"
<1>1. Invoke
  BY DEF ToolLoopNext, LoopStep, toolVars, Load, Exhausted, Answers, AnswerFails, Proposes,
     CallDenied, Admit, Reenter, InvokeRefused, ToolReturns, ToolFails, ResultRefused,
     PostTool, EndTurn, Conclude, Abort, AbortRecorded, Crash
<1>2. /\ run.at = "invoke" /\ ~run.aborted
      /\ invoked' = [invoked EXCEPT ![Current] = @ + 1]
  BY <1>1 DEF Invoke
<1>3. /\ invoked \in [ToolCalls -> Nat] /\ outcome \in {"incomplete", "completed", "failed"}
      /\ run \in Attempt
  BY DEF ToolLoopIInv, ToolLoopTypeOK
<1>4. c = Current
  BY <1>2, <1>3
<1>5. /\ saved.calls[c] = "pre-tool" /\ saved.proposed = run.proposed /\ Turn # {}
      /\ InOrder(run.proposed, run.admitted)
  BY <1>2, <1>4 DEF ToolLoopIInv, AttemptOK, InTurn, With
<1>6. Among(c, saved.proposed)
  BY <1>3, <1>4, <1>5, WithKeepsOrder
<1>7. c \notin durable
  BY <1>5, <1>6 DEF ToolLoopIInv, DurableOK
<1>8. outcome = "incomplete"
  BY <1>2, <1>3 DEF ToolLoopIInv, OutcomeOK
<1> QED
  BY <1>7, <1>8

\* A call whose result a checkpoint has held is not run again, in whatever turn,
\* attempt or recovery, and nothing is started for an execution the Runtime has
\* given up on.
THEOREM ResultsAreReused == ToolLoopSpec => NothingRerun
<1>1. ToolLoopIInv /\ [ToolLoopNext]_toolVars =>
        [\A c \in ToolCalls :
           invoked'[c] # invoked[c] => c \notin durable /\ outcome = "incomplete"]_toolVars
  BY OnlyInvokes
<1> QED
  BY LoopInitOK, LoopStepOK, <1>1, PTL DEF ToolLoopSpec, NothingRerun

-----------------------------------------------------------------------------
(* Approvals of the embedded agent: the inductive invariant. *)

Free == AgentTools \ ApprovalTools        \* the tools nobody has to approve
InCall == {"call", "running", "ran"}

\* a call parked for approval stays what it was, for whoever picks it up
Parked(l) ==
  /\ l.at \in {"index", "ended"} /\ l.done < Len(l.proposed)
  /\ l.proposed[l.done + 1] \in ApprovalTools

\* what the local variables of a loop say: a call is replayed only when granted,
\* and the calls still to be made are not among those seen
LoopOK(l, allowed) ==
  /\ l.at = "unused" => ~l.answered /\ l.source = Nobody
  /\ l.at = "index" => Parked(l)
  /\ l.replays => /\ l.at \in InCall /\ l.adopted \in allowed
                  /\ l.done < Len(l.proposed) /\ l.proposed[l.done + 1] \in ApprovalTools
  /\ ~l.replays /\ l.at \in InCall =>
       /\ l.done < Len(l.proposed)
       /\ \A i, j \in DOMAIN l.proposed : l.proposed[i] = l.proposed[j] => i = j
       /\ \A j \in DOMAIN l.proposed : l.done < j => l.proposed[j] \notin l.seen

\* the loop has made this call, and remembers it as long as it can propose calls
HasMade(l, c) ==
  \/ l.at \in {"index", "ended"}
  \/ /\ ~l.replays /\ l.at \notin {"unused", "start"}
     /\ c \in l.seen \/ (l.at \in {"running", "ran"} /\ c = l.proposed[l.done + 1])

ApprovalsOK ==
  /\ \A a \in Executions : /\ approval[a].status # "none" => Parked(loop[a])
                           /\ approval[a].status = "approved" => a \in granted
  /\ \A d \in deciding : approval[d.of].status # "none"

\* the shared field holds a granted approval that somebody is resuming
ResumeOK ==
  resumeApproval # Nobody =>
    /\ resumeApproval \in granted /\ approval[resumeApproval].status # "none"
    /\ \E r \in Executions : loop[r].source = resumeApproval /\ ~loop[r].answered

AgentIInv ==
  /\ AgentTypeOK /\ EffectsApproved /\ ApprovalsOK /\ ResumeOK
  /\ \A e \in Executions : LoopOK(loop[e], granted)
  /\ \A e \in Executions, c \in Free : effects[<<e, c>>] > 0 => HasMade(loop[e], c)

-----------------------------------------------------------------------------
(* Lemmas. *)

LEMMA LoopTypes ==
  ASSUME AgentIInv, NEW e \in Executions
  PROVE  /\ loop[e] \in EmbeddedLoop /\ LoopOK(loop[e], granted)
         /\ loop \in [Executions -> EmbeddedLoop]
         /\ effects \in [Keys -> Nat] /\ approval \in [Executions -> PendingApprovalRecord]
  BY DEF AgentIInv, AgentTypeOK

\* A step of one loop which leaves the records of approvals alone.
LEMMA LoopChanges ==
  ASSUME AgentIInv, NEW e \in Executions, NEW l \in EmbeddedLoop,
         loop' = [loop EXCEPT ![e] = l], LoopOK(l, granted),
         UNCHANGED <<approval, deciding, granted>>, approval[e].status # "none" => Parked(l),
         keys' \subseteq Keys, effects' \in [Keys -> Nat],
         agentFaults' \in 0 .. MaxAgentFaults, resumeApproval' \in Executions \cup {Nobody},
         EffectsApproved', ResumeOK',
         \A c \in Free : effects'[<<e, c>>] > 0 => HasMade(l, c),
         \A d \in Executions, c \in Free : d # e => effects'[<<d, c>>] = effects[<<d, c>>]
  PROVE  AgentIInv'
<1>1. /\ loop \in [Executions -> EmbeddedLoop] /\ AgentTypeOK /\ ApprovalsOK
      /\ \A d \in Executions : LoopOK(loop[d], granted)
      /\ \A d \in Executions, c \in Free : effects[<<d, c>>] > 0 => HasMade(loop[d], c)
  BY DEF AgentIInv, AgentTypeOK
<1>2. /\ loop' \in [Executions -> EmbeddedLoop] /\ loop'[e] = l
      /\ \A d \in Executions : d # e => loop'[d] = loop[d]
  BY <1>1
<1>3. AgentTypeOK'
  BY <1>1, <1>2 DEF AgentTypeOK
<1>4. ASSUME NEW a \in Executions
      PROVE  /\ approval[a].status # "none" => Parked(loop'[a])
             /\ approval[a].status = "approved" => a \in granted
  <2>1. CASE a = e
    BY <2>1, <1>1, <1>2 DEF ApprovalsOK
  <2>2. CASE a # e
    BY <2>2, <1>1, <1>2 DEF ApprovalsOK
  <2> QED
    BY <2>1, <2>2
<1>5. ApprovalsOK'
  BY <1>1, <1>4 DEF ApprovalsOK
<1>6. ASSUME NEW d \in Executions PROVE LoopOK(loop'[d], granted')
  <2>1. CASE d = e
    BY <2>1, <1>2
  <2>2. CASE d # e
    BY <2>2, <1>1, <1>2
  <2> QED
    BY <2>1, <2>2
<1>7. ASSUME NEW d \in Executions, NEW c \in Free, effects'[<<d, c>>] > 0
      PROVE  HasMade(loop'[d], c)
  <2>1. CASE d = e
    BY <2>1, <1>7, <1>2
  <2>2. CASE d # e
    BY <2>2, <1>7, <1>1, <1>2
  <2> QED
    BY <2>1, <2>2
<1> QED
  BY <1>3, <1>5, <1>6, <1>7 DEF AgentIInv

\* Whose approval is being resumed stays so while a loop only goes on.
LEMMA StillResumed ==
  ASSUME AgentIInv, NEW e \in Executions, NEW l \in EmbeddedLoop,
         loop' = [loop EXCEPT ![e] = l], UNCHANGED <<approval, granted>>,
         \/ resumeApproval' = Nobody
         \/ /\ resumeApproval' = resumeApproval
            /\ \/ l.source = loop[e].source /\ l.answered = loop[e].answered
               \/ loop[e].source = Nobody
  PROVE  ResumeOK' /\ resumeApproval' \in Executions \cup {Nobody}
<1>1. CASE resumeApproval' = Nobody
  BY <1>1 DEF ResumeOK
<1>2. CASE resumeApproval' = resumeApproval /\ resumeApproval # Nobody
  <2>1. /\ resumeApproval \in granted /\ approval[resumeApproval].status # "none"
        /\ resumeApproval \in Executions /\ loop \in [Executions -> EmbeddedLoop]
    BY <1>2 DEF AgentIInv, ResumeOK, AgentTypeOK
  <2>2. PICK r \in Executions : loop[r].source = resumeApproval /\ ~loop[r].answered
    BY <1>2 DEF AgentIInv, ResumeOK
  <2>3. loop'[r].source = resumeApproval /\ ~loop'[r].answered
    <3>1. CASE r = e
      BY <3>1, <1>2, <2>1, <2>2
    <3>2. CASE r # e
      BY <3>2, <2>1, <2>2
    <3> QED
      BY <3>1, <3>2
  <2> QED
    BY <1>2, <2>1, <2>2, <2>3 DEF ResumeOK
<1> QED
  BY <1>1, <1>2

\* A step of one loop and of nothing else.
LEMMA LoopMoves ==
  ASSUME AgentIInv, NEW e \in Executions, NEW l \in EmbeddedLoop,
         loop' = [loop EXCEPT ![e] = l], LoopOK(l, granted), UNCHANGED notLoop,
         l.source = loop[e].source, l.answered = loop[e].answered,
         approval[e].status # "none" => Parked(l),
         \A c \in Free : HasMade(loop[e], c) => HasMade(l, c)
  PROVE  AgentIInv'
<1>1. UNCHANGED <<approval, deciding, resumeApproval, keys, effects, granted, agentFaults>>
  BY DEF notLoop
<1>2. ResumeOK' /\ resumeApproval' \in Executions \cup {Nobody}
  BY <1>1, StillResumed
<1>3. /\ keys' \subseteq Keys /\ effects' \in [Keys -> Nat]
      /\ agentFaults' \in 0 .. MaxAgentFaults
  BY <1>1 DEF AgentIInv, AgentTypeOK
<1>4. EffectsApproved'
  BY <1>1 DEF AgentIInv, EffectsApproved
<1>5. \A c \in Free : effects'[<<e, c>>] > 0 => HasMade(l, c)
  BY <1>1 DEF AgentIInv
<1> QED
  BY <1>1, <1>2, <1>3, <1>4, <1>5, LoopChanges

LEMMA AgentInitOK == AgentInit => AgentIInv
<1> SUFFICES ASSUME AgentInit PROVE AgentIInv
  OBVIOUS
<1>1. Unused \in EmbeddedLoop /\ LoopOK(Unused, {})
  BY DEF Unused, EmbeddedLoop, LoopOK, InCall
<1>2. AgentTypeOK
  BY <1>1, AgentAssumption DEF AgentInit, AgentTypeOK, PendingApprovalRecord
<1>3. EffectsApproved /\ \A e \in Executions, c \in Free : ~(effects[<<e, c>>] > 0)
  BY DEF AgentInit, EffectsApproved, Keys, Free
<1>4. ApprovalsOK /\ ResumeOK
  BY DEF AgentInit, ApprovalsOK, ResumeOK
<1> QED
  BY <1>1, <1>2, <1>3, <1>4 DEF AgentInit, AgentIInv

-----------------------------------------------------------------------------
(* Every action keeps the invariant. *)

LEMMA InvokeKeepsA ==
  ASSUME AgentIInv, NEW e \in Executions, InvokeAgent(e)
  PROVE  AgentIInv'
<1>1. PICK l : l = [loop[e] EXCEPT !.at = "start"]
  OBVIOUS
<1>2. loop[e].at = "unused" /\ loop' = [loop EXCEPT ![e] = l] /\ UNCHANGED notLoop
  BY <1>1 DEF InvokeAgent, Fresh, Goes
<1>3. /\ l \in EmbeddedLoop /\ l.at = "start" /\ l.source = loop[e].source
      /\ l.answered = loop[e].answered /\ l.replays = loop[e].replays
  BY <1>1, LoopTypes DEF EmbeddedLoop
<1>4. LoopOK(l, granted)
  BY <1>2, <1>3, LoopTypes DEF LoopOK, InCall
<1>5. approval[e].status = "none" /\ \A c \in Free : ~HasMade(loop[e], c)
  BY <1>2 DEF AgentIInv, ApprovalsOK, Parked, HasMade
<1> QED
  BY <1>2, <1>3, <1>4, <1>5, LoopMoves

LEMMA ResumeKeepsA ==
  ASSUME AgentIInv, NEW e \in Executions, NEW s \in Executions, ResumeAgent(e, s)
  PROVE  AgentIInv'
<1>1. PICK l : l = [loop[e] EXCEPT !.at = "start", !.source = s]
  OBVIOUS
<1>2. /\ loop[e].at = "unused" /\ loop' = [loop EXCEPT ![e] = l] /\ requireApproved(s)
      /\ resumeApproval' = s
      /\ UNCHANGED <<approval, deciding, keys, effects, granted, agentFaults>>
  BY <1>1 DEF ResumeAgent, Fresh
<1>3. /\ l \in EmbeddedLoop /\ l.at = "start" /\ l.source = s
      /\ l.answered = loop[e].answered /\ l.replays = loop[e].replays
  BY <1>1, LoopTypes DEF EmbeddedLoop
<1>4. LoopOK(l, granted) /\ ~l.answered
  BY <1>2, <1>3, LoopTypes DEF LoopOK, InCall
<1>5. approval[e].status = "none" /\ \A c \in Free : ~HasMade(loop[e], c)
  BY <1>2 DEF AgentIInv, ApprovalsOK, Parked, HasMade
<1>6. s \in granted /\ approval[s].status # "none" /\ loop'[e] = l
  BY <1>2, LoopTypes DEF AgentIInv, ApprovalsOK, requireApproved
<1>7. ResumeOK' /\ resumeApproval' \in Executions \cup {Nobody}
  BY <1>2, <1>3, <1>4, <1>6 DEF ResumeOK
<1>8. /\ keys' \subseteq Keys /\ effects' \in [Keys -> Nat]
      /\ agentFaults' \in 0 .. MaxAgentFaults /\ EffectsApproved'
  BY <1>2 DEF AgentIInv, AgentTypeOK, EffectsApproved
<1>9. \A c \in Free : effects'[<<e, c>>] > 0 => HasMade(l, c)
  BY <1>2, <1>5 DEF AgentIInv
<1> QED
  BY <1>2, <1>3, <1>4, <1>5, <1>7, <1>8, <1>9, LoopChanges

LEMMA EnterKeeps ==
  ASSUME AgentIInv, NEW e \in Executions, Enter(e)
  PROVE  AgentIInv'
<1>1. /\ loop[e].at = "start" /\ UNCHANGED notLoop /\ loop[e] \in EmbeddedLoop
      /\ LoopOK(loop[e], granted)
  BY LoopTypes DEF Enter
<1>2. approval[e].status = "none" /\ \A c \in Free : ~HasMade(loop[e], c)
  BY <1>1 DEF AgentIInv, ApprovalsOK, Parked, HasMade
<1>3. CASE resumeApproval = Nobody
  <2>1. PICK l : l = [loop[e] EXCEPT !.at = "ask"]
    OBVIOUS
  <2>2. loop' = [loop EXCEPT ![e] = l]
    BY <1>3, <2>1 DEF Enter, Goes
  <2>3. /\ l \in EmbeddedLoop /\ l.at = "ask" /\ l.source = loop[e].source
        /\ l.answered = loop[e].answered /\ l.replays = loop[e].replays
    BY <1>1, <2>1 DEF EmbeddedLoop
  <2>4. LoopOK(l, granted)
    BY <1>1, <2>3 DEF LoopOK, InCall
  <2> QED
    BY <1>1, <1>2, <2>2, <2>3, <2>4, LoopMoves
<1>4. CASE resumeApproval # Nobody
  <2>1. PICK a \in Executions : a = resumeApproval
    BY <1>4 DEF AgentIInv, AgentTypeOK
  <2>2. PICK l : l = [loop[e] EXCEPT !.at = "call", !.adopted = a, !.replays = TRUE,
                        !.turn = loop[a].turn, !.proposed = loop[a].proposed,
                        !.done = loop[a].done]
    OBVIOUS
  <2>3. loop' = [loop EXCEPT ![e] = l]
    BY <1>4, <2>1, <2>2 DEF Enter
  <2>4. loop[a] \in EmbeddedLoop /\ a \in granted /\ Parked(loop[a])
    BY <1>4, <2>1, LoopTypes DEF AgentIInv, ResumeOK, ApprovalsOK
  <2>5. /\ l \in EmbeddedLoop /\ l.at = "call" /\ l.source = loop[e].source
        /\ l.answered = loop[e].answered /\ l.replays /\ l.adopted = a
        /\ l.proposed = loop[a].proposed /\ l.done = loop[a].done
    BY <1>1, <2>2, <2>4 DEF EmbeddedLoop
  <2>6. LoopOK(l, granted)
    BY <2>4, <2>5 DEF LoopOK, InCall, Parked
  <2> QED
    BY <1>1, <1>2, <2>3, <2>5, <2>6, LoopMoves
<1> QED
  BY <1>3, <1>4

\* The loop is over before it parked anything.
LEMMA EndsKeeps ==
  ASSUME AgentIInv, NEW e \in Executions, loop[e].at \notin {"unused", "index", "ended"},
         loop' = Ends(e), UNCHANGED notLoop
  PROVE  AgentIInv'
<1>1. PICK l : l = [Unused EXCEPT !.at = "ended", !.source = loop[e].source,
                      !.adopted = loop[e].adopted, !.answered = loop[e].answered]
  OBVIOUS
<1>2. loop' = [loop EXCEPT ![e] = l]
  BY <1>1 DEF Ends
<1>3. /\ l \in EmbeddedLoop /\ l.at = "ended" /\ l.source = loop[e].source
      /\ l.answered = loop[e].answered /\ ~l.replays
  <2>1. /\ loop[e] \in EmbeddedLoop /\ Unused \in EmbeddedLoop /\ ~Unused.replays
    BY LoopTypes DEF EmbeddedLoop, Unused
  <2>2. /\ loop[e].source \in Executions \cup {Nobody} /\ loop[e].answered \in BOOLEAN
        /\ loop[e].adopted \in Executions \cup {Nobody}
    BY <2>1 DEF EmbeddedLoop
  <2> QED
    BY <1>1, <2>1, <2>2 DEF EmbeddedLoop
<1>4. LoopOK(l, granted)
  BY <1>3 DEF LoopOK, InCall
<1>5. approval[e].status = "none"
  BY DEF AgentIInv, ApprovalsOK, Parked
<1>6. \A c \in Free : HasMade(l, c)
  BY <1>3 DEF HasMade
<1> QED
  BY <1>2, <1>3, <1>4, <1>5, <1>6, LoopMoves

\* resume() has returned, or the Runtime has given up on the loop.
LEMMA AnsweredKeeps ==
  ASSUME AgentIInv, NEW e \in Executions, ResumeEnds(e) \/ TimesOut(e)
  PROVE  AgentIInv'
<1>1. PICK l : l = [loop[e] EXCEPT !.answered = TRUE]
  OBVIOUS
<1>2. /\ loop' = [loop EXCEPT ![e] = l] /\ loop[e].at # "unused"
      /\ UNCHANGED <<approval, deciding, keys, effects, granted>>
      /\ resumeApproval' = Nobody \/ (resumeApproval' = resumeApproval /\ loop[e].source = Nobody)
  BY <1>1 DEF ResumeEnds, TimesOut
<1>3. agentFaults' \in 0 .. MaxAgentFaults
  BY AgentAssumption DEF ResumeEnds, TimesOut, AgentIInv, AgentTypeOK
<1>4. /\ l \in EmbeddedLoop /\ l.at = loop[e].at /\ l.source = loop[e].source
      /\ l.adopted = loop[e].adopted /\ l.replays = loop[e].replays /\ l.seen = loop[e].seen
      /\ l.proposed = loop[e].proposed /\ l.done = loop[e].done
  BY <1>1, LoopTypes DEF EmbeddedLoop
<1>5. LoopOK(l, granted)
  BY <1>2, <1>4, LoopTypes DEF LoopOK, Parked
<1>6. approval[e].status # "none" => Parked(l)
  BY <1>4 DEF AgentIInv, ApprovalsOK, Parked
<1>7. \A c \in Free : HasMade(loop[e], c) => HasMade(l, c)
  BY <1>4 DEF HasMade
<1>8. ResumeOK' /\ resumeApproval' \in Executions \cup {Nobody}
  BY <1>2, <1>4, StillResumed
<1>9. /\ keys' \subseteq Keys /\ effects' \in [Keys -> Nat] /\ EffectsApproved'
  BY <1>2 DEF AgentIInv, AgentTypeOK, EffectsApproved
<1>10. \A c \in Free : effects'[<<e, c>>] > 0 => HasMade(l, c)
  BY <1>2, <1>7 DEF AgentIInv
<1> QED
  BY <1>2, <1>3, <1>4, <1>5, <1>6, <1>8, <1>9, <1>10, LoopChanges

LEMMA ProposesKeepsA ==
  ASSUME AgentIInv, NEW e \in Executions, NEW proposed \in AgentProposals,
         ModelProposes(e, proposed)
  PROVE  AgentIInv'
<1>1. PICK l : l = [loop[e] EXCEPT !.at = "call", !.proposed = proposed, !.done = 0]
  OBVIOUS
<1>2. /\ loop' = [loop EXCEPT ![e] = l] /\ loop[e].at = "ask" /\ Admissible(e, proposed)
      /\ UNCHANGED notLoop /\ loop[e] \in EmbeddedLoop /\ LoopOK(loop[e], granted)
  BY <1>1, LoopTypes DEF ModelProposes, AsksModel
<1>3. proposed \in Seq(AgentTools) /\ proposed # <<>>
  BY AgentAssumption
<1>4. /\ l \in EmbeddedLoop /\ l.at = "call" /\ l.source = loop[e].source
      /\ l.answered = loop[e].answered /\ l.replays = loop[e].replays /\ l.seen = loop[e].seen
      /\ l.proposed = proposed /\ l.done = 0
  BY <1>1, <1>2, <1>3 DEF EmbeddedLoop
<1>5. Len(proposed) \in Nat /\ 0 < Len(proposed)
  BY <1>3
<1>6. /\ \A i, j \in DOMAIN proposed : proposed[i] = proposed[j] => i = j
      /\ \A i \in DOMAIN proposed : proposed[i] \notin loop[e].seen
  BY <1>2 DEF Admissible
<1>7. ~l.replays
  BY <1>2, <1>4 DEF LoopOK, InCall
<1>8. LoopOK(l, granted)
  BY <1>4, <1>5, <1>6, <1>7 DEF LoopOK
<1>9. approval[e].status = "none"
  BY <1>2 DEF AgentIInv, ApprovalsOK, Parked
<1>10. \A c \in Free : HasMade(loop[e], c) => HasMade(l, c)
  BY <1>2, <1>4 DEF HasMade
<1> QED
  BY <1>2, <1>4, <1>8, <1>9, <1>10, LoopMoves

\* A call is answered: the loop has the result, from the ledger or the tool.
LEMMA RanKeeps ==
  ASSUME AgentIInv, NEW e \in Executions, AnswerFromLedger(e) \/ ToolAnswers(e)
  PROVE  AgentIInv'
<1>1. PICK l : l = [loop[e] EXCEPT !.at = "ran"]
  OBVIOUS
<1>2. /\ loop' = [loop EXCEPT ![e] = l] /\ loop[e].at \in {"call", "running"}
      /\ UNCHANGED <<approval, deciding, resumeApproval, effects, granted, agentFaults>>
  BY <1>1 DEF AnswerFromLedger, ToolAnswers, Admitted, Goes, notLoop
<1>3. /\ loop[e] \in EmbeddedLoop /\ LoopOK(loop[e], granted) /\ keys \subseteq Keys
  BY LoopTypes DEF AgentIInv, AgentTypeOK
<1>4. /\ l \in EmbeddedLoop /\ l.at = "ran" /\ l.source = loop[e].source
      /\ l.adopted = loop[e].adopted /\ l.replays = loop[e].replays /\ l.seen = loop[e].seen
      /\ l.proposed = loop[e].proposed /\ l.done = loop[e].done
      /\ l.answered = loop[e].answered
  BY <1>1, <1>3 DEF EmbeddedLoop
<1>5. LoopOK(l, granted)
  BY <1>2, <1>3, <1>4 DEF LoopOK, InCall
<1>6. approval[e].status = "none"
  BY <1>2 DEF AgentIInv, ApprovalsOK, Parked
<1>7. \A c \in Free : HasMade(loop[e], c) => HasMade(l, c)
  BY <1>2, <1>4 DEF HasMade
<1>8. ResumeOK' /\ resumeApproval' \in Executions \cup {Nobody}
  BY <1>2, <1>4, StillResumed
<1>9. Key(e) \in Keys
  <2>1. loop[e].done + 1 \in DOMAIN loop[e].proposed
    BY <1>2, <1>3 DEF LoopOK, InCall, EmbeddedLoop
  <2>2. Tool(e) \in AgentTools
    BY <1>3, <2>1 DEF Tool, EmbeddedLoop
  <2>3. loop[e].replays => loop[e].adopted \in Executions
    BY <1>3 DEF LoopOK, AgentIInv, AgentTypeOK
  <2> QED
    BY <2>2, <2>3 DEF Key, Keys
<1>10. keys' \subseteq Keys
  BY <1>3, <1>9 DEF AnswerFromLedger, ToolAnswers, notLoop
<1>11. /\ effects' \in [Keys -> Nat] /\ EffectsApproved' /\ agentFaults' \in 0 .. MaxAgentFaults
  BY <1>2 DEF AgentIInv, AgentTypeOK, EffectsApproved
<1>12. \A c \in Free : effects'[<<e, c>>] > 0 => HasMade(l, c)
  BY <1>2, <1>7 DEF AgentIInv
<1> QED
  BY <1>2, <1>4, <1>5, <1>6, <1>8, <1>10, <1>11, <1>12, LoopChanges

\* The tool runs: for a replay under the key of the approved call, else for a
\* call that nobody has to approve and that has not been made.
LEMMA ExecuteKeeps ==
  ASSUME AgentIInv, NEW e \in Executions, ExecuteTool(e)
  PROVE  AgentIInv'
<1>1. PICK l : l = [loop[e] EXCEPT !.at = "running"]
  OBVIOUS
<1>2. PICK k : k = Key(e)
  OBVIOUS
<1>3. /\ loop' = [loop EXCEPT ![e] = l] /\ loop[e].at = "call"
      /\ loop[e].replays \/ Tool(e) \notin ApprovalTools
      /\ effects' = [effects EXCEPT ![k] = @ + 1]
      /\ UNCHANGED <<approval, deciding, resumeApproval, keys, granted, agentFaults>>
  BY <1>1, <1>2 DEF ExecuteTool, Admitted, Goes
<1>4. /\ loop[e] \in EmbeddedLoop /\ LoopOK(loop[e], granted) /\ effects \in [Keys -> Nat]
      /\ EffectsApproved /\ granted \subseteq Executions
  BY LoopTypes DEF AgentIInv, AgentTypeOK
<1>5. /\ l \in EmbeddedLoop /\ l.at = "running" /\ l.source = loop[e].source
      /\ l.adopted = loop[e].adopted /\ l.replays = loop[e].replays /\ l.seen = loop[e].seen
      /\ l.proposed = loop[e].proposed /\ l.done = loop[e].done
      /\ l.answered = loop[e].answered
  BY <1>1, <1>4 DEF EmbeddedLoop
<1>6. LoopOK(l, granted)
  BY <1>3, <1>4, <1>5 DEF LoopOK, InCall
<1>7. approval[e].status = "none"
  BY <1>3 DEF AgentIInv, ApprovalsOK, Parked
<1>8. ResumeOK' /\ resumeApproval' \in Executions \cup {Nobody}
  BY <1>3, <1>5, StillResumed
<1>9. PICK tool \in AgentTools : tool = Tool(e)
  BY <1>3, <1>4 DEF LoopOK, InCall, EmbeddedLoop, Tool
<1>10. PICK owner \in Executions : k = <<owner, tool>> /\
         IF loop[e].replays THEN owner \in granted /\ tool \in ApprovalTools
         ELSE owner = e /\ tool \notin ApprovalTools
  <2>1. CASE loop[e].replays
    BY <2>1, <1>2, <1>4, <1>9 DEF LoopOK, Key, Tool
  <2>2. CASE ~loop[e].replays
    BY <2>2, <1>2, <1>3, <1>9 DEF Key
  <2> QED
    BY <2>1, <2>2
<1>11. /\ k \in Keys /\ effects' \in [Keys -> Nat] /\ effects'[k] = effects[k] + 1
       /\ \A j \in Keys : j # k => effects'[j] = effects[j]
  BY <1>3, <1>4, <1>10 DEF Keys
<1>12. ~loop[e].replays => effects[k] = 0
  <2>1. ASSUME ~loop[e].replays PROVE ~HasMade(loop[e], tool)
    <3>1. loop[e].done + 1 \in DOMAIN loop[e].proposed
      BY <1>3, <1>4, <2>1 DEF LoopOK, InCall, EmbeddedLoop
    <3>2. tool \notin loop[e].seen
      BY <1>3, <1>4, <1>9, <2>1, <3>1 DEF LoopOK, InCall, Tool, EmbeddedLoop
    <3> QED
      BY <1>3, <3>2 DEF HasMade
  <2>2. ASSUME ~loop[e].replays PROVE ~(effects[<<e, tool>>] > 0)
    BY <2>1, <2>2, <1>10 DEF AgentIInv, Free
  <2> QED
    BY <2>2, <1>4, <1>10, <1>11
<1>13. ASSUME NEW d \in Executions, NEW c \in AgentTools
       PROVE  /\ c \in ApprovalTools => (effects'[<<d, c>>] > 0 => d \in granted')
              /\ c \notin ApprovalTools => effects'[<<d, c>>] <= 1
  <2>1. CASE <<d, c>> = k
    <3>1. d = owner /\ c = tool
      BY <2>1, <1>10
    <3>2. CASE loop[e].replays
      BY <3>1, <3>2, <1>3, <1>10
    <3>3. CASE ~loop[e].replays
      BY <2>1, <3>1, <3>3, <1>10, <1>11, <1>12
    <3> QED
      BY <3>2, <3>3
  <2>2. CASE <<d, c>> # k
    <3>1. effects'[<<d, c>>] = effects[<<d, c>>]
      BY <2>2, <1>11 DEF Keys
    <3> QED
      BY <3>1, <1>3, <1>4 DEF EffectsApproved
  <2> QED
    BY <2>1, <2>2
<1>14. EffectsApproved'
  BY <1>13 DEF EffectsApproved
<1>15. ASSUME NEW c \in Free, effects'[<<e, c>>] > 0 PROVE HasMade(l, c)
  <2>1. CASE <<e, c>> = k
    <3>1. c = tool /\ ~loop[e].replays
      BY <2>1, <1>10 DEF Free
    <3> QED
      BY <3>1, <1>5, <1>9 DEF HasMade, Tool
  <2>2. CASE <<e, c>> # k
    <3>1. effects[<<e, c>>] > 0
      BY <2>2, <1>11, <1>15 DEF Keys, Free
    <3>2. HasMade(loop[e], c)
      BY <3>1 DEF AgentIInv
    <3> QED
      BY <3>2, <1>3, <1>5 DEF HasMade
  <2> QED
    BY <2>1, <2>2
<1>16. ASSUME NEW d \in Executions, NEW c \in Free, d # e
       PROVE  effects'[<<d, c>>] = effects[<<d, c>>]
  <2>1. <<d, c>> # k
    BY <1>10, <1>16 DEF Free
  <2> QED
    BY <2>1, <1>11 DEF Keys, Free
<1>17. keys' \subseteq Keys /\ agentFaults' \in 0 .. MaxAgentFaults
  BY <1>3 DEF AgentIInv, AgentTypeOK
<1> QED
  BY <1>3, <1>5, <1>6, <1>7, <1>8, <1>11, <1>14, <1>15, <1>16, <1>17, LoopChanges

LEMMA ReplayedKeeps ==
  ASSUME AgentIInv, NEW e \in Executions, Replayed(e)
  PROVE  AgentIInv'
<1>1. loop[e].at = "ran" /\ loop[e].replays /\ UNCHANGED notLoop
  BY DEF Replayed
<1>2. CASE ~Continuable(loop[e].proposed)
  BY <1>1, <1>2, EndsKeeps DEF Replayed
<1>3. CASE Continuable(loop[e].proposed)
  <2>1. /\ loop[e] \in EmbeddedLoop /\ LoopOK(loop[e], granted)
    BY LoopTypes
  <2>2. PICK tool \in AgentTools : tool = Tool(e)
    BY <1>1, <2>1 DEF LoopOK, EmbeddedLoop, Tool
  <2>3. PICK l : l = [loop[e] EXCEPT !.at = "ask", !.replays = FALSE, !.turn = @ + 1,
                        !.total = 1, !.seen = {tool}]
    OBVIOUS
  <2>4. loop' = [loop EXCEPT ![e] = l]
    <3>1. loop' = [loop EXCEPT ![e].at = "ask", ![e].replays = FALSE,
                     ![e].turn = @ + 1, ![e].total = 1, ![e].seen = {Tool(e)}]
      BY <1>3 DEF Replayed
    <3> QED
      BY <3>1, <2>2, <2>3
  <2>5. loop[e].turn + 1 \in Nat /\ {tool} \in SUBSET AgentTools
    BY <2>1 DEF EmbeddedLoop
  <2>6. /\ l \in EmbeddedLoop /\ l.at = "ask" /\ l.source = loop[e].source
        /\ l.answered = loop[e].answered /\ ~l.replays
    BY <2>1, <2>3, <2>5 DEF EmbeddedLoop
  <2>7. LoopOK(l, granted)
    BY <2>6 DEF LoopOK, InCall
  <2>8. approval[e].status = "none"
    BY <1>1 DEF AgentIInv, ApprovalsOK, Parked
  <2>9. \A c \in Free : ~HasMade(loop[e], c)
    BY <1>1 DEF HasMade
  <2> QED
    BY <1>1, <2>4, <2>6, <2>7, <2>8, <2>9, LoopMoves
<1> QED
  BY <1>2, <1>3

LEMMA ContinueKeeps ==
  ASSUME AgentIInv, NEW e \in Executions, Continue(e)
  PROVE  AgentIInv'
<1>1. /\ loop[e] \in EmbeddedLoop /\ LoopOK(loop[e], granted)
      /\ loop[e].at = "ran" /\ ~loop[e].replays /\ UNCHANGED notLoop
  BY LoopTypes DEF Continue
<1>2. /\ loop[e].done \in Nat /\ loop[e].total \in Nat /\ loop[e].turn \in Nat
      /\ loop[e].seen \subseteq AgentTools /\ loop[e].proposed \in Seq(AgentTools)
      /\ Len(loop[e].proposed) \in Nat
      /\ DOMAIN loop[e].proposed = 1 .. Len(loop[e].proposed)
  BY <1>1 DEF EmbeddedLoop
<1>3. /\ loop[e].done < Len(loop[e].proposed)
      /\ \A i, j \in DOMAIN loop[e].proposed :
           loop[e].proposed[i] = loop[e].proposed[j] => i = j
      /\ \A j \in DOMAIN loop[e].proposed :
           loop[e].done < j => loop[e].proposed[j] \notin loop[e].seen
  BY <1>1 DEF LoopOK, InCall
<1>4. loop[e].done + 1 \in DOMAIN loop[e].proposed
  BY <1>2, <1>3
<1>5. PICK tool \in AgentTools : tool = Tool(e)
  BY <1>2, <1>4 DEF Tool
<1>6. PICK place \in {"ask", "call"} :
        place = IF loop[e].done + 1 = Len(loop[e].proposed) THEN "ask" ELSE "call"
  OBVIOUS
<1>7. PICK turn \in Nat :
        turn = IF loop[e].done + 1 = Len(loop[e].proposed) THEN loop[e].turn + 1 ELSE loop[e].turn
  BY <1>2
<1>8. PICK l : l = [loop[e] EXCEPT !.at = place, !.turn = turn, !.done = @ + 1,
                      !.total = @ + 1, !.seen = @ \cup {tool}]
  OBVIOUS
<1>9. loop' = [loop EXCEPT ![e] = l]
  <2>1. loop' = [loop EXCEPT
          ![e].at = IF loop[e].done + 1 = Len(loop[e].proposed) THEN "ask" ELSE "call",
          ![e].turn = IF loop[e].done + 1 = Len(loop[e].proposed) THEN @ + 1 ELSE @,
          ![e].done = @ + 1, ![e].total = @ + 1, ![e].seen = @ \cup {Tool(e)}]
    BY DEF Continue
  <2> QED
    BY <2>1, <1>5, <1>6, <1>7, <1>8
<1>10. /\ loop[e].done + 1 \in Nat /\ loop[e].total + 1 \in Nat
       /\ loop[e].seen \cup {tool} \in SUBSET AgentTools
  BY <1>2
<1>11. /\ l \in EmbeddedLoop /\ l.at = place /\ l.source = loop[e].source
       /\ l.answered = loop[e].answered /\ ~l.replays /\ l.proposed = loop[e].proposed
       /\ l.done = loop[e].done + 1 /\ l.seen = loop[e].seen \cup {tool}
  BY <1>1, <1>8, <1>10 DEF EmbeddedLoop
<1>12. LoopOK(l, granted)
  <2>1. place = "call" => l.done < Len(l.proposed)
    BY <1>2, <1>3, <1>6, <1>11
  <2>2. ASSUME NEW j \in DOMAIN l.proposed, l.done < j PROVE l.proposed[j] \notin l.seen
    <3>1. loop[e].proposed[j] \notin loop[e].seen
      BY <2>2, <1>2, <1>3, <1>11
    <3>2. loop[e].proposed[j] # tool
      BY <2>2, <1>2, <1>3, <1>4, <1>5, <1>11, SMTT(30) DEF Tool
    <3> QED
      BY <3>1, <3>2, <1>11
  <2> QED
    BY <2>1, <2>2, <1>3, <1>11 DEF LoopOK, InCall
<1>13. approval[e].status = "none"
  BY <1>1 DEF AgentIInv, ApprovalsOK, Parked
<1>14. \A c \in Free : HasMade(loop[e], c) => HasMade(l, c)
  BY <1>1, <1>5, <1>11 DEF HasMade, Tool
<1> QED
  BY <1>1, <1>9, <1>11, <1>12, <1>13, <1>14, LoopMoves

\* Parking a call: the loop is over and keeps the call for a resume().
LEMMA Parks ==
  ASSUME AgentIInv, NEW e \in Executions, NEW l \in EmbeddedLoop, NEW r \in PendingApprovalRecord,
         loop' = [loop EXCEPT ![e] = l], Parked(l), ~l.replays,
         l.source = loop[e].source, l.answered = loop[e].answered,
         approval' = [approval EXCEPT ![e] = r],
         r.status = "awaiting" \/ r.status = approval[e].status,
         UNCHANGED <<deciding, resumeApproval, keys, effects, granted, agentFaults>>
  PROVE  AgentIInv'
<1>1. /\ loop \in [Executions -> EmbeddedLoop] /\ approval \in [Executions -> PendingApprovalRecord]
      /\ AgentTypeOK /\ ApprovalsOK /\ ResumeOK
      /\ \A d \in Executions : LoopOK(loop[d], granted)
      /\ \A d \in Executions, c \in Free : effects[<<d, c>>] > 0 => HasMade(loop[d], c)
  BY DEF AgentIInv, AgentTypeOK
<1>2. /\ loop' \in [Executions -> EmbeddedLoop] /\ loop'[e] = l
      /\ \A d \in Executions : d # e => loop'[d] = loop[d]
  BY <1>1
<1>3. /\ approval' \in [Executions -> PendingApprovalRecord] /\ approval'[e] = r
      /\ \A d \in Executions : d # e => approval'[d] = approval[d]
  BY <1>1
<1>4. AgentTypeOK'
  BY <1>1, <1>2, <1>3 DEF AgentTypeOK
<1>5. EffectsApproved'
  BY DEF AgentIInv, EffectsApproved
<1>6. ASSUME NEW a \in Executions
      PROVE  /\ approval'[a].status # "none" => Parked(loop'[a])
             /\ approval'[a].status = "approved" => a \in granted
             /\ approval[a].status # "none" => approval'[a].status # "none"
  <2>1. CASE a = e
    BY <2>1, <1>1, <1>2, <1>3 DEF ApprovalsOK
  <2>2. CASE a # e
    BY <2>2, <1>1, <1>2, <1>3 DEF ApprovalsOK
  <2> QED
    BY <2>1, <2>2
<1>7. \A d \in deciding : d.of \in Executions
  BY <1>1 DEF AgentTypeOK
<1>8. ApprovalsOK'
  BY <1>1, <1>6, <1>7 DEF ApprovalsOK
<1>9. ResumeOK'
  <2>1. CASE resumeApproval = Nobody
    BY <2>1 DEF ResumeOK
  <2>2. CASE resumeApproval # Nobody
    <3>1. /\ resumeApproval \in Executions /\ resumeApproval \in granted
          /\ approval[resumeApproval].status # "none"
      BY <2>2, <1>1 DEF ResumeOK, AgentTypeOK
    <3>2. PICK r1 \in Executions : loop[r1].source = resumeApproval /\ ~loop[r1].answered
      BY <2>2, <1>1 DEF ResumeOK
    <3>3. loop'[r1].source = resumeApproval /\ ~loop'[r1].answered
      <4>1. CASE r1 = e
        BY <4>1, <3>2, <1>2
      <4>2. CASE r1 # e
        BY <4>2, <3>2, <1>2
      <4> QED
        BY <4>1, <4>2
    <3> QED
      BY <3>1, <3>3, <1>6 DEF ResumeOK
  <2> QED
    BY <2>1, <2>2
<1>10. LoopOK(l, granted) /\ \A c \in Free : HasMade(l, c)
  BY DEF Parked, LoopOK, HasMade, InCall
<1>11. ASSUME NEW d \in Executions
       PROVE  LoopOK(loop'[d], granted')
  <2>1. CASE d = e
    BY <2>1, <1>2, <1>10
  <2>2. CASE d # e
    BY <2>2, <1>1, <1>2
  <2> QED
    BY <2>1, <2>2
<1>12. ASSUME NEW d \in Executions, NEW c \in Free, effects'[<<d, c>>] > 0
       PROVE  HasMade(loop'[d], c)
  <2>1. CASE d = e
    BY <2>1, <1>2, <1>10
  <2>2. CASE d # e
    BY <2>2, <1>12, <1>1, <1>2
  <2> QED
    BY <2>1, <2>2
<1> QED
  BY <1>4, <1>5, <1>8, <1>9, <1>11, <1>12 DEF AgentIInv

LEMMA ParkKeeps ==
  ASSUME AgentIInv, NEW e \in Executions, Park(e)
  PROVE  AgentIInv'
<1>1. PICK l : l = [loop[e] EXCEPT !.at = "index"]
  OBVIOUS
<1>2. PICK r : r = [approval[e] EXCEPT !.status = "awaiting"]
  OBVIOUS
<1>3. /\ loop[e].at = "call" /\ ~loop[e].replays /\ Tool(e) \in ApprovalTools
      /\ loop' = [loop EXCEPT ![e] = l] /\ approval' = [approval EXCEPT ![e] = r]
      /\ UNCHANGED <<deciding, resumeApproval, keys, effects, granted, agentFaults>>
  BY <1>1, <1>2 DEF Park, Goes
<1>4. /\ loop[e] \in EmbeddedLoop /\ LoopOK(loop[e], granted)
      /\ approval \in [Executions -> PendingApprovalRecord]
  BY LoopTypes
<1>5. /\ l \in EmbeddedLoop /\ l.at = "index" /\ l.source = loop[e].source
      /\ l.answered = loop[e].answered /\ l.replays = loop[e].replays
      /\ l.proposed = loop[e].proposed /\ l.done = loop[e].done
  BY <1>1, <1>4 DEF EmbeddedLoop
<1>6. Parked(l)
  BY <1>3, <1>4, <1>5 DEF Parked, LoopOK, InCall, Tool
<1>7. r \in PendingApprovalRecord /\ r.status = "awaiting"
  BY <1>2, <1>4 DEF PendingApprovalRecord
<1> QED
  BY <1>3, <1>5, <1>6, <1>7, Parks

\* A loop that is writing its index has parked a call, and is no replay.
LEMMA IndexKeeps ==
  ASSUME AgentIInv, NEW e \in Executions, Index(e)
  PROVE  AgentIInv'
<1>1. PICK l : l = [loop[e] EXCEPT !.at = "ended", !.total = 0, !.seen = {}]
  OBVIOUS
<1>2. PICK r : r = [approval[e] EXCEPT !.indexed = TRUE]
  OBVIOUS
<1>3. /\ loop[e].at = "index"
      /\ loop' = [loop EXCEPT ![e] = l] /\ approval' = [approval EXCEPT ![e] = r]
      /\ UNCHANGED <<deciding, resumeApproval, keys, effects, granted, agentFaults>>
  BY <1>1, <1>2 DEF Index
<1>4. /\ loop[e] \in EmbeddedLoop /\ LoopOK(loop[e], granted)
      /\ approval \in [Executions -> PendingApprovalRecord]
  BY LoopTypes
<1>5. /\ l \in EmbeddedLoop /\ l.at = "ended" /\ l.source = loop[e].source
      /\ l.answered = loop[e].answered /\ l.replays = loop[e].replays
      /\ l.proposed = loop[e].proposed /\ l.done = loop[e].done
  BY <1>1, <1>4 DEF EmbeddedLoop
<1>6. Parked(l) /\ ~l.replays
  BY <1>3, <1>4, <1>5 DEF Parked, LoopOK, InCall
<1>7. r \in PendingApprovalRecord /\ r.status = approval[e].status
  BY <1>2, <1>4 DEF PendingApprovalRecord
<1> QED
  BY <1>3, <1>5, <1>6, <1>7, Parks

\* A decision reads the record, and writes it when its await is over.
LEMMA DecideKeeps ==
  ASSUME AgentIInv, NEW e \in Executions, NEW verdict \in {"approved", "rejected"},
         Decide(e, verdict)
  PROVE  AgentIInv'
<1>1. /\ approval[e].status = "awaiting"
      /\ deciding' = deciding \cup {[of |-> e, outcome |-> verdict]}
      /\ UNCHANGED <<loop, approval, resumeApproval, keys, effects, granted, agentFaults>>
  BY DEF Decide
<1>2. AgentTypeOK'
  BY <1>1 DEF AgentIInv, AgentTypeOK
<1>3. ApprovalsOK'
  BY <1>1 DEF AgentIInv, ApprovalsOK
<1>4. ResumeOK' /\ EffectsApproved'
  BY <1>1 DEF AgentIInv, ResumeOK, EffectsApproved
<1> QED
  BY <1>1, <1>2, <1>3, <1>4 DEF AgentIInv

LEMMA DecidedKeeps ==
  ASSUME AgentIInv, NEW d \in deciding, Decided(d)
  PROVE  AgentIInv'
<1>1. PICK a \in Executions, verdict \in {"approved", "rejected"} :
        d = [of |-> a, outcome |-> verdict]
  BY DEF AgentIInv, AgentTypeOK
<1>2. d.of = a /\ d.outcome = verdict
  BY <1>1
<1>3. /\ approval' = [approval EXCEPT ![a] = [status |-> verdict, indexed |-> TRUE]]
      /\ deciding' = deciding \ {d}
      /\ granted' = granted \cup {e \in {a} : verdict = "approved"}
      /\ UNCHANGED <<loop, resumeApproval, keys, effects, agentFaults>>
  BY <1>2 DEF Decided
<1>4. /\ AgentTypeOK /\ ApprovalsOK /\ ResumeOK /\ EffectsApproved
      /\ approval \in [Executions -> PendingApprovalRecord] /\ granted \subseteq Executions
      /\ \A e \in Executions : LoopOK(loop[e], granted)
      /\ \A e \in Executions, c \in Free : effects[<<e, c>>] > 0 => HasMade(loop[e], c)
  BY DEF AgentIInv, AgentTypeOK
<1>5. /\ approval' \in [Executions -> PendingApprovalRecord] /\ approval'[a].status = verdict
      /\ \A e \in Executions : e # a => approval'[e] = approval[e]
  BY <1>3, <1>4 DEF PendingApprovalRecord
<1>6. granted \subseteq granted' /\ granted' \subseteq Executions /\ (verdict = "approved" => a \in granted')
  BY <1>3, <1>4
<1>7. AgentTypeOK'
  BY <1>3, <1>4, <1>5, <1>6 DEF AgentTypeOK
<1>8. approval[a].status # "none"
  BY <1>2, <1>4 DEF ApprovalsOK
<1>9. ASSUME NEW e \in Executions
      PROVE  /\ approval'[e].status # "none" => Parked(loop[e])
             /\ approval'[e].status = "approved" => e \in granted'
             /\ approval[e].status # "none" => approval'[e].status # "none"
  <2>1. CASE e = a
    BY <2>1, <1>4, <1>5, <1>6, <1>8 DEF ApprovalsOK
  <2>2. CASE e # a
    BY <2>2, <1>4, <1>5, <1>6 DEF ApprovalsOK
  <2> QED
    BY <2>1, <2>2
<1>10. \A e \in Executions : Parked(loop[e])' <=> Parked(loop[e])
  BY <1>3 DEF Parked
<1>11. \A b \in deciding : b.of \in Executions
  BY <1>4 DEF AgentTypeOK
<1>12. ApprovalsOK'
  BY <1>3, <1>4, <1>9, <1>11 DEF ApprovalsOK
<1>13. ResumeOK'
  BY <1>3, <1>4, <1>6, <1>9 DEF ResumeOK, AgentTypeOK
<1>14. EffectsApproved'
  BY <1>3, <1>4, <1>6 DEF EffectsApproved
<1>15. ASSUME NEW e \in Executions PROVE LoopOK(loop'[e], granted')
  BY <1>3, <1>4, <1>6 DEF LoopOK
<1> QED
  BY <1>3, <1>4, <1>7, <1>12, <1>13, <1>14, <1>15 DEF AgentIInv

\* After a crash only the records and the ledger are left.
LEMMA AgentCrashKeeps ==
  ASSUME AgentIInv, NEW torn \in SUBSET {d.of : d \in deciding}, AgentCrash(torn)
  PROVE  AgentIInv'
<1>1. /\ AgentTypeOK /\ ApprovalsOK /\ EffectsApproved
      /\ loop \in [Executions -> EmbeddedLoop] /\ approval \in [Executions -> PendingApprovalRecord]
      /\ \A e \in Executions : LoopOK(loop[e], granted)
      /\ \A e \in Executions, c \in Free : effects[<<e, c>>] > 0 => HasMade(loop[e], c)
      /\ \A d \in deciding : d.of \in Executions
  BY DEF AgentIInv, AgentTypeOK
<1>2. /\ approval' = [e \in Executions |-> IF e \in torn
                        THEN [approval[e] EXCEPT !.status = "torn"] ELSE approval[e]]
      /\ deciding' = {} /\ resumeApproval' = Nobody /\ UNCHANGED <<keys, effects, granted>>
      /\ agentFaults < MaxAgentFaults /\ agentFaults' = agentFaults + 1
  BY DEF AgentCrash
<1>3. ASSUME NEW e \in Executions
      PROVE  /\ loop'[e] \in EmbeddedLoop /\ LoopOK(loop'[e], granted)
             /\ Parked(loop[e]) => Parked(loop'[e])
             /\ \A c \in Free : HasMade(loop[e], c) => HasMade(loop'[e], c)
  <2>1. loop'[e] = IF loop[e].at = "unused" THEN loop[e]
                   ELSE IF loop[e].at \in {"index", "ended"}
                   THEN [loop[e] EXCEPT !.at = "ended", !.answered = TRUE]
                   ELSE [Ends(e)[e] EXCEPT !.answered = TRUE]
    BY DEF AgentCrash
  <2>2. loop[e] \in EmbeddedLoop /\ LoopOK(loop[e], granted)
    BY <1>1
  <2>3. CASE loop[e].at = "unused"
    BY <2>1, <2>2, <2>3
  <2>4. CASE loop[e].at \in {"index", "ended"}
    <3>1. PICK l : l = [loop[e] EXCEPT !.at = "ended", !.answered = TRUE]
      OBVIOUS
    <3>2. loop'[e] = l
      BY <2>1, <2>4, <3>1
    <3>3. /\ l \in EmbeddedLoop /\ l.at = "ended" /\ l.replays = loop[e].replays
          /\ l.proposed = loop[e].proposed /\ l.done = loop[e].done
      BY <2>2, <3>1 DEF EmbeddedLoop
    <3>4. LoopOK(l, granted) /\ (Parked(loop[e]) => Parked(l)) /\ \A c : HasMade(l, c)
      BY <2>2, <2>4, <3>3 DEF LoopOK, InCall, Parked, HasMade
    <3> QED
      BY <3>2, <3>3, <3>4
  <2>5. CASE loop[e].at \notin {"unused", "index", "ended"}
    <3>1. PICK l : l = [Unused EXCEPT !.at = "ended", !.source = loop[e].source,
                          !.adopted = loop[e].adopted, !.answered = TRUE]
      OBVIOUS
    <3>2. Ends(e)[e] = [Unused EXCEPT !.at = "ended", !.source = loop[e].source,
                          !.adopted = loop[e].adopted, !.answered = loop[e].answered]
      BY <1>1 DEF Ends
    <3>3. loop'[e] = l
      BY <2>1, <2>5, <3>1, <3>2 DEF Unused
    <3>4. /\ loop[e].source \in Executions \cup {Nobody}
          /\ loop[e].adopted \in Executions \cup {Nobody}
      BY <2>2 DEF EmbeddedLoop
    <3>5. Unused \in EmbeddedLoop /\ ~Unused.replays
      BY DEF EmbeddedLoop, Unused
    <3>6. l \in EmbeddedLoop /\ l.at = "ended" /\ ~l.replays
      BY <3>1, <3>4, <3>5 DEF EmbeddedLoop
    <3>7. LoopOK(l, granted) /\ ~Parked(loop[e]) /\ \A c : HasMade(l, c)
      BY <2>5, <3>6 DEF LoopOK, InCall, Parked, HasMade
    <3> QED
      BY <3>3, <3>6, <3>7
  <2> QED
    BY <2>3, <2>4, <2>5
<1>4. loop' \in [Executions -> EmbeddedLoop]
  <2>1. \E f : loop' = [e \in Executions |-> f[e]]
    BY ZenonT(40) DEF AgentCrash
  <2>2. loop' = [e \in Executions |-> loop'[e]]
    BY <2>1
  <2> QED
    BY <2>2, <1>3
<1>5. ASSUME NEW e \in Executions
      PROVE  /\ approval'[e] \in PendingApprovalRecord
             /\ approval'[e].status # "none" => approval[e].status # "none"
             /\ approval'[e].status = "approved" => approval[e].status = "approved"
  <2>1. CASE e \in torn
    <3>1. approval[e].status # "none" /\ approval[e] \in PendingApprovalRecord
      BY <2>1, <1>1 DEF ApprovalsOK
    <3>2. approval'[e] = [approval[e] EXCEPT !.status = "torn"]
      BY <2>1, <1>2
    <3> QED
      BY <3>1, <3>2 DEF PendingApprovalRecord
  <2>2. CASE e \notin torn
    BY <2>2, <1>1, <1>2
  <2> QED
    BY <2>1, <2>2
<1>6. approval' \in [Executions -> PendingApprovalRecord]
  BY <1>2, <1>5
<1>7. agentFaults' \in 0 .. MaxAgentFaults
  BY <1>1, <1>2, AgentAssumption DEF AgentTypeOK
<1>8. AgentTypeOK'
  BY <1>1, <1>2, <1>4, <1>6, <1>7 DEF AgentTypeOK
<1>9. ApprovalsOK'
  BY <1>1, <1>2, <1>3, <1>5 DEF ApprovalsOK
<1>10. EffectsApproved' /\ ResumeOK'
  BY <1>1, <1>2 DEF EffectsApproved, ResumeOK
<1> QED
  BY <1>1, <1>2, <1>3, <1>8, <1>9, <1>10 DEF AgentIInv

LEMMA AgentStepOK == AgentIInv /\ [AgentNext]_agentVars => AgentIInv'
<1> SUFFICES ASSUME AgentIInv, [AgentNext]_agentVars PROVE AgentIInv'
  OBVIOUS
<1>1. CASE \E e \in Executions :
             \/ InvokeAgent(e) \/ \E s \in Executions : ResumeAgent(e, s)
             \/ Enter(e) \/ ResumeEnds(e) \/ TimesOut(e)
             \/ \E proposed \in AgentProposals : ModelProposes(e, proposed)
             \/ Park(e) \/ Index(e) \/ AnswerFromLedger(e)
             \/ ExecuteTool(e) \/ ToolAnswers(e) \/ Replayed(e) \/ Continue(e)
             \/ \E verdict \in {"approved", "rejected"} : Decide(e, verdict)
  BY <1>1, InvokeKeepsA, ResumeKeepsA, EnterKeeps, AnsweredKeeps, ProposesKeepsA, ParkKeeps,
     IndexKeeps, RanKeeps, ExecuteKeeps, ReplayedKeeps, ContinueKeeps, DecideKeeps
<1>2. CASE \E e \in Executions : LoopFails(e) \/ ModelAnswers(e)
  BY <1>2, EndsKeeps DEF LoopFails, ModelAnswers, AsksModel
<1>3. CASE \E d \in deciding : Decided(d)
  BY <1>3, DecidedKeeps
<1>4. CASE \E torn \in SUBSET {d.of : d \in deciding} : AgentCrash(torn)
  BY <1>4, AgentCrashKeeps
<1>5. CASE UNCHANGED agentVars
  <2>1. UNCHANGED <<loop, approval, deciding, resumeApproval, keys, effects, granted, agentFaults>>
    BY <1>5 DEF agentVars
  <2>2. AgentTypeOK' /\ EffectsApproved' /\ ApprovalsOK' /\ ResumeOK'
    BY <2>1 DEF AgentIInv, AgentTypeOK, EffectsApproved, ApprovalsOK, ResumeOK
  <2> QED
    BY <2>1, <2>2 DEF AgentIInv
<1> QED
  BY <1>1, <1>2, <1>3, <1>4, <1>5, Zenon DEF AgentNext

\* Only Enter picks a call up, and only while its resume() is under way.
LEMMA OnlyEnters ==
  ASSUME AgentIInv, [AgentNext]_agentVars, NEW e \in Executions,
         loop'[e].adopted # loop[e].adopted
  PROVE  \E r \in Executions : loop[r].source = loop'[e].adopted /\ ~loop[r].answered
<1>1. loop \in [Executions -> EmbeddedLoop]
  BY DEF AgentIInv, AgentTypeOK
<1>2. PICK d \in Executions : Enter(d)
  <2>1. ASSUME NEW d \in Executions,
               \/ InvokeAgent(d) \/ \E s \in Executions : ResumeAgent(d, s)
               \/ ResumeEnds(d) \/ TimesOut(d)
               \/ \E proposed \in AgentProposals : ModelProposes(d, proposed)
               \/ Park(d) \/ Index(d) \/ AnswerFromLedger(d) \/ ExecuteTool(d)
               \/ ToolAnswers(d) \/ Continue(d)
               \/ \E verdict \in {"approved", "rejected"} : Decide(d, verdict)
        PROVE  FALSE
    <3>1. loop[d] \in EmbeddedLoop /\ DOMAIN loop = Executions
      BY <1>1
    <3>2. CASE \/ InvokeAgent(d) \/ Park(d) \/ AnswerFromLedger(d) \/ ExecuteTool(d)
               \/ ToolAnswers(d)
      <4>1. \E place : loop' = [loop EXCEPT ![d].at = place]
        BY <3>2 DEF InvokeAgent, Park, AnswerFromLedger, ExecuteTool, ToolAnswers, Goes
      <4> QED
        BY <4>1, <1>1 DEF EmbeddedLoop
    <3>3. CASE \E s \in Executions : ResumeAgent(d, s)
      BY <3>3, <1>1 DEF ResumeAgent, EmbeddedLoop
    <3>4. CASE ResumeEnds(d) \/ TimesOut(d)
      <4>1. loop' = [loop EXCEPT ![d].answered = TRUE]
        BY <3>4 DEF ResumeEnds, TimesOut
      <4> QED
        BY <4>1, <1>1 DEF EmbeddedLoop
    <3>5. CASE \E proposed \in AgentProposals : ModelProposes(d, proposed)
      BY <3>5, <1>1 DEF ModelProposes, EmbeddedLoop
    <3>6. CASE Index(d)
      BY <3>6, <1>1 DEF Index, EmbeddedLoop
    <3>7. CASE Continue(d)
      <4>1. PICK place, turn, done, total, seen :
              loop' = [loop EXCEPT ![d].at = place, ![d].turn = turn, ![d].done = done,
                         ![d].total = total, ![d].seen = seen]
        BY <3>7, Zenon DEF Continue
      <4> QED
        BY <4>1, <1>1 DEF EmbeddedLoop
    <3>8. CASE \E verdict \in {"approved", "rejected"} : Decide(d, verdict)
      BY <3>8 DEF Decide
    <3> QED
      BY <2>1, <3>2, <3>3, <3>4, <3>5, <3>6, <3>7, <3>8
  <2>2. ASSUME NEW d \in Executions, LoopFails(d) \/ ModelAnswers(d) \/ Replayed(d)
        PROVE  FALSE
    <3>1. CASE loop' = Ends(d)
      <4>1. loop' = [loop EXCEPT ![d] = [Unused EXCEPT !.at = "ended", !.source = loop[d].source,
                       !.adopted = loop[d].adopted, !.answered = loop[d].answered]]
        BY <3>1 DEF Ends
      <4> QED
        BY <4>1, <1>1 DEF EmbeddedLoop, Unused
    <3>2. CASE Replayed(d) /\ Continuable(loop[d].proposed)
      BY <3>2, <1>1 DEF Replayed, EmbeddedLoop
    <3> QED
      BY <2>2, <3>1, <3>2 DEF LoopFails, ModelAnswers, Replayed
  <2>3. ~\E d \in deciding : Decided(d)
    BY DEF Decided
  <2>4. ASSUME NEW torn, AgentCrash(torn) PROVE FALSE
    <3>1. loop'[e] = IF loop[e].at = "unused" THEN loop[e]
                     ELSE IF loop[e].at \in {"index", "ended"}
                     THEN [loop[e] EXCEPT !.at = "ended", !.answered = TRUE]
                     ELSE [Ends(e)[e] EXCEPT !.answered = TRUE]
      BY <2>4 DEF AgentCrash
    <3>2. Ends(e)[e] = [Unused EXCEPT !.at = "ended", !.source = loop[e].source,
                          !.adopted = loop[e].adopted, !.answered = loop[e].answered]
      BY <1>1 DEF Ends
    <3>3. [Ends(e)[e] EXCEPT !.answered = TRUE].adopted = loop[e].adopted
      BY <3>2 DEF Unused
    <3>4. [loop[e] EXCEPT !.at = "ended", !.answered = TRUE].adopted = loop[e].adopted
      BY <1>1 DEF EmbeddedLoop
    <3> QED
      BY <3>1, <3>3, <3>4
  <2>5. ~UNCHANGED agentVars
    BY DEF agentVars
  <2> QED
    BY <2>1, <2>2, <2>3, <2>5, <2>4, Zenon DEF AgentNext
<1>3. resumeApproval # Nobody /\ loop'[e].adopted = resumeApproval
  BY <1>1, <1>2 DEF Enter, Goes, EmbeddedLoop
<1> QED
  BY <1>3 DEF AgentIInv, ResumeOK

\* No tool runs without the approval it needs, for any calls of the agent in
\* flight and any order of decisions, timeouts and crashes; and an approval is
\* picked up only while its resume() is under way (create-agent.ts).
THEOREM ApprovalsAreKept == AgentSpec => AgentCorrect
<1>1. AgentIInv => AgentTypeOK /\ EffectsApproved
  BY DEF AgentIInv
<1>2. AgentIInv /\ [AgentNext]_agentVars =>
        [\A e \in Executions :
           loop'[e].adopted # loop[e].adopted =>
             \E r \in Executions : loop[r].source = loop'[e].adopted /\ ~loop[r].answered]_agentVars
  BY OnlyEnters
<1> QED
  BY AgentInitOK, AgentStepOK, <1>1, <1>2, PTL DEF AgentSpec, AgentCorrect, AdoptedWhileResumed

-----------------------------------------------------------------------------
(* One run of a workflow: the inductive invariant. *)

\* what a checkpoint, stored or copied, says of the steps, is so
CopyOK(c, produced, given) ==
  /\ c.completedSteps \subseteq produced /\ c.approvals \subseteq given
  /\ c.status = "completed" => produced = Steps

\* a step that returned its text has had its effect
PhaseOK ==
  /\ phase \in [Drives -> [Steps ->
                  {"idle", "begins", "executes", "happened", "done", "failed"}]]
  /\ \A d \in Drives, s \in Steps :
       phase[d][s] \in {"happened", "done"} => performed[s] > 0
  /\ CalledInOrder

EffectsOK == \A s \in Steps : effectLedger[s] = "completed" => performed[s] > 0

WorkflowIInv ==
  /\ WorkflowTypeOK
  /\ CopyOK(checkpoint, Produced, grantedSteps)
  /\ \A d \in Drives : CopyOK(drives[d].copy, Produced, grantedSteps)
  /\ PhaseOK /\ EffectsOK /\ NoOrphanRun

\* no dependency of a step leads back to it: create-workflow.ts, which looks for
\* unknown dependencies and for a step without any, takes it for granted
Acyclic == \A S \in SUBSET Steps : S # {} => \E s \in S : DependsOn[s] \cap S = {}

-----------------------------------------------------------------------------
(* Lemmas. *)

\* What a copy says stays so: nothing that has run or was given is taken back.
LEMMA CopyStaysOK ==
  ASSUME NEW c, NEW p, NEW q, NEW g, NEW h, CopyOK(c, p, g), p \subseteq q, q \subseteq Steps,
         g \subseteq h
  PROVE  CopyOK(c, q, h)
  BY DEF CopyOK

\* Where no step is ready and dependencies do not go round, every step is completed.
LEMMA NothingReady ==
  ASSUME Acyclic, NEW c \in OrchestrationCheckpoint, Ready(c) = {}
  PROVE  c.completedSteps = Steps
<1>1. c.completedSteps \subseteq Steps /\ DependsOn \in [Steps -> SUBSET Steps]
  BY WorkflowAssumption DEF OrchestrationCheckpoint
<1> DEFINE S == Steps \ c.completedSteps
<1>2. CASE S # {}
  <2>1. PICK s \in S : DependsOn[s] \cap S = {}
    BY <1>2 DEF Acyclic
  <2>2. DependsOn[s] \subseteq c.completedSteps
    BY <2>1, <1>1
  <2> QED
    BY <2>1, <2>2 DEF Ready
<1> QED
  BY <1>1, <1>2

\* A step of one drive: it goes on with a copy that is right, and saves it or not.
LEMMA DriveStep ==
  ASSUME WorkflowIInv, NEW d \in Drives, NEW c \in OrchestrationCheckpoint,
         NEW place \in {"loop", "round", "approving", "rejecting", "returned"},
         DriveGoes(d, place, c), checkpoint' \in {checkpoint, c},
         CopyOK(c, Produced, grantedSteps'),
         grantedSteps \subseteq grantedSteps', grantedSteps' \subseteq Steps, PhaseOK',
         UNCHANGED <<effectLedger, performed, aborted>>,
         place = "returned" => checkpoint' = c /\ c.status # "running"
  PROVE  WorkflowIInv'
<1>1. /\ drives \in [Drives -> Drive] /\ checkpoint \in OrchestrationCheckpoint
      /\ CopyOK(checkpoint, Produced, grantedSteps)
      /\ \A e \in Drives : CopyOK(drives[e].copy, Produced, grantedSteps)
  BY DEF WorkflowIInv, WorkflowTypeOK
<1>2. drives' = [drives EXCEPT ![d] = [at |-> place, copy |-> c]]
  BY DEF DriveGoes
<1>3. drives' \in [Drives -> Drive]
  BY <1>1, <1>2 DEF Drive
<1>4. /\ drives'[d].at = place /\ drives'[d].copy = c
      /\ \A e \in Drives : e # d => drives'[e] = drives[e]
  BY <1>1, <1>2
<1>5. Produced' = Produced /\ Produced \subseteq Steps
  BY DEF Produced
<1>6. CopyOK(checkpoint', Produced', grantedSteps')
  BY <1>1, <1>5, CopyStaysOK
<1>7. ASSUME NEW e \in Drives PROVE CopyOK(drives'[e].copy, Produced', grantedSteps')
  <2>1. CASE e = d
    BY <2>1, <1>4, <1>5
  <2>2. CASE e # d
    BY <2>2, <1>1, <1>4, <1>5, CopyStaysOK
  <2> QED
    BY <2>1, <2>2
<1>8. WorkflowTypeOK'
  BY <1>1, <1>3 DEF WorkflowIInv, WorkflowTypeOK, PhaseOK
<1>9. EffectsOK'
  BY DEF WorkflowIInv, EffectsOK
<1>10. NoOrphanRun'
  <2>1. CASE place = "returned"
    BY <2>1 DEF NoOrphanRun
  <2>2. CASE place # "returned"
    BY <2>2, <1>4 DEF NoOrphanRun, InFlight
  <2> QED
    BY <2>1, <2>2
<1> QED
  BY <1>6, <1>7, <1>8, <1>9, <1>10 DEF WorkflowIInv

\* Phases that stay, or are idle again, keep their promise.
LEMMA PhasesRest ==
  ASSUME WorkflowIInv,
         phase' \in [Drives -> [Steps ->
                      {"idle", "begins", "executes", "happened", "done", "failed"}]],
         \A d \in Drives, s \in Steps : phase'[d][s] \in {phase[d][s], "idle"},
         Produced \subseteq Produced', performed' = performed, grantedSteps \subseteq grantedSteps'
  PROVE  PhaseOK'
<1>1. PhaseOK
  BY DEF WorkflowIInv
<1>2. ASSUME NEW d \in Drives, NEW s \in Steps, phase'[d][s] # "idle"
      PROVE  /\ DependsOn[s] \subseteq Produced' /\ (s \in Gated => s \in grantedSteps')
             /\ phase'[d][s] \in {"happened", "done"} => performed'[s] > 0
  <2>1. phase'[d][s] = phase[d][s] /\ phase[d][s] # "idle"
    BY <1>2
  <2> QED
    BY <1>1, <2>1 DEF PhaseOK, CalledInOrder
<1>3. \A d \in Drives, s \in Steps : phase'[d][s] \in {"happened", "done"} => performed'[s] > 0
  BY <1>2
<1> QED
  BY <1>2, <1>3 DEF PhaseOK, CalledInOrder

\* A copy under way.
LEMMA CopyOf ==
  ASSUME WorkflowIInv, NEW d \in Drives
  PROVE  /\ drives[d].copy \in OrchestrationCheckpoint
         /\ CopyOK(drives[d].copy, Produced, grantedSteps)
         /\ checkpoint \in OrchestrationCheckpoint
         /\ CopyOK(checkpoint, Produced, grantedSteps)
         /\ grantedSteps \subseteq Steps
  BY DEF WorkflowIInv, WorkflowTypeOK, Drive

LEMMA WorkflowInitOK == WorkflowInit => WorkflowIInv
<1> SUFFICES ASSUME WorkflowInit PROVE WorkflowIInv
  OBVIOUS
<1>1. NoCheckpoint \in OrchestrationCheckpoint
  BY DEF NoCheckpoint, OrchestrationCheckpoint
<1>2. \A p, g : CopyOK(NoCheckpoint, p, g)
  BY DEF CopyOK, NoCheckpoint
<1>3. WorkflowTypeOK
  BY <1>1 DEF WorkflowInit, WorkflowTypeOK, Drive, NoRound
<1>4. PhaseOK
  BY DEF WorkflowInit, PhaseOK, CalledInOrder, NoRound
<1>5. NoOrphanRun
  BY DEF WorkflowInit, NoOrphanRun, NoCheckpoint
<1> QED
  BY <1>2, <1>3, <1>4, <1>5 DEF WorkflowInit, WorkflowIInv, EffectsOK

-----------------------------------------------------------------------------
(* Every action keeps the invariant. *)

\* A step of a drive that leaves the phases alone and grants nothing.
LEMMA QuietStep ==
  ASSUME WorkflowIInv, NEW d \in Drives, NEW c \in OrchestrationCheckpoint,
         NEW place \in {"loop", "round", "approving", "rejecting", "returned"},
         DriveGoes(d, place, c), checkpoint' \in {checkpoint, c},
         CopyOK(c, Produced, grantedSteps), UNCHANGED <<stepVars, aborted, grantedSteps>>,
         place = "returned" => checkpoint' = c /\ c.status # "running"
  PROVE  WorkflowIInv'
<1>1. UNCHANGED <<phase, effectLedger, performed, aborted, grantedSteps>>
  BY DEF stepVars
<1>2. PhaseOK'
  BY <1>1 DEF WorkflowIInv, PhaseOK, CalledInOrder, Produced
<1>3. grantedSteps \subseteq Steps
  BY CopyOf
<1> QED
  BY <1>1, <1>2, <1>3, DriveStep

LEMMA RunKeeps ==
  ASSUME WorkflowIInv, NEW d \in Drives, RunWorkflow(d)
  PROVE  WorkflowIInv'
<1>1. PICK c : c = [NoCheckpoint EXCEPT !.status = "running"]
  OBVIOUS
<1>2. c \in OrchestrationCheckpoint /\ CopyOK(c, Produced, grantedSteps)
  BY <1>1 DEF NoCheckpoint, OrchestrationCheckpoint, CopyOK
<1>3. /\ DriveGoes(d, "loop", c) /\ checkpoint' = c
      /\ UNCHANGED <<stepVars, aborted, grantedSteps>>
  BY <1>1 DEF RunWorkflow, Saves
<1> QED
  BY <1>2, <1>3, QuietStep

LEMMA ResumeKeeps ==
  ASSUME WorkflowIInv, NEW d \in Drives, ResumeWorkflow(d)
  PROVE  WorkflowIInv'
<1>1. PICK c : c = [checkpoint EXCEPT !.status = "running"]
  OBVIOUS
<1>2. c \in OrchestrationCheckpoint /\ CopyOK(c, Produced, grantedSteps)
  BY <1>1, CopyOf DEF OrchestrationCheckpoint, CopyOK
<1>3. /\ DriveGoes(d, "loop", c) /\ checkpoint' = checkpoint
      /\ UNCHANGED <<stepVars, aborted, grantedSteps>>
  BY <1>1 DEF ResumeWorkflow
<1> QED
  BY <1>2, <1>3, QuietStep

LEMMA DecisionKeeps ==
  ASSUME WorkflowIInv, NEW d \in Drives, NEW decision \in {"approving", "rejecting"},
         ApproveWorkflow(d, decision)
  PROVE  WorkflowIInv'
<1>1. PICK c : c = checkpoint
  OBVIOUS
<1>2. c \in OrchestrationCheckpoint /\ CopyOK(c, Produced, grantedSteps)
  BY <1>1, CopyOf
<1>3. /\ DriveGoes(d, decision, c) /\ checkpoint' = checkpoint
      /\ UNCHANGED <<stepVars, aborted, grantedSteps>>
  BY <1>1 DEF ApproveWorkflow
<1> QED
  BY <1>2, <1>3, QuietStep

LEMMA ApprovesKeeps ==
  ASSUME WorkflowIInv, NEW d \in Drives, ApprovesRun(d)
  PROVE  WorkflowIInv'
<1>1. PICK b : b = drives[d].copy
  OBVIOUS
<1>2. PICK c : c = [b EXCEPT !.status = "running", !.pending = NoDrive,
                      !.approvals = @ \cup b.currentStep]
  OBVIOUS
<1>3. /\ b \in OrchestrationCheckpoint /\ CopyOK(b, Produced, grantedSteps)
      /\ grantedSteps \subseteq Steps
  BY <1>1, CopyOf
<1>4. b.approvals \cup b.currentStep \in SUBSET Steps /\ NoDrive \in Drives \cup {NoDrive}
  BY <1>3 DEF OrchestrationCheckpoint
<1>5. c \in OrchestrationCheckpoint
  BY <1>2, <1>3, <1>4 DEF OrchestrationCheckpoint
<1>6. /\ c.completedSteps = b.completedSteps /\ c.status = "running"
      /\ c.approvals = b.approvals \cup b.currentStep
  BY <1>2, <1>3 DEF OrchestrationCheckpoint
<1>7. /\ DriveGoes(d, "loop", c) /\ checkpoint' = c
      /\ grantedSteps' = grantedSteps \cup b.currentStep
      /\ UNCHANGED <<phase, effectLedger, performed, aborted>>
  BY <1>1, <1>2 DEF ApprovesRun, Saves, stepVars
<1>8. grantedSteps \subseteq grantedSteps' /\ grantedSteps' \subseteq Steps
  BY <1>3, <1>4, <1>7
<1>9. CopyOK(c, Produced, grantedSteps')
  BY <1>3, <1>6, <1>7 DEF CopyOK
<1>10. PhaseOK'
  BY <1>7, <1>8 DEF WorkflowIInv, PhaseOK, CalledInOrder, Produced
<1> QED
  BY <1>5, <1>7, <1>8, <1>9, <1>10, DriveStep

LEMMA RejectsKeeps ==
  ASSUME WorkflowIInv, NEW d \in Drives, RejectsRun(d)
  PROVE  WorkflowIInv'
<1>1. PICK c : c = [drives[d].copy EXCEPT !.status = "failed", !.pending = NoDrive]
  OBVIOUS
<1>2. /\ c \in OrchestrationCheckpoint /\ CopyOK(c, Produced, grantedSteps)
      /\ c.status = "failed"
  BY <1>1, CopyOf DEF OrchestrationCheckpoint, CopyOK
<1>3. /\ DriveGoes(d, "returned", c) /\ checkpoint' = c
      /\ UNCHANGED <<stepVars, aborted, grantedSteps>>
  BY <1>1 DEF RejectsRun, Saves
<1> QED
  BY <1>2, <1>3, QuietStep

LEMMA AsksKeeps ==
  ASSUME WorkflowIInv, NEW d \in Drives, NEW s \in Steps, AsksApproval(d, s)
  PROVE  WorkflowIInv'
<1>1. PICK c : c = [drives[d].copy EXCEPT !.status = "waiting", !.pending = d,
                      !.currentStep = {s}]
  OBVIOUS
<1>2. /\ c \in OrchestrationCheckpoint /\ CopyOK(c, Produced, grantedSteps)
      /\ c.status = "waiting"
  BY <1>1, CopyOf DEF OrchestrationCheckpoint, CopyOK
<1>3. /\ DriveGoes(d, "returned", c) /\ checkpoint' = c
      /\ UNCHANGED <<stepVars, aborted, grantedSteps>>
  BY <1>1 DEF AsksApproval, Saves
<1> QED
  BY <1>2, <1>3, QuietStep

LEMMA CompletesRunKeeps ==
  ASSUME Acyclic, WorkflowIInv, NEW d \in Drives, CompletesRun(d)
  PROVE  WorkflowIInv'
<1>1. PICK b : b = drives[d].copy
  OBVIOUS
<1>2. PICK c : c = [b EXCEPT !.status = "completed"]
  OBVIOUS
<1>3. b \in OrchestrationCheckpoint /\ CopyOK(b, Produced, grantedSteps) /\ Ready(b) = {}
  BY <1>1, CopyOf DEF CompletesRun
<1>4. b.completedSteps = Steps /\ Produced \subseteq Steps
  BY <1>3, NothingReady DEF Produced
<1>5. /\ c \in OrchestrationCheckpoint /\ CopyOK(c, Produced, grantedSteps)
      /\ c.status = "completed"
  BY <1>2, <1>3, <1>4 DEF OrchestrationCheckpoint, CopyOK
<1>6. /\ DriveGoes(d, "returned", c) /\ checkpoint' = c
      /\ UNCHANGED <<stepVars, aborted, grantedSteps>>
  BY <1>1, <1>2 DEF CompletesRun, Saves
<1> QED
  BY <1>5, <1>6, QuietStep

LEMMA CaughtKeeps ==
  ASSUME WorkflowIInv, NEW d \in Drives, Caught(d)
  PROVE  WorkflowIInv'
<1>1. PICK status \in {"cancelled", "failed"} :
        status = IF d \in aborted THEN "cancelled" ELSE "failed"
  OBVIOUS
<1>2. PICK c : c = [drives[d].copy EXCEPT !.status = status]
  OBVIOUS
<1>3. /\ c \in OrchestrationCheckpoint /\ CopyOK(c, Produced, grantedSteps)
      /\ c.status # "running"
  BY <1>1, <1>2, CopyOf DEF OrchestrationCheckpoint, CopyOK
<1>4. /\ DriveGoes(d, "returned", c) /\ checkpoint' = c
      /\ UNCHANGED <<stepVars, aborted, grantedSteps>>
  BY <1>1, <1>2 DEF Caught, Saves
<1> QED
  BY <1>3, <1>4, QuietStep

LEMMA StartsRoundKeeps ==
  ASSUME WorkflowIInv, NEW d \in Drives, StartsRound(d)
  PROVE  WorkflowIInv'
<1>1. PICK c : c = drives[d].copy
  OBVIOUS
<1>2. /\ c \in OrchestrationCheckpoint /\ CopyOK(c, Produced, grantedSteps) /\ PhaseOK
      /\ EffectsOK /\ grantedSteps \subseteq Steps
  BY <1>1, CopyOf DEF WorkflowIInv
<1>3. /\ DriveGoes(d, "round", c) /\ checkpoint' = checkpoint /\ Held(c) = {}
      /\ UNCHANGED <<effectLedger, performed, aborted, grantedSteps>>
  BY <1>1 DEF StartsRound
<1> DEFINE round == [s \in Steps |->
          IF s \notin Ready(c) THEN phase[d][s]
          ELSE IF effectLedger[s] = "completed" THEN "done" ELSE "begins"]
<1>4. phase' = [phase EXCEPT ![d] = round]
  BY <1>1 DEF StartsRound
<1>5. round \in [Steps -> {"idle", "begins", "executes", "happened", "done", "failed"}]
  BY <1>2 DEF PhaseOK
<1>6. \A s \in Steps : round[s] = IF s \notin Ready(c) THEN phase[d][s]
          ELSE IF effectLedger[s] = "completed" THEN "done" ELSE "begins"
  OBVIOUS
<1> HIDE DEF round
<1>7. /\ phase' \in [Drives -> [Steps ->
                       {"idle", "begins", "executes", "happened", "done", "failed"}]]
      /\ phase'[d] = round /\ \A e \in Drives : e # d => phase'[e] = phase[e]
  BY <1>2, <1>4, <1>5 DEF PhaseOK
<1>8. Produced' = Produced
  BY <1>3 DEF Produced
<1>9. ASSUME NEW s \in Steps, round[s] # "idle"
      PROVE  /\ DependsOn[s] \subseteq Produced /\ (s \in Gated => s \in grantedSteps)
             /\ round[s] \in {"happened", "done"} => performed[s] > 0
  <2>1. CASE s \notin Ready(c)
    BY <2>1, <1>9, <1>6, <1>2 DEF PhaseOK, CalledInOrder
  <2>2. CASE s \in Ready(c)
    <3>1. DependsOn[s] \subseteq Produced
      BY <2>2, <1>2 DEF Ready, CopyOK
    <3>2. s \in Gated => s \in grantedSteps
      BY <2>2, <1>2, <1>3 DEF Held, CopyOK
    <3>3. round[s] \in {"happened", "done"} => performed[s] > 0
      BY <2>2, <1>6, <1>2 DEF EffectsOK
    <3> QED
      BY <3>1, <3>2, <3>3
  <2> QED
    BY <2>1, <2>2
<1>10. ASSUME NEW e \in Drives, NEW s \in Steps, phase'[e][s] # "idle"
       PROVE  /\ DependsOn[s] \subseteq Produced' /\ (s \in Gated => s \in grantedSteps')
              /\ phase'[e][s] \in {"happened", "done"} => performed'[s] > 0
  <2>1. CASE e = d
    BY <2>1, <1>10, <1>7, <1>9, <1>8, <1>3
  <2>2. CASE e # d
    BY <2>2, <1>10, <1>7, <1>2, <1>8, <1>3 DEF PhaseOK, CalledInOrder
  <2> QED
    BY <2>1, <2>2
<1>11. \A e \in Drives, s \in Steps : phase'[e][s] \in {"happened", "done"} => performed'[s] > 0
  BY <1>10
<1>12. PhaseOK'
  BY <1>7, <1>10, <1>11 DEF PhaseOK, CalledInOrder
<1> QED
  BY <1>2, <1>3, <1>12, DriveStep

LEMMA CompletesRoundKeeps ==
  ASSUME WorkflowIInv, NEW d \in Drives, CompletesRound(d)
  PROVE  WorkflowIInv'
<1>1. PICK b : b = drives[d].copy
  OBVIOUS
<1>2. PICK round : round = RoundOf(d)
  OBVIOUS
<1>3. PICK c : c = [b EXCEPT !.completedSteps = @ \cup round]
  OBVIOUS
<1>4. b \in OrchestrationCheckpoint /\ CopyOK(b, Produced, grantedSteps) /\ PhaseOK
  BY <1>1, CopyOf DEF WorkflowIInv
<1>5. round \subseteq Produced /\ Produced \subseteq Steps
  BY <1>2, <1>4 DEF CompletesRound, RoundOf, PhaseOK, Produced
<1>6. /\ c \in OrchestrationCheckpoint /\ c.status = b.status /\ c.approvals = b.approvals
      /\ c.completedSteps = b.completedSteps \cup round
  BY <1>3, <1>4, <1>5 DEF OrchestrationCheckpoint
<1>7. CopyOK(c, Produced, grantedSteps)
  BY <1>4, <1>5, <1>6 DEF CopyOK
<1>8. /\ DriveGoes(d, "loop", c) /\ checkpoint' = c /\ phase' = [phase EXCEPT ![d] = NoRound]
      /\ UNCHANGED <<effectLedger, performed, aborted, grantedSteps>>
  BY <1>1, <1>2, <1>3 DEF CompletesRound, Saves
<1>9. /\ phase' \in [Drives -> [Steps ->
                       {"idle", "begins", "executes", "happened", "done", "failed"}]]
      /\ \A e \in Drives, s \in Steps : phase'[e][s] \in {phase[e][s], "idle"}
  BY <1>4, <1>8 DEF PhaseOK, NoRound
<1>10. PhaseOK'
  BY <1>8, <1>9, PhasesRest DEF Produced
<1> QED
  BY <1>4, <1>6, <1>7, <1>8, <1>10, CopyOf, DriveStep

\* A step of runEffect: one phase of one drive, with what it makes of the record
\* and of the effect.
LEMMA EffectStep ==
  ASSUME WorkflowIInv, NEW d \in Drives, NEW s \in Steps,
         NEW from \in {"begins", "executes", "happened"},
         NEW to \in {"executes", "happened", "done", "failed"}, Moves(d, s, from, to),
         NEW n \in {0, 1}, performed' = [performed EXCEPT ![s] = @ + n],
         NEW status \in {"none", "started", "completed", "failed"},
         effectLedger' = [effectLedger EXCEPT ![s] = status],
         status = "completed" => effectLedger[s] = "completed" \/ from = "happened",
         to \in {"happened", "done"} => from = "happened" \/ n = 1,
         UNCHANGED <<checkpoint, drives, aborted, grantedSteps>>
  PROVE  WorkflowIInv'
<1>1. /\ WorkflowTypeOK /\ PhaseOK /\ EffectsOK /\ NoOrphanRun
      /\ CopyOK(checkpoint, Produced, grantedSteps)
      /\ \A e \in Drives : CopyOK(drives[e].copy, Produced, grantedSteps)
  BY DEF WorkflowIInv
<1>2. performed \in [Steps -> Nat]
  BY <1>1 DEF WorkflowTypeOK
<1>3. performed[s] + n \in Nat
  BY <1>2
<1>4. /\ performed' \in [Steps -> Nat] /\ performed'[s] = performed[s] + n
      /\ \A t \in Steps : t # s => performed'[t] = performed[t]
  BY <1>2, <1>3
<1>5. \A t \in Steps : performed[t] > 0 => performed'[t] > 0
  <2>1. ASSUME NEW t \in Steps, performed[t] > 0 PROVE performed'[t] > 0
    <3>1. CASE t = s
      BY <3>1, <2>1, <1>2, <1>4
    <3>2. CASE t # s
      BY <3>2, <2>1, <1>4
    <3> QED
      BY <3>1, <3>2
  <2> QED
    BY <2>1
<1>6. Produced \subseteq Produced' /\ Produced' \subseteq Steps
  BY <1>5 DEF Produced
<1>7. n = 1 => performed'[s] > 0
  BY <1>2, <1>4
<1>8. /\ phase' \in [Drives -> [Steps ->
                       {"idle", "begins", "executes", "happened", "done", "failed"}]]
      /\ phase[d][s] = from /\ phase'[d][s] = to
      /\ \A e \in Drives, t \in Steps : e # d \/ t # s => phase'[e][t] = phase[e][t]
  BY <1>1 DEF PhaseOK, Moves
<1>9. ASSUME NEW e \in Drives, NEW t \in Steps, phase'[e][t] # "idle"
      PROVE  /\ DependsOn[t] \subseteq Produced' /\ (t \in Gated => t \in grantedSteps')
             /\ phase'[e][t] \in {"happened", "done"} => performed'[t] > 0
  <2>1. phase[e][t] # "idle"
    BY <1>8, <1>9
  <2>2. DependsOn[t] \subseteq Produced' /\ (t \in Gated => t \in grantedSteps')
    BY <2>1, <1>1, <1>6 DEF PhaseOK, CalledInOrder
  <2>3. phase'[e][t] \in {"happened", "done"} => performed'[t] > 0
    <3>1. CASE e = d /\ t = s
      <4>1. from = "happened" => performed[s] > 0
        BY <1>1, <1>8 DEF PhaseOK
      <4> QED
        BY <3>1, <4>1, <1>5, <1>7, <1>8
    <3>2. CASE e # d \/ t # s
      BY <3>2, <1>8, <1>1, <1>5 DEF PhaseOK
    <3> QED
      BY <3>1, <3>2
  <2> QED
    BY <2>2, <2>3
<1>10. \A e \in Drives, t \in Steps : phase'[e][t] \in {"happened", "done"} => performed'[t] > 0
  BY <1>9
<1>11. PhaseOK'
  BY <1>8, <1>9, <1>10 DEF PhaseOK, CalledInOrder
<1>12. /\ effectLedger' \in [Steps -> {"none", "started", "completed", "failed"}]
       /\ effectLedger'[s] = status /\ \A t \in Steps : t # s => effectLedger'[t] = effectLedger[t]
  BY <1>1 DEF WorkflowTypeOK
<1>13. EffectsOK'
  <2>1. ASSUME NEW t \in Steps, effectLedger'[t] = "completed" PROVE performed'[t] > 0
    <3>1. CASE t = s
      <4>1. effectLedger[s] = "completed" => performed[s] > 0
        BY <1>1 DEF EffectsOK
      <4>2. from = "happened" => performed[s] > 0
        BY <1>1, <1>8 DEF PhaseOK
      <4> QED
        BY <3>1, <2>1, <4>1, <4>2, <1>12, <1>5
    <3>2. CASE t # s
      BY <3>2, <2>1, <1>12, <1>1, <1>5 DEF EffectsOK
    <3> QED
      BY <3>1, <3>2
  <2> QED
    BY <2>1 DEF EffectsOK
<1>14. WorkflowTypeOK'
  BY <1>1, <1>4, <1>8, <1>12 DEF WorkflowTypeOK
<1>15. NoOrphanRun'
  BY <1>1 DEF NoOrphanRun, InFlight
<1>16. CopyOK(checkpoint', Produced', grantedSteps')
  BY <1>1, <1>6, CopyStaysOK
<1>17. ASSUME NEW e \in Drives PROVE CopyOK(drives'[e].copy, Produced', grantedSteps')
  BY <1>1, <1>6, CopyStaysOK
<1> QED
  BY <1>11, <1>13, <1>14, <1>15, <1>16, <1>17 DEF WorkflowIInv

LEMMA EffectKeeps ==
  ASSUME WorkflowIInv, NEW d \in Drives, NEW s \in Steps,
         \/ BeginsEffect(d, s) \/ Executes(d, s) \/ CompletesEffect(d, s)
         \/ FailsEffect(d, s)
  PROVE  WorkflowIInv'
<1>1. performed \in [Steps -> Nat]
      /\ effectLedger \in [Steps -> {"none", "started", "completed", "failed"}]
  BY DEF WorkflowIInv, WorkflowTypeOK
<1>2. performed = [performed EXCEPT ![s] = @ + 0]
  BY <1>1
<1>3. effectLedger = [effectLedger EXCEPT ![s] = effectLedger[s]]
  BY <1>1
<1>4. PICK status \in {"none", "started", "completed", "failed"} : status = effectLedger[s]
  BY <1>1
<1>5. CASE BeginsEffect(d, s)
  <2>1. PICK new \in {"started", "completed"} :
          new = IF effectLedger[s] = "completed" THEN effectLedger[s] ELSE "started"
    OBVIOUS
  <2>2. effectLedger' = [effectLedger EXCEPT ![s] = new]
    BY <1>5, <2>1 DEF BeginsEffect
  <2>3. /\ Moves(d, s, "begins", "executes") /\ performed' = [performed EXCEPT ![s] = @ + 0]
        /\ UNCHANGED <<checkpoint, drives, aborted, grantedSteps>>
    BY <1>5, <1>2 DEF BeginsEffect
  <2>4. new = "completed" => effectLedger[s] = "completed"
    BY <2>1
  <2> QED
    BY <2>2, <2>3, <2>4, EffectStep
<1>6. CASE Executes(d, s)
  <2>1. /\ Moves(d, s, "executes", "happened") /\ performed' = [performed EXCEPT ![s] = @ + 1]
        /\ effectLedger' = [effectLedger EXCEPT ![s] = status]
        /\ UNCHANGED <<checkpoint, drives, aborted, grantedSteps>>
    BY <1>6, <1>3, <1>4 DEF Executes
  <2> QED
    BY <2>1, <1>4, EffectStep
<1>7. CASE CompletesEffect(d, s)
  <2>1. /\ Moves(d, s, "happened", "done") /\ performed' = [performed EXCEPT ![s] = @ + 0]
        /\ effectLedger' = [effectLedger EXCEPT ![s] = "completed"]
        /\ UNCHANGED <<checkpoint, drives, aborted, grantedSteps>>
    BY <1>7, <1>2 DEF CompletesEffect
  <2> QED
    BY <2>1, EffectStep
<1>8. CASE FailsEffect(d, s)
  <2>1. /\ performed' = [performed EXCEPT ![s] = @ + 0]
        /\ effectLedger' = [effectLedger EXCEPT ![s] = "failed"]
        /\ UNCHANGED <<checkpoint, drives, aborted, grantedSteps>>
    BY <1>8, <1>2 DEF FailsEffect
  <2>2. PICK from \in {"executes", "happened"} : Moves(d, s, from, "failed")
    BY <1>8 DEF FailsEffect
  <2> QED
    BY <2>1, <2>2, EffectStep
<1> QED
  BY <1>5, <1>6, <1>7, <1>8

LEMMA CancelKeeps ==
  ASSUME WorkflowIInv, NEW ds \in SUBSET Drives, CancelWorkflow(ds)
  PROVE  WorkflowIInv'
<1>1. /\ aborted' = aborted \cup ds
      /\ UNCHANGED <<checkpoint, drives, phase, effectLedger, performed, grantedSteps>>
  BY DEF CancelWorkflow, stepVars
<1>2. Produced' = Produced
  BY <1>1 DEF Produced
<1>3. WorkflowTypeOK'
  BY <1>1 DEF WorkflowIInv, WorkflowTypeOK
<1>4. PhaseOK' /\ EffectsOK'
  BY <1>1, <1>2 DEF WorkflowIInv, PhaseOK, CalledInOrder, EffectsOK
<1>5. NoOrphanRun'
  BY <1>1 DEF WorkflowIInv, NoOrphanRun, InFlight
<1> QED
  BY <1>1, <1>2, <1>3, <1>4, <1>5 DEF WorkflowIInv

\* A crash loses the calls under way; what they had saved is still so.
LEMMA WorkflowCrashKeeps == WorkflowIInv /\ WorkflowCrash => WorkflowIInv'
<1> SUFFICES ASSUME WorkflowIInv, WorkflowCrash PROVE WorkflowIInv'
  OBVIOUS
<1>1. /\ drives' = [d \in Drives |-> IF InFlight(d) THEN [drives[d] EXCEPT !.at = "lost"]
                                     ELSE drives[d]]
      /\ phase' = [d \in Drives |-> NoRound] /\ aborted' = {}
      /\ UNCHANGED <<checkpoint, effectLedger, performed, grantedSteps>>
  BY DEF WorkflowCrash
<1>2. drives \in [Drives -> Drive]
  BY DEF WorkflowIInv, WorkflowTypeOK
<1>3. Produced' = Produced
  BY <1>1 DEF Produced
<1>4. /\ drives' \in [Drives -> Drive] /\ \A d \in Drives : drives'[d].copy = drives[d].copy
      /\ \A d \in Drives : InFlight(d) => drives'[d].at = "lost"
  BY <1>1, <1>2 DEF Drive
<1>5. PICK d \in Drives : InFlight(d)
  BY DEF WorkflowCrash
<1>6. NoOrphanRun'
  BY <1>4, <1>5 DEF NoOrphanRun
<1>7. phase' \in [Drives -> [Steps ->
                    {"idle", "begins", "executes", "happened", "done", "failed"}]]
      /\ \A e \in Drives, s \in Steps : phase'[e][s] = "idle"
  BY <1>1 DEF NoRound
<1>8. PhaseOK'
  BY <1>7 DEF PhaseOK, CalledInOrder
<1>9. WorkflowTypeOK' /\ EffectsOK'
  BY <1>1, <1>4, <1>7 DEF WorkflowIInv, WorkflowTypeOK, EffectsOK
<1> QED
  BY <1>1, <1>3, <1>4, <1>6, <1>8, <1>9 DEF WorkflowIInv

LEMMA WorkflowStepOK ==
  ASSUME Acyclic
  PROVE  WorkflowIInv /\ [WorkflowNext]_workflowVars => WorkflowIInv'
<1> SUFFICES ASSUME WorkflowIInv, [WorkflowNext]_workflowVars PROVE WorkflowIInv'
  OBVIOUS
<1>1. CASE \E d \in Drives :
             \/ RunWorkflow(d) \/ ResumeWorkflow(d) \/ ApprovesRun(d) \/ RejectsRun(d)
             \/ \E decision \in {"approving", "rejecting"} : ApproveWorkflow(d, decision)
             \/ StartsRound(d) \/ CompletesRun(d) \/ CompletesRound(d) \/ Caught(d)
  BY <1>1, RunKeeps, ResumeKeeps, ApprovesKeeps, RejectsKeeps, DecisionKeeps, StartsRoundKeeps,
     CompletesRunKeeps, CompletesRoundKeeps, CaughtKeeps
<1>2. CASE \E d \in Drives, s \in Steps :
             \/ AsksApproval(d, s) \/ BeginsEffect(d, s) \/ Executes(d, s)
             \/ CompletesEffect(d, s) \/ FailsEffect(d, s)
  BY <1>2, AsksKeeps, EffectKeeps
<1>3. CASE \E ds \in SUBSET Drives : CancelWorkflow(ds)
  BY <1>3, CancelKeeps
<1>4. CASE WorkflowCrash
  BY <1>4, WorkflowCrashKeeps
<1>5. CASE UNCHANGED workflowVars
  <2>1. UNCHANGED <<checkpoint, drives, phase, effectLedger, performed, aborted, grantedSteps,
                    workflowFaults>>
    BY <1>5 DEF workflowVars, stepVars
  <2>2. Produced' = Produced
    BY <2>1 DEF Produced
  <2>3. WorkflowTypeOK' /\ EffectsOK' /\ PhaseOK'
    BY <2>1, <2>2 DEF WorkflowIInv, WorkflowTypeOK, PhaseOK, CalledInOrder, EffectsOK
  <2>4. NoOrphanRun'
    BY <2>1 DEF WorkflowIInv, NoOrphanRun, InFlight
  <2> QED
    BY <2>1, <2>2, <2>3, <2>4 DEF WorkflowIInv
<1> QED
  BY <1>1, <1>2, <1>3, <1>4, <1>5, Zenon DEF WorkflowNext

\* Whatever drives overlap, fail, are cancelled or crash, on a graph of steps
\* without a cycle: what is recorded as completed has run, every step was called
\* after those it depends on and with its approval, and no run is left running.
THEOREM WorkflowsAreHonest ==
  ASSUME Acyclic
  PROVE  WorkflowSpec => []WorkflowInv
<1>1. WorkflowIInv => WorkflowInv
  BY DEF WorkflowIInv, WorkflowInv, CopyOK, CompletedHasRun, PhaseOK
<1> QED
  BY WorkflowInitOK, WorkflowStepOK, <1>1, PTL DEF WorkflowSpec

-----------------------------------------------------------------------------
(* Teams: the inductive invariant. *)

\* what a tr under way has behind it: a failure that fail-fast let pass is one of a
\* supervisor's task, which is remembered until the tasks settle, or of a member the
\* reviewer handed to; and a cancelled member who has not failed is still busy
UnderWay(tr, isAborted) ==
  /\ tr.result = "idle"
  /\ tr.stage \in {"unused", "next"} => tr.busy = {}
  /\ tr.stage = "fanout" => FanOut
  /\ tr.stage \in {"decide", "delegate", "tasks"} => Supervised
  /\ tr.stage \in {"review", "reviewHandoff"} => teamConfig.strategy = "debate-review"
  /\ Supervised /\ tr.stage \notin {"unused", "next"} => tr.iteration <= MaxIterations
  /\ FailFast => tr.failures \subseteq {"tasks", "reviewHandoff"}
  /\ FailFast /\ "tasks" \in tr.failures =>
       Supervised /\ tr.errors /\ tr.stage \in {"tasks", "handoff"}
  /\ tr.interrupted => isAborted /\ (tr.failures = {} => tr.busy # {})

\* what may still happen to a tr that has completed
Completable(tr) ==
  /\ tr.busy = {} /\ (FailFast => tr.failures \subseteq {"reviewHandoff"})
  /\ ~(tr.interrupted /\ tr.failures = {})

TeamRunOK(tr, isAborted) ==
  /\ tr.stage # "ended" => UnderWay(tr, isAborted)
  /\ tr.result \in {"completed", "partial"} => Completable(tr)

TeamIInv == TeamTypeOK /\ \A r \in Runs : TeamRunOK(teamRuns[r], r \in teamAborted)

LEMMA TeamInitOK == TeamInit => TeamIInv
<1> SUFFICES ASSUME TeamInit PROVE TeamIInv
  OBVIOUS
<1>1. NoTeamRun \in TeamRun
  BY TeamAssumption DEF NoTeamRun, TeamRun, TeamStatuses, Stages
<1>2. \A a : TeamRunOK(NoTeamRun, a)
  BY DEF TeamRunOK, UnderWay, Completable, NoTeamRun
<1>3. TeamTypeOK
  BY <1>1 DEF TeamInit, TeamTypeOK, TeamStatuses
<1> QED
  BY <1>2, <1>3 DEF TeamInit, TeamIInv

LEMMA RunTypes ==
  ASSUME TeamIInv, NEW r \in Runs
  PROVE  /\ teamRuns[r] \in TeamRun /\ TeamRunOK(teamRuns[r], r \in teamAborted)
         /\ teamRuns \in [Runs -> TeamRun]
         /\ teamRuns[r].busy \subseteq Members /\ teamRuns[r].failures \subseteq Stages
         /\ teamRuns[r].iteration \in 1 .. MaxIterations + 1
         /\ teamRuns[r].stage \in Stages \cup {"unused", "next", "ended"}
  BY DEF TeamIInv, TeamTypeOK, TeamRun

\* A step that changes one tr only.
LEMMA TeamStep ==
  ASSUME TeamIInv, NEW r \in Runs, NEW tr \in TeamRun,
         teamRuns' = [teamRuns EXCEPT ![r] = tr], TeamRunOK(tr, r \in teamAborted),
         teamStatus' \in TeamStatuses, UNCHANGED <<teamConfig, teamAborted>>
  PROVE  TeamIInv'
<1>1. TeamTypeOK /\ \A e \in Runs : TeamRunOK(teamRuns[e], e \in teamAborted)
  BY DEF TeamIInv
<1>2. /\ teamRuns' \in [Runs -> TeamRun] /\ teamRuns'[r] = tr
      /\ \A e \in Runs : e # r => teamRuns'[e] = teamRuns[e]
  BY <1>1 DEF TeamTypeOK
<1>3. TeamTypeOK'
  BY <1>1, <1>2 DEF TeamTypeOK
<1>4. (FailFast' <=> FailFast) /\ (FanOut' <=> FanOut) /\ (Supervised' <=> Supervised)
  BY DEF FailFast, FanOut, Supervised
<1>5. ASSUME NEW e \in Runs PROVE TeamRunOK(teamRuns[e], e \in teamAborted)'
  <2>1. PICK x : x = teamRuns'[e]
    OBVIOUS
  <2>2. TeamRunOK(x, e \in teamAborted)
    BY <2>1, <1>1, <1>2
  <2> QED
    BY <2>1, <2>2, <1>4 DEF TeamRunOK, UnderWay, Completable
<1> QED
  BY <1>3, <1>5 DEF TeamIInv

\* A tr ends; completed or partial only as Completable allows.
LEMMA ReturnKeeps ==
  ASSUME TeamIInv, NEW r \in Runs, NEW tr \in TeamRun, NEW status \in TeamStatuses,
         Returns(r, tr, status), UNCHANGED <<teamConfig, teamAborted>>,
         status \in {"completed", "partial"} => Completable(tr)
  PROVE  TeamIInv'
<1>1. PICK record \in TeamStatuses \cup {"none"} :
        record = IF status = "partial" THEN "completed" ELSE status
  BY DEF TeamStatuses
<1>2. PICK x : x = [NoTeamRun EXCEPT !.stage = "ended", !.busy = tr.busy,
                      !.failures = tr.failures, !.interrupted = tr.interrupted,
                      !.result = status, !.record = record]
  OBVIOUS
<1>3. teamRuns' = [teamRuns EXCEPT ![r] = x] /\ teamStatus' = status
  BY <1>1, <1>2 DEF Returns
<1>4. NoTeamRun \in TeamRun
  BY TeamAssumption DEF NoTeamRun, TeamRun, TeamStatuses, Stages
<1>5. tr.busy \subseteq Members /\ tr.failures \subseteq Stages /\ tr.interrupted \in BOOLEAN
  BY DEF TeamRun
<1>6. /\ x \in TeamRun /\ x.stage = "ended" /\ x.busy = tr.busy /\ x.failures = tr.failures
      /\ x.interrupted = tr.interrupted /\ x.result = status
  BY <1>1, <1>2, <1>4, <1>5 DEF TeamRun
<1>7. TeamRunOK(x, r \in teamAborted)
  BY <1>6 DEF TeamRunOK, Completable
<1> QED
  BY <1>3, <1>6, <1>7, TeamStep

LEMMA ThrowKeeps ==
  ASSUME TeamIInv, NEW r \in Runs, NEW tr \in TeamRun, Throws(r, tr),
         UNCHANGED <<teamConfig, teamAborted>>
  PROVE  TeamIInv'
<1>1. PICK status \in {"failed", "cancelled"} : Returns(r, tr, status)
  BY DEF Throws
<1> QED
  BY <1>1, ReturnKeeps DEF TeamStatuses

\* A tr goes on.
LEMMA ContinueStep ==
  ASSUME TeamIInv, NEW r \in Runs, NEW tr \in TeamRun, Continues(r, tr),
         UNCHANGED <<teamConfig, teamAborted>>, UnderWay(tr, r \in teamAborted)
  PROVE  TeamIInv'
<1>1. TeamRunOK(tr, r \in teamAborted)
  BY DEF TeamRunOK, UnderWay
<1>2. teamStatus' \in TeamStatuses
  BY DEF Continues, TeamIInv, TeamTypeOK
<1> QED
  BY <1>1, <1>2, TeamStep DEF Continues

\* Members are called for another stage, where nobody is busy.
LEMMA CallStep ==
  ASSUME TeamIInv, NEW r \in Runs, NEW stage \in Stages, NEW who \in SUBSET Members,
         Calls(r, stage, who), UNCHANGED <<teamConfig, teamAborted>>,
         UnderWay(teamRuns[r], r \in teamAborted), teamRuns[r].busy = {},
         FailFast => "tasks" \notin teamRuns[r].failures,
         stage = "fanout" => FanOut,
         stage \in {"decide", "delegate", "tasks"} => Supervised,
         stage \in {"review", "reviewHandoff"} => teamConfig.strategy = "debate-review",
         Supervised => teamRuns[r].iteration <= MaxIterations
  PROVE  TeamIInv'
<1>1. PICK tr : tr = [teamRuns[r] EXCEPT !.stage = stage, !.busy = who]
  OBVIOUS
<1>2. Continues(r, tr)
  BY <1>1 DEF Calls
<1>3. /\ tr \in TeamRun /\ tr.stage = stage /\ tr.busy = who
      /\ tr.result = teamRuns[r].result /\ tr.iteration = teamRuns[r].iteration
      /\ tr.failures = teamRuns[r].failures /\ tr.errors = teamRuns[r].errors
      /\ tr.interrupted = teamRuns[r].interrupted
  BY <1>1, RunTypes DEF TeamRun
<1>4. stage \notin {"unused", "next"}
  BY DEF Stages
<1>5. UnderWay(tr, r \in teamAborted)
  BY <1>3, <1>4 DEF UnderWay
<1> QED
  BY <1>2, <1>3, <1>5, ContinueStep

-----------------------------------------------------------------------------
(* Every action keeps the invariant. *)

LEMMA RunTeamKeeps ==
  ASSUME TeamIInv, NEW r \in Runs, RunTeam(r)
  PROVE  TeamIInv'
<1>1. PICK tr : tr = [teamRuns[r] EXCEPT !.stage = "next", !.record = "running"]
  OBVIOUS
<1>2. /\ teamRuns' = [teamRuns EXCEPT ![r] = tr] /\ teamStatus' = "running"
      /\ teamRuns[r].stage = "unused" /\ UNCHANGED <<teamConfig, teamAborted>>
  BY <1>1 DEF RunTeam
<1>3. /\ tr \in TeamRun /\ tr.stage = "next" /\ tr.busy = teamRuns[r].busy
      /\ tr.result = teamRuns[r].result /\ tr.iteration = teamRuns[r].iteration
      /\ tr.failures = teamRuns[r].failures /\ tr.errors = teamRuns[r].errors
      /\ tr.interrupted = teamRuns[r].interrupted
  BY <1>1, RunTypes DEF TeamRun, TeamStatuses
<1>4. TeamRunOK(tr, r \in teamAborted)
  BY <1>2, <1>3, RunTypes DEF TeamRunOK, UnderWay
<1> QED
  BY <1>2, <1>3, <1>4, TeamStep DEF TeamStatuses

\* Cancelling interrupts the runs whose members are busy, and aborts them.
LEMMA InterruptOK ==
  ASSUME NEW tr \in TeamRun, NEW x \in TeamRun, NEW wasAborted, TeamRunOK(tr, wasAborted),
         x.interrupted = (tr.interrupted \/ tr.busy # {}),
         x.stage = tr.stage, x.busy = tr.busy, x.result = tr.result,
         x.iteration = tr.iteration, x.failures = tr.failures, x.errors = tr.errors
  PROVE  TeamRunOK(x, TRUE)
<1>1. tr.interrupted \in BOOLEAN /\ x.interrupted \in BOOLEAN
  BY DEF TeamRun
<1>2. ASSUME tr.stage # "ended" PROVE UnderWay(x, TRUE)
  BY <1>1, <1>2 DEF TeamRunOK, UnderWay
<1>3. ASSUME tr.result \in {"completed", "partial"} PROVE Completable(x)
  BY <1>1, <1>3 DEF TeamRunOK, Completable
<1> QED
  BY <1>2, <1>3 DEF TeamRunOK

LEMMA CancelTeamKeeps ==
  ASSUME TeamIInv, NEW r \in Runs, CancelTeam(r)
  PROVE  TeamIInv'
<1>1. /\ teamAborted' = Runs /\ UNCHANGED teamConfig
      /\ teamRuns' = [e \in Runs |->
           [teamRuns[e] EXCEPT !.interrupted = @ \/ teamRuns[e].busy # {},
                               !.record = IF e = r THEN "cancelled" ELSE @]]
  BY DEF CancelTeam
<1>2. teamStatus' \in TeamStatuses
  BY DEF CancelTeam, TeamIInv, TeamTypeOK, TeamStatuses
<1>3. (FailFast' <=> FailFast) /\ (FanOut' <=> FanOut) /\ (Supervised' <=> Supervised)
  BY <1>1 DEF FailFast, FanOut, Supervised
<1>4. ASSUME NEW e \in Runs
      PROVE  teamRuns'[e] \in TeamRun /\ TeamRunOK(teamRuns[e], e \in teamAborted)'
  <2>1. PICK tr \in TeamRun : tr = teamRuns[e] /\ TeamRunOK(tr, e \in teamAborted)
    BY RunTypes
  <2>2. PICK record \in TeamStatuses \cup {"none"} :
          record = IF e = r THEN "cancelled" ELSE tr.record
    BY DEF TeamRun, TeamStatuses
  <2>3. PICK interrupted \in BOOLEAN : interrupted = (tr.interrupted \/ tr.busy # {})
    BY DEF TeamRun
  <2>4. PICK x : x = [tr EXCEPT !.interrupted = interrupted, !.record = record]
    OBVIOUS
  <2>5. teamRuns'[e] = x
    BY <1>1, <2>1, <2>2, <2>3, <2>4
  <2>6. /\ x \in TeamRun /\ x.interrupted = interrupted /\ x.stage = tr.stage
        /\ x.busy = tr.busy /\ x.result = tr.result /\ x.iteration = tr.iteration
        /\ x.failures = tr.failures /\ x.errors = tr.errors
    BY <2>2, <2>3, <2>4 DEF TeamRun
  <2>7. PICK was : was = (e \in teamAborted)
    OBVIOUS
  <2>8. TeamRunOK(tr, was) /\ x.interrupted = (tr.interrupted \/ tr.busy # {})
    BY <2>1, <2>3, <2>6, <2>7
  <2>9. TeamRunOK(x, TRUE)
    BY <2>6, <2>8, InterruptOK
  <2> QED
    BY <1>1, <1>3, <2>5, <2>6, <2>9 DEF TeamRunOK, UnderWay, Completable
<1>5. teamRuns' \in [Runs -> TeamRun]
  BY <1>1, <1>4
<1>6. TeamTypeOK'
  BY <1>1, <1>2, <1>5 DEF TeamIInv, TeamTypeOK
<1> QED
  BY <1>4, <1>6 DEF TeamIInv

LEMMA AbortRunKeeps ==
  ASSUME TeamIInv, NEW r \in Runs, AbortRun(r)
  PROVE  TeamIInv'
<1>1. PICK tr \in TeamRun : tr = teamRuns[r] /\ TeamRunOK(tr, r \in teamAborted)
  BY RunTypes
<1>2. PICK interrupted \in BOOLEAN : interrupted = (tr.interrupted \/ tr.busy # {})
  BY DEF TeamRun
<1>3. PICK x : x = [tr EXCEPT !.interrupted = interrupted]
  OBVIOUS
<1>4. /\ teamAborted' = teamAborted \cup {r} /\ UNCHANGED <<teamConfig, teamStatus>>
      /\ teamRuns' = [teamRuns EXCEPT ![r] = x]
  BY <1>1, <1>2, <1>3 DEF AbortRun
<1>5. /\ x \in TeamRun /\ x.interrupted = interrupted /\ x.stage = tr.stage
      /\ x.busy = tr.busy /\ x.result = tr.result /\ x.iteration = tr.iteration
      /\ x.failures = tr.failures /\ x.errors = tr.errors
  BY <1>3 DEF TeamRun
<1>6. TeamRunOK(x, TRUE)
  <2>1. PICK was : was = (r \in teamAborted)
    OBVIOUS
  <2>2. TeamRunOK(tr, was) /\ x.interrupted = (tr.interrupted \/ tr.busy # {})
    BY <1>1, <1>2, <1>5, <2>1
  <2> QED
    BY <1>5, <2>2, InterruptOK
<1>7. /\ teamRuns \in [Runs -> TeamRun] /\ TeamTypeOK
      /\ \A e \in Runs : TeamRunOK(teamRuns[e], e \in teamAborted)
  BY DEF TeamIInv, TeamTypeOK
<1>8. /\ teamRuns' \in [Runs -> TeamRun] /\ teamRuns'[r] = x
      /\ \A e \in Runs : e # r => teamRuns'[e] = teamRuns[e]
  BY <1>4, <1>5, <1>7
<1>9. (FailFast' <=> FailFast) /\ (FanOut' <=> FanOut) /\ (Supervised' <=> Supervised)
  BY <1>4 DEF FailFast, FanOut, Supervised
<1>10. ASSUME NEW e \in Runs PROVE TeamRunOK(teamRuns[e], e \in teamAborted)'
  <2>1. PICK y : y = teamRuns'[e]
    OBVIOUS
  <2>2. PICK a : a = (e \in teamAborted')
    OBVIOUS
  <2>3. TeamRunOK(y, a)
    <3>1. CASE e = r
      BY <3>1, <2>1, <2>2, <1>4, <1>6, <1>8
    <3>2. CASE e # r
      BY <3>2, <2>1, <2>2, <1>4, <1>7, <1>8
    <3> QED
      BY <3>1, <3>2
  <2> QED
    BY <2>1, <2>2, <2>3, <1>4, <1>9 DEF TeamRunOK, UnderWay, Completable
<1>11. TeamTypeOK'
  BY <1>4, <1>7, <1>8 DEF TeamTypeOK
<1> QED
  BY <1>10, <1>11 DEF TeamIInv

LEMMA StragglesKeeps ==
  ASSUME TeamIInv, NEW r \in Runs, NEW m \in Members, Straggles(r, m)
  PROVE  TeamIInv'
<1>1. PICK tr : tr = [teamRuns[r] EXCEPT !.busy = @ \ {m}]
  OBVIOUS
<1>2. /\ teamRuns' = [teamRuns EXCEPT ![r] = tr] /\ teamRuns[r].stage = "ended"
      /\ teamRuns[r].busy # {} /\ UNCHANGED <<teamConfig, teamStatus, teamAborted>>
  BY <1>1 DEF Straggles
<1>3. teamRuns[r].busy \ {m} \in SUBSET Members
  BY RunTypes
<1>4. /\ tr \in TeamRun /\ tr.stage = "ended" /\ tr.result = teamRuns[r].result
  BY <1>1, <1>2, <1>3, RunTypes DEF TeamRun
<1>5. TeamRunOK(tr, r \in teamAborted)
  BY <1>2, <1>4, RunTypes DEF TeamRunOK, Completable
<1>6. teamStatus' \in TeamStatuses
  BY <1>2 DEF TeamIInv, TeamTypeOK
<1> QED
  BY <1>2, <1>4, <1>5, <1>6, TeamStep

\* Nobody is busy in a tr that is under way: it was not interrupted, or failed.
LEMMA NobodyBusy ==
  ASSUME TeamIInv, NEW r \in Runs, teamRuns[r].stage # "ended", teamRuns[r].busy = {}
  PROVE  /\ UnderWay(teamRuns[r], r \in teamAborted)
         /\ ~(teamRuns[r].interrupted /\ teamRuns[r].failures = {})
         /\ FailFast /\ teamRuns[r].stage \notin {"tasks", "handoff"} =>
              teamRuns[r].failures \subseteq {"reviewHandoff"}
  BY RunTypes DEF TeamRunOK, UnderWay

LEMMA NextTurnIsMember ==
  ASSUME NEW r \in Runs, TurnsLeft(r) # {}
  PROVE  NextTurn(r) \in Members
<1>1. TurnsLeft(r) \in SUBSET Nat /\ \A i \in TurnsLeft(r) : TeamOrder[i] \in Members
  BY TeamAssumption DEF TurnsLeft
<1>2. \E i \in TurnsLeft(r) : \A j \in TurnsLeft(r) : i <= j
  BY <1>1, Smallest
<1> QED
  BY <1>1, <1>2 DEF NextTurn

LEMMA TakesTurnKeeps ==
  ASSUME TeamIInv, NEW r \in Runs, TakesTurn(r)
  PROVE  TeamIInv'
<1>1. PICK tr \in TeamRun : tr = teamRuns[r]
  BY RunTypes
<1>2. /\ teamConfig.strategy = "sequential" /\ tr.stage = "next" /\ tr.busy = {}
      /\ UNCHANGED <<teamConfig, teamAborted>>
  BY <1>1, RunTypes DEF TakesTurn, TeamRunOK, UnderWay
<1>3. /\ UnderWay(tr, r \in teamAborted) /\ Completable(tr)
      /\ FailFast => "tasks" \notin tr.failures
  BY <1>1, <1>2, NobodyBusy DEF Completable
<1>4. ~Supervised
  BY <1>2 DEF Supervised
<1>5. CASE TurnsLeft(r) = {}
  <2>1. Returns(r, tr, "completed")
    BY <1>1, <1>5 DEF TakesTurn
  <2> QED
    BY <1>2, <1>3, <2>1, ReturnKeeps DEF TeamStatuses
<1>6. CASE TurnsLeft(r) # {} /\ r \in teamAborted
  <2>1. Throws(r, tr)
    BY <1>1, <1>6 DEF TakesTurn
  <2> QED
    BY <1>2, <2>1, ThrowKeeps
<1>7. CASE TurnsLeft(r) # {} /\ r \notin teamAborted
  <2>1. PICK who \in SUBSET Members : who = {NextTurn(r)}
    BY <1>7, NextTurnIsMember
  <2>2. Calls(r, "turn", who)
    BY <1>7, <2>1 DEF TakesTurn
  <2> QED
    BY <1>1, <1>2, <1>3, <1>4, <2>2, CallStep DEF Stages
<1> QED
  BY <1>5, <1>6, <1>7

LEMMA CallsEveryoneKeeps ==
  ASSUME TeamIInv, NEW r \in Runs, CallsEveryone(r)
  PROVE  TeamIInv'
<1>1. PICK tr \in TeamRun : tr = teamRuns[r]
  BY RunTypes
<1>2. /\ FanOut /\ tr.stage = "next" /\ tr.busy = {} /\ UNCHANGED <<teamConfig, teamAborted>>
  BY <1>1, RunTypes DEF CallsEveryone, TeamRunOK, UnderWay
<1>3. UnderWay(tr, r \in teamAborted) /\ (FailFast => "tasks" \notin tr.failures)
  BY <1>1, <1>2, NobodyBusy
<1>4. ~Supervised
  BY <1>2 DEF FanOut, Supervised
<1>5. CASE r \in teamAborted
  BY <1>1, <1>2, <1>5, ThrowKeeps DEF CallsEveryone
<1>6. CASE r \notin teamAborted
  <2>1. Ordered \subseteq Members
    BY TeamAssumption DEF Ordered
  <2>2. PICK who \in SUBSET Members : Calls(r, "fanout", who)
    BY <1>6, <2>1 DEF CallsEveryone
  <2> QED
    BY <1>1, <1>2, <1>3, <1>4, <2>2, CallStep DEF Stages
<1> QED
  BY <1>5, <1>6

LEMMA IteratesKeeps ==
  ASSUME TeamIInv, NEW r \in Runs, Iterates(r)
  PROVE  TeamIInv'
<1>1. PICK tr \in TeamRun : tr = teamRuns[r]
  BY RunTypes
<1>2. /\ Supervised /\ tr.stage = "next" /\ tr.busy = {} /\ UNCHANGED <<teamConfig, teamAborted>>
  BY <1>1, RunTypes DEF Iterates, TeamRunOK, UnderWay
<1>3. UnderWay(tr, r \in teamAborted) /\ (FailFast => "tasks" \notin tr.failures)
  BY <1>1, <1>2, NobodyBusy
<1>4. CASE Returns(r, tr, "failed")
  BY <1>2, <1>4, ReturnKeeps DEF TeamStatuses
<1>5. CASE Throws(r, tr)
  BY <1>2, <1>5, ThrowKeeps
<1>6. CASE tr.iteration <= MaxIterations /\ \E who \in {{}, {Supervisor}} : Calls(r, "decide", who)
  <2>1. PICK who \in SUBSET Members : Calls(r, "decide", who)
    BY <1>6, TeamAssumption
  <2> QED
    BY <1>1, <1>2, <1>3, <1>6, <2>1, CallStep DEF Stages
<1> QED
  BY <1>1, <1>4, <1>5, <1>6 DEF Iterates

LEMMA SupervisorDecidedKeeps ==
  ASSUME TeamIInv, NEW r \in Runs, SupervisorDecided(r)
  PROVE  TeamIInv'
<1>1. PICK tr \in TeamRun : tr = teamRuns[r]
  BY RunTypes
<1>2. /\ tr.stage = "decide" /\ tr.busy = {} /\ UNCHANGED <<teamConfig, teamAborted>>
  BY <1>1 DEF SupervisorDecided
<1>3. /\ UnderWay(tr, r \in teamAborted) /\ Completable(tr)
      /\ FailFast => "tasks" \notin tr.failures
  BY <1>1, <1>2, NobodyBusy DEF Completable
<1>4. Supervised /\ tr.iteration <= MaxIterations
  BY <1>2, <1>3 DEF UnderWay
<1>5. CASE Finishes(r)
  <2>1. Returns(r, tr, "completed")
    BY <1>1, <1>5 DEF Finishes
  <2> QED
    BY <1>2, <1>3, <2>1, ReturnKeeps DEF TeamStatuses
<1>6. CASE Throws(r, tr)
  BY <1>2, <1>6, ThrowKeeps
<1>7. CASE Delegates(r)
  <2>1. PICK stage \in {"delegate", "tasks"}, who \in SUBSET Members :
          Throws(r, tr) \/ Calls(r, stage, who)
    BY <1>1, <1>7 DEF Delegates
  <2>2. CASE Calls(r, stage, who)
    BY <1>1, <1>2, <1>3, <1>4, <2>2, CallStep DEF Stages
  <2> QED
    BY <2>1, <2>2, <1>6
<1> QED
  BY <1>1, <1>5, <1>6, <1>7 DEF SupervisorDecided

\* A member answers: where the tr is aborted it throws, else it goes on, and
\* nothing was interrupted.
LEMMA AnswersKeeps ==
  ASSUME TeamIInv, NEW r \in Runs, NEW m \in Members,
         NEW to \in SUBSET (Members \cup {Nowhere}), MemberAnswers(r, m, to)
  PROVE  TeamIInv'
<1>1. PICK tr \in TeamRun : tr = teamRuns[r]
  BY RunTypes
<1>2. /\ m \in tr.busy /\ tr.stage # "ended" /\ UNCHANGED <<teamConfig, teamAborted>>
  BY <1>1 DEF MemberAnswers
<1>3. UnderWay(tr, r \in teamAborted) /\ tr.stage \notin {"unused", "next"}
  BY <1>1, <1>2, RunTypes DEF TeamRunOK, UnderWay
<1>4. CASE r \in teamAborted
  BY <1>1, <1>2, <1>4, ThrowKeeps DEF MemberAnswers
<1>5. CASE r \notin teamAborted
  <2>1. PICK outputs \in SUBSET Members :
          outputs = IF tr.stage = "decide" THEN tr.outputs ELSE tr.outputs \cup {m}
    BY DEF TeamRun
  <2>7. PICK handoffs \in SUBSET (Members \cup {Nowhere}) :
          handoffs = IF HandsOff(r) THEN tr.handoffs \cup to ELSE tr.handoffs
    <3>1. tr.handoffs \subseteq Members \cup {Nowhere}
      BY DEF TeamRun
    <3> QED
      BY <3>1
  <2>2. PICK x : x = [tr EXCEPT !.busy = @ \ {m}, !.completed = @ \cup {m},
                        !.outputs = outputs, !.handoffs = handoffs]
    OBVIOUS
  <2>3. Continues(r, x)
    BY <1>1, <1>5, <2>1, <2>7, <2>2 DEF MemberAnswers
  <2>4. tr.busy \ {m} \in SUBSET Members /\ tr.completed \cup {m} \in SUBSET Members
    BY DEF TeamRun
  <2>5. /\ x \in TeamRun /\ x.stage = tr.stage /\ x.result = tr.result
        /\ x.iteration = tr.iteration /\ x.failures = tr.failures /\ x.errors = tr.errors
        /\ x.interrupted = tr.interrupted
    BY <2>2, <2>4 DEF TeamRun
  <2>6. UnderWay(x, r \in teamAborted)
    BY <1>3, <1>5, <2>5 DEF UnderWay
  <2> QED
    BY <1>2, <2>3, <2>5, <2>6, ContinueStep
<1> QED
  BY <1>4, <1>5

\* A member fails: under fail-fast the tr goes on only from a supervisor's task,
\* which it remembers, and from whom the reviewer handed to.
LEMMA FailsKeeps ==
  ASSUME TeamIInv, NEW r \in Runs, NEW m \in Members, MemberFails(r, m)
  PROVE  TeamIInv'
<1>1. PICK tr \in TeamRun : tr = teamRuns[r]
  BY RunTypes
<1>2. PICK x : x = [tr EXCEPT !.busy = @ \ {m}, !.completed = @ \cup {m}, !.errors = TRUE,
                      !.failures = @ \cup {tr.stage}]
  OBVIOUS
<1>3. /\ m \in tr.busy /\ tr.stage # "ended" /\ UNCHANGED <<teamConfig, teamAborted>>
      /\ \/ Throws(r, x)
         \/ Returns(r, x, "failed")
         \/ /\ tr.stage \in {"tasks", "reviewHandoff"} \/ ~FailFast
            /\ Continues(r, x)
  <2>1. x.stage = tr.stage
    BY <1>2 DEF TeamRun
  <2> QED
    BY <1>1, <1>2, <2>1 DEF MemberFails
<1>4. UnderWay(tr, r \in teamAborted) /\ tr.stage \notin {"unused", "next"}
  BY <1>1, <1>3, RunTypes DEF TeamRunOK, UnderWay
<1>5. tr.stage \in Stages
  BY <1>3, <1>4 DEF TeamRun
<1>6. /\ tr.busy \ {m} \in SUBSET Members /\ tr.completed \cup {m} \in SUBSET Members
      /\ tr.failures \cup {tr.stage} \in SUBSET Stages
  BY <1>5 DEF TeamRun
<1>7. /\ x \in TeamRun /\ x.stage = tr.stage /\ x.result = tr.result
      /\ x.iteration = tr.iteration /\ x.failures = tr.failures \cup {tr.stage}
      /\ x.errors /\ x.interrupted = tr.interrupted /\ x.busy = tr.busy \ {m}
  BY <1>2, <1>6 DEF TeamRun
<1>8. CASE Throws(r, x)
  BY <1>3, <1>7, <1>8, ThrowKeeps
<1>9. CASE Returns(r, x, "failed")
  BY <1>3, <1>7, <1>9, ReturnKeeps DEF TeamStatuses
<1>10. CASE (tr.stage \in {"tasks", "reviewHandoff"} \/ ~FailFast) /\ Continues(r, x)
  <2>1. x.failures # {}
    BY <1>7
  <2>2. FailFast => x.failures \subseteq {"tasks", "reviewHandoff"}
    BY <1>4, <1>7, <1>10 DEF UnderWay
  <2>3. FailFast /\ "tasks" \in x.failures => Supervised /\ x.stage \in {"tasks", "handoff"}
    BY <1>4, <1>7, <1>10 DEF UnderWay
  <2>4. UnderWay(x, r \in teamAborted)
    BY <1>4, <1>7, <2>1, <2>2, <2>3 DEF UnderWay
  <2> QED
    BY <1>3, <1>7, <1>10, <2>4, ContinueStep
<1> QED
  BY <1>3, <1>8, <1>9, <1>10

LEMMA HandsOverKeeps ==
  ASSUME TeamIInv, NEW r \in Runs, HandsOver(r), UNCHANGED <<teamConfig, teamAborted>>,
         teamRuns[r].stage \notin {"unused", "next", "decide", "ended"}, teamRuns[r].busy = {}
  PROVE  TeamIInv'
<1>1. PICK tr \in TeamRun : tr = teamRuns[r]
  BY RunTypes
<1>2. UnderWay(tr, r \in teamAborted) /\ ~(tr.interrupted /\ tr.failures = {})
  BY <1>1, NobodyBusy
<1>3. CASE Throws(r, tr)
  BY <1>3, ThrowKeeps
<1>4. CASE ~Throws(r, tr)
  <2>1. PICK to \in tr.handoffs :
          /\ to # Nowhere
          /\ Continues(r, [tr EXCEPT !.busy = {to}, !.handoffs = @ \ {to},
                !.stage = IF tr.stage = "review" THEN "reviewHandoff" ELSE "handoff"])
    BY <1>1, <1>4 DEF HandsOver
  <2>2. /\ tr.handoffs \subseteq Members \cup {Nowhere} /\ to \in Members
        /\ tr.handoffs \ {to} \in SUBSET (Members \cup {Nowhere})
    BY <2>1 DEF TeamRun
  <2>3. PICK stage \in {"reviewHandoff", "handoff"} :
          stage = IF tr.stage = "review" THEN "reviewHandoff" ELSE "handoff"
    OBVIOUS
  <2>4. PICK x : x = [tr EXCEPT !.busy = {to}, !.handoffs = @ \ {to}, !.stage = stage]
    OBVIOUS
  <2>5. Continues(r, x)
    BY <2>1, <2>3, <2>4
  <2>6. /\ x \in TeamRun /\ x.stage = stage /\ x.busy = {to} /\ x.result = tr.result
        /\ x.iteration = tr.iteration /\ x.failures = tr.failures /\ x.errors = tr.errors
        /\ x.interrupted = tr.interrupted
    BY <2>2, <2>4 DEF TeamRun, Stages
  <2>7. FailFast /\ "tasks" \in tr.failures => tr.stage # "review"
    BY <1>2 DEF UnderWay
  <2>8. tr.stage = "review" => teamConfig.strategy = "debate-review"
    BY <1>2 DEF UnderWay
  <2>9. UnderWay(x, r \in teamAborted)
    BY <1>1, <1>2, <2>3, <2>6, <2>7, <2>8 DEF UnderWay
  <2> QED
    BY <2>5, <2>6, <2>9, ContinueStep
<1> QED
  BY <1>3, <1>4

LEMMA FanOutSettlesKeeps ==
  ASSUME TeamIInv, NEW r \in Runs, FanOutSettles(r), UNCHANGED <<teamConfig, teamAborted>>,
         FanOut, teamRuns[r].stage \in {"fanout", "handoff"}, teamRuns[r].busy = {}
  PROVE  TeamIInv'
<1>1. PICK tr \in TeamRun : tr = teamRuns[r]
  BY RunTypes
<1>2. ~Supervised
  BY DEF FanOut, Supervised
<1>3. /\ UnderWay(tr, r \in teamAborted) /\ (FailFast => "tasks" \notin tr.failures)
      /\ Completable(tr)
  BY <1>1, <1>2, NobodyBusy DEF Completable, UnderWay
<1>4. CASE \E status \in TeamStatuses : Returns(r, tr, status)
  BY <1>3, <1>4, ReturnKeeps
<1>5. CASE Throws(r, [tr EXCEPT !.stage = "review"])
  <2>1. PICK x : x = [tr EXCEPT !.stage = "review"]
    OBVIOUS
  <2>2. x \in TeamRun
    BY <2>1 DEF TeamRun, Stages
  <2> QED
    BY <1>5, <2>1, <2>2, ThrowKeeps
<1>6. CASE teamConfig.strategy = "debate-review" /\ Calls(r, "review", {Supervisor})
  <2>1. PICK who \in SUBSET Members : who = {Supervisor}
    BY TeamAssumption
  <2> QED
    BY <1>1, <1>2, <1>3, <1>6, <2>1, CallStep DEF Stages
<1>7. ParallelStatus(tr) \in TeamStatuses /\ Votes(tr) \subseteq TeamStatuses
  BY DEF ParallelStatus, Votes, TeamStatuses
<1> QED
  BY <1>1, <1>4, <1>5, <1>6, <1>7 DEF FanOutSettles

LEMMA TasksSettleKeeps ==
  ASSUME TeamIInv, NEW r \in Runs, TasksSettle(r), UNCHANGED <<teamConfig, teamAborted>>,
         Supervised, teamRuns[r].stage \notin {"unused", "next", "decide", "ended"},
         teamRuns[r].busy = {}
  PROVE  TeamIInv'
<1>1. PICK tr \in TeamRun : tr = teamRuns[r]
  BY RunTypes
<1>2. UnderWay(tr, r \in teamAborted) /\ ~(tr.interrupted /\ tr.failures = {})
  BY <1>1, NobodyBusy
<1>3. CASE tr.errors /\ FailFast
  <2>1. Returns(r, tr, "failed")
    BY <1>1, <1>3 DEF TasksSettle
  <2> QED
    BY <2>1, ReturnKeeps DEF TeamStatuses
<1>4. CASE ~(tr.errors /\ FailFast)
  <2>1. tr.iteration \in 1 .. MaxIterations + 1 /\ tr.iteration <= MaxIterations
    BY <1>1, <1>2, RunTypes DEF UnderWay
  <2>2. tr.iteration + 1 \in 1 .. MaxIterations + 1
    BY <2>1, TeamAssumption
  <2>3. PICK x : x = [tr EXCEPT !.stage = "next", !.errors = FALSE, !.iteration = @ + 1]
    OBVIOUS
  <2>4. Continues(r, x)
    BY <1>1, <1>4, <2>3 DEF TasksSettle
  <2>5. /\ x \in TeamRun /\ x.stage = "next" /\ x.busy = tr.busy /\ x.result = tr.result
        /\ x.failures = tr.failures /\ x.interrupted = tr.interrupted
    BY <2>2, <2>3 DEF TeamRun
  <2>6. FailFast => "tasks" \notin tr.failures
    BY <1>2, <1>4 DEF UnderWay
  <2>7. UnderWay(x, r \in teamAborted)
    BY <1>1, <1>2, <2>5, <2>6 DEF UnderWay
  <2> QED
    BY <2>4, <2>5, <2>7, ContinueStep
<1> QED
  BY <1>3, <1>4

LEMMA SettlesKeeps ==
  ASSUME TeamIInv, NEW r \in Runs, Settles(r)
  PROVE  TeamIInv'
<1>1. PICK tr \in TeamRun : tr = teamRuns[r]
  BY RunTypes
<1>2. /\ tr.stage \notin {"unused", "next", "decide", "ended"} /\ tr.busy = {}
      /\ UNCHANGED <<teamConfig, teamAborted>>
  BY <1>1 DEF Settles
<1>3. UnderWay(tr, r \in teamAborted) /\ ~(tr.interrupted /\ tr.failures = {})
  BY <1>1, <1>2, NobodyBusy
<1>4. CASE HandsOver(r)
  BY <1>1, <1>2, <1>4, HandsOverKeeps
<1>5. CASE FanOut /\ tr.stage \in {"fanout", "handoff"} /\ FanOutSettles(r)
  BY <1>1, <1>2, <1>5, FanOutSettlesKeeps
<1>6. CASE tr.stage \in {"review", "reviewHandoff"} /\ Returns(r, tr, "completed")
  <2>1. Completable(tr)
    BY <1>1, <1>2, <1>3, <1>6, NobodyBusy DEF Completable
  <2> QED
    BY <1>2, <1>6, <2>1, ReturnKeeps DEF TeamStatuses
<1>7. CASE teamConfig.strategy = "sequential" /\ Continues(r, [tr EXCEPT !.stage = "next"])
  <2>1. PICK x : x = [tr EXCEPT !.stage = "next"]
    OBVIOUS
  <2>2. /\ x \in TeamRun /\ x.stage = "next" /\ x.busy = tr.busy /\ x.result = tr.result
        /\ x.failures = tr.failures /\ x.interrupted = tr.interrupted
    BY <2>1 DEF TeamRun
  <2>3. ~Supervised
    BY <1>7 DEF Supervised
  <2>4. UnderWay(x, r \in teamAborted)
    BY <1>2, <1>3, <2>2, <2>3 DEF UnderWay
  <2> QED
    BY <1>2, <1>7, <2>1, <2>2, <2>4, ContinueStep
<1>8. CASE Supervised /\ TasksSettle(r)
  BY <1>1, <1>2, <1>8, TasksSettleKeeps
<1> QED
  BY <1>1, <1>4, <1>5, <1>6, <1>7, <1>8 DEF Settles

LEMMA TeamStepOK == TeamIInv /\ [TeamNext]_teamVars => TeamIInv'
<1> SUFFICES ASSUME TeamIInv, [TeamNext]_teamVars PROVE TeamIInv'
  OBVIOUS
<1>1. CASE \E r \in Runs :
             \/ RunTeam(r) \/ CancelTeam(r) \/ AbortRun(r)
             \/ TakesTurn(r) \/ CallsEveryone(r) \/ Iterates(r) \/ SupervisorDecided(r)
             \/ Settles(r)
  BY <1>1, RunTeamKeeps, CancelTeamKeeps, AbortRunKeeps, TakesTurnKeeps, CallsEveryoneKeeps,
     IteratesKeeps, SupervisorDecidedKeeps, SettlesKeeps
<1>2. CASE \E r \in Runs, m \in Members : MemberFails(r, m) \/ Straggles(r, m)
  BY <1>2, FailsKeeps, StragglesKeeps
<1>3. CASE \E r \in Runs, m \in Members :
             \E to \in {{}} \cup {{t} : t \in Members \cup {Nowhere}} : MemberAnswers(r, m, to)
  <2>1. PICK r \in Runs, m \in Members, to \in SUBSET (Members \cup {Nowhere}) :
          MemberAnswers(r, m, to)
    BY <1>3
  <2> QED
    BY <2>1, AnswersKeeps
<1>4. CASE UNCHANGED teamVars
  <2>1. UNCHANGED <<teamConfig, teamStatus, teamAborted, teamRuns>>
    BY <1>4 DEF teamVars
  <2> QED
    BY <2>1 DEF TeamIInv, TeamTypeOK, TeamRunOK, UnderWay, Completable, FailFast, FanOut,
                Supervised
<1> QED
  BY <1>1, <1>2, <1>3, <1>4, Zenon DEF TeamNext

\* Under fail-fast no failure is passed over but that of whom the reviewer handed
\* to, and a run cancelled while a member was busy is never reported complete:
\* for every team, strategy and number of runs (create-team.ts, strategies/).
THEOREM TeamsReport == TeamSpec => []TeamInv
<1>1. TeamIInv => TeamInv
  BY DEF TeamIInv, TeamInv, TeamRunOK, Completable, FailureReported, CancelReported
<1> QED
  BY TeamInitOK, TeamStepOK, <1>1, PTL DEF TeamSpec
=============================================================================
