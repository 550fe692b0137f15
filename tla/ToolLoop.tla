-------------------------------- MODULE ToolLoop --------------------------------
(***************************************************************************)
(* The tool loop of the platform host (apps/platform-host/src/composition/ *)
(* local-reference-tool-loop.ts) with what it calls: provider fallback     *)
(* (local-reference-ai-routing.ts), the coordinator of the tool-framework, *)
(* and persistToolLoop and loadToolLoop of the Runtime.  One execution:    *)
(* the model is asked, the tools it proposes are admitted and run one      *)
(* after the other, and it is asked again.  The loop's checkpoint survives *)
(* a crash, and the next attempt starts from it.  The host gives its       *)
(* coordinator no idempotency ledger (local-reference-composition.ts:303), *)
(* so a result that is not in the checkpoint is lost, and an idempotent    *)
(* tool found at pre-tool runs again.  An aborted attempt runs on until it *)
(* looks at its signal, while the Runtime has given up on it already.      *)
(***************************************************************************)
EXTENDS Naturals, FiniteSets, Sequences

CONSTANTS
  ToolCalls,      \* tool call identifiers the model may propose
  NonIdempotent,  \* those whose tool is non-idempotent
  Proposals,      \* what one answer may propose: sequences of ToolCalls
  MaxTurns,       \* limits.maxTurns
  MaxCalls,       \* min(maxCallsPerInvocation, agentMaxToolInvocations)
  Implementations,\* number of implementations of the text capability
  MaxToolCrashes  \* bound: crashes of the host

ASSUME ToolLoopAssumption ==
  /\ NonIdempotent \subseteq ToolCalls
  /\ Proposals \subseteq Seq(ToolCalls) \ {<<>>}
  /\ Implementations \in Nat \ {0} /\ MaxToolCrashes \in Nat

VARIABLES
  saved,       \* the toolLoop of the checkpoint, or NoLoop
  outcome,     \* of the execution: its checkpoint is incomplete or terminal
  run,         \* the attempt: what the loop's local variables hold
  invoked,     \* history: [ToolCalls -> calls of adapter.invoke]
  durable,     \* history: the calls whose result a checkpoint has held
  toolCrashes

toolVars == <<saved, outcome, run, invoked, durable, toolCrashes>>

\* ToolLoopCheckpoint: baseMessages and the results are not told apart, and of
\* calls, which holds an identifier once, the stage of each identifier is kept
CallCheckpoint == {"none", "pre-tool", "post-tool"}
ToolLoopCheckpoint ==
  [turn : Nat, proposed : Seq(ToolCalls), calls : [ToolCalls -> CallCheckpoint]]
NoCalls == [c \in ToolCalls |-> "none"]
NoLoop == [turn |-> 0, proposed |-> <<>>, calls |-> NoCalls]

\* at: where the attempt is; resumed: it runs resumeToolLoop; admitted: the
\* calls of the turn that are done; asked: implementations tried so far
Attempt == [at : {"load", "ask", "call", "invoke", "running", "ran", "failed",
                  "ended"},
            resumed : BOOLEAN, turn : Nat, total : Nat, seen : SUBSET ToolCalls,
            proposed : Seq(ToolCalls), admitted : [ToolCalls -> CallCheckpoint],
            asked : 1 .. Implementations, aborted : BOOLEAN]
FreshAttempt == [at |-> "load", resumed |-> FALSE, turn |-> 0, total |-> 0, seen |-> {},
          proposed |-> <<>>, admitted |-> NoCalls, asked |-> 1, aborted |-> FALSE]

ToolLoopInit ==
  /\ saved = NoLoop
  /\ outcome = "incomplete"
  /\ run = FreshAttempt
  /\ invoked = [c \in ToolCalls |-> 0]
  /\ durable = {}
  /\ toolCrashes = 0

----------------------------------------------------------------------------

\* an error leaves the loop and the attempt
Rejects == run' = [run EXCEPT !.at = "failed"]

\* loadToolLoop
Load ==
  /\ run.at = "load"
  /\ run' = IF saved = NoLoop THEN [run EXCEPT !.at = "ask"]
            ELSE [run EXCEPT !.at = "call", !.resumed = TRUE, !.turn = saved.turn,
                    !.proposed = saved.proposed, !.admitted = saved.calls]
  /\ UNCHANGED <<saved, outcome, invoked, durable, toolCrashes>>

Asking == /\ run.at = "ask"
          /\ run.resumed \/ (run.turn < MaxTurns /\ ~run.aborted)

\* the head of the loop: no turn is left, or the signal is aborted
Exhausted ==
  /\ run.at = "ask" /\ ~Asking
  /\ Rejects
  /\ UNCHANGED <<saved, outcome, invoked, durable, toolCrashes>>

\* executeAiWithRouting goes to the next implementation only for the first
\* answer, and only after a retryable error that is eligible for fallback
AnswerFails(fallback) ==
  /\ Asking
  /\ IF fallback /\ ~run.resumed /\ run.turn = 0 /\ run.asked < Implementations
     THEN run' = [run EXCEPT !.asked = @ + 1]
     ELSE Rejects
  /\ UNCHANGED <<saved, outcome, invoked, durable, toolCrashes>>

\* an answer without tool calls; resumeToolLoop returns any answer as it is
Answers ==
  /\ Asking
  /\ run' = [run EXCEPT !.at = "ended"]
  /\ UNCHANGED <<saved, outcome, invoked, durable, toolCrashes>>

\* assertUniqueProposedIds and maxCallsPerInvocation
Acceptable(proposed) ==
  /\ \A i, j \in DOMAIN proposed : proposed[i] = proposed[j] => i = j
  /\ \A i \in DOMAIN proposed : proposed[i] \notin run.seen
  /\ run.total + Len(proposed) <= MaxCalls

Proposes(proposed) ==
  /\ Asking /\ ~run.resumed
  /\ IF Acceptable(proposed)
     THEN /\ saved' = [turn |-> run.turn, proposed |-> proposed, calls |-> NoCalls]
          /\ run' = [run EXCEPT !.at = "call", !.proposed = proposed, !.admitted = NoCalls]
     ELSE /\ Rejects
          /\ UNCHANGED saved
  /\ UNCHANGED <<outcome, invoked, durable, toolCrashes>>

----------------------------------------------------------------------------
(* One call of the turn *)

\* the call the loop is at; every call before it is done
Done(c) == run.admitted[c] = "post-tool"
Turn == {i \in DOMAIN run.proposed : ~Done(run.proposed[i])}
Current == run.proposed[CHOOSE i \in Turn : \A j \in Turn : i <= j]

\* Seeded bug: the calls of the turn that are done are left out.
With_Forgets(stage) == [c \in ToolCalls |-> IF c = Current THEN stage ELSE "none"]

\* the calls that are done, and the current one
With(stage) ==
  [c \in ToolCalls |-> IF c = Current THEN stage ELSE IF Done(c) THEN "post-tool" ELSE "none"]

\* persistToolLoop: load, then upsert
Persist(calls) ==
  saved' = [turn |-> run.turn, proposed |-> run.proposed, calls |-> calls]

\* validation, authorization, approval, capability and composition
CallDenied ==
  /\ run.at = "call" /\ Turn # {}
  /\ run.admitted[Current] = "none"
  /\ Rejects
  /\ UNCHANGED <<saved, outcome, invoked, durable, toolCrashes>>

Admit ==
  /\ run.at = "call" /\ Turn # {}
  /\ run.admitted[Current] = "none"
  /\ Persist(With("pre-tool"))
  /\ run' = [run EXCEPT !.at = "invoke"]
  /\ UNCHANGED <<outcome, invoked, durable, toolCrashes>>

\* Seeded bug: a call found at pre-tool is run again whatever its tool is.
Reenter_Always ==
  /\ run.at = "call" /\ Turn # {}
  /\ run.admitted[Current] = "pre-tool"
  /\ run' = [run EXCEPT !.at = "invoke"]
  /\ UNCHANGED <<saved, outcome, invoked, durable, toolCrashes>>

\* TOOL_UNSAFE_RECOVERY, or the invocation again with the same key
Reenter ==
  /\ run.at = "call" /\ Turn # {}
  /\ run.admitted[Current] = "pre-tool"
  /\ IF Current \in NonIdempotent THEN Rejects
     ELSE run' = [run EXCEPT !.at = "invoke"]
  /\ UNCHANGED <<saved, outcome, invoked, durable, toolCrashes>>

\* ToolInvocationCoordinator.invoke calls the adapter: there is no ledger to ask
Invoke ==
  /\ run.at = "invoke"
  /\ ~run.aborted
  /\ invoked' = [invoked EXCEPT ![Current] = @ + 1]
  /\ run' = [run EXCEPT !.at = "running"]
  /\ UNCHANGED <<saved, outcome, durable, toolCrashes>>

\* the request is aborted or refused, or the adapter cannot be resolved
InvokeRefused ==
  /\ run.at = "invoke"
  /\ Rejects
  /\ UNCHANGED <<saved, outcome, invoked, durable, toolCrashes>>

\* the adapter's answer is valid and small enough
ToolReturns ==
  /\ run.at = "running"
  /\ run' = [run EXCEPT !.at = "ran"]
  /\ UNCHANGED <<saved, outcome, invoked, durable, toolCrashes>>

\* the adapter throws, or its answer is refused
ToolFails ==
  /\ run.at = "running"
  /\ Rejects
  /\ UNCHANGED <<saved, outcome, invoked, durable, toolCrashes>>

\* tool.completed cannot be published, or the result exceeds the loop's limit
ResultRefused ==
  /\ run.at = "ran"
  /\ Rejects
  /\ UNCHANGED <<saved, outcome, invoked, durable, toolCrashes>>

PostTool ==
  /\ run.at = "ran"
  /\ Persist(With("post-tool"))
  /\ run' = [run EXCEPT !.at = "call", !.total = @ + 1, !.seen = @ \cup {Current},
                        !.admitted = With("post-tool")]
  /\ durable' = durable \cup {Current}
  /\ UNCHANGED <<outcome, invoked, toolCrashes>>

\* all calls of the turn are done: the turn is persisted and the model asked
EndTurn ==
  /\ run.at = "call" /\ Turn = {}
  /\ saved' = IF run.resumed THEN saved
              ELSE [saved EXCEPT !.calls = run.admitted]
  /\ run' = [run EXCEPT !.at = "ask", !.turn = @ + (IF run.resumed THEN 0 ELSE 1)]
  /\ UNCHANGED <<outcome, invoked, durable, toolCrashes>>

----------------------------------------------------------------------------
(* The Runtime around the loop *)

\* the attempt's end is recorded: post-invoke and completed, or failed
Conclude ==
  /\ run.at \in {"ended", "failed"}
  /\ outcome = "incomplete"
  /\ outcome' = IF run.at = "ended" THEN "completed" ELSE "failed"
  /\ UNCHANGED <<saved, run, invoked, durable, toolCrashes>>

\* timeout or cancellation: the Runtime no longer waits for the attempt
Abort ==
  /\ outcome = "incomplete" /\ run.at \notin {"ended", "failed"} /\ ~run.aborted
  /\ run' = [run EXCEPT !.aborted = TRUE]
  /\ UNCHANGED <<saved, outcome, invoked, durable, toolCrashes>>

AbortRecorded ==
  /\ run.aborted
  /\ outcome = "incomplete"
  /\ outcome' = "failed"
  /\ UNCHANGED <<saved, run, invoked, durable, toolCrashes>>

\* a crash, and the recovery at the next boot invokes the capability again
Crash ==
  /\ outcome = "incomplete"
  /\ toolCrashes < MaxToolCrashes
  /\ toolCrashes' = toolCrashes + 1
  /\ run' = FreshAttempt
  /\ UNCHANGED <<saved, outcome, invoked, durable>>

LoopStep ==
  \/ Load \/ Exhausted \/ Answers
  \/ \E fallback \in BOOLEAN : AnswerFails(fallback)
  \/ \E proposed \in Proposals : Proposes(proposed)
  \/ CallDenied \/ Admit \/ Reenter \/ Invoke \/ InvokeRefused
  \/ ToolReturns \/ ToolFails \/ ResultRefused \/ PostTool \/ EndTurn

ToolLoopNext == LoopStep \/ Conclude \/ Abort \/ AbortRecorded \/ Crash

ToolLoopSpec == ToolLoopInit /\ [][ToolLoopNext]_toolVars

----------------------------------------------------------------------------
(* Properties *)

ToolLoopTypeOK ==
  /\ saved \in ToolLoopCheckpoint
  /\ outcome \in {"incomplete", "completed", "failed"}
  /\ run \in Attempt
  /\ invoked \in [ToolCalls -> Nat]
  /\ durable \in SUBSET ToolCalls
  /\ toolCrashes \in 0 .. MaxToolCrashes

\* A non-idempotent tool call is handed to its adapter at most once, however
\* turns, crashes, recoveries and errors follow each other: pre-tool is durable
\* before the adapter runs and refused afterwards, and no later turn reuses the
\* identifier (TOOL_UNSAFE_RECOVERY, assertUniqueProposedIds).
EffectAtMostOnce == \A c \in NonIdempotent : invoked[c] <= 1

\* Once a checkpoint has held the result of a call, its tool is not run again, in
\* whatever turn, attempt or recovery: each later checkpoint keeps the results of
\* its turn, and the turns after it take other identifiers.  And no tool is started
\* for an execution that the Runtime has given up on, although the aborted attempt
\* runs on.  (A tool that is idempotent may run again when the host stops, or its
\* result is refused, before post-tool is stored.)
NothingRerun ==
  [][\A c \in ToolCalls :
       invoked'[c] # invoked[c] => c \notin durable /\ outcome = "incomplete"]_toolVars

\* The loop across crashes and recoveries (local-reference-tool-loop.ts).
ToolLoopInv == ToolLoopTypeOK /\ EffectAtMostOnce

=============================================================================
