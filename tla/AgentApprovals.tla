----------------------------- MODULE AgentApprovals -----------------------------
(***************************************************************************)
(* The embedded agent of the agent framework (packages/agent-framework/    *)
(* src/simple): invoke() runs a tool loop (embedded-tool-loop.ts), a tool   *)
(* that requires approval parks its call in the file store of               *)
(* embedded-hitl.ts and ends the execution, and after approve() a resume()  *)
(* starts a new execution that picks the parked call up from a field shared *)
(* by the whole agent (create-agent.ts, embedded-platform.ts).              *)
(* Executions run concurrently; a crash keeps the files only.               *)
(***************************************************************************)
EXTENDS Naturals, FiniteSets, Sequences

CONSTANTS
  MaxExecutions,      \* bound: calls of invoke() and resume()
  AgentTools,         \* tool call identifiers the model may propose
  ApprovalTools,      \* those whose approvalRequirement is required
  IdempotentTools,    \* those whose tool is idempotent
  AgentProposals,     \* what one answer may propose: sequences of AgentTools
  MaxAgentTurns,      \* EMBEDDED_MAX_TOOL_TURNS
  MaxAgentCalls,      \* EMBEDDED_MAX_TOOL_CALLS
  MaxAgentFaults     \* bound: crashes and timeouts

ASSUME AgentAssumption ==
  /\ MaxExecutions \in Nat /\ MaxAgentFaults \in Nat
  /\ ApprovalTools \cup IdempotentTools \subseteq AgentTools
  /\ AgentProposals \subseteq Seq(AgentTools) \ {<<>>}

VARIABLES
  loop,           \* [Executions -> the loop of that execution]
  approval,       \* [Executions -> the PendingApprovalRecord it parked]
  deciding,       \* approve() and reject() that have read 'awaiting'
  resumeApproval, \* loopState.resumeApproval: whose approval, or Nobody
  keys,           \* the file ledger: idempotency keys with a result
  effects,        \* history: [Keys -> calls of SimpleTool.execute]
  granted,        \* history: executions whose approval approve() has granted
  agentFaults

agentVars == <<loop, approval, deciding, resumeApproval, keys, effects, granted,
               agentFaults>>
notLoop == <<approval, deciding, resumeApproval, keys, effects, granted, agentFaults>>

Executions == 1 .. MaxExecutions
Nobody == 0
Keys == Executions \X AgentTools      \* `${executionId}:${call.id}`

\* source: whose approval resume() was called for; adopted: whose approval the
\* loop found when it began; replays: it still has to run that approved call;
\* done: calls of the turn that are done; answered: the caller has its answer
EmbeddedLoop ==
  [at : {"unused", "start", "ask", "call", "index", "running", "ran", "ended"},
   source : Executions \cup {Nobody}, adopted : Executions \cup {Nobody},
   replays : BOOLEAN, turn : Nat, proposed : Seq(AgentTools), done : Nat,
   total : Nat, seen : SUBSET AgentTools, answered : BOOLEAN]

Unused == [at |-> "unused", source |-> Nobody, adopted |-> Nobody, replays |-> FALSE,
           turn |-> 0, proposed |-> <<>>, done |-> 0, total |-> 0, seen |-> {},
           answered |-> FALSE]

\* what the record holds of the loop is what the loop had when it ended;
\* torn: a crash left a file that does not parse, which reads as no file
PendingApprovalRecord ==
  [status : {"none", "awaiting", "approved", "rejected", "torn"}, indexed : BOOLEAN]

AgentInit ==
  /\ loop = [e \in Executions |-> Unused]
  /\ approval = [e \in Executions |-> [status |-> "none", indexed |-> FALSE]]
  /\ deciding = {}
  /\ resumeApproval = Nobody
  /\ keys = {}
  /\ effects = [k \in Keys |-> 0]
  /\ granted = {}
  /\ agentFaults = 0

----------------------------------------------------------------------------
(* The calls of the agent *)

Fresh(e) ==
  /\ loop[e].at = "unused"
  /\ \A d \in 1 .. e - 1 : loop[d].at # "unused"
Goes(e, place) == [loop EXCEPT ![e].at = place]

\* the loop is over: nothing reads its local variables any more
Ends(e) == [loop EXCEPT ![e] = [Unused EXCEPT !.at = "ended", !.source = loop[e].source,
              !.adopted = loop[e].adopted, !.answered = loop[e].answered]]

\* invoke() and stream(): the loop is the same
InvokeAgent(e) ==
  /\ Fresh(e)
  /\ loop' = Goes(e, "start")
  /\ UNCHANGED notLoop

requireApproved(s) == approval[s].status = "approved" /\ approval[s].indexed

ResumeAgent(e, s) ==
  /\ Fresh(e)
  /\ requireApproved(s)
  /\ loop' = [loop EXCEPT ![e].at = "start", ![e].source = s]
  /\ resumeApproval' = s
  /\ UNCHANGED <<approval, deciding, keys, effects, granted, agentFaults>>

\* a call parked by a resumed loop carries an empty objective, and an empty
\* objective is refused as AGENT_AUTHORIZATION_DENIED
EmptyObjective(e) == loop[e].source # Nobody /\ loop[loop[e].source].adopted # Nobody

\* runEmbeddedToolLoop begins: it picks up whatever approval is being resumed
Enter(e) ==
  /\ loop[e].at = "start" /\ ~EmptyObjective(e)
  /\ LET a == resumeApproval
     IN loop' = IF a = Nobody THEN Goes(e, "ask")
                ELSE [loop EXCEPT ![e].at = "call", ![e].adopted = a,
                        ![e].replays = TRUE, ![e].turn = loop[a].turn,
                        ![e].proposed = loop[a].proposed, ![e].done = loop[a].done]
  /\ UNCHANGED notLoop

\* a provider error, a denied authorization, a tool error, too many turns or
\* calls, a duplicate identifier, an aborted signal, an empty objective
LoopFails(e) ==
  /\ loop[e].at \notin {"unused", "index", "ended"}
  /\ loop' = Ends(e)
  /\ UNCHANGED notLoop

\* Seeded bug: no finally around the resumed invocation.
ResumeEnds_KeepsSlot(e) ==
  /\ loop[e].at = "ended" /\ loop[e].source # Nobody /\ ~loop[e].answered
  /\ loop' = [loop EXCEPT ![e].answered = TRUE]
  /\ UNCHANGED notLoop

\* the finally of resume() resets the shared field
ResumeEnds(e) ==
  /\ loop[e].at = "ended" /\ loop[e].source # Nobody /\ ~loop[e].answered
  /\ loop' = [loop EXCEPT ![e].answered = TRUE]
  /\ resumeApproval' = Nobody
  /\ UNCHANGED <<approval, deciding, keys, effects, granted, agentFaults>>

\* the Runtime's timeout aborts the loop, which runs on, and the caller goes
TimesOut(e) ==
  /\ loop[e].at \notin {"unused", "ended"} /\ ~loop[e].answered
  /\ agentFaults < MaxAgentFaults
  /\ agentFaults' = agentFaults + 1
  /\ loop' = [loop EXCEPT ![e].answered = TRUE]
  /\ resumeApproval' = IF loop[e].source # Nobody THEN Nobody ELSE resumeApproval
  /\ UNCHANGED <<approval, deciding, keys, effects, granted>>

----------------------------------------------------------------------------
(* The turns of the loop *)

Aborted(e) == loop[e].answered
AsksModel(e) == loop[e].at = "ask" /\ loop[e].turn < MaxAgentTurns /\ ~Aborted(e)

ModelAnswers(e) ==
  /\ AsksModel(e)
  /\ loop' = Ends(e)
  /\ UNCHANGED notLoop

\* a resumed loop does not count its calls against the limit
Admissible(e, proposed) ==
  /\ \A i, j \in DOMAIN proposed : proposed[i] = proposed[j] => i = j
  /\ \A i \in DOMAIN proposed : proposed[i] \notin loop[e].seen
  /\ loop[e].adopted = Nobody => loop[e].total + Len(proposed) <= MaxAgentCalls

ModelProposes(e, proposed) ==
  /\ AsksModel(e)
  /\ Admissible(e, proposed)
  /\ loop' = [loop EXCEPT ![e].at = "call", ![e].proposed = proposed, ![e].done = 0]
  /\ UNCHANGED notLoop

\* the call the loop is at, and its idempotency key
Tool(e) == loop[e].proposed[loop[e].done + 1]
Key(e) == <<IF loop[e].replays THEN loop[e].adopted ELSE e, Tool(e)>>

\* park: the record and then the index of the execution are written
Park(e) ==
  /\ loop[e].at = "call" /\ ~loop[e].replays
  /\ Tool(e) \in ApprovalTools
  /\ approval' = [approval EXCEPT ![e].status = "awaiting"]
  /\ loop' = Goes(e, "index")
  /\ UNCHANGED <<deciding, resumeApproval, keys, effects, granted, agentFaults>>

Index(e) ==
  /\ loop[e].at = "index"
  /\ approval' = [approval EXCEPT ![e].indexed = TRUE]
  /\ loop' = [loop EXCEPT ![e].at = "ended", ![e].total = 0, ![e].seen = {}]
  /\ UNCHANGED <<deciding, resumeApproval, keys, effects, granted, agentFaults>>

\* a call that is replayed has been approved already
Admitted(e) ==
  /\ loop[e].at = "call" /\ ~Aborted(e)
  /\ loop[e].replays \/ Tool(e) \notin ApprovalTools
InLedger(e) == Tool(e) \in IdempotentTools /\ Key(e) \in keys

AnswerFromLedger(e) ==
  /\ Admitted(e) /\ InLedger(e)
  /\ loop' = Goes(e, "ran")
  /\ UNCHANGED notLoop

ExecuteTool(e) ==
  /\ Admitted(e) /\ ~InLedger(e)
  /\ effects' = [effects EXCEPT ![Key(e)] = @ + 1]
  /\ loop' = Goes(e, "running")
  /\ UNCHANGED <<approval, deciding, resumeApproval, keys, granted, agentFaults>>

ToolAnswers(e) ==
  /\ loop[e].at = "running"
  /\ keys' = keys \cup {k \in {Key(e)} : Tool(e) \in IdempotentTools}
  /\ loop' = Goes(e, "ran")
  /\ UNCHANGED <<approval, deciding, resumeApproval, effects, granted, agentFaults>>

\* buildToolContinuationMessages rejects a turn with a call that has no result,
\* and a replay has the result of the approved call only
Continuable(proposed) == Len(proposed) = 1

Replayed(e) ==
  /\ loop[e].at = "ran" /\ loop[e].replays
  /\ loop' = IF ~Continuable(loop[e].proposed) THEN Ends(e)
             ELSE [loop EXCEPT ![e].at = "ask", ![e].replays = FALSE,
                     ![e].turn = @ + 1, ![e].total = 1, ![e].seen = {Tool(e)}]
  /\ UNCHANGED notLoop

\* the result joins the turn; after the last call the model is asked again
Continue(e) ==
  LET last == loop[e].done + 1 = Len(loop[e].proposed)
  IN
  /\ loop[e].at = "ran" /\ ~loop[e].replays
  /\ loop' = [loop EXCEPT ![e].at = IF last THEN "ask" ELSE "call",
                ![e].turn = IF last THEN @ + 1 ELSE @,
                ![e].done = @ + 1, ![e].total = @ + 1,
                ![e].seen = @ \cup {Tool(e)}]
  /\ UNCHANGED notLoop

----------------------------------------------------------------------------
(* approve() and reject() read the record, and write it after an await *)

Decide(e, outcome) ==
  /\ approval[e].status = "awaiting"
  /\ deciding' = deciding \cup {[of |-> e, outcome |-> outcome]}
  /\ UNCHANGED <<loop, approval, resumeApproval, keys, effects, granted, agentFaults>>

Decided(d) ==
  /\ approval' = [approval EXCEPT ![d.of] = [status |-> d.outcome, indexed |-> TRUE]]
  /\ deciding' = deciding \ {d}
  /\ granted' = granted \cup {e \in {d.of} : d.outcome = "approved"}
  /\ UNCHANGED <<loop, resumeApproval, keys, effects, agentFaults>>

\* the files stay; the one that a decision is writing may be torn
AgentCrash(torn) ==
  /\ agentFaults < MaxAgentFaults
  /\ agentFaults' = agentFaults + 1
  /\ loop' = [e \in Executions |-> IF loop[e].at = "unused" THEN loop[e]
                ELSE IF loop[e].at \in {"index", "ended"}
                THEN [loop[e] EXCEPT !.at = "ended", !.answered = TRUE]
                ELSE [Ends(e)[e] EXCEPT !.answered = TRUE]]
  /\ approval' = [e \in Executions |-> IF e \in torn
                    THEN [approval[e] EXCEPT !.status = "torn"] ELSE approval[e]]
  /\ deciding' = {}
  /\ resumeApproval' = Nobody
  /\ UNCHANGED <<keys, effects, granted>>

AgentNext ==
  \/ \E e \in Executions :
       \/ InvokeAgent(e)
       \/ \E s \in Executions : ResumeAgent(e, s)
       \/ Enter(e) \/ LoopFails(e) \/ ResumeEnds(e) \/ TimesOut(e)
       \/ ModelAnswers(e)
       \/ \E proposed \in AgentProposals : ModelProposes(e, proposed)
       \/ Park(e) \/ Index(e) \/ AnswerFromLedger(e)
       \/ ExecuteTool(e) \/ ToolAnswers(e) \/ Replayed(e) \/ Continue(e)
       \/ \E outcome \in {"approved", "rejected"} : Decide(e, outcome)
  \/ \E d \in deciding : Decided(d)
  \/ \E torn \in SUBSET {d.of : d \in deciding} : AgentCrash(torn)

AgentSpec == AgentInit /\ [][AgentNext]_agentVars

----------------------------------------------------------------------------
(* Properties *)

AgentTypeOK ==
  /\ loop \in [Executions -> EmbeddedLoop]
  /\ approval \in [Executions -> PendingApprovalRecord]
  /\ deciding \subseteq [of : Executions, outcome : {"approved", "rejected"}]
  /\ resumeApproval \in Executions \cup {Nobody}
  /\ keys \subseteq Keys
  /\ effects \in [Keys -> Nat]
  /\ granted \subseteq Executions
  /\ agentFaults \in 0 .. MaxAgentFaults

\* A tool that requires approval runs for a call only if an operator has
\* granted that very call, whichever execution picks it up, and a tool that
\* does not runs once per call of its execution (requireApproved, Amendment D).
EffectsApproved ==
  \A e \in Executions, c \in AgentTools :
    IF c \in ApprovalTools THEN effects[<<e, c>>] > 0 => e \in granted
    ELSE effects[<<e, c>>] <= 1

\* A loop picks up an approved call only while a resume() of that call is
\* under way: the shared field never outlives the resume() that has set it,
\* although concurrent resumes reset each other's (the finally of resume()).
AdoptedWhileResumed ==
  [][\A e \in Executions :
       loop'[e].adopted # loop[e].adopted =>
         \E r \in Executions : loop[r].source = loop'[e].adopted /\ ~loop[r].answered]_agentVars

\* A resumed execution does not ask the model for the turn whose call was
\* approved (04-runtime-tool-approval-wait-amendment.md:60).  Refuted: another
\* execution may pick the call up, or its resume() end first.
ResumeContinues ==
  \A e \in Executions :
    loop[e].source # Nobody /\ loop[e].at = "ask" => loop[e].adopted = loop[e].source

\* No tool runs unapproved, and an approval serves only the resume() it was given to
\* (create-agent.ts 78-130, embedded-tool-loop.ts 392-470).
AgentCorrect == [](AgentTypeOK /\ EffectsApproved) /\ AdoptedWhileResumed

=============================================================================
