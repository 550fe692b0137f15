---------------------------------- MODULE Team ----------------------------------
(***************************************************************************)
(* A team of agents (packages/multi-agent/src/simple): createTeam() with    *)
(* its orchestration strategies, handoffs between members, cancellation,    *)
(* and the record the orchestrator keeps of each run.  A member answers at   *)
(* any time; a run that ended leaves the members it called running.         *)
(***************************************************************************)
EXTENDS Naturals, FiniteSets, Sequences

CONSTANTS
  Members,
  TeamOrder,       \* config.order
  Supervisor,      \* config.supervisor: it supervises, or reviews the debate
  TeamConfigs,     \* records [strategy, policy, decides]: the teams considered
  MaxTeamRuns,     \* bound: calls of run()
  MaxIterations

ASSUME TeamAssumption ==
  /\ TeamOrder \in Seq(Members) /\ Len(TeamOrder) >= 2
  /\ Supervisor \in Members
  /\ MaxTeamRuns \in Nat /\ MaxIterations \in Nat \ {0}

VARIABLES
  teamConfig, teamStatus,
  teamAborted,     \* runs whose linked signal is aborted
  teamRuns

teamVars == <<teamConfig, teamStatus, teamAborted, teamRuns>>

Runs == 1 .. MaxTeamRuns
Ordered == {TeamOrder[i] : i \in 1 .. Len(TeamOrder)}
Nowhere == "nowhere"          \* a handoff to somebody who is not in the team

Stages == {"turn", "fanout", "decide", "delegate", "tasks", "handoff", "review",
           "reviewHandoff"}
TeamStatuses == {"idle", "running", "completed", "failed", "cancelled", "partial"}

\* stage: what the members are called for; busy: those who have not answered;
\* handoffs: targets still to be called; outputs: agentOutputs; errors: some
\* member of the stage failed; failures: history, the stages with a failure;
\* interrupted: history, cancelled while a member was busy; record: what the
\* orchestrator says of the run
TeamRun ==
  [stage : Stages \cup {"unused", "next", "ended"},
   busy : SUBSET Members, handoffs : SUBSET (Members \cup {Nowhere}),
   completed : SUBSET Members, outputs : SUBSET Members, errors : BOOLEAN,
   iteration : 1 .. MaxIterations + 1, failures : SUBSET Stages, interrupted : BOOLEAN,
   result : TeamStatuses, record : TeamStatuses \cup {"none"}]

NoTeamRun ==
  [stage |-> "unused", busy |-> {}, handoffs |-> {}, completed |-> {}, outputs |-> {},
   errors |-> FALSE, iteration |-> 1, failures |-> {}, interrupted |-> FALSE,
   result |-> "idle", record |-> "none"]

TeamInit ==
  /\ teamConfig \in TeamConfigs
  /\ teamStatus = "idle"
  /\ teamAborted = {}
  /\ teamRuns = [r \in Runs |-> NoTeamRun]

----------------------------------------------------------------------------
(* How a run goes on and ends *)

FanOut == teamConfig.strategy \in {"parallel", "debate-review", "consensus"}
Supervised == teamConfig.strategy \in {"supervisor", "dynamic-assignment"}
\* consensus turns fail-fast into continue
FailFast == teamConfig.policy = "fail-fast" /\ teamConfig.strategy # "consensus"

Continues(r, run) == teamRuns' = [teamRuns EXCEPT ![r] = run] /\ UNCHANGED teamStatus
Calls(r, stage, who) ==
  Continues(r, [teamRuns[r] EXCEPT !.stage = stage, !.busy = who])

\* nothing reads the local variables of a run that ended; the members it called
\* run on.  The orchestrator reports a partial result as completed
Returns(r, run, status) ==
  /\ teamStatus' = status
  /\ teamRuns' = [teamRuns EXCEPT ![r] =
       [NoTeamRun EXCEPT !.stage = "ended", !.busy = run.busy, !.failures = run.failures,
                   !.interrupted = run.interrupted, !.result = status,
                   !.record = IF status = "partial" THEN "completed" ELSE status]]

\* the catch of run(); the parallel strategy under fail-fast catches first
Throws(r, run) ==
  Returns(r, run, IF r \notin teamAborted \/ (FanOut /\ FailFast /\ run.stage \notin
                       {"review", "reviewHandoff"}) THEN "failed" ELSE "cancelled")

RunTeam(r) ==
  /\ teamRuns[r].stage = "unused"
  /\ \A e \in Runs : e < r => teamRuns[e].stage # "unused"
  /\ teamStatus # "running"
  /\ teamStatus' = "running"
  /\ teamRuns' = [teamRuns EXCEPT ![r].stage = "next", ![r].record = "running"]
  /\ UNCHANGED <<teamConfig, teamAborted>>

\* cancel() of the team, directly or by the orchestrator, whose record says
\* so at once; its controller is never replaced, so later runs are aborted too
CancelTeam(r) ==
  /\ teamRuns[r].stage \notin {"unused", "ended"}
  /\ teamAborted' = Runs
  /\ teamStatus' = IF teamStatus = "running" THEN "cancelled" ELSE teamStatus
  /\ teamRuns' = [e \in Runs |->
       [teamRuns[e] EXCEPT !.interrupted = @ \/ teamRuns[e].busy # {},
                           !.record = IF e = r THEN "cancelled" ELSE @]]
  /\ UNCHANGED teamConfig

\* the caller of run() aborts the signal it passed
AbortRun(r) ==
  /\ teamRuns[r].stage \notin {"unused", "ended"} /\ r \notin teamAborted
  /\ teamAborted' = teamAborted \cup {r}
  /\ teamRuns' = [teamRuns EXCEPT ![r].interrupted = @ \/ teamRuns[r].busy # {}]
  /\ UNCHANGED <<teamConfig, teamStatus>>

----------------------------------------------------------------------------
(* The strategies: what is called next *)

TurnsLeft(r) == {i \in DOMAIN TeamOrder : TeamOrder[i] \notin teamRuns[r].completed}
NextTurn(r) == TeamOrder[CHOOSE i \in TurnsLeft(r) : \A j \in TurnsLeft(r) : i <= j]

TakesTurn(r) ==
  /\ teamConfig.strategy = "sequential" /\ teamRuns[r].stage = "next"
  /\ IF TurnsLeft(r) = {} THEN Returns(r, teamRuns[r], "completed")
     ELSE IF r \in teamAborted THEN Throws(r, teamRuns[r])
     ELSE Calls(r, "turn", {NextTurn(r)})
  /\ UNCHANGED <<teamConfig, teamAborted>>

CallsEveryone(r) ==
  /\ FanOut /\ teamRuns[r].stage = "next"
  /\ IF r \in teamAborted THEN Throws(r, teamRuns[r])
     ELSE Calls(r, "fanout", IF teamConfig.strategy = "debate-review"
                                /\ Ordered # {Supervisor} THEN Ordered \ {Supervisor}
                             ELSE Ordered)
  /\ UNCHANGED <<teamConfig, teamAborted>>

\* supervisorDecide, the assignment of what has no output yet, or the supervisor
Decision(r, stage, who) ==
  LET pending == (Ordered \ {Supervisor}) \ teamRuns[r].outputs
  IN IF teamConfig.decides # "assignment" THEN who # {} /\ (stage = "delegate" => Cardinality(who) = 1)
     ELSE who = pending /\ (stage = "delegate" <=> Cardinality(who) = 1)
\* a callback that finishes is not asked whether the run is cancelled
Finishes(r) ==
  /\ teamConfig.decides = "assignment" => (Ordered \ {Supervisor}) \subseteq teamRuns[r].outputs
  /\ Returns(r, teamRuns[r], "completed")
Delegates(r) ==
  \E stage \in {"delegate", "tasks"}, who \in SUBSET Members \ {{}} :
    /\ Decision(r, stage, who)
    /\ IF r \in teamAborted THEN Throws(r, teamRuns[r]) ELSE Calls(r, stage, who)

Iterates(r) ==
  /\ Supervised /\ teamRuns[r].stage = "next"
  /\ \/ teamRuns[r].iteration > MaxIterations /\ Returns(r, teamRuns[r], "failed")
     \/ /\ teamRuns[r].iteration <= MaxIterations
        /\ IF r \in teamAborted THEN Throws(r, teamRuns[r])
           ELSE IF teamConfig.decides = "supervisor" THEN Calls(r, "decide", {Supervisor})
           ELSE Calls(r, "decide", {})
  /\ UNCHANGED <<teamConfig, teamAborted>>

\* the decision is there: only a supervisor of the team was asked by invokeAgent
SupervisorDecided(r) ==
  /\ teamRuns[r].stage = "decide" /\ teamRuns[r].busy = {}
  /\ Finishes(r) \/ Delegates(r) \/ (teamConfig.decides # "assignment" /\ Throws(r, teamRuns[r]))
  /\ UNCHANGED <<teamConfig, teamAborted>>

----------------------------------------------------------------------------
(* invokeAgent and fulfillHandoff *)

\* a supervisor and the tasks of a supervisor hand nothing off, nor does a
\* member who was handed the task
HandsOff(r) == teamRuns[r].stage \in {"turn", "fanout", "delegate", "review"}

MemberAnswers(r, m, to) ==
  LET run == [teamRuns[r] EXCEPT !.busy = @ \ {m}, !.completed = @ \cup {m},
                !.outputs = IF teamRuns[r].stage = "decide" THEN @ ELSE @ \cup {m},
                !.handoffs = IF HandsOff(r) THEN @ \cup to ELSE @]
  IN /\ m \in teamRuns[r].busy /\ teamRuns[r].stage # "ended"
     /\ IF r \in teamAborted THEN Throws(r, teamRuns[r]) ELSE Continues(r, run)
     /\ UNCHANGED <<teamConfig, teamAborted>>

\* an error is no cancellation, whatever the signal says
MemberFails(r, m) ==
  LET run == [teamRuns[r] EXCEPT !.busy = @ \ {m}, !.completed = @ \cup {m}, !.errors = TRUE,
                !.failures = @ \cup {teamRuns[r].stage}]
  IN /\ m \in teamRuns[r].busy /\ teamRuns[r].stage # "ended"
     /\ \/ run.stage = "decide" /\ Throws(r, run)
        \/ run.stage \in {"turn", "delegate", "review"} /\ Returns(r, run, "failed")
        \/ run.stage \in {"fanout", "handoff"} /\ (FailFast \/ ~FanOut) /\ Returns(r, run, "failed")
        \/ /\ run.stage \in {"tasks", "reviewHandoff"} \/ (FanOut /\ ~FailFast)
           /\ run.stage \notin {"turn", "delegate", "review"}
           /\ Continues(r, run)
     /\ UNCHANGED <<teamConfig, teamAborted>>

\* the member of an ended run answers
Straggles(r, m) ==
  /\ teamRuns[r].stage = "ended" /\ m \in teamRuns[r].busy
  /\ teamRuns' = [teamRuns EXCEPT ![r].busy = @ \ {m}]
  /\ UNCHANGED <<teamConfig, teamStatus, teamAborted>>

HandsOver(r) ==
  LET run == teamRuns[r]
  IN \E to \in run.handoffs :
       IF to = Nowhere \/ r \in teamAborted THEN Throws(r, run)
       ELSE Continues(r, [run EXCEPT !.busy = {to}, !.handoffs = @ \ {to},
              !.stage = IF run.stage = "review" THEN "reviewHandoff" ELSE "handoff"])

\* what the parallel strategy reports; its callers look at it
ParallelStatus(run) ==
  IF ~run.errors THEN "completed"
  ELSE IF teamConfig.policy = "best-effort" /\ run.outputs # {} THEN "partial" ELSE "failed"

\* a vote: a majority, or a tie
Votes(run) ==
  IF run.outputs = {} THEN {"failed"}
  ELSE IF Cardinality(run.outputs) = 1 THEN {"completed"} ELSE {"completed", "partial"}

FanOutSettles(r) ==
  LET run == teamRuns[r]
  IN \/ teamConfig.strategy = "parallel" /\ Returns(r, run, ParallelStatus(run))
     \/ teamConfig.strategy = "consensus" /\ \E v \in Votes(run) : Returns(r, run, v)
     \/ /\ teamConfig.strategy = "debate-review"
        /\ IF r \in teamAborted THEN Throws(r, [run EXCEPT !.stage = "review"])
           ELSE Calls(r, "review", {Supervisor})

\* Seeded bug: the failures of a supervisor's tasks are skipped under every policy.
TasksSettle_Skipped(r) ==
  Continues(r, [teamRuns[r] EXCEPT !.stage = "next", !.errors = FALSE, !.iteration = @ + 1])

TasksSettle(r) ==
  IF teamRuns[r].errors /\ FailFast THEN Returns(r, teamRuns[r], "failed")
  ELSE Continues(r, [teamRuns[r] EXCEPT !.stage = "next", !.errors = FALSE, !.iteration = @ + 1])

Settles(r) ==
  LET run == teamRuns[r]
  IN /\ run.stage \notin {"unused", "next", "decide", "ended"} /\ run.busy = {}
     /\ \/ run.handoffs # {} /\ HandsOver(r)
        \/ /\ run.handoffs = {}
           /\ \/ FanOut /\ run.stage \in {"fanout", "handoff"} /\ FanOutSettles(r)
              \/ run.stage \in {"review", "reviewHandoff"} /\ Returns(r, run, "completed")
              \/ teamConfig.strategy = "sequential" /\ Continues(r, [run EXCEPT !.stage = "next"])
              \/ Supervised /\ TasksSettle(r)
     /\ UNCHANGED <<teamConfig, teamAborted>>

TeamNext ==
  \E r \in Runs :
    \/ RunTeam(r) \/ CancelTeam(r) \/ AbortRun(r)
    \/ TakesTurn(r) \/ CallsEveryone(r) \/ Iterates(r) \/ SupervisorDecided(r) \/ Settles(r)
    \/ \E m \in Members :
         \/ MemberFails(r, m) \/ Straggles(r, m)
         \/ \E to \in {{}} \cup {{t} : t \in Members \cup {Nowhere}} : MemberAnswers(r, m, to)

TeamSpec == TeamInit /\ [][TeamNext]_teamVars

----------------------------------------------------------------------------
(* Properties *)

TeamTypeOK ==
  /\ teamConfig \in TeamConfigs /\ teamStatus \in TeamStatuses
  /\ teamAborted \subseteq Runs
  /\ teamRuns \in [Runs -> TeamRun]

(* A run under fail-fast does not complete when a member failed, at whatever    *)
(* stage and after whatever handoffs; the one exception is a member to whom the *)
(* reviewer of a debate handed the answer.                                      *)
FailureReported ==
  \A r \in Runs :
    teamRuns[r].result \in {"completed", "partial"} /\ FailFast
      => teamRuns[r].failures \subseteq {"reviewHandoff"}

(* A run that was cancelled while a member was busy, and whose members do not   *)
(* fail, does not complete: the late answer is refused, whichever member of     *)
(* whichever strategy gives it.                                                 *)
CancelReported ==
  \A r \in Runs :
    teamRuns[r].interrupted /\ teamRuns[r].failures = {}
      => teamRuns[r].result \notin {"completed", "partial"}

(* What a team reports of failed and of cancelled members (create-team.ts, strategies/). *)
TeamInv == TeamTypeOK /\ FailureReported /\ CancelReported

=============================================================================
