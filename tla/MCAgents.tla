-------------------------------- MODULE MCAgents --------------------------------
(* The tool loops, the workflows and the teams of agents for TLC.  They share   *)
(* nothing: a behaviour runs one of them.                                       *)
EXTENDS ToolLoop, AgentApprovals, Workflow, Team, TLC

VARIABLE runner

Init ==
  /\ runner \in {"tool loop", "agent", "workflow", "team"}
  /\ ToolLoopInit /\ AgentInit /\ WorkflowInit
  /\ TeamInit /\ (runner # "team" => teamConfig = CHOOSE c \in TeamConfigs : TRUE)

Next ==
  \/ /\ runner = "tool loop" /\ ToolLoopNext
     /\ UNCHANGED <<runner, agentVars, workflowVars, teamVars>>
  \/ /\ runner = "agent" /\ AgentNext
     /\ UNCHANGED <<runner, toolVars, workflowVars, teamVars>>
  \/ /\ runner = "workflow" /\ WorkflowNext
     /\ UNCHANGED <<runner, toolVars, agentVars, teamVars>>
  \/ /\ runner = "team" /\ TeamNext
     /\ UNCHANGED <<runner, toolVars, agentVars, workflowVars>>

vars == <<runner, toolVars, agentVars, workflowVars, teamVars>>

Spec == Init /\ [][Next]_vars

----------------------------------------------------------------------------

SomeProposals == {<<"a">>, <<"b">>, <<"a", "b">>, <<"b", "c">>, <<"a", "a">>}
SomeAgentProposals == {<<"b", "a">>, <<"c">>}

\* two steps side by side, which nothing tells apart, and a gated one that needs both
CONSTANTS s, t, u
Diamond == s :> {} @@ t :> {} @@ u :> {s, t}
SidesAlike == Permutations({s, t})

Everyone == <<"x", "y", "z">>
Config(strategy, policy, decides) ==
  [strategy |-> strategy, policy |-> policy, decides |-> decides]
SomeTeams ==
  {Config("sequential", "fail-fast", "supervisor"),
   Config("parallel", "fail-fast", "supervisor"),
   Config("parallel", "best-effort", "supervisor"),
   Config("consensus", "fail-fast", "supervisor"),
   Config("debate-review", "fail-fast", "supervisor"),
   Config("supervisor", "fail-fast", "supervisor"),
   Config("supervisor", "continue", "callback"),
   Config("dynamic-assignment", "fail-fast", "assignment")}

=============================================================================
