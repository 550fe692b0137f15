SPECIFICATION Spec
CONSTANTS
  ToolCalls = {"a", "b", "c"}
  NonIdempotent = {"a", "c"}
  Proposals <- SomeProposals
  MaxTurns = 2
  MaxCalls = 3
  Implementations = 2
  MaxToolCrashes = 2
  MaxExecutions = 3
  AgentTools = {"a", "b", "c"}
  ApprovalTools = {"a"}
  IdempotentTools = {"b"}
  AgentProposals <- SomeAgentProposals
  MaxAgentTurns = 2
  MaxAgentCalls = 2
  MaxAgentFaults = 1
  s = s
  t = t
  u = u
  Steps = {s, t, u}
  DependsOn <- Diamond
  Gated = {u}
  MaxDrives = 3
  Overlapping = TRUE
  MaxWorkflowFaults = 1
  Members = {"x", "y", "z"}
  TeamOrder <- Everyone
  Supervisor = "z"
  TeamConfigs <- SomeTeams
  MaxTeamRuns = 2
  MaxIterations = 2
SYMMETRY SidesAlike
INVARIANTS ToolLoopInv WorkflowInv TeamInv
PROPERTIES NothingRerun AgentCorrect
CHECK_DEADLOCK FALSE
