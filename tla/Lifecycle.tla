------------------------------ MODULE Lifecycle ------------------------------
(***************************************************************************)
(* The execution lifecycle of @agentprodready/runtime: the states, the     *)
(* legal transitions, the checkpoint record and the pure functions on it.  *)
(* No state of its own; RuntimeExecution and its proofs are built on it.   *)
(***************************************************************************)
EXTENDS Integers, Sequences, SequencesExt

ExecutionState ==
  {"created", "initializing", "planning", "executing", "waiting", "recovering",
   "cancelling", "completing", "completed", "failed", "cancelled"}

ExecutionStage ==
  {"accepted", "post-planning", "post-workflow", "pre-invoke", "post-invoke",
   "terminal"}

transitions ==
  [created      |-> {"initializing"},
   initializing |-> {"planning", "failed", "cancelling"},
   planning     |-> {"executing", "recovering", "failed", "cancelling"},
   executing    |-> {"completing", "recovering", "failed", "cancelling"},
   waiting      |-> {"executing", "cancelling", "failed"},
   recovering   |-> {"planning", "executing", "failed", "cancelling"},
   cancelling   |-> {"cancelled"},
   completing   |-> {"completed", "failed", "cancelling"},
   completed    |-> {},
   failed       |-> {},
   cancelled    |-> {}]

isTerminalState(s) == s \in {"completed", "failed", "cancelled"}

-----------------------------------------------------------------------------
(* The checkpoint. The artifacts (plan, workflow work) count only as       *)
(* present or absent; a capability result is the number of the invocation  *)
(* that produced it. "snapshot" says whether the policy read at admission  *)
(* has replaced the default one. rev is the store's concurrency revision:  *)
(* 0 for a checkpoint that was never stored.                               *)

NoResult == 0

ExecutionCheckpoint ==
  [rev : Nat, state : ExecutionState, stage : ExecutionStage,
   history : Seq(ExecutionState), plan : BOOLEAN, work : BOOLEAN,
   result : Nat, cancelled : BOOLEAN, snapshot : BOOLEAN, terminal : BOOLEAN]

seedCheckpoint ==
  [rev |-> 0, state |-> "created", stage |-> "accepted",
   history |-> <<"created">>, plan |-> FALSE, work |-> FALSE,
   result |-> NoResult, cancelled |-> FALSE, snapshot |-> FALSE,
   terminal |-> FALSE]

hasValidCapabilityResult(c) == c.result # NoResult

isResumeSafeStage(stage) ==
  stage \in {"accepted", "post-planning", "post-workflow", "post-invoke"}

(* Seeded bug: the terminal flag is left as it was.                        *)
Normalized_KeepsFlag(c) ==
  [c EXCEPT !.stage = IF isTerminalState(c.state) THEN "terminal" ELSE @]

(* What #upsert and #transitionAndCheckpoint make of a checkpoint before   *)
(* they store it: terminal flag and stage follow the state.                *)
Normalized(c) ==
  [c EXCEPT !.terminal = isTerminalState(c.state),
            !.stage = IF isTerminalState(c.state) THEN "terminal" ELSE @]

(* c carrying the state and history of a state manager. *)
Stamped(c, history) ==
  [c EXCEPT !.state = Last(history), !.history = history]

=============================================================================
