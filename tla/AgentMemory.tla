------------------------------- MODULE AgentMemory -------------------------------
(***************************************************************************)
(* The memory of a simple agent (EmbeddedMemorySession over MemoryEngine).    *)
(* Every createAgent makes an agent with an id of its own and a session that    *)
(* counts its turns; a run recalls earlier turns, calls the model, then           *)
(* captures the turn and takes it through the lifecycle, awaiting the store at      *)
(* each step.  The store outlives the process when the memory is durable.            *)
(***************************************************************************)
EXTENDS Naturals, Sequences, SequencesExt, FiniteSets

CONSTANTS
  Runs,             \* names of the runs of one process
  Durable,          \* fileMemory or postgresMemory, or else inMemory
  MaximumResults,   \* memory.ts:227: 8
  SearchWindow,     \* the rows one search reads: 50 with postgresMemory, all with the others
  MaxProcesses, MaxTurns, MaxStoreFaults   \* bounds

ASSUME AgentMemoryAssumption ==
  /\ Durable \in BOOLEAN /\ MaximumResults \in Nat \ {0} /\ SearchWindow \in Nat \ {0}
  /\ MaxProcesses \in Nat \ {0} /\ MaxTurns \in Nat /\ MaxStoreFaults \in Nat

VARIABLES
  session,          \* [agentId, sequence, closed]: the agent of the current process
  turns,            \* the store: turn -> its state; a turn is <<agentId, sequence>>
  run,              \* per run: [step, turn, recalled] and, for history, owed: what was answered before it
  answered,         \* history: the turns of the runs that were answered
  storeFaults

agentMemoryVars == <<session, turns, run, answered, storeFaults>>

NoTurn == <<0, 0>>
Idle == [step |-> "idle", turn |-> NoTurn, recalled |-> {}, owed |-> {}]

\* the id is drawn anew for every agent that is built
createAgent(n) == [agentId |-> n, sequence |-> 0, closed |-> FALSE]

AgentMemoryInit ==
  /\ session = createAgent(1)
  /\ turns = [t \in {} |-> "captured"] /\ run = [r \in Runs |-> Idle]
  /\ answered = {} /\ storeFaults = 0

RunGoes(r, to) == run' = [run EXCEPT ![r] = to]
Rejected(r) == RunGoes(r, Idle)

\* Seeded bug: a turn ends its lifecycle as it is indexed.
Steps_NotMadeAvailable == <<"captured", "classified", "organized", "indexed">>
Steps == <<"captured", "classified", "organized", "indexed", "available">>

\* search: the newest rows, whoever's and in whatever state; of one agent's, by a clock that may stand
Searched == {W \in SUBSET DOMAIN turns :
               /\ W = DOMAIN turns \/ Cardinality(W) = SearchWindow
               /\ Cardinality(W) <= SearchWindow
               /\ \A t \in W, u \in DOMAIN turns \ W : t[1] >= u[1]}

\* retrieve: of what was found, the available turns of this agent, ranked and cut off
Recallable(agentId) == {t \in DOMAIN turns : turns[t] = "available" /\ t[1] = agentId}
Retrieved(agentId) == {S \in SUBSET Recallable(agentId) :
                         /\ Cardinality(S) <= MaximumResults
                         /\ \E W \in Searched : /\ S \subseteq W
                                               /\ \/ Recallable(agentId) \cap W \subseteq S
                                                  \/ Cardinality(S) = MaximumResults}

invoke(r) ==
  /\ run[r] = Idle /\ ~session.closed /\ Cardinality(DOMAIN turns) < MaxTurns
  /\ RunGoes(r, [Idle EXCEPT !.step = "recalling", !.owed = answered])
  /\ UNCHANGED <<session, turns, answered, storeFaults>>

retrieveForPrompt(r) ==
  /\ run[r].step = "recalling"
  /\ \/ session.closed /\ Rejected(r)
     \/ ~session.closed /\ \E found \in Retrieved(session.agentId) :
          RunGoes(r, [run[r] EXCEPT !.step = "model", !.recalled = found])
  /\ UNCHANGED <<session, turns, answered, storeFaults>>

\* the model has answered: the session counts the turn, the engine captures it
rememberTurn(r) ==
  /\ run[r].step = "model"
  /\ LET turn == <<session.agentId, session.sequence + 1>> IN
       IF session.closed THEN Rejected(r) /\ UNCHANGED <<session, turns>>
       ELSE /\ session' = [session EXCEPT !.sequence = @ + 1]
            /\ IF turn \in DOMAIN turns THEN Rejected(r) /\ UNCHANGED turns
               ELSE /\ turns' = [t \in DOMAIN turns \cup {turn} |-> IF t = turn THEN Steps[1] ELSE turns[t]]
                    /\ RunGoes(r, [run[r] EXCEPT !.step = "remembering", !.turn = turn])
  /\ UNCHANGED <<answered, storeFaults>>

WholeTurn(turn) == turns[turn] = Steps[Len(Steps)]

\* classify, organize, index, make-available: one transition after the other
transition(r) ==
  /\ run[r].step = "remembering" /\ ~WholeTurn(run[r].turn)
  /\ turns' = [turns EXCEPT ![run[r].turn] = Steps[1 + CHOOSE n \in DOMAIN Steps : Steps[n] = @]]
  /\ UNCHANGED <<session, run, answered, storeFaults>>

Answers(r) ==
  /\ run[r].step = "remembering" /\ WholeTurn(run[r].turn)
  /\ answered' = answered \cup {run[r].turn}
  /\ Rejected(r) /\ UNCHANGED <<session, turns, storeFaults>>

\* the store rejects, at any await, or the model does: the run fails, the turn stays as it is
RunFails(r) ==
  /\ run[r] # Idle /\ storeFaults < MaxStoreFaults /\ storeFaults' = storeFaults + 1
  /\ Rejected(r) /\ UNCHANGED <<session, turns, answered>>

disposeSession ==
  /\ ~session.closed /\ session' = [session EXCEPT !.closed = TRUE]
  /\ UNCHANGED <<turns, run, answered, storeFaults>>

\* the process ends, in whatever state its runs are, and another one starts
Restart ==
  /\ session.agentId < MaxProcesses
  /\ session' = createAgent(session.agentId + 1)
  /\ run' = [r \in Runs |-> Idle]
  /\ turns' = IF Durable THEN turns ELSE [t \in {} |-> "captured"]
  /\ answered' = IF Durable THEN answered ELSE {}
  /\ UNCHANGED storeFaults

AgentMemoryNext ==
  \/ \E r \in Runs : \/ invoke(r) \/ retrieveForPrompt(r) \/ rememberTurn(r) \/ transition(r)
                     \/ Answers(r) \/ RunFails(r)
  \/ disposeSession \/ Restart

AgentMemorySpec == AgentMemoryInit /\ [][AgentMemoryNext]_agentMemoryVars

----------------------------------------------------------------------------
(* Properties *)

AgentMemoryTypeOK ==
  /\ session.agentId \in 1..MaxProcesses /\ session.sequence <= Cardinality(DOMAIN turns)
  /\ \A t \in DOMAIN turns : turns[t] \in ToSet(Steps) /\ t[1] <= session.agentId
  /\ \A r \in Runs : run[r].turn \in DOMAIN turns \cup {NoTurn} /\ run[r].recalled \subseteq DOMAIN turns
  /\ storeFaults \in 0..MaxStoreFaults

Prompted(r) == run[r].step \in {"model", "remembering"}

(* A run recalls turns of its own agent only, each of which went through its     *)
(* whole lifecycle and no more than asked for; and it leaves out a turn that was   *)
(* answered before it began only when it recalls as many as it may, or when more     *)
(* turns are stored than a search reads, whatever other runs remember at the same      *)
(* time and whatever failed (memory.ts 213-301, memory/src/index.ts:50,                  *)
(* persistence-backed-memory-provider.ts 94-107).                                         *)
AnsweredIsRecalled ==
  \A r \in Runs : Prompted(r) =>
    /\ run[r].recalled \subseteq Recallable(session.agentId) /\ Cardinality(run[r].recalled) <= MaximumResults
    /\ \/ {t \in run[r].owed : t[1] = session.agentId} \subseteq run[r].recalled
       \/ Cardinality(run[r].recalled) = MaximumResults \/ Cardinality(DOMAIN turns) > SearchWindow

(* With durable memory the turns answered by an earlier process are recalled      *)
(* as well (docs/guides/durable-memory.md:34).  Refuted: a new process is a new agent   *)
(* with an id of its own.                                                                *)
RecalledAfterRestart == \A r \in Runs : Prompted(r) => run[r].owed \subseteq run[r].recalled

(* What one process of an agent recalls (memory.ts 186-312). *)
AgentMemoryInv == AgentMemoryTypeOK /\ AnsweredIsRecalled

=============================================================================
