------------------------------- MODULE MCPlatform -------------------------------
(* The parts of a platform for TLC: its stores, its streams, the memory of its   *)
(* agents, its container, its host, its AI vendors and its evaluations.  They     *)
(* share nothing: a behaviour runs one of them, and the others keep the first     *)
(* of their initial states.                                                       *)
EXTENDS Persistence, Streaming, AgentMemory, Composition, PlatformHost,
        StreamTranslation, Evaluation, TLC

VARIABLE part

Only(name, choices, value) == part # name => value = CHOOSE x \in choices : TRUE

Init ==
  /\ part \in {"persistence", "streaming", "memory", "composition", "host", "translation", "evaluation"}
  /\ PersistenceInit /\ StreamingInit /\ AgentMemoryInit /\ CompositionInit /\ HostInit
  /\ TranslationInit /\ EvaluationInit
  /\ Only("streaming", Readers, reader) /\ Only("streaming", Providers, routing.binding)
  /\ Only("host", Configurations, configuration)
  /\ Only("translation", Vendors, vendor) /\ Only("evaluation", BOOLEAN, matches)

Next ==
  \/ /\ part = "persistence" /\ PersistenceNext
     /\ UNCHANGED <<part, streamVars, agentMemoryVars, compositionVars, hostVars,
                    translationVars, evaluationVars>>
  \/ /\ part = "streaming" /\ StreamingNext
     /\ UNCHANGED <<part, persistenceVars, agentMemoryVars, compositionVars, hostVars,
                    translationVars, evaluationVars>>
  \/ /\ part = "memory" /\ AgentMemoryNext
     /\ UNCHANGED <<part, persistenceVars, streamVars, compositionVars, hostVars,
                    translationVars, evaluationVars>>
  \/ /\ part = "composition" /\ CompositionNext
     /\ UNCHANGED <<part, persistenceVars, streamVars, agentMemoryVars, hostVars,
                    translationVars, evaluationVars>>
  \/ /\ part = "host" /\ HostNext
     /\ UNCHANGED <<part, persistenceVars, streamVars, agentMemoryVars, compositionVars,
                    translationVars, evaluationVars>>
  \/ /\ part = "translation" /\ TranslationNext
     /\ UNCHANGED <<part, persistenceVars, streamVars, agentMemoryVars, compositionVars,
                    hostVars, evaluationVars>>
  \/ /\ part = "evaluation" /\ EvaluationNext
     /\ UNCHANGED <<part, persistenceVars, streamVars, agentMemoryVars, compositionVars,
                    hostVars, translationVars>>

vars == <<part, persistenceVars, streamVars, agentMemoryVars, compositionVars, hostVars,
          translationVars, evaluationVars>>

Spec == Init /\ [][Next]_vars /\ PersistenceFairness /\ HostFairness

----------------------------------------------------------------------------
(* Transactions that meet on two entities in both orders.                      *)

SomeOperations ==
  "t1" :> ("a" :> "save") @@ "t2" :> ("a" :> "save" @@ "b" :> "save")
    @@ "t3" :> ("a" :> "save" @@ "b" :> "delete")
SomeOrder == "t1" :> <<"a">> @@ "t2" :> <<"a", "b">> @@ "t3" :> <<"b", "a">>

(* A singleton and a scoped value made from it.                                *)
SomeLifetimes == "s" :> "singleton" @@ "c" :> "scoped"
SomeDependencies == "s" :> <<>> @@ "c" :> <<"s">>

(* The smallest host and the one with everything on PostgreSQL; the two         *)
(* requests carry the same correlation id.                                      *)
Smallest ==
  [persistence |-> "in-memory", recovery |-> FALSE, memory |-> "in-memory",
   vectorSearch |-> FALSE, vectorStore |-> "none", embedding |-> "none",
   evaluation |-> "in-memory", agent |-> FALSE, databaseUrl |-> FALSE,
   routing |-> "fixed", provider |-> "reference", fallbacks |-> <<>>]
Largest ==
  [Smallest EXCEPT !.persistence = "postgres", !.recovery = TRUE, !.memory = "persistent",
     !.vectorSearch = TRUE, !.vectorStore = "pgvector", !.embedding = "reference",
     !.evaluation = "persistent", !.agent = TRUE, !.databaseUrl = TRUE]
SomeConfigurations == {Smallest, Largest}
SomeCorrelations == "a" :> "k" @@ "s" :> "k"

\* two calls of one tool
OneTool == "c" :> "n" @@ "d" :> "n"

SomeCriteria == <<"c", "h">>
SomeCategories == "c" :> "ai" @@ "h" :> "human"

=============================================================================
