---------------------------------- MODULE Memory ----------------------------------
(***************************************************************************)
(* MemoryEngine over a persistence-backed store and a vector index.  A memory  *)
(* moves through its lifecycle under an optimistic version; indexing writes     *)
(* the vector first and the record second, leaving a state writes the record     *)
(* first and removes the vector afterwards; a recall queries the vectors, then    *)
(* loads every match again.  Nothing is locked: each await lets other calls in.    *)
(***************************************************************************)
EXTENDS Naturals, FiniteSets

CONSTANTS
  Memories,
  StoredStates,    \* the states a memory of an earlier session may be in
  MemoryCallers,           \* names of the calls of capture, transition and enrich
  Strategies,      \* subset of {"keyword", "semantic", "hybrid"}
  Expirable,       \* the memories whose retention is not permanent
  MaxMemoryCalls, MaxRecalls, MaxMemoryFaults   \* bounds

VARIABLES
  records,         \* the store: memory -> [state, version], or Absent
  vectors,         \* the vector store: memory -> the lifecycleVersion of its row, or 0
  calls,
  recall,          \* [step, strategy, keyword, matches, candidates, recalled]
  availableSince,  \* history: the memories that were available since the recall began
  uncleaned,       \* memories with an index-cleanup diagnostic
  memoryCalls, recalls, memoryFaults

memoryVars == <<records, vectors, calls, recall, availableSince, uncleaned,
                memoryCalls, recalls, memoryFaults>>
recallVars == <<recall, recalls>>

Absent == [state |-> "absent", version |-> 0]
NoCall == [step |-> "idle", action |-> "none", id |-> "none", expected |-> 0, current |-> Absent, found |-> Absent]
NoRecall == [step |-> "idle", strategy |-> "keyword", keyword |-> {}, matches |-> {},
             candidates |-> {}, recalled |-> {}]

\* the number of transitions a memory has been through when it reaches a state
VersionOf == [absent |-> 0, captured |-> 0, classified |-> 1, organized |-> 2, indexed |-> 3,
              available |-> 4, archived |-> 5, expired |-> 5, deleted |-> 5]

ASSUME MemoryAssumption ==
  /\ StoredStates \subseteq DOMAIN VersionOf
  /\ MaxMemoryCalls \in Nat /\ MaxRecalls \in Nat /\ MaxMemoryFaults \in Nat

MemoryInit ==
  /\ \E states \in [Memories -> StoredStates] :
       /\ records = [m \in Memories |-> [state |-> states[m], version |-> VersionOf[states[m]]]]
       /\ vectors = [m \in Memories |-> IF states[m] \in {"indexed", "available"} THEN 3 ELSE 0]
  /\ calls = [c \in MemoryCallers |-> NoCall] /\ recall = NoRecall
  /\ availableSince = {} /\ uncleaned = {}
  /\ memoryCalls = 0 /\ recalls = 0 /\ memoryFaults = 0

Faults == memoryFaults < MaxMemoryFaults /\ memoryFaults' = memoryFaults + 1

\* lifecycle; enriching keeps the state and takes a version of its own
After(state, action) ==
  CASE action = "capture" /\ state = "absent" -> "captured"
    [] action = "classify" /\ state = "captured" -> "classified"
    [] action = "organize" /\ state = "classified" -> "organized"
    [] action = "index" /\ state = "organized" -> "indexed"
    [] action = "make-available" /\ state = "indexed" -> "available"
    [] action = "archive" /\ state = "available" -> "archived"
    [] action = "expire" /\ state \in {"available", "archived"} -> "expired"
    [] action = "delete" /\ state \in {"available", "archived", "expired"} -> "deleted"
    [] action = "enrich" /\ state # "absent" -> state
    [] OTHER -> "none"

Actions == {"capture", "classify", "organize", "index", "make-available",
            "archive", "expire", "delete", "enrich"}

Updated(call) ==
  [state |-> After(call.current.state, call.action),
   version |-> IF call.action = "capture" THEN 0 ELSE call.current.version + 1]

Moves(c, to) == calls' = [calls EXCEPT ![c] = to]
At(c, step) == calls[c].step = step
CallGoes(c, step) == Moves(c, [calls[c] EXCEPT !.step = step])
Answers(c) == Moves(c, NoCall)
NoRecallStep == UNCHANGED <<recallVars, memoryCalls, memoryFaults>>

----------------------------------------------------------------------------
(* capture, transition, enrich *)

\* the caller has the version of a record it was given; enrich takes the one it reads
Begin(c, action, m, expected) ==
  /\ At(c, "idle") /\ memoryCalls < MaxMemoryCalls /\ memoryCalls' = memoryCalls + 1
  /\ (action = "capture") = (records[m] = Absent)
  /\ expected <= records[m].version
  /\ action \in {"capture", "enrich"} => expected = records[m].version
  /\ Moves(c, [NoCall EXCEPT !.step = "read", !.action = action, !.id = m, !.expected = expected])
  /\ UNCHANGED <<records, vectors, recallVars, availableSince, uncleaned, memoryFaults>>

\* storage.get, then the checks on what it answered
Read(c) ==
  /\ At(c, "read")
  /\ LET current == records[calls[c].id]
         action == calls[c].action
     IN IF \/ After(current.state, action) = "none"
           \/ action = "expire" /\ calls[c].id \notin Expirable
          THEN Answers(c)
          ELSE Moves(c, [calls[c] EXCEPT !.current = current,
                           !.expected = IF action = "enrich" THEN current.version ELSE @,
                           !.step = IF action = "index" THEN "index" ELSE "find"])
  /\ UNCHANGED <<records, vectors, availableSince, uncleaned>> /\ NoRecallStep

\* one row per memory: an upsert replaces it, whatever its version
upsert(m, lifecycleVersion) == vectors' = [vectors EXCEPT ![m] = lifecycleVersion]
remove(m) == vectors' = [vectors EXCEPT ![m] = 0]

\* indexProvider.index: embed, then upsert
Index(c) ==
  /\ At(c, "index")
  /\ upsert(calls[c].id, Updated(calls[c]).version)
  /\ CallGoes(c, "find")
  /\ UNCHANGED <<records, availableSince, uncleaned>> /\ NoRecallStep

\* storage.save or storage.replace reads the record once more
Find(c) ==
  /\ At(c, "find")
  /\ LET found == records[calls[c].id]
         refused == IF calls[c].action = "capture" THEN found # Absent
                                                   ELSE found.version # calls[c].expected
     IN IF refused THEN Answers(c) ELSE Moves(c, [calls[c] EXCEPT !.found = found, !.step = "commit"])
  /\ UNCHANGED <<records, vectors, availableSince, uncleaned>> /\ NoRecallStep

\* Seeded bug: the write carries no expected revision.
Expected_Any(call) == records[call.id].state # "absent" \/ call.action = "capture"
\* the write expects the revision that was found; a creation expects none
Expected(call) == records[call.id] = call.found

Commit(c) ==
  /\ At(c, "commit")
  /\ IF Expected(calls[c])
       THEN /\ records' = [records EXCEPT ![calls[c].id] = Updated(calls[c])]
            /\ availableSince' = availableSince \cup
                 {m \in {calls[c].id} : recall.step # "idle" /\ Updated(calls[c]).state = "available"}
            /\ IF calls[c].action = "enrich" THEN Answers(c) ELSE CallGoes(c, "publish")
       ELSE Answers(c) /\ UNCHANGED <<records, availableSince>>
  /\ UNCHANGED <<vectors, uncleaned>> /\ NoRecallStep

Publish(c) ==
  /\ At(c, "publish")
  /\ IF calls[c].action \in {"delete", "expire", "archive"} THEN CallGoes(c, "clean") ELSE Answers(c)
  /\ UNCHANGED <<records, vectors, availableSince, uncleaned>> /\ NoRecallStep

\* indexProvider.remove, best effort
Clean(c) ==
  /\ At(c, "clean") /\ Answers(c)
  /\ remove(calls[c].id)
  /\ UNCHANGED <<records, availableSince, uncleaned>> /\ NoRecallStep

\* whatever an await rejects with ends the call; only a failed cleanup is reported apart
MemoryCallFails(c) ==
  /\ calls[c].step # "idle" /\ Faults /\ Answers(c)
  /\ uncleaned' = IF At(c, "clean") THEN uncleaned \cup {calls[c].id} ELSE uncleaned
  /\ UNCHANGED <<records, vectors, recallVars, availableSince, memoryCalls>>

----------------------------------------------------------------------------
(* retrieve, VectorCapableMemorySearchProvider *)

Recalls(to) ==
  /\ recall' = to
  /\ UNCHANGED <<records, vectors, calls, uncleaned, memoryCalls>>

Candidate(m) == [id |-> m, record |-> records[m]]

Retrieve(strategy) ==
  /\ recall.step \in {"idle", "answered"} /\ recalls < MaxRecalls /\ recalls' = recalls + 1
  /\ availableSince' = {m \in Memories : records[m].state = "available"}
  /\ Recalls([NoRecall EXCEPT !.strategy = strategy,
                !.step = IF strategy = "semantic" THEN "vectors" ELSE "keyword"])
  /\ UNCHANGED memoryFaults

\* the keyword search of the store knows no state: it answers with every record
Keyword ==
  /\ recall.step = "keyword"
  /\ LET found == {Candidate(m) : m \in {x \in Memories : records[x] # Absent}} IN
       Recalls([recall EXCEPT !.keyword = found,
                  !.step = IF recall.strategy = "hybrid" THEN "vectors" ELSE "engine"])
  /\ UNCHANGED <<availableSince, recalls, memoryFaults>>

VectorMatches ==
  {[id |-> m, lifecycleVersion |-> vectors[m]] : m \in {x \in Memories : vectors[x] # 0}}

QueryVectors ==
  /\ recall.step = "vectors"
  /\ Recalls([recall EXCEPT !.step = "load", !.matches = VectorMatches])
  /\ UNCHANGED <<availableSince, recalls, memoryFaults>>

\* without embeddings or vectors the keyword search answers, marked as partial
SemanticUnavailable ==
  /\ recall.step \in {"vectors", "load"} /\ Faults
  /\ Recalls([recall EXCEPT !.candidates = {}, !.matches = {},
                !.step = IF recall.strategy = "hybrid" THEN "engine" ELSE "keyword",
                !.strategy = IF recall.strategy = "hybrid" THEN @ ELSE "keyword"])
  /\ UNCHANGED <<availableSince, recalls>>

isCanonicalVectorMatchValid(match) ==
  /\ records[match.id].state = "available"
  /\ match.lifecycleVersion <= records[match.id].version

\* one storage.get per match
Load(match) ==
  /\ recall.step = "load" /\ match \in recall.matches
  /\ Recalls([recall EXCEPT !.matches = @ \ {match},
                !.candidates = IF isCanonicalVectorMatchValid(match) THEN @ \cup {Candidate(match.id)} ELSE @])
  /\ UNCHANGED <<availableSince, recalls, memoryFaults>>

\* reciprocal rank fusion: of a memory that both found, the semantic record stands
fuseHybridCandidates(keyword, semantic) ==
  semantic \cup {k \in keyword : \A s \in semantic : s.id # k.id}

Recallable(candidate) == candidate.record.state = "available"

Answer ==
  /\ recall.step = "engine" \/ (recall.step = "load" /\ recall.matches = {})
  /\ LET found == fuseHybridCandidates(recall.keyword, recall.candidates) IN
       Recalls([NoRecall EXCEPT !.step = "answered",
                  !.recalled = {candidate.id : candidate \in {f \in found : Recallable(f)}}])
  /\ UNCHANGED <<availableSince, recalls, memoryFaults>>

----------------------------------------------------------------------------
MemoryNext ==
  \/ \E c \in MemoryCallers, action \in Actions, m \in Memories : \E expected \in 0..records[m].version :
       Begin(c, action, m, expected)
  \/ \E c \in MemoryCallers : Read(c) \/ Index(c) \/ Find(c) \/ Commit(c) \/ Publish(c) \/ Clean(c) \/ MemoryCallFails(c)
  \/ \E strategy \in Strategies : Retrieve(strategy)
  \/ Keyword \/ QueryVectors \/ SemanticUnavailable \/ Answer
  \/ \E match \in recall.matches : Load(match)

MemorySpec == MemoryInit /\ [][MemoryNext]_memoryVars

----------------------------------------------------------------------------
(* Properties *)

MemoryTypeOK ==
  /\ \A m \in Memories : records[m].state \in DOMAIN VersionOf /\ vectors[m] \in Nat
  /\ \A c \in MemoryCallers : calls[c].step \in {"idle", "read", "index", "find", "commit", "publish", "clean"}
  /\ recall.recalled \subseteq Memories /\ uncleaned \subseteq Memories
  /\ memoryCalls \in 0..MaxMemoryCalls /\ recalls \in 0..MaxRecalls /\ memoryFaults \in 0..MaxMemoryFaults

(* No write of a memory is lost to another: a record changes by one legal      *)
(* lifecycle step, or an enrichment, of the very version it replaces, however   *)
(* calls that read the same version interleave (persistence-backed-memory-        *)
(* provider.ts 64-81, 196-213).                                                    *)
WritesAreSuccessive ==
  [][\A m \in Memories : records'[m] # records[m] =>
       \E action \in Actions :
          records'[m] = Updated([current |-> records[m], action |-> action])]_memoryVars

(* A recall answers only with memories that were available at some moment      *)
(* since it began, though it reads the keyword hits, the vectors and the        *)
(* records at different times (index.ts 50, vector-capable-memory-search-        *)
(* provider.ts 94-133).                                                           *)
RecalledWasAvailable == recall.recalled \subseteq availableSince

(* No write is lost and nothing unavailable recalled (memory/src/index.ts). *)
MemoryCorrect == [](MemoryTypeOK /\ RecalledWasAvailable) /\ WritesAreSuccessive

=============================================================================
