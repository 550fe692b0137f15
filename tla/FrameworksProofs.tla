----------------------------- MODULE FrameworksProofs -----------------------------
(* The frameworks around a platform, for every set of callers, records, calls and       *)
(* requests and any number of failures: memory (MemoryCorrect), deployment                *)
(* (DeploymentInv), the API and its clients (ApiInv), governance and verification            *)
(* (RecordsInv), resolution and the AI providers (ProvidersInv), migrations and the            *)
(* in-memory store (StorageInv).                                                                *)
EXTENDS Memory, Deployment, ApiAccess, Frameworks, FiniteSetTheorems, SequenceTheorems,
        WellFoundedInduction, TLAPS

-----------------------------------------------------------------------------
(* Memory: the inductive invariant. *)

States == DOMAIN VersionOf
MemoryRecord == [state : States, version : Nat]

Steps == {"idle", "read", "index", "find", "commit", "publish", "clean"}
MemoryCall ==
  [step : Steps, action : Actions \cup {"none"}, id : Memories \cup {"none"}, expected : Nat,
   current : MemoryRecord, found : MemoryRecord]

\* of a record of a version there is only one, but for the one that is not there yet
SameVersion(current, record) ==
  current.version <= record.version /\ (current.version = record.version => current = record)

\* what a call has read and checked before it writes
CallOK(call, record) ==
  /\ call.step # "idle" => call.action \in Actions /\ call.id \in Memories
  /\ call.step = "read" /\ call.action # "capture" =>
       record.state # "absent" /\ call.expected <= record.version
  /\ call.step \in {"index", "find", "commit"} =>
       /\ After(call.current.state, call.action) # "none"
       /\ IF call.action = "capture" THEN call.current = Absent
          ELSE call.expected <= call.current.version /\ SameVersion(call.current, record)
  /\ call.step = "commit" => call.found = call.current

\* an available memory that a recall has seen was available since it began
Seen(candidates) ==
  \A k \in candidates :
    k.id \in Memories /\ (k.record.state = "available" => k.id \in availableSince)

RecallOK ==
  /\ recall.step # "idle" =>
       \A m \in Memories : records[m].state = "available" => m \in availableSince
  /\ Seen(recall.keyword) /\ Seen(recall.candidates)
  /\ \A k \in recall.matches : k.id \in Memories

MemoryIInv ==
  /\ MemoryTypeOK /\ RecalledWasAvailable
  /\ records \in [Memories -> MemoryRecord]
  /\ \A m \in Memories : records[m].state = "absent" => records[m] = Absent
  /\ vectors \in [Memories -> Nat]
  /\ calls \in [MemoryCallers -> MemoryCall]
  /\ \A c \in MemoryCallers : calls[c].step # "idle" => CallOK(calls[c], records[calls[c].id])
  /\ recall \in [step : {"idle", "keyword", "vectors", "load", "engine", "answered"},
                 strategy : Strategies \cup {"keyword"},
                 keyword : SUBSET [id : Memories, record : MemoryRecord],
                 matches : SUBSET [id : Memories, lifecycleVersion : Nat],
                 candidates : SUBSET [id : Memories, record : MemoryRecord],
                 recalled : SUBSET Memories]
  /\ RecallOK

-----------------------------------------------------------------------------
(* Memory: lemmas. *)

LEMMA StatesAre ==
  /\ States = {"absent", "captured", "classified", "organized", "indexed", "available",
               "archived", "expired", "deleted"}
  /\ \A s \in States : VersionOf[s] \in Nat
  /\ VersionOf["absent"] = 0
  BY DEF States, VersionOf

\* A legal step leads to a state of the lifecycle in which the memory is there.
LEMMA AfterIsState ==
  ASSUME NEW state \in States, NEW action \in Actions, After(state, action) # "none"
  PROVE  /\ After(state, action) \in States \ {"absent"}
         /\ action = "capture" => state = "absent"
         /\ action # "capture" => state # "absent"
<1>1. CASE action = "enrich"
  BY <1>1, StatesAre DEF After
<1>2. CASE action = "capture"
  BY <1>2, StatesAre DEF After
<1>3. CASE action \notin {"enrich", "capture"}
  BY <1>3, StatesAre DEF After, Actions
<1> QED
  BY <1>1, <1>2, <1>3

LEMMA UpdatedIsRecord ==
  ASSUME NEW call \in MemoryCall, call.action \in Actions,
         After(call.current.state, call.action) # "none"
  PROVE  Updated(call) \in MemoryRecord /\ Updated(call).state # "absent"
<1>1. call.current.state \in States /\ call.current.version \in Nat
  BY DEF MemoryCall, MemoryRecord
<1>2. After(call.current.state, call.action) \in States \ {"absent"}
  BY <1>1, AfterIsState
<1>3. (IF call.action = "capture" THEN 0 ELSE call.current.version + 1) \in Nat
  BY <1>1
<1> QED
  BY <1>2, <1>3 DEF Updated, MemoryRecord

LEMMA MemoryInitOK == MemoryInit => MemoryIInv
<1> SUFFICES ASSUME MemoryInit PROVE MemoryIInv
  OBVIOUS
<1>1. PICK states \in [Memories -> StoredStates] :
        /\ records = [m \in Memories |-> [state |-> states[m], version |-> VersionOf[states[m]]]]
        /\ vectors = [m \in Memories |-> IF states[m] \in {"indexed", "available"} THEN 3 ELSE 0]
  BY DEF MemoryInit
<1>2. \A m \in Memories : states[m] \in States /\ VersionOf[states[m]] \in Nat
  BY StatesAre, MemoryAssumption DEF States
<1>3. records \in [Memories -> MemoryRecord]
  BY <1>1, <1>2 DEF MemoryRecord
<1>4. \A m \in Memories : records[m].state = "absent" => records[m] = Absent
  BY <1>1, <1>2, StatesAre DEF Absent
<1>5. vectors \in [Memories -> Nat]
  BY <1>1
<1>6. NoCall \in MemoryCall
  BY StatesAre DEF NoCall, MemoryCall, Absent, MemoryRecord, Steps
<1>7. calls \in [MemoryCallers -> MemoryCall] /\ \A c \in MemoryCallers : calls[c].step = "idle"
  BY <1>6 DEF MemoryInit, NoCall
<1>8. /\ recall = NoRecall /\ availableSince = {} /\ uncleaned = {}
      /\ memoryCalls = 0 /\ recalls = 0 /\ memoryFaults = 0
  BY DEF MemoryInit
<1>9. MemoryTypeOK
  BY <1>3, <1>5, <1>7, <1>8, MemoryAssumption DEF MemoryTypeOK, MemoryRecord, NoRecall, States
<1> QED
  BY <1>3, <1>4, <1>5, <1>7, <1>8, <1>9
     DEF MemoryIInv, RecalledWasAvailable, RecallOK, Seen, NoRecall

\* A call goes on without writing a record.
LEMMA CallStep ==
  ASSUME MemoryIInv, NEW c \in MemoryCallers, NEW call \in MemoryCall,
         calls' = [calls EXCEPT ![c] = call],
         call.step # "idle" => CallOK(call, records[call.id]),
         UNCHANGED <<records, recall, recalls, availableSince>>,
         vectors' \in [Memories -> Nat], uncleaned' \subseteq Memories,
         memoryCalls' \in 0..MaxMemoryCalls, memoryFaults' \in 0..MaxMemoryFaults
  PROVE  MemoryIInv'
<1>1. calls' \in [MemoryCallers -> MemoryCall]
  BY DEF MemoryIInv
<1>2. ASSUME NEW d \in MemoryCallers, calls'[d].step # "idle"
      PROVE  CallOK(calls'[d], records'[calls'[d].id])
  <2>1. CASE d = c
    BY <1>2, <2>1 DEF MemoryIInv
  <2>2. CASE d # c
    BY <1>2, <2>2 DEF MemoryIInv
  <2> QED
    BY <2>1, <2>2
<1>3. MemoryTypeOK'
  BY <1>1 DEF MemoryIInv, MemoryTypeOK, MemoryCall, Steps
<1>4. RecallOK' /\ RecalledWasAvailable'
  BY DEF MemoryIInv, RecallOK, Seen, RecalledWasAvailable
<1> QED
  BY <1>1, <1>2, <1>3, <1>4 DEF MemoryIInv

\* A recall goes on.
LEMMA RecallStep ==
  ASSUME MemoryIInv, UNCHANGED <<records, vectors, calls, uncleaned, memoryCalls>>,
         recall' \in [step : {"idle", "keyword", "vectors", "load", "engine", "answered"},
                      strategy : Strategies \cup {"keyword"},
                      keyword : SUBSET [id : Memories, record : MemoryRecord],
                      matches : SUBSET [id : Memories, lifecycleVersion : Nat],
                      candidates : SUBSET [id : Memories, record : MemoryRecord],
                      recalled : SUBSET Memories],
         RecallOK', recall'.recalled \subseteq availableSince',
         recalls' \in 0..MaxRecalls, memoryFaults' \in 0..MaxMemoryFaults
  PROVE  MemoryIInv'
<1>1. MemoryTypeOK'
  BY DEF MemoryIInv, MemoryTypeOK
<1> QED
  BY <1>1 DEF MemoryIInv, RecalledWasAvailable

-----------------------------------------------------------------------------
(* Memory: the steps of a call. *)

LEMMA BeginKeeps ==
  ASSUME MemoryIInv, NEW c \in MemoryCallers, NEW action \in Actions, NEW m \in Memories,
         NEW expected \in 0..records[m].version, Begin(c, action, m, expected)
  PROVE  MemoryIInv'
<1>1. PICK call : call = [NoCall EXCEPT !.step = "read", !.action = action, !.id = m,
                                        !.expected = expected]
  OBVIOUS
<1>2. /\ calls' = [calls EXCEPT ![c] = call] /\ memoryCalls' = memoryCalls + 1
      /\ memoryCalls < MaxMemoryCalls /\ expected <= records[m].version
      /\ (action = "capture") = (records[m] = Absent)
      /\ UNCHANGED <<records, vectors, recall, recalls, availableSince, uncleaned, memoryFaults>>
  BY <1>1 DEF Begin, Moves, recallVars
<1>3. records[m] \in MemoryRecord /\ expected \in Nat /\ Absent \in MemoryRecord
  BY StatesAre DEF MemoryIInv, MemoryRecord, Absent
<1>4. /\ call \in MemoryCall /\ call.step = "read" /\ call.action = action /\ call.id = m
      /\ call.expected = expected
  BY <1>1, <1>3 DEF NoCall, MemoryCall, Steps
<1>5. records[m].state = "absent" => records[m] = Absent
  BY DEF MemoryIInv
<1>6. CallOK(call, records[call.id])
  BY <1>2, <1>4, <1>5 DEF CallOK
<1>7. memoryCalls' \in 0..MaxMemoryCalls
  BY <1>2, MemoryAssumption DEF MemoryIInv, MemoryTypeOK
<1> QED
  BY <1>2, <1>4, <1>6, <1>7, CallStep DEF MemoryIInv, MemoryTypeOK

LEMMA AnswersKeeps ==
  ASSUME MemoryIInv, NEW c \in MemoryCallers, Answers(c),
         UNCHANGED <<records, recall, recalls, availableSince>>,
         vectors' \in [Memories -> Nat], uncleaned' \subseteq Memories,
         memoryCalls' \in 0..MaxMemoryCalls, memoryFaults' \in 0..MaxMemoryFaults
  PROVE  MemoryIInv'
<1>1. NoCall \in MemoryCall /\ NoCall.step = "idle"
  BY StatesAre DEF NoCall, MemoryCall, Absent, MemoryRecord, Steps
<1>2. calls' = [calls EXCEPT ![c] = NoCall]
  BY DEF Answers, Moves
<1> QED
  BY <1>1, <1>2, CallStep

\* What is the same for every step of a call that writes no record.
LEMMA Counts ==
  ASSUME MemoryIInv, NoRecallStep
  PROVE  /\ UNCHANGED <<recall, recalls>>
         /\ memoryCalls' \in 0..MaxMemoryCalls /\ memoryFaults' \in 0..MaxMemoryFaults
         /\ vectors \in [Memories -> Nat] /\ uncleaned \subseteq Memories
  BY DEF MemoryIInv, MemoryTypeOK, NoRecallStep, recallVars

LEMMA ReadKeeps ==
  ASSUME MemoryIInv, NEW c \in MemoryCallers, Read(c)
  PROVE  MemoryIInv'
<1>1. calls[c].step = "read" /\ UNCHANGED <<records, vectors, availableSince, uncleaned>> /\ NoRecallStep
  BY DEF Read, At
<1>2. CASE Answers(c)
  BY <1>1, <1>2, AnswersKeeps, Counts
<1>3. CASE ~Answers(c)
  <2>1. PICK old : old = calls[c]
    OBVIOUS
  <2>2. PICK current : current = records[old.id]
    OBVIOUS
  <2>3. PICK call : call = [old EXCEPT !.current = current,
                              !.expected = IF old.action = "enrich" THEN current.version ELSE @,
                              !.step = IF old.action = "index" THEN "index" ELSE "find"]
    OBVIOUS
  <2>4. /\ After(current.state, old.action) # "none"
        /\ calls' = [calls EXCEPT ![c] = call]
    BY <1>3, <2>1, <2>2, <2>3 DEF Read, Moves
  <2>5. old \in MemoryCall /\ old.action \in Actions /\ old.id \in Memories /\ CallOK(old, current)
    BY <1>1, <2>1, <2>2 DEF MemoryIInv, CallOK
  <2>6. current \in MemoryRecord /\ current.version \in Nat
    BY <2>2, <2>5 DEF MemoryIInv, MemoryRecord
  <2>7. /\ call \in MemoryCall /\ call.current = current /\ call.action = old.action
        /\ call.id = old.id /\ call.step \in {"index", "find"}
        /\ call.expected = IF old.action = "enrich" THEN current.version ELSE old.expected
    BY <2>3, <2>5, <2>6 DEF MemoryCall, Steps
  <2>8. call.action # "capture" => call.expected <= current.version
    BY <1>1, <2>1, <2>5, <2>6, <2>7 DEF CallOK
  <2>9. call.action = "capture" => current = Absent
    BY <2>2, <2>4, <2>5, <2>6, <2>7, AfterIsState DEF MemoryIInv, MemoryRecord
  <2>10. CallOK(call, records[call.id])
    BY <2>2, <2>4, <2>5, <2>6, <2>7, <2>8, <2>9 DEF CallOK, SameVersion
  <2> QED
    BY <1>1, <2>4, <2>7, <2>10, CallStep, Counts
<1> QED
  BY <1>2, <1>3

\* A step that only moves a call keeps what the call has read.
LEMMA GoesKeeps ==
  ASSUME MemoryIInv, NEW c \in MemoryCallers, NEW to \in {"find", "publish", "clean"},
         calls[c].step = "index" \/ (calls[c].step # "idle" /\ to # "find"), CallGoes(c, to),
         UNCHANGED <<records, availableSince, uncleaned>>, NoRecallStep,
         vectors' \in [Memories -> Nat]
  PROVE  MemoryIInv'
<1>1. PICK call : call = [calls[c] EXCEPT !.step = to]
  OBVIOUS
<1>2. calls' = [calls EXCEPT ![c] = call]
  BY <1>1 DEF CallGoes, Moves
<1>3. calls[c] \in MemoryCall /\ CallOK(calls[c], records[calls[c].id])
  BY DEF MemoryIInv
<1>4. /\ call \in MemoryCall /\ call.step = to /\ call.id = calls[c].id
      /\ call.action = calls[c].action /\ call.expected = calls[c].expected
      /\ call.current = calls[c].current /\ call.found = calls[c].found
  BY <1>1, <1>3 DEF MemoryCall, Steps
<1>5. CallOK(call, records[call.id])
  BY <1>3, <1>4 DEF CallOK
<1> QED
  BY <1>2, <1>4, <1>5, CallStep, Counts

LEMMA IndexKeeps ==
  ASSUME MemoryIInv, NEW c \in MemoryCallers, Index(c)
  PROVE  MemoryIInv'
<1>1. /\ calls[c].step = "index" /\ CallGoes(c, "find") /\ NoRecallStep
      /\ UNCHANGED <<records, availableSince, uncleaned>>
      /\ vectors' = [vectors EXCEPT ![calls[c].id] = Updated(calls[c]).version]
  BY DEF Index, At, upsert
<1>2. calls[c] \in MemoryCall /\ CallOK(calls[c], records[calls[c].id])
  BY <1>1 DEF MemoryIInv
<1>3. Updated(calls[c]) \in MemoryRecord
  BY <1>1, <1>2, UpdatedIsRecord DEF CallOK
<1>4. vectors' \in [Memories -> Nat]
  BY <1>1, <1>3 DEF MemoryIInv, MemoryRecord
<1> QED
  BY <1>1, <1>4, GoesKeeps

\* What the call was told to expect, what it has read and what it finds are one version.
LEMMA FindKeeps ==
  ASSUME MemoryIInv, NEW c \in MemoryCallers, Find(c)
  PROVE  MemoryIInv'
<1>1. calls[c].step = "find" /\ UNCHANGED <<records, vectors, availableSince, uncleaned>> /\ NoRecallStep
  BY DEF Find, At
<1>2. CASE Answers(c)
  BY <1>1, <1>2, AnswersKeeps, Counts
<1>3. CASE ~Answers(c)
  <2>1. PICK old : old = calls[c]
    OBVIOUS
  <2>2. PICK found : found = records[old.id]
    OBVIOUS
  <2>3. PICK call : call = [old EXCEPT !.found = found, !.step = "commit"]
    OBVIOUS
  <2>4. /\ calls' = [calls EXCEPT ![c] = call]
        /\ IF old.action = "capture" THEN found = Absent ELSE found.version = old.expected
    BY <1>3, <2>1, <2>2, <2>3 DEF Find, Moves
  <2>5. old \in MemoryCall /\ old.action \in Actions /\ old.id \in Memories /\ CallOK(old, found)
    BY <1>1, <2>1, <2>2 DEF MemoryIInv, CallOK
  <2>6. found \in MemoryRecord /\ old.current \in MemoryRecord /\ old.expected \in Nat
    BY <2>2, <2>5 DEF MemoryIInv, MemoryCall
  <2>7. /\ call \in MemoryCall /\ call.current = old.current /\ call.action = old.action
        /\ call.id = old.id /\ call.step = "commit" /\ call.expected = old.expected
        /\ call.found = found
    BY <2>3, <2>5, <2>6 DEF MemoryCall, Steps
  <2>8. found = old.current
    <3>1. CASE old.action = "capture"
      BY <1>1, <2>1, <2>4, <2>5, <3>1 DEF CallOK
    <3>2. CASE old.action # "capture"
      BY <1>1, <2>1, <2>4, <2>5, <2>6, <3>2 DEF CallOK, SameVersion, MemoryRecord
    <3> QED
      BY <3>1, <3>2
  <2>9. CallOK(call, records[call.id])
    BY <1>1, <2>1, <2>2, <2>5, <2>7, <2>8 DEF CallOK
  <2> QED
    BY <1>1, <2>4, <2>7, <2>9, CallStep, Counts
<1> QED
  BY <1>2, <1>3

\* A write leaves what other calls have read of the record older than the record.
LEMMA CommitKeeps ==
  ASSUME MemoryIInv, NEW c \in MemoryCallers, Commit(c)
  PROVE  /\ MemoryIInv'
         /\ \A m \in Memories : records'[m] # records[m] =>
              \E action \in Actions :
                 records'[m] = Updated([current |-> records[m], action |-> action])
<1>1. calls[c].step = "commit" /\ UNCHANGED <<vectors, uncleaned>> /\ NoRecallStep
  BY DEF Commit, At
<1>2. CASE ~Expected(calls[c])
  <2>1. Answers(c) /\ UNCHANGED <<records, availableSince>>
    BY <1>2 DEF Commit
  <2> QED
    BY <1>1, <2>1, AnswersKeeps, Counts
<1>3. CASE Expected(calls[c])
  <2>1. PICK old : old = calls[c]
    OBVIOUS
  <2>2. PICK id : id = old.id
    OBVIOUS
  <2>3. PICK new : new = Updated(old)
    OBVIOUS
  <2>4. PICK call : call = IF old.action = "enrich" THEN NoCall ELSE [old EXCEPT !.step = "publish"]
    OBVIOUS
  <2>5. /\ records' = [records EXCEPT ![id] = new]
        /\ availableSince' = availableSince \cup
             {m \in {id} : recall.step # "idle" /\ new.state = "available"}
        /\ calls' = [calls EXCEPT ![c] = call]
        /\ records[id] = old.found
    BY <1>3, <2>1, <2>2, <2>3, <2>4 DEF Commit, Expected, Answers, CallGoes, Moves
  <2>6. /\ old \in MemoryCall /\ old.action \in Actions /\ id \in Memories
        /\ CallOK(old, records[id]) /\ old.found = old.current
        /\ After(old.current.state, old.action) # "none"
    BY <1>1, <2>1, <2>2 DEF MemoryIInv, CallOK
  <2>7. new \in MemoryRecord /\ new.state # "absent"
    BY <2>3, <2>6, UpdatedIsRecord
  <2>8. old.current \in MemoryRecord /\ old.current = records[id]
    BY <2>5, <2>6 DEF MemoryCall
  <2>9. \/ records[id].state = "absent"
        \/ records[id].state # "absent" /\ new.version = records[id].version + 1
    <3>1. CASE old.action = "capture"
      BY <2>6, <2>8, <3>1, AfterIsState DEF MemoryRecord
    <3>2. CASE old.action # "capture"
      BY <2>3, <2>6, <2>8, <3>2, AfterIsState DEF MemoryRecord, Updated
    <3> QED
      BY <3>1, <3>2
  <2>10. /\ records' \in [Memories -> MemoryRecord]
         /\ \A m \in Memories : m # id => records'[m] = records[m]
         /\ records'[id] = new
    BY <2>5, <2>6, <2>7 DEF MemoryIInv
  <2>11. call \in MemoryCall /\ call.step \in {"idle", "publish"} /\ (call.step # "idle" => call.action \in Actions /\ call.id \in Memories)
    BY <2>2, <2>4, <2>6, StatesAre DEF NoCall, MemoryCall, Absent, MemoryRecord, Steps
  <2>12. calls' \in [MemoryCallers -> MemoryCall]
    BY <2>5, <2>11 DEF MemoryIInv
  <2>13. ASSUME NEW d \in MemoryCallers, calls'[d].step # "idle"
         PROVE  CallOK(calls'[d], records'[calls'[d].id])
    <3>1. CASE d = c
      <4>1. calls'[d] = call
        BY <2>5, <3>1 DEF MemoryIInv
      <4> QED
        BY <2>11, <2>13, <4>1 DEF CallOK
    <3>2. CASE d # c
      <4>1. calls'[d] = calls[d] /\ calls[d] \in MemoryCall /\ CallOK(calls[d], records[calls[d].id])
        BY <2>5, <2>13, <3>2 DEF MemoryIInv
      <4>2. CASE calls[d].id # id
        BY <2>10, <2>13, <4>1, <4>2 DEF CallOK
      <4>3. CASE calls[d].id = id
        <5>1. PICK other : other = calls[d]
          OBVIOUS
        <5>2. PICK record : record = records[id]
          OBVIOUS
        <5>3. /\ record \in MemoryRecord /\ other \in MemoryCall /\ other.current \in MemoryRecord
              /\ CallOK(other, record) /\ other.expected \in Nat
          BY <2>6, <4>1, <4>3, <5>1, <5>2 DEF MemoryIInv, MemoryCall
        <5>4. record.version \in Nat /\ new.version \in Nat /\ other.current.version \in Nat
          BY <2>7, <5>3 DEF MemoryRecord
        <5>5. record.state = "absent" => record = Absent
          BY <2>6, <5>2 DEF MemoryIInv
        <5>6. CASE other.step = "read" /\ other.action # "capture"
          <6>1. /\ record.state # "absent" /\ other.expected <= record.version
                /\ new.version = record.version + 1
            BY <2>9, <5>2, <5>3, <5>6 DEF CallOK
          <6>2. CallOK(other, new)
            BY <2>7, <5>3, <5>4, <5>6, <6>1 DEF CallOK
          <6> QED
            BY <2>10, <4>1, <4>3, <5>1, <6>2
        <5>7. CASE other.step \in {"index", "find", "commit"} /\ other.action # "capture"
          <6>1. /\ other.expected <= other.current.version /\ SameVersion(other.current, record)
                /\ other.action \in Actions /\ After(other.current.state, other.action) # "none"
            BY <5>3, <5>7 DEF CallOK
          <6>2. other.current.state # "absent" /\ other.current.state \in States
            BY <5>3, <5>7, <6>1, AfterIsState DEF MemoryRecord
          <6>3. CASE record.state = "absent"
            <7>1. record.version = 0 /\ other.current.version = 0
              BY <5>4, <5>5, <6>1, <6>3 DEF Absent, SameVersion
            <7> QED
              BY <6>1, <6>2, <6>3, <7>1 DEF SameVersion
          <6>4. CASE record.state # "absent"
            <7>1. new.version = record.version + 1
              BY <2>9, <5>2, <6>4
            <7>2. SameVersion(other.current, new)
              BY <5>4, <6>1, <7>1 DEF SameVersion
            <7> QED
              BY <5>3, <5>7, <7>2, <4>1, <4>3, <2>10, <5>1 DEF CallOK
          <6> QED
            BY <6>3, <6>4
        <5>8. CASE ~(other.step \in {"read", "index", "find", "commit"} /\ other.action # "capture")
          BY <2>10, <4>1, <4>3, <5>1, <5>3, <5>8 DEF CallOK
        <5> QED
          BY <2>10, <4>1, <4>3, <5>1, <5>6, <5>7, <5>8, <5>3 DEF CallOK
      <4> QED
        BY <4>2, <4>3
    <3> QED
      BY <3>1, <3>2
  <2>14. /\ recall' = recall /\ recalls' = recalls
         /\ memoryCalls' \in 0..MaxMemoryCalls /\ memoryFaults' \in 0..MaxMemoryFaults
         /\ availableSince \subseteq availableSince'
    BY <1>1, <2>5, Counts
  <2>15. RecallOK' /\ RecalledWasAvailable'
    <3>1. RecallOK /\ RecalledWasAvailable
      BY DEF MemoryIInv
    <3>2. recall.step # "idle" =>
            \A m \in Memories : records'[m].state = "available" => m \in availableSince'
      BY <2>5, <2>10, <3>1 DEF RecallOK
    <3> QED
      BY <2>14, <3>1, <3>2 DEF RecallOK, Seen, RecalledWasAvailable
  <2>16. \A m \in Memories : records'[m].state = "absent" => records'[m] = Absent
    BY <2>7, <2>10 DEF MemoryIInv
  <2>17. MemoryTypeOK'
    BY <1>1, <2>10, <2>12, <2>14 DEF MemoryIInv, MemoryTypeOK, MemoryRecord, MemoryCall, Steps, States
  <2>18. MemoryIInv'
    BY <1>1, <2>10, <2>12, <2>13, <2>14, <2>15, <2>16, <2>17 DEF MemoryIInv
  <2>19. new = Updated([current |-> records[id], action |-> old.action])
    BY <2>3, <2>8 DEF Updated
  <2> QED
    BY <2>6, <2>10, <2>18, <2>19
<1> QED
  BY <1>2, <1>3

LEMMA PublishKeeps ==
  ASSUME MemoryIInv, NEW c \in MemoryCallers, Publish(c)
  PROVE  MemoryIInv'
<1>1. /\ calls[c].step = "publish" /\ UNCHANGED <<records, vectors, availableSince, uncleaned>>
      /\ NoRecallStep /\ (CallGoes(c, "clean") \/ Answers(c))
  BY DEF Publish, At
<1> QED
  BY <1>1, AnswersKeeps, GoesKeeps, Counts

LEMMA CleanKeeps ==
  ASSUME MemoryIInv, NEW c \in MemoryCallers, Clean(c)
  PROVE  MemoryIInv'
<1>1. /\ Answers(c) /\ UNCHANGED <<records, availableSince, uncleaned>> /\ NoRecallStep
      /\ vectors' = [vectors EXCEPT ![calls[c].id] = 0]
  BY DEF Clean, remove
<1>2. vectors' \in [Memories -> Nat]
  BY <1>1 DEF MemoryIInv
<1> QED
  BY <1>1, <1>2, AnswersKeeps, Counts

LEMMA MemoryCallFailsKeeps ==
  ASSUME MemoryIInv, NEW c \in MemoryCallers, MemoryCallFails(c)
  PROVE  MemoryIInv'
<1>1. calls[c].id \in Memories
  BY DEF MemoryIInv, CallOK, MemoryCallFails
<1>2. uncleaned' \subseteq Memories
  BY <1>1 DEF MemoryIInv, MemoryTypeOK, MemoryCallFails
<1>3. memoryFaults' \in 0..MaxMemoryFaults
  BY MemoryAssumption DEF MemoryIInv, MemoryTypeOK, MemoryCallFails, Faults
<1> QED
  BY <1>2, <1>3, AnswersKeeps DEF MemoryIInv, MemoryTypeOK, MemoryCallFails, recallVars

-----------------------------------------------------------------------------
(* Memory: the steps of a recall. *)

LEMMA RetrieveKeeps ==
  ASSUME MemoryIInv, NEW strategy \in Strategies, Retrieve(strategy)
  PROVE  MemoryIInv'
<1>1. PICK new : new = [NoRecall EXCEPT !.strategy = strategy,
                          !.step = IF strategy = "semantic" THEN "vectors" ELSE "keyword"]
  OBVIOUS
<1>2. /\ recall' = new /\ recalls' = recalls + 1 /\ recalls < MaxRecalls
      /\ availableSince' = {m \in Memories : records[m].state = "available"}
      /\ UNCHANGED <<records, vectors, calls, uncleaned, memoryCalls, memoryFaults>>
  BY <1>1 DEF Retrieve, Recalls
<1>3. recalls' \in 0..MaxRecalls
  BY <1>2, MemoryAssumption DEF MemoryIInv, MemoryTypeOK
<1>4. /\ new.keyword = {} /\ new.matches = {} /\ new.candidates = {} /\ new.recalled = {}
      /\ new.step \in {"vectors", "keyword"} /\ new.strategy = strategy
      /\ new = [step |-> new.step, strategy |-> new.strategy, keyword |-> new.keyword,
                matches |-> new.matches, candidates |-> new.candidates, recalled |-> new.recalled]
  BY <1>1 DEF NoRecall
<1>5. RecallOK'
  BY <1>2, <1>4 DEF RecallOK, Seen
<1> QED
  BY <1>2, <1>3, <1>4, <1>5, RecallStep DEF MemoryIInv, MemoryTypeOK

\* What is the same for every step of a recall under way.
LEMMA RecallIs ==
  ASSUME MemoryIInv
  PROVE  /\ RecallOK /\ recall.recalled \subseteq availableSince
         /\ recall.keyword \subseteq [id : Memories, record : MemoryRecord]
         /\ recall.candidates \subseteq [id : Memories, record : MemoryRecord]
         /\ recall.matches \subseteq [id : Memories, lifecycleVersion : Nat]
         /\ recalls \in 0..MaxRecalls /\ memoryFaults \in 0..MaxMemoryFaults
         /\ records \in [Memories -> MemoryRecord] /\ vectors \in [Memories -> Nat]
  BY DEF MemoryIInv, MemoryTypeOK, RecalledWasAvailable

LEMMA KeywordKeeps ==
  ASSUME MemoryIInv, Keyword
  PROVE  MemoryIInv'
<1>1. PICK found : found = {Candidate(m) : m \in {x \in Memories : records[x] # Absent}}
  OBVIOUS
<1>2. PICK to \in {"vectors", "engine"} :
        /\ recall' = [recall EXCEPT !.keyword = found, !.step = to]
        /\ recall.step = "keyword"
        /\ UNCHANGED <<records, vectors, calls, uncleaned, memoryCalls, availableSince, recalls,
                       memoryFaults>>
  BY <1>1 DEF Keyword, Recalls
<1>3. found \subseteq [id : Memories, record : MemoryRecord]
  BY <1>1, RecallIs DEF Candidate
<1>4. Seen(found)
  BY <1>1, <1>2, RecallIs DEF Candidate, Seen, RecallOK
<1>5. RecallOK'
  BY <1>2, <1>4, RecallIs DEF RecallOK, Seen, MemoryIInv
<1> QED
  BY <1>2, <1>3, <1>5, RecallIs, RecallStep DEF MemoryIInv

LEMMA QueryVectorsKeeps ==
  ASSUME MemoryIInv, QueryVectors
  PROVE  MemoryIInv'
<1>1. PICK found : found = VectorMatches
  OBVIOUS
<1>2. /\ recall' = [recall EXCEPT !.step = "load", !.matches = found]
      /\ recall.step = "vectors"
      /\ UNCHANGED <<records, vectors, calls, uncleaned, memoryCalls, availableSince, recalls,
                     memoryFaults>>
  BY <1>1 DEF QueryVectors, Recalls
<1>3. found \subseteq [id : Memories, lifecycleVersion : Nat]
  BY <1>1, RecallIs DEF VectorMatches
<1>4. RecallOK'
  BY <1>2, <1>3, RecallIs DEF RecallOK, Seen, MemoryIInv
<1> QED
  BY <1>2, <1>3, <1>4, RecallIs, RecallStep DEF MemoryIInv

LEMMA SemanticUnavailableKeeps ==
  ASSUME MemoryIInv, SemanticUnavailable
  PROVE  MemoryIInv'
<1>1. PICK to \in {"engine", "keyword"}, strategy \in {recall.strategy, "keyword"} :
        /\ recall' = [recall EXCEPT !.candidates = {}, !.matches = {}, !.step = to,
                                    !.strategy = strategy]
        /\ recall.step \in {"vectors", "load"}
        /\ UNCHANGED <<records, vectors, calls, uncleaned, memoryCalls, availableSince, recalls>>
  BY DEF SemanticUnavailable, Recalls
<1>2. memoryFaults' \in 0..MaxMemoryFaults
  BY MemoryAssumption DEF MemoryIInv, MemoryTypeOK, SemanticUnavailable, Faults
<1>3. RecallOK'
  BY <1>1, RecallIs DEF RecallOK, Seen, MemoryIInv
<1> QED
  BY <1>1, <1>2, <1>3, RecallIs, RecallStep DEF MemoryIInv

LEMMA LoadKeeps ==
  ASSUME MemoryIInv, NEW match \in recall.matches, Load(match)
  PROVE  MemoryIInv'
<1>1. PICK more : more = IF isCanonicalVectorMatchValid(match)
                           THEN recall.candidates \cup {Candidate(match.id)} ELSE recall.candidates
  OBVIOUS
<1>2. /\ recall' = [recall EXCEPT !.matches = @ \ {match}, !.candidates = more]
      /\ recall.step = "load"
      /\ UNCHANGED <<records, vectors, calls, uncleaned, memoryCalls, availableSince, recalls,
                     memoryFaults>>
  BY <1>1 DEF Load, Recalls
<1>3. match.id \in Memories
  BY RecallIs
<1>4. more \subseteq [id : Memories, record : MemoryRecord]
  BY <1>1, <1>3, RecallIs DEF Candidate
<1>5. Seen(more)
  BY <1>1, <1>2, <1>3, RecallIs DEF Candidate, Seen, RecallOK
<1>6. RecallOK'
  BY <1>2, <1>5, RecallIs DEF RecallOK, Seen, MemoryIInv
<1> QED
  BY <1>2, <1>4, <1>6, RecallIs, RecallStep DEF MemoryIInv

LEMMA AnswerKeeps ==
  ASSUME MemoryIInv, Answer
  PROVE  MemoryIInv'
<1>1. PICK found : found = fuseHybridCandidates(recall.keyword, recall.candidates)
  OBVIOUS
<1>2. PICK answered : answered = {candidate.id : candidate \in {f \in found : Recallable(f)}}
  OBVIOUS
<1>3. PICK new : new = [NoRecall EXCEPT !.step = "answered", !.recalled = answered]
  OBVIOUS
<1>4. /\ recall' = new /\ recall.step # "idle"
      /\ UNCHANGED <<records, vectors, calls, uncleaned, memoryCalls, availableSince, recalls,
                     memoryFaults>>
  BY <1>1, <1>2, <1>3 DEF Answer, Recalls
<1>5. \A k \in found : k \in recall.keyword \/ k \in recall.candidates
  BY <1>1 DEF fuseHybridCandidates
<1>6. answered \subseteq availableSince /\ answered \subseteq Memories
  BY <1>2, <1>5, RecallIs DEF RecallOK, Seen, Recallable
<1>7. /\ new.keyword = {} /\ new.matches = {} /\ new.candidates = {} /\ new.recalled = answered
      /\ new.step = "answered" /\ new.strategy = "keyword"
      /\ new = [step |-> new.step, strategy |-> new.strategy, keyword |-> new.keyword,
                matches |-> new.matches, candidates |-> new.candidates, recalled |-> new.recalled]
  BY <1>3 DEF NoRecall
<1>8. RecallOK'
  BY <1>4, <1>7, RecallIs DEF RecallOK, Seen
<1> QED
  BY <1>4, <1>6, <1>7, <1>8, RecallIs, RecallStep

-----------------------------------------------------------------------------
(* Memory: the theorem. *)

Successive ==
  \A m \in Memories : records'[m] # records[m] =>
    \E action \in Actions : records'[m] = Updated([current |-> records[m], action |-> action])

LEMMA MemoryStepOK == MemoryIInv /\ [MemoryNext]_memoryVars => MemoryIInv' /\ (Successive \/ UNCHANGED memoryVars)
<1> SUFFICES ASSUME MemoryIInv, [MemoryNext]_memoryVars
             PROVE  MemoryIInv' /\ (Successive \/ UNCHANGED memoryVars)
  OBVIOUS
<1>1. CASE \E c \in MemoryCallers, action \in Actions, m \in Memories :
             \E expected \in 0..records[m].version : Begin(c, action, m, expected)
  BY <1>1, BeginKeeps DEF Begin, Successive
<1>2. CASE \E c \in MemoryCallers :
             Read(c) \/ Index(c) \/ Find(c) \/ Publish(c) \/ Clean(c) \/ MemoryCallFails(c)
  <2>1. UNCHANGED records
    BY <1>2 DEF Read, Index, Find, Publish, Clean, MemoryCallFails
  <2> QED
    BY <1>2, <2>1, ReadKeeps, IndexKeeps, FindKeeps, PublishKeeps, CleanKeeps, MemoryCallFailsKeeps
       DEF Successive
<1>3. CASE \E c \in MemoryCallers : Commit(c)
  BY <1>3, CommitKeeps DEF Successive
<1>4. CASE \/ \E strategy \in Strategies : Retrieve(strategy)
           \/ Keyword \/ QueryVectors \/ SemanticUnavailable \/ Answer
           \/ \E match \in recall.matches : Load(match)
  <2>1. UNCHANGED records
    BY <1>4 DEF Retrieve, Keyword, QueryVectors, SemanticUnavailable, Answer, Load, Recalls
  <2> QED
    BY <1>4, <2>1, RetrieveKeeps, KeywordKeeps, QueryVectorsKeeps, SemanticUnavailableKeeps,
       AnswerKeeps, LoadKeeps DEF Successive
<1>5. CASE UNCHANGED memoryVars
  BY <1>5 DEF memoryVars, MemoryIInv, MemoryTypeOK, RecalledWasAvailable, RecallOK, Seen
<1> QED
  BY <1>1, <1>2, <1>3, <1>4, <1>5 DEF MemoryNext

(* Whatever calls and recalls overlap, no write of a memory is lost, and only what was  *)
(* available while a recall ran is recalled (memory/src/index.ts,                           *)
(* persistence-backed-memory-provider.ts).                                                    *)
THEOREM MemoriesAreKept == MemorySpec => MemoryCorrect
<1>1. MemoryIInv => MemoryTypeOK /\ RecalledWasAvailable
  BY DEF MemoryIInv
<1>2. MemoryIInv /\ [MemoryNext]_memoryVars =>
        [\A m \in Memories : records'[m] # records[m] =>
           \E action \in Actions :
              records'[m] = Updated([current |-> records[m], action |-> action])]_memoryVars
  BY MemoryStepOK DEF Successive
<1> QED
  BY <1>1, <1>2, MemoryInitOK, MemoryStepOK, PTL DEF MemorySpec, MemoryCorrect, WritesAreSuccessive

-----------------------------------------------------------------------------
(* Deployment: the inductive invariant. *)

Versions == ToSet(Releases) \cup {NoRelease}
Components == 1..Len(StartupOrder)
DeploymentStatus ==
  [state : {"none", "ready", "failed", "stopped"}, active : Versions, previous : Versions]
ProvidedState == [version : Versions, up : SUBSET ToSet(StartupOrder)]

Operation ==
  [step : {"idle", "stopping", "scaling"} \cup StartsOrStops \cup ChangesVersion,
   component : 0..Len(StartupOrder), current : DeploymentStatus, target : Versions]

CountOK(op) ==
  /\ op.step \in {"configuring", "preparing"} => op.component = 0
  /\ op.step \in {"starting", "stopping"} => op.component < Len(StartupOrder)

\* two operations of one sort have met, and while one that has met another is at work nothing is settled
Holds(history, steps, ops) ==
  /\ history \in [clear : BOOLEAN, crossed : SUBSET Operators]
  /\ \A o, q \in Operators : ops[o].step \in steps /\ ops[q].step \in steps /\ o # q =>
       o \in history.crossed
  /\ \A o \in Operators : ops[o].step \in steps /\ o \in history.crossed => ~history.clear

\* how far up, or down, an operation has come that met no other
OrderOp(op, up) ==
  /\ op.step = "starting" => \A m \in Components : m <= op.component => StartupOrder[m] \in up
  /\ op.step = "stopping" =>
       \A m \in Components : m > Len(StartupOrder) - op.component => StartupOrder[m] \notin up

\* the version that it has told the provider of
VersionOp(op, release) ==
  op.step \in {"verifying", "upgrade verifying", "rollback verifying"} => release = op.target

InStartupOrder(up) ==
  \A m, n \in Components : m < n /\ StartupOrder[n] \in up => StartupOrder[m] \in up

Consistent(history, ops, s, release) ==
  (/\ history.clear /\ s.state = "ready"
   /\ \A q \in Operators : ops[q].step \notin ChangesVersion)
  => release = s.active

DeploymentIInv ==
  /\ status \in DeploymentStatus /\ provided \in ProvidedState
  /\ operation \in [Operators -> Operation] /\ \A o \in Operators : CountOK(operation[o])
  /\ Holds(ordering, StartsOrStops, operation) /\ Holds(versioning, ChangesVersion, operation)
  /\ ordering.clear => InStartupOrder(provided.up)
  /\ \A o \in Operators \ ordering.crossed : OrderOp(operation[o], provided.up)
  /\ Consistent(versioning, operation, status, provided.version)
  /\ \A o \in Operators \ versioning.crossed : VersionOp(operation[o], provided.version)

-----------------------------------------------------------------------------
(* Deployment: lemmas. *)

LEMMA OrderIs ==
  /\ Len(StartupOrder) \in Nat \ {0} /\ DOMAIN StartupOrder = Components
  /\ \A n \in Components : StartupOrder[n] \in ToSet(StartupOrder)
  /\ \A m, n \in Components : StartupOrder[m] = StartupOrder[n] => m = n
<1>1. /\ StartupOrder \in Seq(ToSet(StartupOrder)) /\ Len(StartupOrder) > 0
      /\ IsInjective(StartupOrder)
  BY DeploymentAssumption
<1> QED
  BY <1>1 DEF IsInjective, Components

\* Of an operation that begins nothing is done.
LEMMA NoneYet ==
  0 < Len(StartupOrder) /\ 0 \in 0..Len(StartupOrder)
    /\ \A m \in Components : ~(m <= 0) /\ ~(m > Len(StartupOrder) - 0)
<1>1. PICK n \in Nat \ {0} : n = Len(StartupOrder)
  BY OrderIs, Zenon
<1>2. Components = 1..n
  BY <1>1, Zenon DEF Components
<1>3. 0 < n /\ 0 \in 0..n /\ \A m \in 1..n : ~(m <= 0) /\ ~(m > n - 0)
  OBVIOUS
<1> QED
  BY <1>1, <1>2, <1>3, Zenon

LEMMA HeadIsRelease == Head(Releases) \in ToSet(Releases)
<1>1. Releases \in Seq(ToSet(Releases)) /\ Len(Releases) > 0
  BY DeploymentAssumption
<1> QED
  BY <1>1

\* What is known goes on as it was, an operation begins, or one ends that settles or unsettles it.
HistoryStep(history, next, steps, o, step) ==
  \/ next = history /\ (step \in steps => operation[o].step \in steps)
  \/ operation[o].step = "idle" /\ next = Meets(history, steps, o, step)
  \/ operation[o].step \in steps /\ step \notin steps
     /\ (next = Settled(history, o) \/ next = Unsettled(history))

KeptBy(history, next, steps, o, ops) ==
  /\ Holds(next, steps, ops)
  /\ \A q \in Operators : q # o /\ q \notin next.crossed => q \notin history.crossed
  /\ operation[o].step \in steps =>
       \A q \in Operators : q # o /\ q \notin next.crossed => operation[q].step \notin steps

LEMMA HistoryKeeps ==
  ASSUME operation \in [Operators -> Operation], NEW o \in Operators, NEW op, NEW ops,
         ops = [operation EXCEPT ![o] = op],
         NEW steps, "idle" \notin steps, NEW history, NEW next,
         Holds(history, steps, operation), HistoryStep(history, next, steps, o, op.step)
  PROVE  KeptBy(history, next, steps, o, ops)
<1>1. ops[o] = op /\ \A q \in Operators : q # o => ops[q] = operation[q]
  OBVIOUS
<1>2. /\ history \in [clear : BOOLEAN, crossed : SUBSET Operators]
      /\ \A p, q \in Operators : operation[p].step \in steps /\ operation[q].step \in steps /\ p # q =>
           p \in history.crossed
      /\ \A q \in Operators : operation[q].step \in steps /\ q \in history.crossed => ~history.clear
  BY DEF Holds
<1>3. CASE next = history /\ (op.step \in steps => operation[o].step \in steps)
  <2>1. Holds(next, steps, ops)
    BY <1>1, <1>2, <1>3 DEF Holds
  <2> QED
    BY <1>2, <1>3, <2>1 DEF KeptBy
<1>4. CASE operation[o].step = "idle" /\ next = Meets(history, steps, o, op.step)
  <2>1. CASE op.step \notin steps
    BY <1>3, <1>4, <2>1 DEF Meets
  <2>2. CASE op.step \in steps /\ AtWork(steps) = {}
    <3>1. next.clear = history.clear /\ next.crossed = history.crossed \ {o}
          /\ next \in [clear : BOOLEAN, crossed : SUBSET Operators]
      BY <1>2, <1>4, <2>2 DEF Meets
    <3>2. \A q \in Operators : operation[q].step \notin steps
      BY <2>2 DEF AtWork
    <3>3. Holds(next, steps, ops)
      BY <1>1, <3>1, <3>2 DEF Holds
    <3> QED
      BY <3>1, <3>2, <3>3 DEF KeptBy
  <2>3. CASE op.step \in steps /\ AtWork(steps) # {}
    <3>1. /\ next.clear = FALSE /\ next.crossed = history.crossed \cup AtWork(steps) \cup {o}
          /\ next \in [clear : BOOLEAN, crossed : SUBSET Operators]
      BY <1>2, <1>4, <2>3 DEF Meets, AtWork
    <3>2. \A q \in Operators : ops[q].step \in steps => q \in next.crossed
      BY <1>1, <3>1 DEF AtWork
    <3>3. Holds(next, steps, ops)
      BY <3>1, <3>2 DEF Holds
    <3> QED
      BY <1>4, <3>1, <3>3 DEF KeptBy
  <2> QED
    BY <2>1, <2>2, <2>3
<1>5. CASE operation[o].step \in steps /\ op.step \notin steps /\ next = Settled(history, o)
  <2>1. CASE o \in history.crossed
    BY <1>3, <1>5, <2>1 DEF Settled
  <2>2. CASE o \notin history.crossed
    <3>1. next.crossed = history.crossed /\ next \in [clear : BOOLEAN, crossed : SUBSET Operators]
      BY <1>2, <1>5, <2>2 DEF Settled
    <3>2. \A q \in Operators : ops[q].step \notin steps
      BY <1>1, <1>2, <1>5, <2>2
    <3>3. Holds(next, steps, ops)
      BY <3>1, <3>2 DEF Holds
    <3> QED
      BY <1>2, <1>5, <2>2, <3>1, <3>3 DEF KeptBy
  <2> QED
    BY <2>1, <2>2
<1>6. CASE operation[o].step \in steps /\ op.step \notin steps /\ next = Unsettled(history)
  <2>1. /\ next.crossed = history.crossed /\ next.clear = FALSE
        /\ next \in [clear : BOOLEAN, crossed : SUBSET Operators]
    BY <1>2, <1>6 DEF Unsettled
  <2>2. Holds(next, steps, ops)
    BY <1>1, <1>2, <1>6, <2>1 DEF Holds
  <2> QED
    BY <1>2, <1>6, <2>1, <2>2 DEF KeptBy
<1> QED
  BY <1>3, <1>4, <1>5, <1>6 DEF HistoryStep

LEMMA DeploymentInitOK == DeploymentInit => DeploymentIInv
<1> SUFFICES ASSUME DeploymentInit PROVE DeploymentIInv
  OBVIOUS
<1>1. NoStatus \in DeploymentStatus
  BY DEF NoStatus, DeploymentStatus, Versions
<1>2. AtRest \in Operation /\ AtRest.step = "idle"
  BY <1>1, OrderIs DEF AtRest, Operation, Versions
<1>3. /\ status = NoStatus /\ provided = [version |-> NoRelease, up |-> {}]
      /\ operation = [o \in Operators |-> AtRest]
      /\ ordering = [clear |-> TRUE, crossed |-> {}] /\ versioning = [clear |-> TRUE, crossed |-> {}]
  BY DEF DeploymentInit
<1>4. operation \in [Operators -> Operation] /\ \A o \in Operators : operation[o].step = "idle"
  BY <1>2, <1>3
<1>5. "idle" \notin StartsOrStops /\ "idle" \notin ChangesVersion
  BY DEF StartsOrStops, ChangesVersion
<1>6. Holds(ordering, StartsOrStops, operation) /\ Holds(versioning, ChangesVersion, operation)
  BY <1>3, <1>4, <1>5 DEF Holds
<1>7. provided \in ProvidedState /\ InStartupOrder(provided.up) /\ status.state = "none"
  BY <1>3 DEF ProvidedState, InStartupOrder, Versions, NoStatus
<1>8. ASSUME NEW o \in Operators
      PROVE  /\ CountOK(operation[o]) /\ OrderOp(operation[o], provided.up)
             /\ VersionOp(operation[o], provided.version)
  <2> PICK op : op = operation[o]
    OBVIOUS
  <2>1. op.step = "idle"
    BY <1>4
  <2>2. CountOK(op)
    BY <2>1 DEF CountOK
  <2>3. OrderOp(op, provided.up)
    BY <2>1 DEF OrderOp
  <2>4. VersionOp(op, provided.version)
    BY <2>1 DEF VersionOp
  <2> QED
    BY <2>2, <2>3, <2>4
<1> QED
  BY <1>1, <1>3, <1>4, <1>6, <1>7, <1>8 DEF DeploymentIInv, Consistent

\* One operator takes a step, whatever others are at.
LEMMA OperatorStep ==
  ASSUME DeploymentIInv, NEW o \in Operators, NEW op \in Operation, CountOK(op),
         operation' = [operation EXCEPT ![o] = op],
         status' \in DeploymentStatus, provided' \in ProvidedState,
         HistoryStep(ordering, ordering', StartsOrStops, o, op.step),
         HistoryStep(versioning, versioning', ChangesVersion, o, op.step),
         provided'.up = provided.up \/ operation[o].step \in StartsOrStops,
         ordering'.clear => InStartupOrder(provided'.up),
         o \notin ordering'.crossed => OrderOp(op, provided'.up),
         provided'.version = provided.version \/ operation[o].step \in ChangesVersion,
         o \notin versioning'.crossed => VersionOp(op, provided'.version),
         Consistent(versioning', operation', status', provided'.version)
  PROVE  DeploymentIInv'
<1> PICK ops : ops = operation'
  OBVIOUS
<1> PICK orders, releases : orders = ordering' /\ releases = versioning'
  OBVIOUS
<1>1. /\ operation \in [Operators -> Operation] /\ ops = [operation EXCEPT ![o] = op]
      /\ "idle" \notin StartsOrStops /\ "idle" \notin ChangesVersion
  BY DEF DeploymentIInv, StartsOrStops, ChangesVersion
<1>2. /\ Holds(ordering, StartsOrStops, operation) /\ Holds(versioning, ChangesVersion, operation)
      /\ HistoryStep(ordering, orders, StartsOrStops, o, op.step)
      /\ HistoryStep(versioning, releases, ChangesVersion, o, op.step)
  BY DEF DeploymentIInv
<1>3. KeptBy(ordering, orders, StartsOrStops, o, ops)
  BY <1>1, <1>2, HistoryKeeps, Zenon
<1>4. KeptBy(versioning, releases, ChangesVersion, o, ops)
  BY <1>1, <1>2, HistoryKeeps, Zenon
<1>5. ops \in [Operators -> Operation] /\ ops[o] = op /\ \A q \in Operators : q # o => ops[q] = operation[q]
  BY <1>1
<1>6. \A q \in Operators : CountOK(ops[q])
  BY <1>5 DEF DeploymentIInv
<1>7. ASSUME NEW q \in Operators \ orders.crossed PROVE OrderOp(ops[q], provided'.up)
  <2>1. CASE q = o
    BY <1>5, <1>7, <2>1
  <2>2. CASE q # o
    <3>1. OrderOp(operation[q], provided.up) /\ ops[q] = operation[q]
      BY <1>3, <1>5, <1>7, <2>2 DEF KeptBy, DeploymentIInv
    <3>2. CASE provided'.up = provided.up
      BY <3>1, <3>2
    <3>3. CASE operation[o].step \in StartsOrStops
      BY <1>3, <1>7, <2>2, <3>1, <3>3 DEF KeptBy, OrderOp, StartsOrStops
    <3> QED
      BY <3>2, <3>3
  <2> QED
    BY <2>1, <2>2
<1>8. ASSUME NEW q \in Operators \ releases.crossed PROVE VersionOp(ops[q], provided'.version)
  <2>1. CASE q = o
    BY <1>5, <1>8, <2>1
  <2>2. CASE q # o
    <3>1. VersionOp(operation[q], provided.version) /\ ops[q] = operation[q]
      BY <1>4, <1>5, <1>8, <2>2 DEF KeptBy, DeploymentIInv
    <3>2. CASE provided'.version = provided.version
      BY <3>1, <3>2
    <3>3. CASE operation[o].step \in ChangesVersion
      BY <1>4, <1>8, <2>2, <3>1, <3>3 DEF KeptBy, VersionOp, ChangesVersion
    <3> QED
      BY <3>2, <3>3
  <2> QED
    BY <2>1, <2>2
<1> QED
  BY <1>3, <1>4, <1>5, <1>6, <1>7, <1>8 DEF KeptBy, DeploymentIInv

\* What is so of an operator at work.
LEMMA OperatorIs ==
  ASSUME DeploymentIInv, NEW o \in Operators
  PROVE  /\ operation[o] \in Operation /\ operation[o].step = Step(o) /\ CountOK(operation[o])
         /\ operation[o].current \in DeploymentStatus /\ operation[o].target \in Versions
         /\ status \in DeploymentStatus /\ provided \in ProvidedState
         /\ ordering.clear => InStartupOrder(provided.up)
         /\ o \notin ordering.crossed => OrderOp(operation[o], provided.up)
         /\ o \notin versioning.crossed => VersionOp(operation[o], provided.version)
         /\ Step(o) \in StartsOrStops /\ o \in ordering.crossed => ordering.clear = FALSE
         /\ Step(o) \in ChangesVersion /\ o \in versioning.crossed => versioning.clear = FALSE
         /\ ordering.clear \in BOOLEAN /\ versioning.clear \in BOOLEAN
BY DEF DeploymentIInv, Step, Operation, Holds

\* What is settled is so unless the operation met another, and then it is not settled.
LEMMA SettledIs ==
  ASSUME NEW history \in [clear : BOOLEAN, crossed : SUBSET Operators], NEW o \in Operators
  PROVE  /\ Settled(history, o).crossed = history.crossed
         /\ o \in history.crossed => Settled(history, o) = history
         /\ Unsettled(history).crossed = history.crossed /\ Unsettled(history).clear = FALSE
BY DEF Settled, Unsettled

LEMMA CallsKeeps ==
  ASSUME DeploymentIInv, NEW o \in Operators,
         NEW step \in {"configuring", "stopping", "scaling", "upgrading", "rolling back"},
         NEW target \in Versions, Calls(o, step, target)
  PROVE  DeploymentIInv'
<1>1. PICK op : op = [step |-> step, component |-> 0, current |-> status, target |-> target]
  OBVIOUS
<1>2. /\ operation' = [operation EXCEPT ![o] = op] /\ UNCHANGED <<status, provided>>
      /\ operation[o].step = "idle"
      /\ ordering' = Meets(ordering, StartsOrStops, o, step)
      /\ versioning' = Meets(versioning, ChangesVersion, o, step)
  BY <1>1 DEF Calls, Step
<1>3. status \in DeploymentStatus /\ provided \in ProvidedState
  BY DEF DeploymentIInv
<1>4. op \in Operation /\ op.step = step /\ op.component = 0
  <2>1. step \in {"idle", "stopping", "scaling"} \cup StartsOrStops \cup ChangesVersion
    BY DEF StartsOrStops, ChangesVersion
  <2> QED
    BY <1>1, <1>3, <2>1, NoneYet DEF Operation
<1>5. CountOK(op) /\ OrderOp(op, provided.up) /\ VersionOp(op, provided.version)
  <2>1. OrderOp(op, provided.up)
    BY <1>4, NoneYet DEF OrderOp
  <2> QED
    BY <1>4, <2>1, NoneYet DEF CountOK, VersionOp
<1>6. /\ HistoryStep(ordering, ordering', StartsOrStops, o, op.step)
      /\ HistoryStep(versioning, versioning', ChangesVersion, o, op.step)
  BY <1>2, <1>4 DEF HistoryStep
<1>7. ordering'.clear => InStartupOrder(provided'.up)
  <2>1. ordering'.clear => ordering.clear
    BY <1>2 DEF Meets, DeploymentIInv, Holds
  <2> QED
    BY <1>2, <2>1 DEF DeploymentIInv
<1>8. Consistent(versioning', operation', status', provided'.version)
  <2>1. CASE step \in ChangesVersion
    <3>1. operation'[o].step \in ChangesVersion
      BY <1>2, <1>4, <2>1 DEF DeploymentIInv
    <3> QED
      BY <3>1 DEF Consistent
  <2>2. CASE step \notin ChangesVersion
    <3>1. versioning' = versioning
      BY <1>2, <2>2 DEF Meets
    <3>2. (\A q \in Operators : operation'[q].step \notin ChangesVersion) =>
            \A q \in Operators : operation[q].step \notin ChangesVersion
      BY <1>2 DEF DeploymentIInv, ChangesVersion
    <3> QED
      BY <1>2, <3>1, <3>2 DEF Consistent, DeploymentIInv
  <2> QED
    BY <2>1, <2>2
<1> QED
  BY <1>2, <1>3, <1>4, <1>5, <1>6, <1>7, <1>8, OperatorStep

LEMMA DeployBegins ==
  ASSUME DeploymentIInv, NEW o \in Operators,
         deploy(o) \/ stop(o) \/ scale(o) \/ upgrade(o) \/ rollback(o)
  PROVE  DeploymentIInv'
<1>1. PICK step \in {"configuring", "stopping", "scaling", "upgrading", "rolling back"},
           target \in Versions : Calls(o, step, target)
  <2>1. Head(Releases) \in Versions /\ NoRelease \in Versions /\ status.previous \in Versions
        /\ ToSet(Releases) \subseteq Versions
    BY HeadIsRelease DEF Versions, DeploymentIInv, DeploymentStatus
  <2> QED
    BY <2>1 DEF deploy, stop, scale, upgrade, rollback
<1> QED
  BY <1>1, CallsKeeps

\* An operator that returns is done with what it counted.
LEMMA RestIs ==
  /\ AtRest \in Operation /\ AtRest.step = "idle" /\ CountOK(AtRest)
  /\ \A up, release : OrderOp(AtRest, up) /\ VersionOp(AtRest, release)
<1>1. NoStatus \in DeploymentStatus
  BY DEF NoStatus, DeploymentStatus, Versions
<1>2. AtRest \in Operation /\ AtRest.step = "idle"
  BY <1>1, OrderIs DEF AtRest, Operation, Versions
<1> QED
  BY <1>2 DEF CountOK, OrderOp, VersionOp

\* An operation goes to a step that starts and stops nothing yet.
LEMMA StepsKeeps ==
  ASSUME DeploymentIInv, NEW o \in Operators, NEW step \in ChangesVersion, StepsTo(o, step),
         Step(o) \in ChangesVersion,
         \/ Step(o) = "configuring" /\ step = "preparing"
         \/ Step(o) = "preparing" /\ step = "starting"
         \/ step \notin StartsOrStops \cup {"verifying"},
         UNCHANGED <<ordering, versioning>>,
         status' \in DeploymentStatus, provided' \in ProvidedState, provided'.up = provided.up,
         step \in {"upgrade verifying", "rollback verifying"} => provided'.version = operation[o].target
  PROVE  DeploymentIInv'
<1> PICK old : old = operation[o]
  OBVIOUS
<1> PICK op : op = [old EXCEPT !.step = step]
  OBVIOUS
<1>1. operation' = [operation EXCEPT ![o] = op]
  BY DEF StepsTo
<1>2. old \in Operation /\ old.step = Step(o) /\ CountOK(old)
  BY OperatorIs
<1>3. /\ op \in Operation /\ op.step = step /\ op.component = old.component /\ op.target = old.target
  BY <1>2 DEF Operation
<1>4. CountOK(op) /\ OrderOp(op, provided.up)
  <2>1. CASE step \in {"preparing", "starting"}
    <3>1. op.component = 0
      BY <1>2, <1>3, <2>1 DEF CountOK, StartsOrStops
    <3>2. OrderOp(op, provided.up)
      BY <1>3, <2>1, <3>1, NoneYet DEF OrderOp
    <3> QED
      BY <1>3, <2>1, <3>1, <3>2, NoneYet DEF CountOK
  <2>2. CASE step \notin {"preparing", "starting"}
    <3>1. step \notin StartsOrStops
      BY <2>2
    <3> QED
      BY <1>3, <3>1 DEF CountOK, OrderOp, StartsOrStops
  <2> QED
    BY <2>1, <2>2
<1>5. VersionOp(op, provided'.version)
  BY <1>3 DEF VersionOp, StartsOrStops
<1>6. /\ HistoryStep(ordering, ordering', StartsOrStops, o, op.step)
      /\ HistoryStep(versioning, versioning', ChangesVersion, o, op.step)
  BY <1>2, <1>3 DEF HistoryStep, StartsOrStops
<1>7. Consistent(versioning', operation', status', provided'.version)
  <2>1. operation'[o].step \in ChangesVersion
    BY <1>1, <1>3 DEF DeploymentIInv
  <2> QED
    BY <2>1 DEF Consistent
<1>8. ordering'.clear => InStartupOrder(provided'.up)
  BY OperatorIs
<1>9. old.step \in ChangesVersion
  BY <1>2
<1> QED
  BY <1>1, <1>3, <1>4, <1>5, <1>6, <1>7, <1>8, <1>9, OperatorStep

\* An operation that changes the version ends.
LEMMA EndsKeeps ==
  ASSUME DeploymentIInv, NEW o \in Operators, Returns(o),
         Step(o) \in ChangesVersion, UNCHANGED ordering,
         status' \in DeploymentStatus, provided' \in ProvidedState, provided'.up = provided.up,
         \/ /\ versioning' = Settled(versioning, o)
            /\ o \notin versioning.crossed /\ status'.state = "ready" =>
                 provided'.version = status'.active
         \/ versioning' = versioning /\ status'.state # "ready"
         \/ versioning' = Unsettled(versioning)
  PROVE  DeploymentIInv'
<1>1. operation' = [operation EXCEPT ![o] = AtRest]
  BY DEF Returns
<1>2. AtRest.step \notin StartsOrStops /\ AtRest.step \notin ChangesVersion
  BY RestIs DEF StartsOrStops, ChangesVersion
<1>3. operation[o].step = Step(o)
  BY DEF Step
<1>4. /\ HistoryStep(ordering, ordering', StartsOrStops, o, AtRest.step)
      /\ HistoryStep(versioning, versioning', ChangesVersion, o, AtRest.step)
  BY <1>2, <1>3 DEF HistoryStep
<1>5. Consistent(versioning', operation', status', provided'.version)
  <2>1. versioning \in [clear : BOOLEAN, crossed : SUBSET Operators]
    BY DEF DeploymentIInv, Holds
  <2>2. CASE versioning' = Unsettled(versioning)
    BY <2>1, <2>2, SettledIs DEF Consistent
  <2>3. CASE versioning' = Settled(versioning, o) /\ o \in versioning.crossed
    <3>1. versioning' = versioning /\ versioning.clear = FALSE
      BY <2>1, <2>3, SettledIs, OperatorIs
    <3> QED
      BY <3>1 DEF Consistent
  <2>4. CASE o \notin versioning.crossed /\ (status'.state = "ready" => provided'.version = status'.active)
    BY <2>4 DEF Consistent
  <2>5. CASE status'.state # "ready"
    BY <2>5 DEF Consistent
  <2> QED
    BY <2>2, <2>3, <2>4, <2>5
<1>6. ordering'.clear => InStartupOrder(provided'.up)
  BY OperatorIs
<1>7. operation[o].step \in ChangesVersion
  BY <1>3
<1> QED
  BY <1>1, <1>4, <1>5, <1>6, <1>7, RestIs, OperatorStep

-----------------------------------------------------------------------------
(* Deployment: the steps of the operations. *)

LEMMA StartsComponentKeeps ==
  ASSUME DeploymentIInv, NEW o \in Operators, StartsComponent(o)
  PROVE  DeploymentIInv'
<1>1. PICK old : old = operation[o]
  OBVIOUS
<1>2. PICK n : n = old.component + 1
  OBVIOUS
<1>3. PICK step : step = IF n = Len(StartupOrder) THEN "verifying" ELSE "starting"
  OBVIOUS
<1>4. PICK op : op = [old EXCEPT !.component = n, !.step = step]
  OBVIOUS
<1>5. PICK up : up = provided.up \cup {StartupOrder[n]}
  OBVIOUS
<1>6. old.step = "starting" /\ Step(o) = "starting"
  BY <1>1 DEF StartsComponent, Step
<1>7. /\ operation' = [operation EXCEPT ![o] = op]
      /\ provided' = [version |-> old.target, up |-> up] /\ UNCHANGED <<status, versioning>>
      /\ ordering' = IF n = Len(StartupOrder) THEN Settled(ordering, o) ELSE ordering
  BY <1>1, <1>2, <1>3, <1>4, <1>5, <1>6 DEF StartsComponent
<1>8. /\ old \in Operation /\ CountOK(old) /\ status \in DeploymentStatus
      /\ provided \in ProvidedState /\ old.target \in Versions
      /\ ordering.clear => InStartupOrder(provided.up) /\ o \notin ordering.crossed
      /\ o \notin ordering.crossed => OrderOp(old, provided.up)
  <2>1. Step(o) \in StartsOrStops
    BY <1>6 DEF StartsOrStops
  <2> QED
    BY <1>1, <2>1, OperatorIs
<1>9. /\ old.component < Len(StartupOrder)
      /\ o \notin ordering.crossed =>
           \A m \in Components : m <= old.component => StartupOrder[m] \in provided.up
  BY <1>6, <1>8 DEF CountOK, OrderOp
<1>10. /\ n \in Components /\ n \in 0..Len(StartupOrder) /\ n <= Len(StartupOrder)
       /\ \A m \in Components : m < n => m <= old.component
       /\ \A m \in Components : m <= n <=> m = n \/ m < n
       /\ n # Len(StartupOrder) => n < Len(StartupOrder)
       /\ n = Len(StartupOrder) => \A m \in Components : m <= n
  <2>1. PICK len \in Nat \ {0} : len = Len(StartupOrder)
    BY OrderIs, Zenon
  <2>2. old.component \in 0..len /\ old.component < len /\ Components = 1..len
    BY <1>8, <1>9, <2>1 DEF Operation, Components
  <2> QED
    BY <1>2, <2>1, <2>2
<1>11. StartupOrder[n] \in ToSet(StartupOrder)
  BY <1>10, OrderIs
<1>12. op \in Operation /\ op.step = step /\ op.component = n /\ op.target = old.target
  <2>1. step \in ChangesVersion
    BY <1>3 DEF ChangesVersion
  <2> QED
    BY <1>4, <1>8, <1>10, <2>1 DEF Operation
<1>13. provided' \in ProvidedState /\ provided'.up = up /\ provided'.version = old.target
  BY <1>5, <1>7, <1>8, <1>11 DEF ProvidedState
<1>14. o \notin ordering.crossed => \A m \in Components : m <= n => StartupOrder[m] \in up
  BY <1>5, <1>9, <1>10
<1>15. ASSUME ordering.clear PROVE InStartupOrder(up)
  <2>1. ASSUME NEW m \in Components, NEW k \in Components, m < k, StartupOrder[k] \in up
        PROVE  StartupOrder[m] \in up
    <3>1. CASE StartupOrder[k] \in provided.up
      BY <1>5, <1>8, <1>15, <2>1, <3>1 DEF InStartupOrder
    <3>2. CASE StartupOrder[k] = StartupOrder[n]
      <4>1. k = n
        BY <1>10, <3>2, OrderIs
      <4> QED
        BY <1>8, <1>10, <1>14, <1>15, <2>1, <4>1
    <3> QED
      BY <1>5, <2>1, <3>1, <3>2
  <2> QED
    BY <2>1 DEF InStartupOrder
<1>16. ordering'.clear => InStartupOrder(provided'.up)
  <2>1. CASE ordering' = ordering
    BY <1>13, <1>15, <2>1
  <2>2. CASE n = Len(StartupOrder) /\ o \notin ordering.crossed
    BY <1>10, <1>13, <1>14, <2>2 DEF InStartupOrder
  <2> QED
    BY <1>7, <2>1, <2>2 DEF Settled
<1>17. CountOK(op) /\ VersionOp(op, provided'.version)
  BY <1>3, <1>10, <1>12, <1>13 DEF CountOK, VersionOp
<1>18. o \notin ordering'.crossed => OrderOp(op, provided'.up)
  <2>1. ordering'.crossed = ordering.crossed
    <3>1. ordering \in [clear : BOOLEAN, crossed : SUBSET Operators]
      BY DEF DeploymentIInv, Holds
    <3> QED
      BY <1>7, <3>1, SettledIs
  <2> QED
    BY <1>3, <1>12, <1>13, <1>14, <2>1 DEF OrderOp
<1>19. /\ HistoryStep(ordering, ordering', StartsOrStops, o, op.step)
       /\ HistoryStep(versioning, versioning', ChangesVersion, o, op.step)
       /\ operation[o].step \in StartsOrStops /\ operation[o].step \in ChangesVersion
  BY <1>1, <1>3, <1>6, <1>7, <1>12 DEF HistoryStep, StartsOrStops, ChangesVersion
<1>20. Consistent(versioning', operation', status', provided'.version)
  <2>1. operation'[o].step \in ChangesVersion
    BY <1>3, <1>7, <1>12 DEF ChangesVersion, DeploymentIInv
  <2> QED
    BY <2>1 DEF Consistent
<1> QED
  BY <1>7, <1>8, <1>12, <1>13, <1>16, <1>17, <1>18, <1>19, <1>20, OperatorStep

LEMMA VerifiedKeeps ==
  ASSUME DeploymentIInv, NEW o \in Operators, Verified(o) \/ DeployFails(o)
  PROVE  DeploymentIInv'
<1>1. Step(o) \in ChangesVersion /\ Returns(o) /\ UNCHANGED <<provided, ordering>>
  BY DEF Verified, DeployFails, ChangesVersion
<1>2. /\ operation[o].target \in Versions /\ operation[o].step = Step(o)
      /\ o \notin versioning.crossed => VersionOp(operation[o], provided.version)
      /\ provided \in ProvidedState
  BY OperatorIs
<1>3. PICK state \in {"ready", "failed"} :
        /\ status' = [state |-> state, active |-> operation[o].target, previous |-> NoRelease]
        /\ \/ versioning' = Settled(versioning, o) /\ Step(o) = "verifying"
           \/ versioning' = versioning /\ state = "failed"
  BY DEF Verified, DeployFails
<1>4. status' \in DeploymentStatus
  BY <1>2, <1>3 DEF DeploymentStatus, Versions
<1>5. Step(o) = "verifying" /\ o \notin versioning.crossed => provided'.version = status'.active
  BY <1>1, <1>2, <1>3 DEF VersionOp
<1> QED
  BY <1>1, <1>2, <1>3, <1>4, <1>5, EndsKeeps

LEMMA StopsComponentKeeps ==
  ASSUME DeploymentIInv, NEW o \in Operators, StopsComponent(o)
  PROVE  DeploymentIInv'
<1>1. PICK old : old = operation[o]
  OBVIOUS
<1>2. PICK n : n = old.component + 1
  OBVIOUS
<1>3. PICK up : up = provided.up \ {StopOrder[n]}
  OBVIOUS
<1>4. old.step = "stopping" /\ Step(o) = "stopping"
  BY <1>1 DEF StopsComponent, Step
<1>5. /\ old \in Operation /\ CountOK(old) /\ old.current \in DeploymentStatus
      /\ provided \in ProvidedState /\ status \in DeploymentStatus
      /\ ordering.clear => InStartupOrder(provided.up) /\ o \notin ordering.crossed
      /\ o \notin ordering.crossed => OrderOp(old, provided.up)
  <2>1. Step(o) \in StartsOrStops
    BY <1>4 DEF StartsOrStops
  <2> QED
    BY <1>1, <2>1, OperatorIs
<1>6. PICK len \in Nat \ {0} : len = Len(StartupOrder)
  BY OrderIs, Zenon
<1>7. old.component \in 0..len /\ old.component < len /\ Components = 1..len
  BY <1>4, <1>5, <1>6 DEF Operation, Components, CountOK
<1>8. n \in 1..len /\ n \in 0..len /\ (len - n) + 1 \in 1..len
  BY <1>2, <1>7
<1>9. StopOrder[n] = StartupOrder[(len - n) + 1]
  BY <1>6, <1>8 DEF StopOrder, Reverse
<1>10. o \notin ordering.crossed =>
         \A m \in Components : m > (len - n) + 1 => StartupOrder[m] \notin provided.up
  <2>1. (len - n) + 1 = len - old.component
    BY <1>2, <1>7
  <2> QED
    BY <1>4, <1>5, <1>6, <2>1 DEF OrderOp
<1>11. o \notin ordering.crossed => \A m \in Components : m > len - n => StartupOrder[m] \notin up
  <2>1. \A m \in Components : m > len - n => m = (len - n) + 1 \/ m > (len - n) + 1
    BY <1>7, <1>8
  <2> QED
    BY <1>3, <1>9, <1>10, <2>1
<1>12. ASSUME ordering.clear PROVE InStartupOrder(up)
  <2>1. ASSUME NEW m \in Components, NEW k \in Components, m < k, StartupOrder[k] \in up
        PROVE  StartupOrder[m] \in up
    <3>1. StartupOrder[m] \in provided.up
      BY <1>3, <1>5, <1>12, <2>1 DEF InStartupOrder
    <3>2. ~(k > len - n)
      BY <1>5, <1>11, <1>12, <2>1
    <3>3. m # (len - n) + 1
      BY <1>7, <1>8, <2>1, <3>2
    <3>4. StartupOrder[m] # StopOrder[n]
      BY <1>7, <1>8, <1>9, <3>3, OrderIs
    <3> QED
      BY <1>3, <3>1, <3>4
  <2> QED
    BY <2>1 DEF InStartupOrder
<1>13. provided' = [provided EXCEPT !.up = up] /\ UNCHANGED versioning
  BY <1>1, <1>2, <1>3 DEF StopsComponent
<1>14. /\ provided' \in ProvidedState /\ provided'.up = up
       /\ provided'.version = provided.version
  BY <1>3, <1>5, <1>13 DEF ProvidedState
<1>15. operation[o].step \in StartsOrStops /\ operation[o].step \notin ChangesVersion
  BY <1>1, <1>4 DEF StartsOrStops, ChangesVersion
<1>16. ordering \in [clear : BOOLEAN, crossed : SUBSET Operators]
  BY DEF DeploymentIInv, Holds
<1>17. CASE n = len
  <2>1. PICK new : new = [old.current EXCEPT !.state = "stopped"]
    OBVIOUS
  <2>2. Returns(o) /\ status' = new /\ ordering' = Settled(ordering, o)
    BY <1>1, <1>2, <1>6, <1>17, <2>1 DEF StopsComponent, StopOrder, Reverse
  <2>3. new \in DeploymentStatus /\ new.state = "stopped"
    BY <1>5, <2>1 DEF DeploymentStatus
  <2>4. Consistent(versioning', operation', status', provided'.version)
    BY <2>2, <2>3 DEF Consistent
  <2>5. ordering'.clear => InStartupOrder(provided'.up)
    <3>1. CASE o \in ordering.crossed
      BY <1>12, <1>14, <1>16, <2>2, <3>1, SettledIs
    <3>2. CASE o \notin ordering.crossed
      <4>1. \A m \in Components : m > len - n
        BY <1>7, <1>8, <1>17
      <4> QED
        BY <1>11, <1>14, <3>2, <4>1 DEF InStartupOrder
    <3> QED
      BY <3>1, <3>2
  <2>6. /\ HistoryStep(ordering, ordering', StartsOrStops, o, AtRest.step)
        /\ HistoryStep(versioning, versioning', ChangesVersion, o, AtRest.step)
    BY <1>13, <1>15, <2>2, RestIs DEF HistoryStep, StartsOrStops, ChangesVersion
  <2>7. operation' = [operation EXCEPT ![o] = AtRest]
    BY <2>2 DEF Returns
  <2> QED
    BY <1>14, <1>15, <2>2, <2>3, <2>4, <2>5, <2>6, <2>7, RestIs, OperatorStep
<1>18. CASE n # len
  <2>1. PICK op : op = [old EXCEPT !.component = n]
    OBVIOUS
  <2>2. operation' = [operation EXCEPT ![o] = op] /\ UNCHANGED <<status, ordering>>
    BY <1>1, <1>2, <1>6, <1>18, <2>1 DEF StopsComponent, StopOrder, Reverse
  <2>3. op \in Operation /\ op.step = "stopping" /\ op.component = n
    <3>1. n \in 0..Len(StartupOrder)
      BY <1>6, <1>8, Zenon
    <3> QED
      BY <1>4, <1>5, <2>1, <3>1 DEF Operation
  <2>4. op.component < Len(StartupOrder)
    BY <1>6, <1>8, <1>18, <2>3
  <2>5. CountOK(op) /\ VersionOp(op, provided'.version)
    BY <2>3, <2>4 DEF CountOK, VersionOp
  <2>6. o \notin ordering'.crossed => OrderOp(op, provided'.up)
    BY <1>6, <1>11, <1>14, <2>2, <2>3 DEF OrderOp
  <2>7. /\ HistoryStep(ordering, ordering', StartsOrStops, o, op.step)
        /\ HistoryStep(versioning, versioning', ChangesVersion, o, op.step)
    BY <1>13, <1>15, <2>2, <2>3 DEF HistoryStep, ChangesVersion
  <2>8. Consistent(versioning', operation', status', provided'.version)
    <3>1. (\A q \in Operators : operation'[q].step \notin ChangesVersion) =>
            \A q \in Operators : operation[q].step \notin ChangesVersion
      BY <1>15, <2>2 DEF DeploymentIInv
    <3> QED
      BY <1>13, <1>14, <2>2, <3>1 DEF Consistent, DeploymentIInv
  <2>9. ordering'.clear => InStartupOrder(provided'.up)
    BY <1>12, <1>14, <2>2
  <2> QED
    BY <1>5, <1>14, <1>15, <2>2, <2>3, <2>5, <2>6, <2>7, <2>8, <2>9, OperatorStep
<1> QED
  BY <1>17, <1>18

\* A scaling that ends, or an operation that rejects where nothing was changed for good.
LEMMA ReturnsUnchanged ==
  ASSUME DeploymentIInv, NEW o \in Operators, Scaled(o) \/ StopOrScaleFails(o)
  PROVE  DeploymentIInv'
<1>1. /\ Step(o) \in {"scaling", "stopping"} /\ Returns(o)
      /\ UNCHANGED <<status, provided, ordering, versioning>>
  BY DEF Scaled, StopOrScaleFails
<1>2. operation' = [operation EXCEPT ![o] = AtRest]
  BY <1>1 DEF Returns
<1>3. operation[o].step \notin ChangesVersion /\ AtRest.step \notin StartsOrStops \cup ChangesVersion
  BY <1>1, RestIs DEF Step, StartsOrStops, ChangesVersion
<1>4. /\ HistoryStep(ordering, ordering', StartsOrStops, o, AtRest.step)
      /\ HistoryStep(versioning, versioning', ChangesVersion, o, AtRest.step)
  BY <1>1, <1>3 DEF HistoryStep
<1>5. Consistent(versioning', operation', status', provided'.version)
  <2>1. (\A q \in Operators : operation'[q].step \notin ChangesVersion) =>
          \A q \in Operators : operation[q].step \notin ChangesVersion
    BY <1>2, <1>3 DEF DeploymentIInv
  <2> QED
    BY <1>1, <2>1 DEF Consistent, DeploymentIInv
<1>6. status \in DeploymentStatus /\ provided \in ProvidedState
      /\ (ordering.clear => InStartupOrder(provided.up))
  BY OperatorIs
<1> QED
  BY <1>1, <1>2, <1>4, <1>5, <1>6, RestIs, OperatorStep

\* The provider is told of another version, which is then verified.
LEMMA TellsKeeps ==
  ASSUME DeploymentIInv, NEW o \in Operators, Upgraded(o) \/ RolledBack(o)
  PROVE  DeploymentIInv'
<1>1. PICK step \in {"upgrade verifying", "rollback verifying"} :
        /\ StepsTo(o, step) /\ provided' = [provided EXCEPT !.version = operation[o].target]
        /\ Step(o) \in {"upgrading", "rolling back"} /\ UNCHANGED <<status, ordering, versioning>>
  BY DEF Upgraded, RolledBack
<1>2. operation[o].target \in Versions /\ provided \in ProvidedState /\ status \in DeploymentStatus
  BY OperatorIs
<1>3. /\ provided' \in ProvidedState /\ provided'.up = provided.up
      /\ provided'.version = operation[o].target
  BY <1>1, <1>2 DEF ProvidedState
<1>4. /\ step \in ChangesVersion /\ Step(o) \in ChangesVersion
      /\ step \notin StartsOrStops \cup {"verifying"}
  BY <1>1 DEF ChangesVersion, StartsOrStops
<1> QED
  BY <1>1, <1>2, <1>3, <1>4, StepsKeeps

\* An upgrade whose new version is not ready, or that cannot tell of it, goes on to its rollback.
LEMMA RestoresKeeps ==
  ASSUME DeploymentIInv, NEW o \in Operators, StepsTo(o, "restoring"),
         Step(o) \in {"upgrading", "upgrade verifying"},
         UNCHANGED status \/ status' = Changed(o), UNCHANGED <<provided, ordering, versioning>>
  PROVE  DeploymentIInv'
<1>1. /\ operation[o].target \in Versions /\ provided \in ProvidedState /\ status \in DeploymentStatus
      /\ operation[o].current \in DeploymentStatus
  BY OperatorIs
<1>2. status' \in DeploymentStatus
  <2>1. CASE UNCHANGED status
    BY <1>1, <2>1
  <2>2. CASE status' = Changed(o)
    <3>1. PICK was \in DeploymentStatus : was = operation[o].current
      BY <1>1
    <3>2. status' = [state |-> "ready", active |-> operation[o].target, previous |-> was.active]
      BY <2>2, <3>1 DEF Changed
    <3>3. was.active \in Versions
      BY DEF DeploymentStatus
    <3> QED
      BY <1>1, <3>2, <3>3 DEF DeploymentStatus
  <2> QED
    BY <2>1, <2>2
<1>3. /\ "restoring" \in ChangesVersion /\ Step(o) \in ChangesVersion
      /\ "restoring" \notin StartsOrStops \cup {"verifying"}
  BY DEF ChangesVersion, StartsOrStops
<1> QED
  BY <1>1, <1>2, <1>3, StepsKeeps

\* The new version is ready.
LEMMA ConfirmsKeeps ==
  ASSUME DeploymentIInv, NEW o \in Operators, Step(o) \in {"upgrade verifying", "rollback verifying"},
         Returns(o), status' = Changed(o), versioning' = Settled(versioning, o),
         UNCHANGED <<provided, ordering>>
  PROVE  DeploymentIInv'
<1>1. /\ operation[o].target \in Versions /\ operation[o].current \in DeploymentStatus
      /\ provided \in ProvidedState /\ operation[o].step = Step(o)
      /\ o \notin versioning.crossed => VersionOp(operation[o], provided.version)
  BY OperatorIs
<1>2. status' \in DeploymentStatus /\ status'.active = operation[o].target
  BY <1>1 DEF Changed, DeploymentStatus
<1>3. o \notin versioning.crossed => provided'.version = status'.active
  BY <1>1, <1>2 DEF VersionOp
<1>4. Step(o) \in ChangesVersion
  BY DEF ChangesVersion
<1> QED
  BY <1>1, <1>2, <1>3, <1>4, EndsKeeps

\* The old version is put back.
LEMMA RestoredKeeps ==
  ASSUME DeploymentIInv, NEW o \in Operators, Restored(o)
  PROVE  DeploymentIInv'
<1> PICK was : was = operation[o].current
  OBVIOUS
<1>1. /\ Step(o) = "restoring" /\ Returns(o) /\ UNCHANGED ordering
      /\ versioning' = Settled(versioning, o)
      /\ provided' = [provided EXCEPT !.version = was.active]
      /\ status' = [state |-> "ready", active |-> was.active, previous |-> NoRelease]
  BY DEF Restored, RestoredVersion
<1>2. was \in DeploymentStatus /\ provided \in ProvidedState
  BY OperatorIs
<1>3. status' \in DeploymentStatus /\ status'.active = was.active
  BY <1>1, <1>2 DEF DeploymentStatus, Versions
<1>4. provided' \in ProvidedState /\ provided'.up = provided.up /\ provided'.version = was.active
  BY <1>1, <1>2 DEF ProvidedState, DeploymentStatus
<1>5. Step(o) \in ChangesVersion
  BY <1>1 DEF ChangesVersion
<1> QED
  BY <1>1, <1>3, <1>4, <1>5, EndsKeeps

\* The rollback of the provider rejects, or what it rolled back to is not ready.
LEMMA UnsettledKeeps ==
  ASSUME DeploymentIInv, NEW o \in Operators,
         Step(o) \in {"restoring", "rolling back", "rollback verifying"}, Returns(o),
         versioning' = Unsettled(versioning), UNCHANGED <<status, provided, ordering>>
  PROVE  DeploymentIInv'
<1>1. Step(o) \in ChangesVersion
  BY DEF ChangesVersion
<1> QED
  BY <1>1, OperatorIs, EndsKeeps

LEMMA DeploymentStepOK ==
  DeploymentIInv /\ [DeploymentNext]_deploymentVars => DeploymentIInv'
<1> SUFFICES ASSUME DeploymentIInv, [DeploymentNext]_deploymentVars
             PROVE  DeploymentIInv'
  OBVIOUS
<1>1. CASE UNCHANGED deploymentVars
  BY <1>1 DEF deploymentVars, DeploymentIInv, Holds, Consistent
<1>2. ASSUME NEW o \in Operators, Resolved(o) \/ Prepared(o)
      PROVE  DeploymentIInv'
  <2>1. PICK step \in {"preparing", "starting"} :
          /\ StepsTo(o, step) /\ UNCHANGED <<status, provided, ordering, versioning>>
          /\ \/ Step(o) = "configuring" /\ step = "preparing"
             \/ Step(o) = "preparing" /\ step = "starting"
    BY <1>2 DEF Resolved, Prepared
  <2>2. step \in ChangesVersion /\ Step(o) \in ChangesVersion
    BY <2>1 DEF ChangesVersion
  <2> QED
    BY <2>1, <2>2, OperatorIs, StepsKeeps
<1>3. ASSUME NEW o \in Operators, UpgradeVerified(o) \/ UpgradeFails(o)
      PROVE  DeploymentIInv'
  BY <1>3, ConfirmsKeeps, RestoresKeeps DEF UpgradeVerified, UpgradeFails
<1>4. ASSUME NEW o \in Operators, RollbackVerified(o)
      PROVE  DeploymentIInv'
  BY <1>4, ConfirmsKeeps, UnsettledKeeps DEF RollbackVerified
<1>5. ASSUME NEW o \in Operators, RollbackFails(o)
      PROVE  DeploymentIInv'
  BY <1>5, UnsettledKeeps DEF RollbackFails, CallFails
<1> QED
  BY <1>1, <1>2, <1>3, <1>4, <1>5, DeployBegins, StartsComponentKeeps, VerifiedKeeps,
     StopsComponentKeeps, ReturnsUnchanged, TellsKeeps, RestoredKeeps DEF DeploymentNext

(* Whatever operators do to a deployment at the same time, and wherever their operations  *)
(* fail, its components are up in their order unless a deploy or a stop met another, and     *)
(* again after the first of them that ended alone; and the version that is stored is the one   *)
(* that runs unless a change of version met another or a rollback failed, and again after the    *)
(* first change that ended well alone (deployment-framework/src/index.ts 196-351).                 *)
THEOREM DeploymentsAreInOrder == DeploymentSpec => []DeploymentInv
<1>1. DeploymentIInv => DeploymentInv
  <2> SUFFICES ASSUME DeploymentIInv PROVE DeploymentInv
    OBVIOUS
  <2>1. DeploymentTypeOK
    BY DEF DeploymentIInv, DeploymentTypeOK, DeploymentStatus, ProvidedState, Versions, Holds
  <2>2. UpInOrder
    BY OrderIs DEF DeploymentIInv, UpInOrder, InOrder, InStartupOrder
  <2>3. ActiveIsProvided
    BY DEF DeploymentIInv, ActiveIsProvided, AtWork, Consistent, IsReady
  <2> QED
    BY <2>1, <2>2, <2>3 DEF DeploymentInv
<1> QED
  BY <1>1, DeploymentInitOK, DeploymentStepOK, PTL DEF DeploymentSpec

-----------------------------------------------------------------------------
(* The API and its clients: the inductive invariant. *)

CommandState ==
  [step : {"idle", "sent", "streaming", "frame", "exited"}, attempt : 0..MaxAttempts]

CommandOK(c) ==
  /\ command[c].step = "exited" <=> exitCode[c] # NoExit
  /\ streamed[c] \in 0..StreamLength
  /\ command[c].step = "frame" => streamed[c] < StreamLength
  /\ command[c].attempt = 0 => command[c].step # "sent"
  /\ command[c].step = "idle" => command[c].attempt = 0
  /\ Kind[c] = "create" => command[c].attempt <= 1

ApiRequests == Commands \X Attempts
RouteOf(p, k) == {r \in ApiRequests : Principal[r[1]] = p /\ Kind[r[1]] = k}

\* the requests that have passed the limit and not failed before their handler
Admitted == handled \cup {r \in ApiRequests : apiRequest[r[1]][r[2]] = "receiving"}

ApiIInv ==
  /\ command \in [Commands -> CommandState]
  /\ DOMAIN exitCode = Commands /\ DOMAIN streamed = Commands
  /\ \A c \in Commands : CommandOK(c)
  /\ apiRequest \in [Commands -> [Attempts -> {"none", "authenticating", "authorizing", "receiving",
                                               "completing", "answered"}]]
  /\ \A c \in Commands, a \in Attempts : apiRequest[c][a] # "none" => Sent(c, a)
  /\ handled \subseteq ApiRequests
  /\ \A r \in handled : apiRequest[r[1]][r[2]] # "none"
  /\ consumed \in [{Principal[c] : c \in Commands} -> [{Kind[c] : c \in Commands} -> Nat]]
  /\ \A p \in DOMAIN consumed : \A k \in DOMAIN consumed[p] :
       /\ Cardinality(Admitted \cap RouteOf(p, k)) <= consumed[p][k]
       /\ Cardinality(Admitted \cap RouteOf(p, k)) <= RateLimit

-----------------------------------------------------------------------------
(* The API and its clients: lemmas. *)

LEMMA RequestsAreFinite ==
  /\ IsFiniteSet(ApiRequests)
  /\ \A S : IsFiniteSet(S \cap ApiRequests) /\ Cardinality(S \cap ApiRequests) \in Nat
<1>1. IsFiniteSet(Commands) /\ MaxAttempts \in Nat
  BY ApiAssumption
<1>2. IsFiniteSet(Attempts)
  BY <1>1, FS_Interval DEF Attempts
<1>3. IsFiniteSet(ApiRequests)
  BY <1>1, <1>2, FS_Product DEF ApiRequests
<1> QED
  BY <1>3, FS_Intersection, FS_CardinalityType

\* Fewer requests admitted are within the limit too.
LEMMA FewerAdmitted ==
  ASSUME NEW S, NEW T, S \subseteq T, NEW p, NEW k
  PROVE  /\ Cardinality(S \cap RouteOf(p, k)) <= Cardinality(T \cap RouteOf(p, k))
         /\ Cardinality(S \cap RouteOf(p, k)) \in Nat /\ Cardinality(T \cap RouteOf(p, k)) \in Nat
<1>1. RouteOf(p, k) \subseteq ApiRequests
  BY DEF RouteOf
<1>2. /\ IsFiniteSet(S \cap RouteOf(p, k)) /\ IsFiniteSet(T \cap RouteOf(p, k))
  BY <1>1, RequestsAreFinite, FS_Subset
<1>3. S \cap RouteOf(p, k) \in SUBSET (T \cap RouteOf(p, k))
  OBVIOUS
<1> QED
  BY <1>2, <1>3, FS_Subset, FS_CardinalityType

LEMMA ApiInitOK == ApiInit => ApiIInv
<1> SUFFICES ASSUME ApiInit PROVE ApiIInv
  OBVIOUS
<1>1. MaxAttempts \in Nat \ {0} /\ RateLimit \in Nat /\ StreamLength \in Nat
  BY ApiAssumption
<1>2. command \in [Commands -> CommandState]
  BY <1>1 DEF ApiInit, CommandState
<1>3. \A c \in Commands : CommandOK(c)
  BY <1>1 DEF ApiInit, CommandOK, NoExit
<1>4. /\ apiRequest \in [Commands -> [Attempts -> {"none", "authenticating", "authorizing", "receiving",
                                               "completing", "answered"}]]
      /\ \A c \in Commands, a \in Attempts : apiRequest[c][a] = "none"
  BY DEF ApiInit
<1>5. handled = {} /\ Admitted = {}
  BY <1>4 DEF ApiInit, Admitted, ApiRequests
<1>6. \A p, k : Cardinality(Admitted \cap RouteOf(p, k)) = 0
  BY <1>5, FS_EmptySet
<1>7. /\ consumed \in [{Principal[c] : c \in Commands} -> [{Kind[c] : c \in Commands} -> Nat]]
  BY DEF ApiInit
<1>8. DOMAIN exitCode = Commands /\ DOMAIN streamed = Commands
  BY DEF ApiInit
<1>9. ASSUME NEW p \in DOMAIN consumed, NEW k \in DOMAIN consumed[p]
      PROVE  0 <= consumed[p][k] /\ 0 <= RateLimit
  <2>1. consumed[p][k] = 0
    BY <1>9 DEF ApiInit
  <2> QED
    BY <1>1, <2>1
<1>10. \A p \in DOMAIN consumed : \A k \in DOMAIN consumed[p] :
         /\ Cardinality(Admitted \cap RouteOf(p, k)) <= consumed[p][k]
         /\ Cardinality(Admitted \cap RouteOf(p, k)) <= RateLimit
  BY <1>6, <1>9, Zenon
<1>11. handled \subseteq ApiRequests /\ \A r \in handled : apiRequest[r[1]][r[2]] # "none"
  BY <1>5
<1>12. \A c \in Commands, a \in Attempts : apiRequest[c][a] # "none" => Sent(c, a)
  BY <1>4
<1> QED
  BY <1>2, <1>3, <1>4, <1>7, <1>8, <1>10, <1>11, <1>12, Zenon DEF ApiIInv

\* A step of a command: the API is not concerned.
LEMMA CommandStep ==
  ASSUME ApiIInv, NEW c \in Commands, NEW state \in CommandState,
         command' = [command EXCEPT ![c] = state],
         \A d \in Commands : d # c => exitCode'[d] = exitCode[d] /\ streamed'[d] = streamed[d],
         DOMAIN exitCode' = Commands, DOMAIN streamed' = Commands,
         command[c].attempt <= state.attempt, CommandOK(c)',
         UNCHANGED <<apiRequest, consumed, handled>>
  PROVE  ApiIInv'
<1>1. command' \in [Commands -> CommandState]
  BY DEF ApiIInv
<1>2. command'[c] = state /\ \A d \in Commands : d # c => command'[d] = command[d]
  BY DEF ApiIInv
<1>3. \A d \in Commands : CommandOK(d)'
  BY <1>2 DEF ApiIInv, CommandOK
<1>4. ASSUME NEW d \in Commands, NEW a \in Attempts, apiRequest'[d][a] # "none"
      PROVE  Sent(d, a)'
  <2>1. a <= command[d].attempt
    BY <1>4 DEF ApiIInv, Sent
  <2>2. CASE d = c
    <3>1. command[c].attempt \in Nat /\ state.attempt \in Nat /\ a \in Nat
      BY ApiAssumption DEF ApiIInv, CommandState, Attempts
    <3> QED
      BY <1>2, <2>1, <2>2, <3>1 DEF Sent
  <2>3. CASE d # c
    BY <1>2, <2>1, <2>3 DEF Sent
  <2> QED
    BY <2>2, <2>3
<1>5. Admitted' = Admitted
  BY DEF Admitted
<1> QED
  BY <1>1, <1>3, <1>4, <1>5 DEF ApiIInv

LEMMA ExitsKeeps ==
  ASSUME ApiIInv, NEW c \in Commands, NEW code, code # NoExit, Exits(c, code),
         UNCHANGED <<apiRequest, consumed, handled, streamed>>
  PROVE  ApiIInv'
<1>1. PICK state : state = [command[c] EXCEPT !.step = "exited"]
  OBVIOUS
<1>2. command' = [command EXCEPT ![c] = state] /\ exitCode' = [exitCode EXCEPT ![c] = code]
  BY <1>1 DEF Exits
<1>3. command[c] \in CommandState /\ CommandOK(c)
  BY DEF ApiIInv
<1>4. state \in CommandState /\ state.step = "exited" /\ state.attempt = command[c].attempt
  BY <1>1, <1>3 DEF CommandState
<1>5. command'[c] = state /\ exitCode'[c] = code
  BY <1>2 DEF ApiIInv
<1>6. CommandOK(c)'
  BY <1>3, <1>4, <1>5 DEF CommandOK
<1>7. command[c].attempt <= state.attempt
  BY <1>3, <1>4, ApiAssumption DEF CommandState
<1> QED
  BY <1>2, <1>4, <1>6, <1>7, CommandStep DEF ApiIInv

LEMMA FailsKeeps ==
  ASSUME ApiIInv, NEW c \in Commands, NEW code, Fails(c, code),
         UNCHANGED <<apiRequest, consumed, handled, streamed>>
  PROVE  ApiIInv'
<1>1. ExitOf(code) \in {4, 6, 7, 8, 130}
  BY DEF ExitOf
<1>2. ExitOf(code) # NoExit
  BY <1>1 DEF NoExit
<1> QED
  BY <1>2, ExitsKeeps DEF Fails

\* A command under way goes to another step.
LEMMA GoesOn ==
  ASSUME ApiIInv, NEW c \in Commands, NEW state \in CommandState,
         command' = [command EXCEPT ![c] = state],
         command[c].step # "exited", state.step # "exited",
         command[c].attempt <= state.attempt,
         state.attempt = 0 => state.step # "sent", state.step # "idle",
         Kind[c] = "create" => state.attempt <= 1,
         streamed'[c] \in 0..StreamLength, state.step = "frame" => streamed'[c] < StreamLength,
         DOMAIN streamed' = Commands, \A d \in Commands : d # c => streamed'[d] = streamed[d],
         UNCHANGED <<exitCode, apiRequest, consumed, handled>>
  PROVE  ApiIInv'
<1>1. command'[c] = state /\ CommandOK(c)
  BY DEF ApiIInv
<1>2. CommandOK(c)'
  BY <1>1 DEF CommandOK
<1> QED
  BY <1>2, CommandStep DEF ApiIInv

\* What is so of a command under way.
LEMMA CommandIs ==
  ASSUME ApiIInv, NEW c \in Commands
  PROVE  /\ command[c] \in CommandState /\ CommandOK(c)
         /\ command[c].attempt \in Nat /\ command[c].attempt <= command[c].attempt
         /\ streamed[c] \in Nat /\ StreamLength \in Nat /\ MaxAttempts \in Nat \ {0}
<1>1. command[c] \in CommandState /\ CommandOK(c)
  BY DEF ApiIInv
<1>2. command[c].attempt \in Nat /\ streamed[c] \in Nat
  BY <1>1, ApiAssumption DEF CommandState, CommandOK
<1> QED
  BY <1>1, <1>2, ApiAssumption

-----------------------------------------------------------------------------
(* The API and its clients: the steps of a command. *)

LEMMA PrepareKeeps ==
  ASSUME ApiIInv, NEW c \in Commands, prepare(c)
  PROVE  ApiIInv'
<1>1. CASE \E code \in {"CONFIGURATION_INVALID", "AUTHENTICATION_FAILED"} : Fails(c, code)
  BY <1>1, FailsKeeps DEF prepare
<1>2. CASE ~\E code \in {"CONFIGURATION_INVALID", "AUTHENTICATION_FAILED"} : Fails(c, code)
  <2>1. PICK state : state = IF Kind[c] = "stream" THEN [command[c] EXCEPT !.step = "streaming"]
                             ELSE [step |-> "sent", attempt |-> 1]
    OBVIOUS
  <2>2. /\ command' = [command EXCEPT ![c] = state] /\ command[c].step = "idle"
        /\ UNCHANGED <<exitCode, apiRequest, consumed, handled, streamed>>
    BY <1>2, <2>1 DEF prepare
  <2>3. \/ state = [step |-> "sent", attempt |-> 1]
        \/ Kind[c] = "stream" /\ state = [command[c] EXCEPT !.step = "streaming"]
    BY <2>1
  <2>4. /\ state \in CommandState /\ state.step \in {"sent", "streaming"}
        /\ state.step = "streaming" => state.attempt = command[c].attempt
        /\ state.step = "sent" => state.attempt = 1
    BY <2>3, CommandIs DEF CommandState
  <2>5. CASE state.step = "streaming"
    BY <2>2, <2>4, <2>5, CommandIs, GoesOn DEF CommandOK, ApiIInv
  <2>6. CASE state.step = "sent"
    <3>1. command[c].attempt <= state.attempt
      BY <2>2, <2>4, <2>6, CommandIs DEF CommandOK
    <3>2. /\ streamed'[c] \in 0..StreamLength /\ DOMAIN streamed' = Commands
          /\ \A d \in Commands : d # c => streamed'[d] = streamed[d]
      BY <2>2, CommandIs DEF CommandOK, ApiIInv
    <3>3. /\ state.attempt # 0 /\ state.attempt <= 1 /\ state \in CommandState
          /\ state.step \notin {"idle", "frame", "exited"} /\ command[c].step # "exited"
      BY <2>2, <2>4, <2>6
    <3> QED
      BY <2>2, <3>1, <3>2, <3>3, GoesOn, Zenon
  <2> QED
    BY <2>4, <2>5, <2>6
<1> QED
  BY <1>1, <1>2

LEMMA ReceivesKeeps ==
  ASSUME ApiIInv, NEW c \in Commands, Receives(c)
  PROVE  ApiIInv'
<1>1. 0 # NoExit
  BY DEF NoExit
<1> QED
  BY <1>1, ExitsKeeps, FailsKeeps DEF Receives

LEMMA RefusesKeeps ==
  ASSUME ApiIInv, NEW c \in Commands, RefusesCommand(c)
  PROVE  ApiIInv'
<1>1. PICK code \in {2, 3} : Exits(c, code)
  BY DEF RefusesCommand
<1>2. code # NoExit
  BY DEF NoExit
<1> QED
  BY <1>1, <1>2, ExitsKeeps DEF RefusesCommand

\* What creates is not sent again.
LEMMA TransportFailsKeeps ==
  ASSUME ApiIInv, NEW c \in Commands, TransportFails(c)
  PROVE  ApiIInv'
<1>1. CASE Fails(c, "CONNECTION_FAILED")
  BY <1>1, FailsKeeps DEF TransportFails
<1>2. CASE ~Fails(c, "CONNECTION_FAILED")
  <2>1. PICK state : state = [command[c] EXCEPT !.attempt = @ + 1]
    OBVIOUS
  <2>2. /\ command' = [command EXCEPT ![c] = state] /\ command[c].step = "sent"
        /\ Kind[c] # "create" /\ command[c].attempt < MaxAttempts
        /\ UNCHANGED <<exitCode, apiRequest, consumed, handled, streamed>>
    BY <1>2, <2>1 DEF TransportFails, Retries, Idempotent
  <2>3. command[c].attempt + 1 \in 0..MaxAttempts /\ command[c].attempt + 1 # 0
        /\ command[c].attempt <= command[c].attempt + 1
    BY <2>2, CommandIs
  <2>4. state \in CommandState /\ state.step = "sent" /\ state.attempt = command[c].attempt + 1
    BY <2>1, <2>2, <2>3, CommandIs DEF CommandState
  <2> QED
    BY <2>2, <2>3, <2>4, CommandIs, GoesOn DEF CommandOK, ApiIInv
<1> QED
  BY <1>1, <1>2

LEMMA NextFrameKeeps ==
  ASSUME ApiIInv, NEW c \in Commands, NextFrame(c)
  PROVE  ApiIInv'
<1>1. PICK state : state = [command[c] EXCEPT !.step = "frame"]
  OBVIOUS
<1>2. /\ command' = [command EXCEPT ![c] = state] /\ command[c].step = "streaming"
      /\ streamed[c] < StreamLength
      /\ UNCHANGED <<exitCode, apiRequest, consumed, handled, streamed>>
  BY <1>1 DEF NextFrame
<1>3. state \in CommandState /\ state.step = "frame" /\ state.attempt = command[c].attempt
  BY <1>1, CommandIs DEF CommandState
<1> QED
  BY <1>2, <1>3, CommandIs, GoesOn DEF CommandOK, ApiIInv

LEMMA YieldsFrameKeeps ==
  ASSUME ApiIInv, NEW c \in Commands, YieldsFrame(c)
  PROVE  ApiIInv'
<1>1. CASE Cancelled(c)
  BY <1>1, FailsKeeps DEF YieldsFrame
<1>2. CASE ~Cancelled(c)
  <2>1. PICK state : state = [command[c] EXCEPT !.step = "streaming"]
    OBVIOUS
  <2>2. /\ command' = [command EXCEPT ![c] = state] /\ command[c].step = "frame"
        /\ streamed' = [streamed EXCEPT ![c] = @ + 1]
        /\ UNCHANGED <<exitCode, apiRequest, consumed, handled>>
    BY <1>2, <2>1 DEF YieldsFrame
  <2>3. state \in CommandState /\ state.step = "streaming" /\ state.attempt = command[c].attempt
    BY <2>1, CommandIs DEF CommandState
  <2>4. /\ streamed'[c] = streamed[c] + 1 /\ DOMAIN streamed' = Commands
        /\ \A d \in Commands : d # c => streamed'[d] = streamed[d]
    BY <2>2 DEF ApiIInv
  <2>5. streamed'[c] \in 0..StreamLength
    BY <2>2, <2>4, CommandIs DEF CommandOK
  <2> QED
    BY <2>2, <2>3, <2>4, <2>5, CommandIs, GoesOn DEF CommandOK
<1> QED
  BY <1>1, <1>2

LEMMA StreamEndsKeeps ==
  ASSUME ApiIInv, NEW c \in Commands, StreamEnds(c) \/ StreamFails(c)
  PROVE  ApiIInv'
<1>1. 0 # NoExit
  BY DEF NoExit
<1> QED
  BY <1>1, ExitsKeeps, FailsKeeps DEF StreamEnds, StreamFails

LEMMA CancelsKeeps ==
  ASSUME ApiIInv, NEW c \in Commands, Cancels(c) \/ CancelsFrame(c)
  PROVE  ApiIInv'
<1>1. UNCHANGED <<command, exitCode, apiRequest, consumed, handled, streamed>>
  BY DEF Cancels, CancelsFrame
<1> QED
  BY <1>1, ZenonT(40) DEF ApiIInv, CommandOK, Admitted, Sent

-----------------------------------------------------------------------------
(* The API and its clients: the steps of a request. *)

\* A request goes to its next step, and nothing more is admitted.
LEMMA RequestStep ==
  ASSUME ApiIInv, NEW c \in Commands, NEW a \in Attempts, Sent(c, a),
         NEW step \in {"authenticating", "authorizing", "receiving", "completing", "answered"},
         ApiGoes(c, a, step), UNCHANGED <<command, exitCode, streamed>>,
         handled' \subseteq handled \cup {<<c, a>>},
         consumed' \in [{Principal[d] : d \in Commands} -> [{Kind[d] : d \in Commands} -> Nat]],
         \A p \in DOMAIN consumed' : \A k \in DOMAIN consumed'[p] :
           /\ Cardinality(Admitted' \cap RouteOf(p, k)) <= consumed'[p][k]
           /\ Cardinality(Admitted' \cap RouteOf(p, k)) <= RateLimit
  PROVE  ApiIInv'
<1>1. apiRequest' = [apiRequest EXCEPT ![c][a] = step]
  BY DEF ApiGoes
<1>2. /\ apiRequest' \in [Commands -> [Attempts -> {"none", "authenticating", "authorizing",
                                          "receiving", "completing", "answered"}]]
      /\ apiRequest'[c][a] = step
      /\ \A d \in Commands, b \in Attempts :
           ~(d = c /\ b = a) => apiRequest'[d][b] = apiRequest[d][b]
  BY <1>1 DEF ApiIInv
<1>3. \A d \in Commands, b \in Attempts : apiRequest'[d][b] # "none" => Sent(d, b)'
  BY <1>2 DEF ApiIInv, Sent
<1>4. handled' \subseteq ApiRequests /\ \A r \in handled' : apiRequest'[r[1]][r[2]] # "none"
  <2>1. <<c, a>> \in ApiRequests
    BY DEF ApiRequests
  <2>2. ASSUME NEW r \in handled' PROVE r \in ApiRequests /\ apiRequest'[r[1]][r[2]] # "none"
    <3>1. CASE r = <<c, a>>
      BY <1>2, <2>1, <3>1
    <3>2. CASE r \in handled
      <4>1. r \in ApiRequests /\ apiRequest[r[1]][r[2]] # "none" /\ r[1] \in Commands /\ r[2] \in Attempts
        BY <3>2 DEF ApiIInv, ApiRequests
      <4> QED
        BY <1>2, <4>1
    <3> QED
      BY <3>1, <3>2
  <2> QED
    BY <2>2
<1>5. \A d \in Commands : CommandOK(d)'
  BY DEF ApiIInv, CommandOK
<1> QED
  BY <1>2, <1>3, <1>4, <1>5 DEF ApiIInv

\* Nobody else is admitted where the limit has not been asked.
LEMMA QuietRequestStep ==
  ASSUME ApiIInv, NEW c \in Commands, NEW a \in Attempts, Sent(c, a),
         NEW step \in {"authenticating", "authorizing", "completing", "answered"},
         ApiGoes(c, a, step), UNCHANGED <<command, exitCode, streamed>>,
         handled' \subseteq handled \cup {r \in {<<c, a>>} : apiRequest[c][a] = "receiving"},
         \/ UNCHANGED consumed
         \/ consume(c)
  PROVE  ApiIInv'
<1>1. apiRequest' = [apiRequest EXCEPT ![c][a] = step]
  BY DEF ApiGoes
<1>2. \A d \in Commands, b \in Attempts :
        apiRequest'[d][b] = "receiving" => apiRequest[d][b] = "receiving"
  BY <1>1 DEF ApiIInv
<1>3. <<c, a>> \in ApiRequests
  BY DEF ApiRequests
<1>4. Admitted' \subseteq Admitted
  <2>1. \A r \in ApiRequests : r[1] \in Commands /\ r[2] \in Attempts
    BY DEF ApiRequests
  <2>2. apiRequest[c][a] = "receiving" => <<c, a>> \in Admitted
    BY <1>3 DEF Admitted
  <2>3. handled' \subseteq Admitted
    BY <2>2 DEF Admitted
  <2> QED
    BY <1>2, <2>1, <2>3 DEF Admitted
<1>5. consumed \in [{Principal[d] : d \in Commands} -> [{Kind[d] : d \in Commands} -> Nat]]
  BY DEF ApiIInv
<1>6. /\ consumed' \in [{Principal[d] : d \in Commands} -> [{Kind[d] : d \in Commands} -> Nat]]
      /\ \A p \in {Principal[d] : d \in Commands}, k \in {Kind[d] : d \in Commands} :
           consumed[p][k] <= consumed'[p][k]
  <2>1. PICK P, K : P = {Principal[d] : d \in Commands} /\ K = {Kind[d] : d \in Commands}
    OBVIOUS
  <2>2. consumed \in [P -> [K -> Nat]] /\ Principal[c] \in P /\ Kind[c] \in K
    BY <1>5, <2>1
  <2>3. ASSUME consume(c)
        PROVE  /\ consumed' \in [P -> [K -> Nat]]
               /\ \A p \in P, k \in K :
                    consumed'[p][k] = consumed[p][k] \/ consumed'[p][k] = consumed[p][k] + 1
    BY <2>2, <2>3 DEF consume
  <2>4. \A p \in P, k \in K : consumed[p][k] \in Nat
    BY <2>2
  <2>5. consumed' \in [P -> [K -> Nat]] /\ \A p \in P, k \in K : consumed[p][k] <= consumed'[p][k]
    BY <2>2, <2>3, <2>4
  <2> QED
    BY <2>1, <2>5
<1>7. ASSUME NEW p \in DOMAIN consumed', NEW k \in DOMAIN consumed'[p]
      PROVE  /\ Cardinality(Admitted' \cap RouteOf(p, k)) <= consumed'[p][k]
             /\ Cardinality(Admitted' \cap RouteOf(p, k)) <= RateLimit
  <2>1. /\ p \in {Principal[d] : d \in Commands} /\ k \in {Kind[d] : d \in Commands}
        /\ p \in DOMAIN consumed /\ k \in DOMAIN consumed[p]
        /\ consumed[p][k] \in Nat /\ consumed'[p][k] \in Nat
    BY <1>5, <1>6
  <2>2. PICK old : old = Cardinality(Admitted \cap RouteOf(p, k))
    OBVIOUS
  <2>3. PICK new : new = Cardinality(Admitted' \cap RouteOf(p, k))
    OBVIOUS
  <2>4. new <= old /\ new \in Nat /\ old \in Nat
    BY <1>4, <2>2, <2>3, FewerAdmitted
  <2>5. old <= consumed[p][k] /\ old <= RateLimit
    BY <2>1, <2>2 DEF ApiIInv
  <2>6. consumed[p][k] <= consumed'[p][k]
    BY <1>6, <2>1
  <2>7. new <= consumed'[p][k] /\ new <= RateLimit
    BY <2>1, <2>4, <2>5, <2>6, ApiAssumption
  <2> QED
    BY <2>3, <2>7
<1>8. handled' \subseteq handled \cup {<<c, a>>}
  OBVIOUS
<1> QED
  BY <1>6, <1>7, <1>8, RequestStep

LEMMA AuthenticatingKeeps ==
  ASSUME ApiIInv, NEW c \in Commands, NEW a \in Attempts, Authenticating(c, a)
  PROVE  ApiIInv'
  BY QuietRequestStep DEF Authenticating, Unroutable, Responds

\* A request that has begun was sent.
LEMMA BegunIsSent ==
  ASSUME ApiIInv, NEW c \in Commands, NEW a \in Attempts, apiRequest[c][a] # "none"
  PROVE  Sent(c, a)
  BY DEF ApiIInv

LEMMA AuthenticatedKeeps ==
  ASSUME ApiIInv, NEW c \in Commands, NEW a \in Attempts, Authenticated(c, a)
  PROVE  ApiIInv'
  BY QuietRequestStep, BegunIsSent DEF Authenticated, Invalid, Responds

\* A request within the limit is counted and admitted.
LEMMA AuthorizedKeeps ==
  ASSUME ApiIInv, NEW c \in Commands, NEW a \in Attempts, Authorized(c, a)
  PROVE  ApiIInv'
<1>1. /\ Sent(c, a) /\ UNCHANGED <<command, exitCode, streamed, handled>>
      /\ apiRequest[c][a] = "authorizing"
  BY BegunIsSent DEF Authorized
<1>2. CASE Responds(c, a, "failed") /\ (UNCHANGED consumed \/ consume(c))
  BY <1>1, <1>2, QuietRequestStep DEF Responds
<1>3. CASE consume(c) /\ Allowed(c) /\ ApiGoes(c, a, "receiving")
  <2>1. PICK P, K : P = {Principal[d] : d \in Commands} /\ K = {Kind[d] : d \in Commands}
    OBVIOUS
  <2>2. PICK p \in P, k \in K : p = Principal[c] /\ k = Kind[c]
    BY <2>1
  <2>3. consumed \in [P -> [K -> Nat]]
    BY <2>1 DEF ApiIInv
  <2>4. /\ consumed' \in [P -> [K -> Nat]] /\ consumed'[p][k] = consumed[p][k] + 1
        /\ \A q \in P, l \in K : ~(q = p /\ l = k) => consumed'[q][l] = consumed[q][l]
    BY <1>3, <2>2, <2>3 DEF consume
  <2>5. consumed[p][k] + 1 <= RateLimit
    BY <1>3, <2>2 DEF Allowed, Counted
  <2>6. <<c, a>> \in ApiRequests /\ Admitted' = Admitted \cup {<<c, a>>}
    <3>1. <<c, a>> \in ApiRequests /\ apiRequest \in [Commands -> [Attempts ->
             {"none", "authenticating", "authorizing", "receiving", "completing", "answered"}]]
      BY DEF ApiRequests, ApiIInv
    <3>2. \A d \in Commands, b \in Attempts :
            apiRequest'[d][b] = "receiving" <=>
              apiRequest[d][b] = "receiving" \/ (d = c /\ b = a)
      BY <1>3, <3>1 DEF ApiGoes
    <3>3. \A r \in ApiRequests : r[1] \in Commands /\ r[2] \in Attempts /\ r = <<r[1], r[2]>>
      BY DEF ApiRequests
    <3>4. \A r \in ApiRequests :
            apiRequest'[r[1]][r[2]] = "receiving" <=>
              apiRequest[r[1]][r[2]] = "receiving" \/ r = <<c, a>>
      BY <3>2, <3>3
    <3> QED
      BY <1>1, <3>1, <3>4 DEF Admitted
  <2>7. ASSUME NEW q \in P, NEW l \in K
        PROVE  /\ Cardinality(Admitted' \cap RouteOf(q, l)) <= consumed'[q][l]
               /\ Cardinality(Admitted' \cap RouteOf(q, l)) <= RateLimit
    <3>1. PICK old : old = Cardinality(Admitted \cap RouteOf(q, l))
      OBVIOUS
    <3>2. /\ old <= consumed[q][l] /\ old <= RateLimit
      BY <2>3, <3>1 DEF ApiIInv
    <3>3. old \in Nat
      BY <3>1, FewerAdmitted
    <3>4. CASE q = p /\ l = k
      <4>1. IsFiniteSet(Admitted \cap RouteOf(q, l))
        BY RequestsAreFinite, FS_Subset DEF RouteOf
      <4>2. Admitted' \cap RouteOf(q, l) = (Admitted \cap RouteOf(q, l)) \cup {<<c, a>>}
        BY <2>2, <2>6, <3>4 DEF RouteOf
      <4>3. PICK new : new = Cardinality(Admitted' \cap RouteOf(q, l))
        OBVIOUS
      <4>4. new = old \/ new = old + 1
        BY <3>1, <4>1, <4>2, <4>3, FS_AddElement
      <4>5. consumed[p][k] \in Nat /\ RateLimit \in Nat
        BY <2>3, ApiAssumption
      <4>6. new <= consumed'[q][l] /\ new <= RateLimit
        BY <2>4, <2>5, <3>2, <3>3, <3>4, <4>4, <4>5
      <4> QED
        BY <4>3, <4>6
    <3>5. CASE ~(q = p /\ l = k)
      <4>1. Admitted' \cap RouteOf(q, l) = Admitted \cap RouteOf(q, l)
        BY <2>2, <2>6, <3>5 DEF RouteOf
      <4> QED
        BY <2>4, <3>1, <3>2, <3>5, <4>1
    <3> QED
      BY <3>4, <3>5
  <2>8. \A q \in DOMAIN consumed' : \A l \in DOMAIN consumed'[q] :
          /\ Cardinality(Admitted' \cap RouteOf(q, l)) <= consumed'[q][l]
          /\ Cardinality(Admitted' \cap RouteOf(q, l)) <= RateLimit
    BY <2>4, <2>7
  <2> QED
    BY <1>1, <1>3, <2>1, <2>4, <2>8, RequestStep
<1> QED
  BY <1>2, <1>3 DEF Authorized

LEMMA HandlesKeeps ==
  ASSUME ApiIInv, NEW c \in Commands, NEW a \in Attempts,
         Handles(c, a) \/ Completed(c, a) \/ ApiFails(c, a)
  PROVE  ApiIInv'
<1>1. apiRequest[c][a] # "none"
  BY DEF Handles, Completed, ApiFails
<1>2. /\ Sent(c, a) /\ UNCHANGED <<command, exitCode, streamed, consumed>>
      /\ handled' \subseteq handled \cup {r \in {<<c, a>>} : apiRequest[c][a] = "receiving"}
      /\ ApiGoes(c, a, "completing") \/ ApiGoes(c, a, "answered")
  BY <1>1, BegunIsSent DEF Handles, Completed, ApiFails, Responds
<1> QED
  BY <1>2, QuietRequestStep

LEMMA ApiStepOK == ApiIInv /\ [ApiNext]_apiVars => ApiIInv'
<1> SUFFICES ASSUME ApiIInv, [ApiNext]_apiVars PROVE ApiIInv'
  OBVIOUS
<1>1. CASE UNCHANGED apiVars
  BY <1>1, ZenonT(40) DEF apiVars, ApiIInv, CommandOK, Admitted, Sent
<1>2. CASE \E c \in Commands :
        \/ RefusesCommand(c) \/ prepare(c) \/ Receives(c) \/ TransportFails(c) \/ Cancels(c)
        \/ NextFrame(c) \/ CancelsFrame(c) \/ YieldsFrame(c) \/ StreamEnds(c) \/ StreamFails(c)
  BY <1>2, RefusesKeeps, PrepareKeeps, ReceivesKeeps, TransportFailsKeeps, CancelsKeeps,
     NextFrameKeeps, YieldsFrameKeeps, StreamEndsKeeps
<1>3. CASE \E c \in Commands : \E a \in Attempts :
        \/ Authenticating(c, a) \/ Authenticated(c, a) \/ Authorized(c, a)
        \/ Handles(c, a) \/ Completed(c, a) \/ ApiFails(c, a)
  BY <1>3, AuthenticatingKeeps, AuthenticatedKeeps, AuthorizedKeeps, HandlesKeeps
<1> QED
  BY <1>1, <1>2, <1>3 DEF ApiNext

(* Whatever the transport loses, delays or answers late, a command creates at most     *)
(* once, and the handlers run within the limit of their principal                         *)
(* (sdk-framework/src/index.ts 229-257, api-framework/src/index.ts 252-258).                *)
THEOREM RetriesAreSafe == ApiSpec => []ApiInv
<1>1. ApiIInv => ApiInv
  <2> SUFFICES ASSUME ApiIInv PROVE ApiInv
    OBVIOUS
  <2>1. ApiTypeOK
    BY CommandIs DEF ApiIInv, ApiTypeOK, CommandOK, CommandState, Sent
  <2>2. CreatedAtMostOnce
    <3>1. ASSUME NEW c \in Commands, NEW a \in Attempts, Kind[c] = "create", <<c, a>> \in handled
          PROVE  a = 1
      <4>1. apiRequest[c][a] # "none"
        BY <3>1 DEF ApiIInv
      <4>2. a <= command[c].attempt /\ command[c].attempt <= 1
        BY <3>1, <4>1, BegunIsSent, CommandIs DEF Sent, CommandOK
      <4> QED
        BY <4>2, CommandIs DEF Attempts
    <3> QED
      BY <3>1 DEF CreatedAtMostOnce
  <2>3. WithinRateLimit
    <3>1. ASSUME NEW p \in DOMAIN consumed, NEW k \in DOMAIN consumed[p]
          PROVE  Cardinality({r \in handled : Principal[r[1]] = p /\ Kind[r[1]] = k}) <= RateLimit
      <4>1. PICK S : S = {r \in handled : Principal[r[1]] = p /\ Kind[r[1]] = k}
        OBVIOUS
      <4>2. S = handled \cap RouteOf(p, k)
        BY <4>1 DEF ApiIInv, RouteOf
      <4>3. handled \subseteq Admitted
        BY DEF Admitted
      <4>4. PICK m, n : m = Cardinality(S) /\ n = Cardinality(Admitted \cap RouteOf(p, k))
        OBVIOUS
      <4>5. m <= n /\ m \in Nat /\ n \in Nat
        BY <4>2, <4>3, <4>4, FewerAdmitted
      <4>6. n <= RateLimit
        BY <4>4 DEF ApiIInv
      <4>7. m <= RateLimit
        BY <4>5, <4>6, ApiAssumption
      <4> QED
        BY <4>1, <4>4, <4>7
    <3> QED
      BY <3>1 DEF WithinRateLimit
  <2> QED
    BY <2>1, <2>2, <2>3 DEF ApiInv
<1> QED
  BY <1>1, ApiInitOK, ApiStepOK, PTL DEF ApiSpec

-----------------------------------------------------------------------------
(* Governance: registries only of valid records, within their bound; what is released *)
(* obeyed the version rules.                                                            *)

GovernanceIInv ==
  /\ blueprints \in Seq(Blueprints) /\ migrations \in Seq(Migrations)
  /\ Len(blueprints) + Len(migrations) <= MaxRecords
  /\ adrs \subseteq Adrs /\ deprecations \subseteq Deprecations /\ released \subseteq Changes
  /\ \A d, e \in deprecations : d.id = e.id => d = e
  /\ \A a \in governanceAudit : a.change \in released
  /\ \A c \in released : Versioned(c)

(* What is not older than its predecessor has a major number that is not lower. *)
LEMMA MajorsFollow ==
  ASSUME NEW v \in SemanticVersion, NEW w \in SemanticVersion, ~Older(v, w)
  PROVE  w[1] <= v[1]
BY DEF SemanticVersion, Older

(* Every component of a version is a number. *)
LEMMA MajorIs == \A v \in SemanticVersion : v[1] \in Nat
BY DEF SemanticVersion

(* A breaking change raises the major number, so it leaves every range '^'. *)
LEMMA VersionedIsCompatible ==
  ASSUME \A c \in released : Versioned(c), released \subseteq Changes
  PROVE  CaretIsCompatible
<1> SUFFICES ASSUME NEW first \in released, NEW last \in released, NEW c \in released,
                    first.previous[1] = last.target[1],
                    ~Older(c.previous, first.previous), ~Older(last.target, c.target)
             PROVE  ~Breaking(c)
  BY DEF CaretIsCompatible
<1>1. /\ first.previous \in SemanticVersion /\ last.target \in SemanticVersion
      /\ c.previous \in SemanticVersion /\ c.target \in SemanticVersion
  BY GovernanceAssumption
<1>2. first.previous[1] <= c.previous[1]
  BY <1>1, MajorsFollow
<1>3. c.target[1] <= last.target[1]
  BY <1>1, MajorsFollow
<1>4. c.target[1] \in Nat /\ c.previous[1] \in Nat /\ last.target[1] \in Nat
  BY <1>1, MajorIs
<1>5. ~(c.target[1] > c.previous[1])
  BY <1>2, <1>3, <1>4
<1> QED
  BY <1>5 DEF Versioned

LEMMA GovernanceInitOK == GovernanceInit => GovernanceIInv
<1> SUFFICES ASSUME GovernanceInit PROVE GovernanceIInv
  OBVIOUS
<1>1. blueprints = <<>> /\ migrations = <<>> /\ Len(<<>>) = 0 /\ MaxRecords \in Nat
  BY GovernanceAssumption DEF GovernanceInit
<1>2. <<>> \in Seq(Blueprints) /\ <<>> \in Seq(Migrations)
  OBVIOUS
<1> QED
  BY <1>1, <1>2 DEF GovernanceInit, GovernanceIInv

(* One record more in a registry that has room. *)
LEMMA RegistryGrows ==
  ASSUME NEW S, NEW history \in Seq(S), NEW x \in S
  PROVE  /\ Append(history, x) \in Seq(S) /\ Len(Append(history, x)) = Len(history) + 1
         /\ Len(history) \in Nat
OBVIOUS

LEMMA GovernanceStepOK == GovernanceIInv /\ [GovernanceNext]_governanceVars => GovernanceIInv'
<1> SUFFICES ASSUME GovernanceIInv, [GovernanceNext]_governanceVars PROVE GovernanceIInv'
  OBVIOUS
<1> USE DEF GovernanceIInv
<1>0. Len(blueprints) \in Nat /\ Len(migrations) \in Nat
  OBVIOUS
<1>1. ASSUME NEW b \in Blueprints, registerBlueprint(b) PROVE GovernanceIInv'
  <2>1. Append(blueprints, b) \in Seq(Blueprints) /\ Len(Append(blueprints, b)) = Len(blueprints) + 1
    BY RegistryGrows, Zenon
  <2>2. Len(blueprints) + Len(migrations) < MaxRecords
    BY <1>1 DEF registerBlueprint, Room
  <2>3. blueprints' = Append(blueprints, b)
        /\ adrs' = adrs /\ migrations' = migrations /\ deprecations' = deprecations
        /\ released' = released /\ governanceAudit' = governanceAudit
    BY <1>1 DEF registerBlueprint
  <2>4. (Len(blueprints) + 1) + Len(migrations) <= MaxRecords
    BY <1>0, <2>2, GovernanceAssumption
  <2>5. Len(blueprints') + Len(migrations') <= MaxRecords /\ blueprints' \in Seq(Blueprints)
    BY <2>1, <2>3, <2>4, Zenon
  <2> QED
    BY <2>3, <2>5, Zenon
<1>2. ASSUME NEW a \in Adrs, createAdr(a) PROVE GovernanceIInv'
  BY <1>2 DEF createAdr
<1>3. ASSUME NEW m \in Migrations, registerMigration(m) PROVE GovernanceIInv'
  <2>1. Append(migrations, m) \in Seq(Migrations) /\ Len(Append(migrations, m)) = Len(migrations) + 1
    BY RegistryGrows, Zenon
  <2>2. Len(blueprints) + Len(migrations) < MaxRecords
    BY <1>3 DEF registerMigration, Room
  <2>3. migrations' = Append(migrations, m)
        /\ adrs' = adrs /\ blueprints' = blueprints /\ deprecations' = deprecations
        /\ released' = released /\ governanceAudit' = governanceAudit
    BY <1>3 DEF registerMigration
  <2>4. Len(blueprints) + (Len(migrations) + 1) <= MaxRecords
    BY <1>0, <2>2, GovernanceAssumption
  <2>5. Len(blueprints') + Len(migrations') <= MaxRecords /\ migrations' \in Seq(Migrations)
    BY <2>1, <2>3, <2>4, Zenon
  <2> QED
    BY <2>3, <2>5, Zenon
<1>4. ASSUME NEW d \in Deprecations, registerDeprecation(d) PROVE GovernanceIInv'
  BY <1>4 DEF registerDeprecation
<1>5. ASSUME NEW c \in Changes, NEW extensions \in SUBSET Extensions, validateRelease(c, extensions)
      PROVE  GovernanceIInv'
  <2>1. Versioned(c) /\ released' = released \cup {c}
    BY <1>5 DEF validateRelease
  <2>2. \A a \in AuditsOf(c) : a.change = c
    BY DEF AuditsOf
  <2>3. \A a \in governanceAudit' : a.change \in released'
    BY <1>5, <2>1, <2>2 DEF validateRelease
  <2>4. UNCHANGED <<blueprints, adrs, migrations, deprecations>>
    BY <1>5 DEF validateRelease
  <2> QED
    BY <2>1, <2>3, <2>4
<1>6. CASE UNCHANGED governanceVars
  BY <1>6 DEF governanceVars
<1> QED
  BY <1>1, <1>2, <1>3, <1>4, <1>5, <1>6 DEF GovernanceNext

LEMMA GovernanceIInvImplies == GovernanceIInv => GovernanceInv
<1> SUFFICES ASSUME GovernanceIInv PROVE GovernanceInv
  OBVIOUS
<1>1. Len(blueprints) <= MaxRecords /\ Len(migrations) <= MaxRecords
  <2>1. Len(blueprints) \in Nat /\ Len(migrations) \in Nat
    BY DEF GovernanceIInv
  <2> QED
    BY <2>1, GovernanceAssumption DEF GovernanceIInv
<1>2. ToSet(blueprints) \subseteq Blueprints /\ ToSet(migrations) \subseteq Migrations
  BY DEF GovernanceIInv, ToSet
<1>3. CaretIsCompatible
  BY VersionedIsCompatible DEF GovernanceIInv
<1> QED
  BY <1>1, <1>2, <1>3 DEF GovernanceIInv, GovernanceInv, GovernanceTypeOK

-----------------------------------------------------------------------------
(* Verification: the tests before the next one have results, and were executed as *)
(* their results say unless one of them failed.                                     *)

RunnerSteps ==
  {"idle", "next", "executing", "announcing", "caught", "auditing", "done", "rejected"}
TestResults == [test : ToSet(Suite), outcome : {"passed", "failed"}]

\* how many tests of the suite have a result
Finished(r) == IF r.step \in {"idle", "next", "executing"} THEN r.test - 1 ELSE r.test
\* and how many results at most
MostResults(r) ==
  CASE r.step \in {"idle", "next", "executing"} -> 2 * (r.test - 1)
    [] r.step = "announcing" -> 2 * r.test - 1
    [] OTHER -> 2 * r.test

AllPassedOf(kept) == \A n \in 1..Len(kept) : kept[n].outcome = "passed"
PassedUpTo(n, outcomes) == \A i \in 1..n : outcomes[Suite[i]] = "passed"

VerificationIInv ==
  /\ catalog \subseteq ToSet(Suite)
  /\ runner \in [step : RunnerSteps, test : 1..Len(Suite)]
  /\ results \in Seq(TestResults)
  /\ executed \in [ToSet(Suite) -> {NotRun, "passed", "failed"}]
  /\ certified \in {"none", "passed", "failed"}
  /\ runner.step # "rejected" =>
       /\ Len(results) <= MostResults(runner)
       /\ AllPassedOf(results) => PassedUpTo(Finished(runner), executed)
  /\ Len(results) <= 2 * Len(Suite)
  /\ runner.step \in {"auditing", "done"} => runner.test = Len(Suite)
  /\ certified = "passed" => runner.step = "done" /\ PassedUpTo(Len(Suite), executed)
  /\ suiteReport.status = "passed" =>
       /\ runner.step = "done" /\ PassedUpTo(Len(Suite), executed)
       /\ \A r \in Required : r \in DOMAIN findings /\ findings[r].passed

LEMMA VerificationInitOK == VerificationInit => VerificationIInv
<1> SUFFICES ASSUME VerificationInit PROVE VerificationIInv
  OBVIOUS
<1>1. Len(Suite) \in Nat /\ Len(Suite) > 0
  BY VerificationAssumption
<1>2. runner = [step |-> "idle", test |-> 1] /\ results = <<>>
  BY DEF VerificationInit
<1>3. runner \in [step : RunnerSteps, test : 1..Len(Suite)] /\ MostResults(runner) = 0
      /\ Finished(runner) = 0 /\ results \in Seq(TestResults) /\ Len(results) = 0
  BY <1>1, <1>2 DEF RunnerSteps, MostResults, Finished
<1>4. Len(results) <= 2 * Len(Suite)
  BY <1>1, <1>3
<1>5. PassedUpTo(Finished(runner), executed)
  BY <1>3 DEF PassedUpTo
<1>6. executed \in [ToSet(Suite) -> {NotRun, "passed", "failed"}] /\ catalog = {}
      /\ certified = "none" /\ suiteReport.status = "none"
  BY DEF VerificationInit, NoReport
<1> QED
  BY <1>2, <1>3, <1>4, <1>5, <1>6 DEF VerificationIInv

(* A result more. *)
LEMMA ResultAdded ==
  ASSUME NEW kept \in Seq(TestResults), NEW r \in TestResults
  PROVE  /\ Append(kept, r) \in Seq(TestResults) /\ Len(kept) \in Nat
         /\ Len(Append(kept, r)) = Len(kept) + 1
         /\ AllPassedOf(Append(kept, r)) => AllPassedOf(kept) /\ r.outcome = "passed"
<1>1. Append(kept, r) \in Seq(TestResults) /\ Len(kept) \in Nat
      /\ Len(Append(kept, r)) = Len(kept) + 1
  OBVIOUS
<1>2. \A n \in 1..Len(kept) : Append(kept, r)[n] = kept[n] /\ n \in 1..(Len(kept) + 1)
  OBVIOUS
<1>3. Append(kept, r)[Len(kept) + 1] = r /\ Len(kept) + 1 \in 1..(Len(kept) + 1)
  OBVIOUS
<1> QED
  BY <1>1, <1>2, <1>3 DEF AllPassedOf

(* A test that passed extends the tests that have. *)
LEMMA PassedOneMore ==
  ASSUME NEW n \in 1..Len(Suite), NEW outcomes \in [ToSet(Suite) -> {NotRun, "passed", "failed"}],
         PassedUpTo(n - 1, outcomes), Len(Suite) \in Nat
  PROVE  PassedUpTo(n, [outcomes EXCEPT ![Suite[n]] = "passed"])
<1> SUFFICES ASSUME NEW i \in 1..n
             PROVE  [outcomes EXCEPT ![Suite[n]] = "passed"][Suite[i]] = "passed"
  BY DEF PassedUpTo
<1>1. i \in 1..Len(Suite) /\ (i = n \/ i \in 1..(n - 1))
  OBVIOUS
<1>2. Suite[i] \in ToSet(Suite)
  BY <1>1, VerificationAssumption DEF ToSet
<1> QED
  BY <1>1, <1>2 DEF PassedUpTo

LEMMA AllPassedIs == VerificationIInv => (AllPassed <=> AllPassedOf(results))
<1> SUFFICES ASSUME VerificationIInv PROVE AllPassed <=> AllPassedOf(results)
  OBVIOUS
<1>1. DOMAIN results = 1..Len(results)
  BY DEF VerificationIInv
<1> QED
  BY <1>1 DEF AllPassed, AllPassedOf, ToSet


LEMMA VerificationStepOK == VerificationIInv /\ [VerificationNext]_verificationVars => VerificationIInv'
<1> SUFFICES ASSUME VerificationIInv, [VerificationNext]_verificationVars PROVE VerificationIInv'
  OBVIOUS
<1> USE DEF VerificationIInv
<1>s. Len(Suite) \in Nat \ {0}
  BY VerificationAssumption
<1> PICK len \in Nat \ {0} : len = Len(Suite)
  BY <1>s, Zenon
<1> PICK s \in RunnerSteps, n \in 1..len : runner = [step |-> s, test |-> n]
  OBVIOUS
<1>t. Test \in ToSet(Suite) /\ Test = Suite[n]
  BY VerificationAssumption DEF Test, ToSet
<1>l. Len(results) \in Nat
  OBVIOUS
<1>1. CASE registerSuite
  BY <1>1 DEF registerSuite
<1>2. CASE run
  <2>1. runner' = [step |-> "next", test |-> 1] /\ results' = <<>>
        /\ UNCHANGED <<catalog, executed, certified, suiteReport, findings>> /\ s = "idle"
    BY <1>2 DEF run
  <2>2. MostResults(runner') = 0 /\ Finished(runner') = 0
        /\ runner' \in [step : RunnerSteps, test : 1..Len(Suite)]
    BY <2>1 DEF MostResults, Finished, RunnerSteps
  <2>3. Len(results') = 0 /\ results' \in Seq(TestResults) /\ 0 <= 2 * Len(Suite)
    BY <2>1
  <2>4. PassedUpTo(Finished(runner'), executed')
    BY <2>2 DEF PassedUpTo
  <2>5. certified' # "passed" /\ suiteReport'.status # "passed"
    BY <2>1
  <2>6. runner'.step = "next"
    BY <2>1
  <2> QED
    BY <2>1, <2>2, <2>3, <2>4, <2>5, <2>6
<1>3. CASE Starts
  <2>1. /\ s = "next" /\ UNCHANGED <<catalog, results, executed, certified, suiteReport, findings>>
        /\ \E to \in {"executing", "rejected"} : runner' = [step |-> to, test |-> n]
    BY <1>3 DEF Starts
  <2>2. PICK to \in {"executing", "rejected"} : runner' = [step |-> to, test |-> n]
    BY <2>1
  <2>3. runner' \in [step : RunnerSteps, test : 1..Len(Suite)]
    BY <2>2 DEF RunnerSteps
  <2>4. to = "executing" => MostResults(runner') = MostResults(runner)
                            /\ Finished(runner') = Finished(runner)
    BY <2>1, <2>2 DEF MostResults, Finished
  <2> QED
    BY <2>1, <2>2, <2>3, <2>4
<1>4. CASE Executes
  <2>1. PICK outcome \in {"passed", "failed"}, rejects \in BOOLEAN :
          /\ rejects => outcome = "failed"
          /\ executed' = [executed EXCEPT ![Test] = outcome]
          /\ results' = Append(results, Result(outcome))
          /\ runner' = [runner EXCEPT !.step = IF rejects THEN "caught" ELSE "announcing"]
    BY <1>4 DEF Executes
  <2>2. s = "executing" /\ UNCHANGED <<catalog, certified, suiteReport, findings>>
    BY <1>4 DEF Executes
  <2>3. PICK to \in {"caught", "announcing"} : runner' = [step |-> to, test |-> n]
    BY <2>1
  <2>4. Result(outcome) \in TestResults /\ Result(outcome).outcome = outcome
    BY <1>t DEF Result, TestResults
  <2>5. /\ results' \in Seq(TestResults) /\ Len(results') = Len(results) + 1
        /\ AllPassedOf(results') => AllPassedOf(results) /\ outcome = "passed"
    BY <2>1, <2>4, ResultAdded
  <2>6. Len(results) <= 2 * (n - 1) /\ (AllPassedOf(results) => PassedUpTo(n - 1, executed))
    BY <2>2 DEF MostResults, Finished
  <2>7. Len(results') <= 2 * n - 1 /\ Len(results') <= 2 * Len(Suite)
    BY <1>l, <2>5, <2>6
  <2>8. MostResults(runner') \in {2 * n, 2 * n - 1} /\ Finished(runner') = n
        /\ runner' \in [step : RunnerSteps, test : 1..Len(Suite)] /\ runner'.step = to
    BY <2>3 DEF MostResults, Finished, RunnerSteps
  <2>9. AllPassedOf(results') => PassedUpTo(n, executed')
    BY <1>t, <2>1, <2>5, <2>6, PassedOneMore
  <2>10. Len(results') <= MostResults(runner')
    BY <1>l, <2>5, <2>7, <2>8
  <2>11. executed' \in [ToSet(Suite) -> {NotRun, "passed", "failed"}]
    BY <2>1
  <2>12. certified' # "passed" /\ suiteReport'.status # "passed"
    BY <2>2
  <2> QED
    BY <2>2, <2>3, <2>5, <2>7, <2>8, <2>9, <2>10, <2>11, <2>12
<1>5. CASE AnnouncesResult
  <2>1. /\ s \in {"announcing", "caught"} /\ Follows
        /\ UNCHANGED <<catalog, results, executed, certified, suiteReport, findings>>
    BY <1>5 DEF AnnouncesResult
  <2>2. Len(results) <= 2 * n /\ (AllPassedOf(results) => PassedUpTo(n, executed))
    BY <1>l, <2>1 DEF MostResults, Finished
  <2>3. CASE n = len
    <3>1. runner' = [step |-> "auditing", test |-> n]
      BY <2>1, <2>3 DEF Follows
    <3>2. MostResults(runner') = 2 * n /\ Finished(runner') = n
          /\ runner' \in [step : RunnerSteps, test : 1..Len(Suite)] /\ runner'.step = "auditing"
      BY <3>1 DEF MostResults, Finished, RunnerSteps
    <3> QED
      BY <2>1, <2>2, <2>3, <3>1, <3>2
  <2>4. CASE n # len
    <3>1. runner' = [step |-> "next", test |-> n + 1]
      BY <2>1, <2>4 DEF Follows
    <3>2. MostResults(runner') = 2 * n /\ Finished(runner') = n
          /\ runner' \in [step : RunnerSteps, test : 1..Len(Suite)] /\ runner'.step = "next"
      BY <2>4, <3>1 DEF MostResults, Finished, RunnerSteps
    <3> QED
      BY <2>1, <2>2, <2>4, <3>1, <3>2
  <2> QED
    BY <2>3, <2>4
<1>6. CASE AnnouncementThrows
  <2>1. /\ s = "announcing" /\ UNCHANGED <<catalog, executed, certified, suiteReport, findings>>
        /\ results' = Append(results, Result("failed")) /\ runner' = [step |-> "caught", test |-> n]
    BY <1>6 DEF AnnouncementThrows, Caught
  <2>2. Result("failed") \in TestResults /\ Result("failed").outcome = "failed"
    BY <1>t DEF Result, TestResults
  <2>3. /\ results' \in Seq(TestResults) /\ Len(results') = Len(results) + 1
        /\ ~AllPassedOf(results')
    BY <2>1, <2>2, ResultAdded
  <2>4. Len(results) <= 2 * n - 1
    BY <2>1 DEF MostResults
  <2>5. MostResults(runner') = 2 * n /\ runner'.step = "caught"
        /\ runner' \in [step : RunnerSteps, test : 1..Len(Suite)]
    BY <2>1 DEF MostResults, RunnerSteps
  <2>6. Len(results') <= 2 * n /\ Len(results') <= 2 * Len(Suite)
    BY <1>l, <2>3, <2>4
  <2> QED
    BY <2>1, <2>3, <2>5, <2>6
<1>7. CASE Audits
  <2>1. /\ s = "auditing" /\ runner' = [step |-> "done", test |-> n] /\ n = len
        /\ certified' = (IF AllPassed THEN "passed" ELSE "failed")
        /\ UNCHANGED <<catalog, results, executed, suiteReport, findings>>
    BY <1>7 DEF Audits
  <2>2. MostResults(runner') = MostResults(runner) /\ Finished(runner') = n /\ Finished(runner) = n
        /\ runner' \in [step : RunnerSteps, test : 1..Len(Suite)] /\ runner'.step = "done"
    BY <2>1 DEF MostResults, Finished, RunnerSteps
  <2>3. certified' = "passed" => PassedUpTo(n, executed)
    BY <2>1, <2>2, AllPassedIs
  <2>4. certified' \in {"none", "passed", "failed"} /\ suiteReport'.status # "passed"
    BY <2>1
  <2> QED
    BY <2>1, <2>2, <2>3, <2>4
<1>8. CASE BuildsReport
  <2>1. s = "done" /\ UNCHANGED <<catalog, runner, results, executed, certified, findings>>
        /\ n = len
    BY <1>8 DEF BuildsReport
  <2>2. suiteReport'.status = "passed" => CountOf("failed") = 0 /\ Failures = {}
    BY <1>8 DEF BuildsReport
  <2>3. ASSUME CountOf("failed") = 0 PROVE AllPassedOf(results)
    <3>1. DOMAIN results = 1..Len(results) /\ Len(results) \in Nat
      OBVIOUS
    <3>2. IsFiniteSet(1..Len(results))
      BY <3>1, FS_Interval
    <3>3. IsFiniteSet({i \in DOMAIN results : results[i].outcome = "failed"})
      BY <3>1, <3>2, FS_Subset
    <3>4. {i \in DOMAIN results : results[i].outcome = "failed"} = {}
      BY <2>3, <3>3, FS_EmptySet DEF CountOf
    <3>5. \A i \in 1..Len(results) : results[i] \in TestResults
      OBVIOUS
    <3> QED
      BY <3>1, <3>4, <3>5 DEF AllPassedOf, TestResults
  <2>4. ASSUME Failures = {}
        PROVE  \A r \in Required : r \in DOMAIN findings /\ findings[r].passed
    BY <2>4 DEF Failures
  <2>5. Finished(runner) = n
    BY <2>1 DEF Finished
  <2>6. AllPassedOf(results) => PassedUpTo(len, executed)
    BY <2>1, <2>5
  <2>7. suiteReport'.status = "passed" =>
          /\ PassedUpTo(len, executed)
          /\ \A r \in Required : r \in DOMAIN findings /\ findings[r].passed
    BY <2>2, <2>3, <2>4, <2>6
  <2> QED
    BY <2>1, <2>7
<1>9. ASSUME NEW step \in {"next", "caught", "auditing"}, AnnounceFails(step) PROVE VerificationIInv'
  <2>1. /\ s = step /\ runner' = [step |-> "rejected", test |-> n]
        /\ UNCHANGED <<catalog, results, executed, certified, suiteReport, findings>>
    BY <1>9 DEF AnnounceFails
  <2>2. runner' \in [step : RunnerSteps, test : 1..Len(Suite)] /\ runner'.step = "rejected"
    BY <2>1 DEF RunnerSteps
  <2> QED
    BY <2>1, <2>2
<1>10. CASE UNCHANGED verificationVars
  BY <1>10 DEF verificationVars, MostResults, Finished, AllPassedOf, PassedUpTo
<1> QED
  BY <1>1, <1>2, <1>3, <1>4, <1>5, <1>6, <1>7, <1>8, <1>9, <1>10 DEF VerificationNext

LEMMA VerificationIInvImplies == VerificationIInv => VerificationInv
<1> SUFFICES ASSUME VerificationIInv PROVE VerificationInv
  OBVIOUS
<1>1. DOMAIN Suite = 1..Len(Suite)
  BY VerificationAssumption
<1>2. \A t \in ToSet(Suite) : \E i \in 1..Len(Suite) : t = Suite[i]
  BY <1>1 DEF ToSet
<1>3. PassedUpTo(Len(Suite), executed) => \A t \in ToSet(Suite) : executed[t] = "passed"
  BY <1>2 DEF PassedUpTo
<1> QED
  BY <1>1, <1>3 DEF VerificationIInv, VerificationInv, VerificationTypeOK, PassedWasRun

(* What is released and what is certified: for any records, changes, suites and rules, *)
(* and any number of sinks that throw (platform-governance, testing-verification).        *)
THEOREM RecordsAreTrue == GovernanceSpec /\ VerificationSpec => []RecordsInv
<1>1. GovernanceSpec => []GovernanceInv
  BY GovernanceInitOK, GovernanceStepOK, GovernanceIInvImplies, PTL DEF GovernanceSpec
<1>2. VerificationSpec => []VerificationInv
  BY VerificationInitOK, VerificationStepOK, VerificationIInvImplies, PTL DEF VerificationSpec
<1>3. GovernanceInv /\ VerificationInv => RecordsInv
  BY DEF RecordsInv
<1> QED
  BY <1>1, <1>2, <1>3, PTL

-----------------------------------------------------------------------------
(* AI providers: what each place of a call has given, recorded and told. *)

AiPlaces ==
  {"unused", "executing", "answered", "failing", "streaming", "terminal", "caught", "ended", "refused"}
AiCallState == [at : AiPlaces, terminal : TERMINAL_TYPES \cup {"none"}]
EventTypes == {"content"} \cup TERMINAL_TYPES
Outcomes == {"none", "completed", "failed"}
Tellings == {"none", "result", "error", "drained", "stopped"}

NoneTerminal(events) == \A i \in 1..Len(events) : events[i] \notin TERMINAL_TYPES
OneTerminal(events) == \A i \in 1..Len(events) : events[i] \in TERMINAL_TYPES => i = Len(events)
EndsWith(events, type) == Len(events) > 0 /\ events[Len(events)] = type

AiCallOK(k, events, outcome, what) ==
  /\ k \in AiCallState /\ events \in Seq(EventTypes) /\ outcome \in Outcomes /\ what \in Tellings
  /\ Len(events) <= MaxEvents + 1 /\ OneTerminal(events)
  /\ k.at \in {"unused", "executing", "answered", "failing", "streaming"} =>
       Len(events) <= MaxEvents /\ NoneTerminal(events)
  /\ k.at = "terminal" => k.terminal \in TERMINAL_TYPES /\ EndsWith(events, k.terminal)
  /\ k.at = "caught" => outcome = "failed" /\ EndsWith(events, "failed")
  /\ k.at = "answered" => outcome = "completed"
  /\ k.at = "failing" => outcome = "failed"
  /\ k.at = "unused" => outcome = "none" /\ events = <<>>
  /\ k.at = "refused" => what = "error" /\ outcome = "none" /\ events = <<>>
  /\ k.at \notin {"ended", "refused"} => what = "none"
  /\ what = "result" => outcome = "completed"
  /\ what = "error" => k.at = "refused" \/ outcome = "failed"
  /\ what = "drained" => Len(events) > 0 /\ outcome = OutcomeOf(events[Len(events)])

AiIInv ==
  /\ aiCall \in [AiCalls -> AiCallState] /\ given \in [AiCalls -> Seq(EventTypes)]
  /\ onRecord \in [AiCalls -> Outcomes] /\ told \in [AiCalls -> Tellings]
  /\ \A c \in AiCalls : AiCallOK(aiCall[c], given[c], onRecord[c], told[c])

LEMMA AiInitOK == AiInit => AiIInv
<1> SUFFICES ASSUME AiInit PROVE AiIInv
  OBVIOUS
<1>1. [at |-> "unused", terminal |-> "none"] \in AiCallState /\ <<>> \in Seq(EventTypes)
      /\ "none" \in Outcomes /\ "none" \in Tellings
  BY DEF AiCallState, AiPlaces, Outcomes, Tellings
<1>2. Len(<<>>) = 0 /\ 0 <= MaxEvents + 1 /\ 0 <= MaxEvents
  BY AiAssumption
<1>3. OneTerminal(<<>>) /\ NoneTerminal(<<>>)
  BY DEF OneTerminal, NoneTerminal
<1>4. AiCallOK([at |-> "unused", terminal |-> "none"], <<>>, "none", "none")
  BY <1>1, <1>2, <1>3 DEF AiCallOK
<1> QED
  BY <1>1, <1>4 DEF AiInit, AiIInv

(* A step of one call. *)
LEMMA AiCallStep ==
  ASSUME AiIInv, NEW c \in AiCalls, NEW k, NEW events, NEW outcome, NEW what,
         AiCallOK(k, events, outcome, what),
         aiCall' = [aiCall EXCEPT ![c] = k], given' = [given EXCEPT ![c] = events],
         onRecord' = [onRecord EXCEPT ![c] = outcome], told' = [told EXCEPT ![c] = what]
  PROVE  AiIInv'
<1>1. k \in AiCallState /\ events \in Seq(EventTypes) /\ outcome \in Outcomes /\ what \in Tellings
  BY DEF AiCallOK
<1>2. /\ aiCall' \in [AiCalls -> AiCallState] /\ given' \in [AiCalls -> Seq(EventTypes)]
      /\ onRecord' \in [AiCalls -> Outcomes] /\ told' \in [AiCalls -> Tellings]
  BY <1>1 DEF AiIInv
<1>3. ASSUME NEW d \in AiCalls PROVE AiCallOK(aiCall'[d], given'[d], onRecord'[d], told'[d])
  <2>1. CASE d = c
    <3>1. aiCall'[d] = k /\ given'[d] = events /\ onRecord'[d] = outcome /\ told'[d] = what
      BY <2>1 DEF AiIInv
    <3> QED
      BY <3>1
  <2>2. CASE d # c
    <3>1. aiCall'[d] = aiCall[d] /\ given'[d] = given[d] /\ onRecord'[d] = onRecord[d]
          /\ told'[d] = told[d]
      BY <2>2 DEF AiIInv
    <3> QED
      BY <3>1 DEF AiIInv
  <2> QED
    BY <2>1, <2>2
<1> QED
  BY <1>2, <1>3 DEF AiIInv

(* What is left alone is replaced by itself. *)
LEMMA AiKeptIs ==
  ASSUME AiIInv, NEW c \in AiCalls
  PROVE  /\ given = [given EXCEPT ![c] = given[c]] /\ onRecord = [onRecord EXCEPT ![c] = onRecord[c]]
         /\ told = [told EXCEPT ![c] = told[c]]
BY DEF AiIInv

(* An event more: the last one, and the only one that may be terminal. *)
LEMMA EventGiven ==
  ASSUME NEW events \in Seq(EventTypes), NEW type \in EventTypes, NoneTerminal(events)
  PROVE  /\ Append(events, type) \in Seq(EventTypes) /\ Len(events) \in Nat
         /\ Len(Append(events, type)) = Len(events) + 1
         /\ OneTerminal(Append(events, type)) /\ EndsWith(Append(events, type), type)
         /\ type \notin TERMINAL_TYPES => NoneTerminal(Append(events, type))
<1> PICK n \in Nat : n = Len(events)
  BY Zenon, LenProperties
<1>1. Append(events, type) \in Seq(EventTypes) /\ Len(Append(events, type)) = n + 1
  OBVIOUS
<1>2. \A i \in 1..n : Append(events, type)[i] = events[i]
  OBVIOUS
<1>3. Append(events, type)[n + 1] = type
  OBVIOUS
<1>4. \A i \in 1..(n + 1) : i \in 1..n \/ i = n + 1
  OBVIOUS
<1>5. \A i \in 1..n : events[i] \notin TERMINAL_TYPES
  BY DEF NoneTerminal
<1>6. OneTerminal(Append(events, type))
  BY <1>1, <1>2, <1>4, <1>5 DEF OneTerminal
<1>7. EndsWith(Append(events, type), type)
  BY <1>1, <1>3 DEF EndsWith
<1>8. type \notin TERMINAL_TYPES => NoneTerminal(Append(events, type))
  BY <1>1, <1>2, <1>3, <1>4, <1>5 DEF NoneTerminal
<1> QED
  BY <1>1, <1>6, <1>7, <1>8

(* A call that goes to another place, with what it leaves. *)
LEMMA AiGoes ==
  ASSUME AiIInv, NEW c \in AiCalls, NEW place, aiCall' = [aiCall EXCEPT ![c].at = place]
  PROVE  \E k : /\ aiCall' = [aiCall EXCEPT ![c] = k] /\ k.at = place
                /\ k.terminal = aiCall[c].terminal
                /\ place \in AiPlaces => k \in AiCallState
<1>1. PICK k : k = [aiCall[c] EXCEPT !.at = place]
  OBVIOUS
<1>2. aiCall[c] \in AiCallState
  BY DEF AiIInv
<1>3. aiCall' = [aiCall EXCEPT ![c] = k]
  BY <1>1 DEF AiIInv
<1>4. k.at = place /\ k.terminal = aiCall[c].terminal /\ (place \in AiPlaces => k \in AiCallState)
  BY <1>1, <1>2 DEF AiCallState
<1> QED
  BY <1>3, <1>4


LEMMA AiStepOK == AiIInv /\ [AiNext]_aiVars => AiIInv'
<1> SUFFICES ASSUME AiIInv, [AiNext]_aiVars PROVE AiIInv'
  OBVIOUS
<1>0. CASE UNCHANGED aiVars
  BY <1>0 DEF aiVars, AiIInv
<1>1. ASSUME NEW c \in AiCalls,
             execute(c) \/ AdapterAnswers(c) \/ CompletedPublished(c) \/ NormalizesFailure(c)
               \/ FailureTold(c) \/ stream(c) \/ AdapterBreaks(c) \/ TerminalRecorded(c)
               \/ CaughtPublished(c) \/ ConsumerStops(c)
               \/ \E type \in {"content"} \cup TERMINAL_TYPES : AdapterYields(c, type)
      PROVE  AiIInv'
  <2> PICK call : call = aiCall[c]
    OBVIOUS
  <2> PICK events : events = given[c]
    OBVIOUS
  <2> PICK outcome : outcome = onRecord[c]
    OBVIOUS
  <2> PICK what : what = told[c]
    OBVIOUS
  <2>1. AiCallOK(call, events, outcome, what)
    BY DEF AiIInv
  <2>2. /\ UNCHANGED given => given' = [given EXCEPT ![c] = events]
        /\ UNCHANGED onRecord => onRecord' = [onRecord EXCEPT ![c] = outcome]
        /\ UNCHANGED told => told' = [told EXCEPT ![c] = what]
    BY AiKeptIs
  <2>3. \A place : aiCall' = [aiCall EXCEPT ![c].at = place] =>
          \E k : /\ aiCall' = [aiCall EXCEPT ![c] = k] /\ k.at = place
                /\ k.terminal = call.terminal /\ (place \in AiPlaces => k \in AiCallState)
    BY AiGoes
  <2>4. Len(events) \in Nat /\ events \in Seq(EventTypes)
    BY <2>1 DEF AiCallOK
  <2>a. CASE execute(c) \/ stream(c)
    <3>2. call.at = "unused" /\ UNCHANGED <<given, onRecord>>
      BY <2>a DEF execute, stream, IsAt
    <3>a. CASE RefusedUntried(c)
      <4>1. PICK k : aiCall' = [aiCall EXCEPT ![c] = k] /\ k.at = "refused" /\ k \in AiCallState
        BY <2>3, <3>a DEF RefusedUntried, GoesTo, AiPlaces
      <4>2. told' = [told EXCEPT ![c] = "error"]
        BY <3>a DEF RefusedUntried, Tells
      <4>3. AiCallOK(k, events, outcome, "error")
        BY <2>1, <3>2, <4>1 DEF AiCallOK, Tellings
      <4>4. /\ aiCall' = [aiCall EXCEPT ![c] = k] /\ given' = [given EXCEPT ![c] = events]
            /\ onRecord' = [onRecord EXCEPT ![c] = outcome] /\ told' = [told EXCEPT ![c] = "error"]
        BY <2>2, <3>2, <4>1, <4>2
      <4> QED
        BY <4>3, <4>4, AiCallStep, Zenon
    <3>b. CASE TriesAdapter(c, "executing") \/ TriesAdapter(c, "streaming")
      <4>1. PICK place \in {"executing", "streaming"} : aiCall' = [aiCall EXCEPT ![c].at = place]
        BY <3>b DEF TriesAdapter, GoesTo
      <4>2. PICK k : aiCall' = [aiCall EXCEPT ![c] = k] /\ k.at = place /\ k \in AiCallState
        BY <2>3, <4>1 DEF AiPlaces
      <4>3. AiCallOK(k, events, outcome, what)
        BY <2>1, <3>2, <4>1, <4>2 DEF AiCallOK
      <4>4. /\ aiCall' = [aiCall EXCEPT ![c] = k] /\ given' = [given EXCEPT ![c] = events]
            /\ onRecord' = [onRecord EXCEPT ![c] = outcome] /\ told' = [told EXCEPT ![c] = what]
        BY <2>2, <3>2, <3>b, <4>2 DEF TriesAdapter
      <4> QED
        BY <4>3, <4>4, AiCallStep, Zenon
    <3> QED
      BY <2>a, <3>a, <3>b DEF execute, stream
  <2>b. CASE AdapterAnswers(c)
    <3>1. PICK k : aiCall' = [aiCall EXCEPT ![c] = k] /\ k.at = "answered" /\ k \in AiCallState
      BY <2>b, <2>3 DEF AdapterAnswers, GoesTo, AiPlaces
    <3>2. call.at = "executing" /\ UNCHANGED <<given, told>>
          /\ onRecord' = [onRecord EXCEPT ![c] = "completed"]
      BY <2>b DEF AdapterAnswers, IsAt, Diagnoses
    <3>3. AiCallOK(k, events, "completed", what)
      BY <2>1, <3>1, <3>2 DEF AiCallOK, Outcomes
    <3>4. /\ aiCall' = [aiCall EXCEPT ![c] = k] /\ given' = [given EXCEPT ![c] = events]
          /\ onRecord' = [onRecord EXCEPT ![c] = "completed"] /\ told' = [told EXCEPT ![c] = what]
      BY <2>2, <3>1, <3>2
    <3> QED
      BY <3>3, <3>4, AiCallStep, Zenon
  <2>c. CASE CompletedPublished(c)
    <3>1. PICK k : aiCall' = [aiCall EXCEPT ![c] = k] /\ k.at = "ended" /\ k \in AiCallState
      BY <2>c, <2>3 DEF CompletedPublished, GoesTo, AiPlaces
    <3>2. call.at = "answered" /\ UNCHANGED <<given, onRecord>>
          /\ told' = [told EXCEPT ![c] = "result"]
      BY <2>c DEF CompletedPublished, IsAt, Tells
    <3>3. AiCallOK(k, events, outcome, "result")
      BY <2>1, <3>1, <3>2 DEF AiCallOK, Tellings
    <3>4. /\ aiCall' = [aiCall EXCEPT ![c] = k] /\ given' = [given EXCEPT ![c] = events]
          /\ onRecord' = [onRecord EXCEPT ![c] = outcome] /\ told' = [told EXCEPT ![c] = "result"]
      BY <2>2, <3>1, <3>2
    <3> QED
      BY <3>3, <3>4, AiCallStep, Zenon
  <2>d. CASE NormalizesFailure(c)
    <3>1. PICK k : aiCall' = [aiCall EXCEPT ![c] = k] /\ k.at = "failing" /\ k \in AiCallState
      BY <2>d, <2>3 DEF NormalizesFailure, GoesTo, AiPlaces
    <3>2. call.at \in {"executing", "answered"} /\ UNCHANGED <<given, told>>
          /\ onRecord' = [onRecord EXCEPT ![c] = "failed"]
      BY <2>d DEF NormalizesFailure, Diagnoses
    <3>3. AiCallOK(k, events, "failed", what)
      BY <2>1, <3>1, <3>2 DEF AiCallOK, Outcomes
    <3>4. /\ aiCall' = [aiCall EXCEPT ![c] = k] /\ given' = [given EXCEPT ![c] = events]
          /\ onRecord' = [onRecord EXCEPT ![c] = "failed"] /\ told' = [told EXCEPT ![c] = what]
      BY <2>2, <3>1, <3>2
    <3> QED
      BY <3>3, <3>4, AiCallStep, Zenon
  <2>e. CASE FailureTold(c)
    <3>1. PICK k : aiCall' = [aiCall EXCEPT ![c] = k] /\ k.at = "ended" /\ k \in AiCallState
      BY <2>e, <2>3 DEF FailureTold, GoesTo, AiPlaces
    <3>2. call.at = "failing" /\ UNCHANGED <<given, onRecord>>
          /\ told' = [told EXCEPT ![c] = "error"]
      BY <2>e DEF FailureTold, IsAt, Tells
    <3>3. AiCallOK(k, events, outcome, "error")
      BY <2>1, <3>1, <3>2 DEF AiCallOK, Tellings
    <3>4. /\ aiCall' = [aiCall EXCEPT ![c] = k] /\ given' = [given EXCEPT ![c] = events]
          /\ onRecord' = [onRecord EXCEPT ![c] = outcome] /\ told' = [told EXCEPT ![c] = "error"]
      BY <2>2, <3>1, <3>2
    <3> QED
      BY <3>3, <3>4, AiCallStep, Zenon
  <2>f. CASE AdapterBreaks(c)
    <3>1. call.at = "streaming" /\ UNCHANGED told /\ onRecord' = [onRecord EXCEPT ![c] = "failed"]
          /\ given' = [given EXCEPT ![c] = Append(events, "failed")]
      BY <2>f DEF AdapterBreaks, IsAt, Diagnoses, Yields
    <3>2. PICK k : aiCall' = [aiCall EXCEPT ![c] = k] /\ k = [at |-> "caught", terminal |-> "failed"]
      BY <2>f DEF AdapterBreaks, Yields, TERMINAL_TYPES
    <3>3. NoneTerminal(events) /\ Len(events) <= MaxEvents
      BY <2>1, <3>1 DEF AiCallOK
    <3>4. "failed" \in EventTypes /\ k \in AiCallState
      BY <3>2 DEF EventTypes, TERMINAL_TYPES, AiCallState, AiPlaces
    <3>5. /\ Append(events, "failed") \in Seq(EventTypes) /\ OneTerminal(Append(events, "failed"))
          /\ Len(Append(events, "failed")) = Len(events) + 1 /\ EndsWith(Append(events, "failed"), "failed")
      BY <2>4, <3>3, <3>4, EventGiven
    <3>6. Len(Append(events, "failed")) <= MaxEvents + 1
      BY <2>4, <3>3, <3>5, AiAssumption
    <3>7. what = "none"
      BY <2>1, <3>1 DEF AiCallOK
    <3>8. AiCallOK(k, Append(events, "failed"), "failed", what)
      BY <3>2, <3>4, <3>5, <3>6, <3>7 DEF AiCallOK, Outcomes, Tellings
    <3>9. /\ aiCall' = [aiCall EXCEPT ![c] = k] /\ given' = [given EXCEPT ![c] = Append(events, "failed")]
          /\ onRecord' = [onRecord EXCEPT ![c] = "failed"] /\ told' = [told EXCEPT ![c] = what]
      BY <2>2, <3>1, <3>2
    <3> QED
      BY <3>8, <3>9, AiCallStep, Zenon
  <2>g. CASE TerminalRecorded(c)
    <3>1. PICK k : aiCall' = [aiCall EXCEPT ![c] = k] /\ k.at = "ended" /\ k \in AiCallState
      BY <2>g, <2>3 DEF TerminalRecorded, GoesTo, AiPlaces
    <3>2. call.at = "terminal" /\ UNCHANGED given
          /\ told' = [told EXCEPT ![c] = "drained"]
          /\ onRecord' = [onRecord EXCEPT ![c] = OutcomeOf(call.terminal)]
      BY <2>g DEF TerminalRecorded, IsAt, Tells, Diagnoses
    <3>3. EndsWith(events, call.terminal)
      BY <2>1, <3>2 DEF AiCallOK
    <3>4. OutcomeOf(call.terminal) \in Outcomes
      BY DEF OutcomeOf, Outcomes
    <3>5. AiCallOK(k, events, OutcomeOf(call.terminal), "drained")
      BY <2>1, <3>1, <3>3, <3>4 DEF AiCallOK, Tellings, EndsWith
    <3>6. /\ aiCall' = [aiCall EXCEPT ![c] = k] /\ given' = [given EXCEPT ![c] = events]
          /\ onRecord' = [onRecord EXCEPT ![c] = OutcomeOf(call.terminal)] /\ told' = [told EXCEPT ![c] = "drained"]
      BY <2>2, <3>1, <3>2
    <3> QED
      BY <3>5, <3>6, AiCallStep, Zenon
  <2>h. CASE CaughtPublished(c)
    <3>1. PICK k : aiCall' = [aiCall EXCEPT ![c] = k] /\ k.at = "ended" /\ k \in AiCallState
      BY <2>h, <2>3 DEF CaughtPublished, GoesTo, AiPlaces
    <3>2. call.at = "caught" /\ UNCHANGED <<given, onRecord>>
      BY <2>h DEF CaughtPublished, IsAt
    <3>3. PICK word \in {"drained", "error"} : told' = [told EXCEPT ![c] = word]
      BY <2>h DEF CaughtPublished, Tells
    <3>4. outcome = "failed" /\ Len(events) > 0 /\ OutcomeOf(events[Len(events)]) = "failed"
      BY <2>1, <3>2 DEF AiCallOK, EndsWith, OutcomeOf
    <3>5. AiCallOK(k, events, outcome, word)
      BY <2>1, <3>1, <3>3, <3>4 DEF AiCallOK, Tellings
    <3>6. /\ aiCall' = [aiCall EXCEPT ![c] = k] /\ given' = [given EXCEPT ![c] = events]
          /\ onRecord' = [onRecord EXCEPT ![c] = outcome] /\ told' = [told EXCEPT ![c] = word]
      BY <2>2, <3>1, <3>2, <3>3
    <3> QED
      BY <3>5, <3>6, AiCallStep, Zenon
  <2>i. CASE ConsumerStops(c)
    <3>1. PICK k : aiCall' = [aiCall EXCEPT ![c] = k] /\ k.at = "ended" /\ k \in AiCallState
      BY <2>i, <2>3 DEF ConsumerStops, GoesTo, AiPlaces
    <3>2. UNCHANGED <<given, onRecord>> /\ told' = [told EXCEPT ![c] = "stopped"]
      BY <2>i DEF ConsumerStops, Tells
    <3>3. AiCallOK(k, events, outcome, "stopped")
      BY <2>1, <3>1 DEF AiCallOK, Tellings
    <3>4. /\ aiCall' = [aiCall EXCEPT ![c] = k] /\ given' = [given EXCEPT ![c] = events]
          /\ onRecord' = [onRecord EXCEPT ![c] = outcome] /\ told' = [told EXCEPT ![c] = "stopped"]
      BY <2>2, <3>1, <3>2
    <3> QED
      BY <3>3, <3>4, AiCallStep, Zenon
  <2>j. ASSUME NEW type \in {"content"} \cup TERMINAL_TYPES, AdapterYields(c, type) PROVE AiIInv'
    <3>1. call.at = "streaming" /\ UNCHANGED <<told, onRecord>> /\ Len(events) < MaxEvents
          /\ given' = [given EXCEPT ![c] = Append(events, type)]
      BY <2>j DEF AdapterYields, IsAt, Yields
    <3>2. PICK k : /\ aiCall' = [aiCall EXCEPT ![c] = k]
                   /\ k = [at |-> IF type \in TERMINAL_TYPES THEN "terminal" ELSE "streaming",
                           terminal |-> IF type \in TERMINAL_TYPES THEN type ELSE "none"]
      BY <2>j DEF AdapterYields, Yields, Ends
    <3>3. NoneTerminal(events) /\ what = "none" /\ outcome \in Outcomes
      BY <2>1, <3>1 DEF AiCallOK
    <3>4. type \in EventTypes /\ k \in AiCallState
      BY <3>2 DEF EventTypes, AiCallState, AiPlaces
    <3>5. /\ Append(events, type) \in Seq(EventTypes) /\ OneTerminal(Append(events, type))
          /\ Len(Append(events, type)) = Len(events) + 1 /\ EndsWith(Append(events, type), type)
          /\ type \notin TERMINAL_TYPES => NoneTerminal(Append(events, type))
      BY <2>4, <3>3, <3>4, EventGiven
    <3>6. Len(Append(events, type)) <= MaxEvents /\ Len(Append(events, type)) <= MaxEvents + 1
      BY <2>4, <3>1, <3>5, AiAssumption
    <3>7. AiCallOK(k, Append(events, type), outcome, what)
      <4>1. CASE type \in TERMINAL_TYPES
        BY <3>2, <3>3, <3>4, <3>5, <3>6, <4>1 DEF AiCallOK, Tellings
      <4>2. CASE type \notin TERMINAL_TYPES
        BY <3>2, <3>3, <3>4, <3>5, <3>6, <4>2 DEF AiCallOK, Tellings
      <4> QED
        BY <4>1, <4>2
    <3>8. /\ aiCall' = [aiCall EXCEPT ![c] = k] /\ given' = [given EXCEPT ![c] = Append(events, type)]
          /\ onRecord' = [onRecord EXCEPT ![c] = outcome] /\ told' = [told EXCEPT ![c] = what]
      BY <2>2, <3>1, <3>2
    <3> QED
      BY <3>7, <3>8, AiCallStep, Zenon
  <2> QED
    BY <1>1, <2>a, <2>b, <2>c, <2>d, <2>e, <2>f, <2>g, <2>h, <2>i, <2>j
<1> QED
  BY <1>0, <1>1 DEF AiNext

LEMMA AiIInvImplies == AiIInv => AiInv
<1> SUFFICES ASSUME AiIInv PROVE AiInv
  OBVIOUS
<1>1. AiTypeOK
  BY DEF AiIInv, AiTypeOK, AiCallOK, AiCallState, Outcomes, Tellings
<1>2. \A c \in AiCalls : DOMAIN given[c] = 1..Len(given[c]) /\ Last(given[c]) = given[c][Len(given[c])]
  BY DEF AiIInv, Last
<1>3. SingleTerminal
  BY <1>2 DEF AiIInv, AiCallOK, OneTerminal, SingleTerminal
<1>4. ToldIsOnRecord
  BY <1>2 DEF AiIInv, AiCallOK, ToldIsOnRecord, IsAt
<1> QED
  BY <1>1, <1>3, <1>4 DEF AiInv

-----------------------------------------------------------------------------
(* Resolution: when its caller falls back, a request has tried what it excludes, each *)
(* once, and is bound next to what it has not tried.                                    *)

ResolutionSteps == {"idle", "configuring", "announcing", "bound", "failing", "refused"}
ResolutionState ==
  [step : ResolutionSteps, candidates : SUBSET Implementations, excluded : SUBSET Implementations,
   binding : Implementations \cup {Unbound}]
Diagnostics == {"none", "resolved", "failed"}

\* s: the resolution of a request, t: what its caller tried, d: its diagnostic
FallbackOK(s, t) ==
  /\ IsInjective(t) /\ ToSet(t) \subseteq ToSet(RoutingOrder)
  /\ s.step \in {"idle", "configuring", "announcing"} => ToSet(t) = s.excluded
  /\ s.step = "announcing" => s.binding \in ToSet(RoutingOrder) \ ToSet(t)
  /\ s.step = "bound" => ToSet(t) = s.excluded \cup {Last(t)}

ResolutionOK(s, t, d, mode, known) ==
  /\ s \in ResolutionState /\ t \in Seq(Implementations) /\ d \in Diagnostics
  /\ s.candidates \subseteq known \cap Enabled
  /\ s.step = "idle" => s.excluded = {}
  /\ s.step \in {"announcing", "bound"} => d = "resolved"
  /\ s.step = "announcing" => s.binding \in Implementations
  /\ s.step = "bound" => t # <<>>
  /\ mode = "fallback" => FallbackOK(s, t)

ResolutionIInv ==
  /\ routingMode \in RoutingModes /\ registered \subseteq Implementations
  /\ resolution \in [DOMAIN Requests -> ResolutionState]
  /\ tried \in [DOMAIN Requests -> Seq(Implementations)]
  /\ diagnostic \in [DOMAIN Requests -> Diagnostics]
  /\ healthChanges \in 0..MaxHealthChanges /\ resolutionFaults \in 0..MaxResolutionFaults
  /\ \A r \in DOMAIN Requests :
       ResolutionOK(resolution[r], tried[r], diagnostic[r], routingMode, registered)

LEMMA ResolutionInitOK == ResolutionInit => ResolutionIInv
<1> SUFFICES ASSUME ResolutionInit PROVE ResolutionIInv
  OBVIOUS
<1> PICK start : start = [step |-> "idle", candidates |-> {}, excluded |-> {}, binding |-> Unbound]
  OBVIOUS
<1>1. start \in ResolutionState /\ <<>> \in Seq(Implementations) /\ "none" \in Diagnostics
  BY DEF ResolutionState, ResolutionSteps, Diagnostics
<1>2. IsInjective(<<>>) /\ ToSet(<<>>) = {}
  BY DEF IsInjective, ToSet
<1>3. FallbackOK(start, <<>>)
  BY <1>2 DEF FallbackOK
<1>4. ResolutionOK(start, <<>>, "none", routingMode, registered)
  BY <1>1, <1>3 DEF ResolutionOK
<1>5. /\ resolution = [r \in DOMAIN Requests |-> start] /\ tried = [r \in DOMAIN Requests |-> <<>>]
      /\ diagnostic = [r \in DOMAIN Requests |-> "none"]
  BY DEF ResolutionInit
<1>6. 0 \in 0..MaxHealthChanges /\ 0 \in 0..MaxResolutionFaults
  BY ResolutionAssumption
<1> QED
  BY <1>1, <1>4, <1>5, <1>6 DEF ResolutionInit, ResolutionIInv

(* A step of one request, while the registry is left alone. *)
LEMMA ResolutionStep ==
  ASSUME ResolutionIInv, NEW r \in DOMAIN Requests, NEW s, NEW t, NEW d,
         ResolutionOK(s, t, d, routingMode, registered),
         resolution' = [resolution EXCEPT ![r] = s], tried' = [tried EXCEPT ![r] = t],
         diagnostic' = [diagnostic EXCEPT ![r] = d],
         routingMode' = routingMode, registered' = registered, healthChanges' = healthChanges,
         resolutionFaults' \in 0..MaxResolutionFaults
  PROVE  ResolutionIInv'
<1>1. s \in ResolutionState /\ t \in Seq(Implementations) /\ d \in Diagnostics
  BY DEF ResolutionOK
<1>2. /\ resolution' \in [DOMAIN Requests -> ResolutionState]
      /\ tried' \in [DOMAIN Requests -> Seq(Implementations)]
      /\ diagnostic' \in [DOMAIN Requests -> Diagnostics]
  BY <1>1 DEF ResolutionIInv
<1>3. ASSUME NEW q \in DOMAIN Requests
      PROVE  ResolutionOK(resolution'[q], tried'[q], diagnostic'[q], routingMode, registered)
  <2>1. CASE q = r
    <3>1. resolution'[q] = s /\ tried'[q] = t /\ diagnostic'[q] = d
      BY <2>1 DEF ResolutionIInv
    <3> QED
      BY <3>1
  <2>2. CASE q # r
    <3>1. resolution'[q] = resolution[q] /\ tried'[q] = tried[q] /\ diagnostic'[q] = diagnostic[q]
      BY <2>2 DEF ResolutionIInv
    <3> QED
      BY <3>1 DEF ResolutionIInv
  <2> QED
    BY <2>1, <2>2
<1> QED
  BY <1>2, <1>3 DEF ResolutionIInv

(* What the policy selects is a candidate; when the caller falls back it is one of the *)
(* order that was not excluded.                                                            *)
LEMMA SelectedIs ==
  ASSUME NEW eligible, NEW excluded, NEW i \in select(eligible, excluded)
  PROVE  /\ i \in eligible
         /\ routingMode = "fallback" => i \in ToSet(RoutingOrder) \ excluded
<1>1. CASE routingMode = "fallback"
  <2>1. PICK n \in Unused(excluded) : RoutingOrder[n] \in eligible /\ i = RoutingOrder[n]
    BY <1>1 DEF select, First
  <2> QED
    BY <2>1 DEF Unused, ToSet
<1>2. CASE routingMode # "fallback"
  BY <1>2 DEF select, ByScope
<1> QED
  BY <1>1, <1>2

(* What was not tried yet is tried once. *)
LEMMA TriedOnce ==
  ASSUME NEW t \in Seq(Implementations), NEW i \in Implementations
  PROVE  /\ Append(t, i) \in Seq(Implementations) /\ Append(t, i) # <<>> /\ Last(Append(t, i)) = i
         /\ ToSet(Append(t, i)) = ToSet(t) \cup {i}
         /\ IsInjective(t) /\ i \notin ToSet(t) => IsInjective(Append(t, i))
<1> PICK n \in Nat : n = Len(t)
  BY Zenon, LenProperties
<1>1. /\ Append(t, i) \in Seq(Implementations) /\ Len(Append(t, i)) = n + 1
      /\ DOMAIN Append(t, i) = 1..(n + 1) /\ DOMAIN t = 1..n
  OBVIOUS
<1>2. \A m \in 1..n : Append(t, i)[m] = t[m]
  OBVIOUS
<1>3. Append(t, i)[n + 1] = i
  OBVIOUS
<1>4. \A m \in 1..(n + 1) : m \in 1..n \/ m = n + 1
  OBVIOUS
<1>5. n + 1 \in 1..(n + 1) /\ \A m \in 1..n : m \in 1..(n + 1)
  OBVIOUS
<1>6. ToSet(Append(t, i)) = ToSet(t) \cup {i}
  BY <1>1, <1>2, <1>3, <1>4, <1>5 DEF ToSet
<1>7. Last(Append(t, i)) = i /\ Append(t, i) # <<>>
  BY <1>1, <1>3 DEF Last
<1>8. IsInjective(t) /\ i \notin ToSet(t) => IsInjective(Append(t, i))
  BY <1>1, <1>2, <1>3, <1>4 DEF IsInjective, ToSet
<1> QED
  BY <1>1, <1>6, <1>7, <1>8

(* A diagnostic of a resolution that failed; a request that failed binds nothing. *)
LEMMA ResolutionFailsKeeps ==
  ASSUME ResolutionIInv, NEW r \in DOMAIN Requests, ResolutionFails(r), UNCHANGED tried,
         routingMode' = routingMode, registered' = registered, healthChanges' = healthChanges,
         resolutionFaults' \in 0..MaxResolutionFaults
  PROVE  ResolutionIInv'
<1> PICK s : s = [resolution[r] EXCEPT !.step = "failing"]
  OBVIOUS
<1> PICK d : d = IF diagnostic[r] = "none" THEN "failed" ELSE diagnostic[r]
  OBVIOUS
<1>1. ResolutionOK(resolution[r], tried[r], diagnostic[r], routingMode, registered)
  BY DEF ResolutionIInv
<1>2. resolution' = [resolution EXCEPT ![r] = s] /\ diagnostic' = [diagnostic EXCEPT ![r] = d]
      /\ tried' = [tried EXCEPT ![r] = tried[r]]
  BY DEF ResolutionFails, Goes, ResolutionIInv
<1>3. s \in ResolutionState /\ s.step = "failing" /\ s.candidates = resolution[r].candidates
      /\ d \in Diagnostics
  BY <1>1 DEF ResolutionOK, ResolutionState, ResolutionSteps, Diagnostics
<1>4. routingMode = "fallback" => FallbackOK(s, tried[r])
  BY <1>1, <1>3 DEF ResolutionOK, FallbackOK
<1>5. ResolutionOK(s, tried[r], d, routingMode, registered)
  BY <1>1, <1>3, <1>4 DEF ResolutionOK
<1> QED
  BY <1>2, <1>5, ResolutionStep, Zenon

(* A resolution that begins with what was tried as its exclusions. *)
LEMMA ResolveKeeps ==
  ASSUME ResolutionIInv, NEW r \in DOMAIN Requests, NEW excluded \in SUBSET Implementations,
         resolve(r, excluded), routingMode = "fallback" => excluded = ToSet(tried[r])
  PROVE  ResolutionIInv'
<1> PICK s : s = [step |-> "configuring",
                  candidates |-> {i \in registered : ~ineligible(i, Requests[r])},
                  excluded |-> excluded, binding |-> Unbound]
  OBVIOUS
<1>1. ResolutionOK(resolution[r], tried[r], diagnostic[r], routingMode, registered)
  BY DEF ResolutionIInv
<1>2. /\ resolution' = [resolution EXCEPT ![r] = s] /\ tried' = [tried EXCEPT ![r] = tried[r]]
      /\ diagnostic' = [diagnostic EXCEPT ![r] = diagnostic[r]]
  BY DEF resolve, ResolutionIInv
<1>3. s.candidates \subseteq registered \cap Enabled /\ registered \subseteq Implementations
  BY DEF ineligible, ResolutionIInv
<1>4. s \in ResolutionState /\ s.step = "configuring" /\ s.excluded = excluded
  BY <1>3 DEF ResolutionState, ResolutionSteps
<1>5. routingMode = "fallback" => FallbackOK(s, tried[r])
  BY <1>1, <1>4 DEF ResolutionOK, FallbackOK
<1>6. ResolutionOK(s, tried[r], diagnostic[r], routingMode, registered)
  BY <1>1, <1>3, <1>4, <1>5 DEF ResolutionOK
<1>7. routingMode' = routingMode /\ registered' = registered /\ healthChanges' = healthChanges
      /\ resolutionFaults' \in 0..MaxResolutionFaults
  BY DEF resolve, Others, ResolutionIInv
<1> QED
  BY <1>2, <1>6, <1>7, ResolutionStep, Zenon

LEMMA SelectKeeps == ASSUME ResolutionIInv, NEW r \in DOMAIN Requests, Select(r) PROVE ResolutionIInv'
<1> PICK was : was = resolution[r]
  OBVIOUS
<1>1. ResolutionOK(was, tried[r], diagnostic[r], routingMode, registered)
  BY DEF ResolutionIInv
<1>2. /\ was.step = "configuring" /\ routingMode' = routingMode /\ registered' = registered
      /\ healthChanges' = healthChanges /\ resolutionFaults' \in 0..MaxResolutionFaults
      /\ tried' = tried
  BY DEF Select, Others, ResolutionIInv
<1>3. CASE select(was.candidates, was.excluded) = {}
  BY <1>2, <1>3, ResolutionFailsKeeps DEF Select
<1>4. CASE select(was.candidates, was.excluded) # {}
  <2>1. PICK i \in select(was.candidates, was.excluded) :
          i = CHOOSE x \in select(was.candidates, was.excluded) : TRUE
    BY <1>4
  <2> PICK s : s = [was EXCEPT !.step = "announcing", !.binding = i]
    OBVIOUS
  <2>2. resolution' = [resolution EXCEPT ![r].step = "announcing", ![r].binding = i]
        /\ diagnostic' = [diagnostic EXCEPT ![r] = "resolved"]
    BY <1>4, <2>1 DEF Select
  <2>3. resolution' = [resolution EXCEPT ![r] = s] /\ tried' = [tried EXCEPT ![r] = tried[r]]
    BY <1>2, <2>2 DEF ResolutionIInv
  <2>4. i \in was.candidates
        /\ (routingMode = "fallback" => i \in ToSet(RoutingOrder) \ was.excluded)
    BY SelectedIs
  <2>5. i \in Implementations
    BY <1>1, <2>4 DEF ResolutionOK, ResolutionState
  <2>6. s \in ResolutionState /\ s.step = "announcing" /\ s.binding = i
        /\ s.candidates = was.candidates /\ s.excluded = was.excluded
    BY <1>1, <2>5 DEF ResolutionOK, ResolutionState, ResolutionSteps
  <2>7. routingMode = "fallback" => FallbackOK(s, tried[r])
    BY <1>1, <1>2, <2>4, <2>6 DEF ResolutionOK, FallbackOK
  <2>8. ResolutionOK(s, tried[r], "resolved", routingMode, registered)
    BY <1>1, <2>5, <2>6, <2>7 DEF ResolutionOK, Diagnostics
  <2> QED
    BY <1>2, <2>2, <2>3, <2>8, ResolutionStep, ZenonT(40)
<1> QED
  BY <1>3, <1>4

LEMMA BindKeeps == ASSUME ResolutionIInv, NEW r \in DOMAIN Requests, Bind(r) PROVE ResolutionIInv'
<1> PICK was : was = resolution[r]
  OBVIOUS
<1> PICK t : t = Append(tried[r], was.binding)
  OBVIOUS
<1> PICK s : s = [was EXCEPT !.step = "bound"]
  OBVIOUS
<1>1. ResolutionOK(was, tried[r], diagnostic[r], routingMode, registered) /\ was.step = "announcing"
  BY DEF ResolutionIInv, Bind
<1>2. /\ resolution' = [resolution EXCEPT ![r] = s] /\ tried' = [tried EXCEPT ![r] = t]
      /\ diagnostic' = [diagnostic EXCEPT ![r] = diagnostic[r]]
      /\ routingMode' = routingMode /\ registered' = registered
      /\ healthChanges' = healthChanges /\ resolutionFaults' \in 0..MaxResolutionFaults
  BY DEF Bind, Goes, Others, ResolutionIInv
<1>3. s \in ResolutionState /\ s.step = "bound" /\ s.candidates = was.candidates
      /\ s.excluded = was.excluded /\ s.binding = was.binding
  BY <1>1 DEF ResolutionOK, ResolutionState, ResolutionSteps
<1>4. tried[r] \in Seq(Implementations) /\ was.binding \in Implementations
      /\ diagnostic[r] = "resolved"
  BY <1>1 DEF ResolutionOK
<1>5. /\ t \in Seq(Implementations) /\ t # <<>> /\ Last(t) = was.binding
      /\ ToSet(t) = ToSet(tried[r]) \cup {was.binding}
      /\ IsInjective(tried[r]) /\ was.binding \notin ToSet(tried[r]) => IsInjective(t)
  BY <1>4, TriedOnce
<1>6. routingMode = "fallback" => FallbackOK(s, t)
  BY <1>1, <1>3, <1>5 DEF ResolutionOK, FallbackOK
<1>7. ResolutionOK(s, t, diagnostic[r], routingMode, registered)
  BY <1>1, <1>3, <1>4, <1>5, <1>6 DEF ResolutionOK
<1> QED
  BY <1>2, <1>7, ResolutionStep, Zenon

LEMMA ResolutionStepOK == ResolutionIInv /\ [ResolutionNext]_resolutionVars => ResolutionIInv'
<1> SUFFICES ASSUME ResolutionIInv, [ResolutionNext]_resolutionVars PROVE ResolutionIInv'
  OBVIOUS
<1>1. ASSUME NEW i \in Implementations, register(i) PROVE ResolutionIInv'
  <2>1. registered' = registered \cup {i} /\ UNCHANGED <<routingMode, resolution, tried, diagnostic,
                                                       healthChanges, resolutionFaults>>
    BY <1>1 DEF register
  <2>2. ASSUME NEW r \in DOMAIN Requests
        PROVE  ResolutionOK(resolution[r], tried[r], diagnostic[r], routingMode, registered \cup {i})
    BY DEF ResolutionIInv, ResolutionOK
  <2> QED
    BY <2>1, <2>2 DEF ResolutionIInv
<1>2. ASSUME NEW i \in Implementations, NEW to, setHealth(i, to) PROVE ResolutionIInv'
  <2>1. healthChanges' \in 0..MaxHealthChanges
    BY <1>2, ResolutionAssumption DEF setHealth, ResolutionIInv
  <2> QED
    BY <1>2, <2>1 DEF setHealth, ResolutionIInv
<1>3. ASSUME NEW r \in DOMAIN Requests,
             Resolve(r) \/ RejectRequest(r) \/ resolveNext(r) \/ Select(r) \/ Bind(r)
               \/ ResolutionFault(r) \/ Refuse(r)
      PROVE  ResolutionIInv'
  <2>1. ResolutionOK(resolution[r], tried[r], diagnostic[r], routingMode, registered)
    BY DEF ResolutionIInv
  <2>2. CASE Resolve(r)
    <3>1. PICK none \in SUBSET Implementations : none = {}
      OBVIOUS
    <3>2. resolve(r, none) /\ resolution[r].step = "idle"
      BY <2>2, <3>1 DEF Resolve
    <3>3. routingMode = "fallback" => none = ToSet(tried[r])
      BY <2>1, <3>1, <3>2 DEF ResolutionOK, FallbackOK, ResolutionIInv
    <3> QED
      BY <3>2, <3>3, ResolveKeeps
  <2>3. CASE RejectRequest(r)
    <3>1. ResolutionFails(r) /\ UNCHANGED tried /\ routingMode' = routingMode
          /\ registered' = registered /\ healthChanges' = healthChanges
          /\ resolutionFaults' \in 0..MaxResolutionFaults
      BY <2>3 DEF RejectRequest, Others, ResolutionIInv
    <3> QED
      BY <3>1, ResolutionFailsKeeps
  <2>4. CASE resolveNext(r)
    <3>1. /\ resolution[r].step = "bound" /\ resolve(r, resolution[r].excluded \cup {Last(tried[r])})
          /\ routingMode = "fallback"
      BY <2>4 DEF resolveNext
    <3>2. resolution[r].excluded \cup {Last(tried[r])} = ToSet(tried[r])
      BY <2>1, <3>1 DEF ResolutionOK, FallbackOK
    <3>3. ToSet(tried[r]) \subseteq Implementations
      BY <2>1 DEF ResolutionOK, ToSet
    <3> QED
      BY <3>1, <3>2, <3>3, ResolveKeeps
  <2>5. CASE Select(r)
    BY <2>5, SelectKeeps
  <2>6. CASE Bind(r)
    BY <2>6, BindKeeps
  <2>7. CASE ResolutionFault(r)
    <3>1. resolutionFaults' \in 0..MaxResolutionFaults
      BY <2>7, ResolutionAssumption DEF ResolutionFault, ResolutionIInv
    <3>2. ResolutionFails(r) /\ UNCHANGED tried /\ routingMode' = routingMode
          /\ registered' = registered /\ healthChanges' = healthChanges
      BY <2>7 DEF ResolutionFault, Others
    <3> QED
      BY <3>1, <3>2, ResolutionFailsKeeps
  <2>8. CASE Refuse(r)
    <3> PICK s : s = [resolution[r] EXCEPT !.step = "refused"]
      OBVIOUS
    <3>1. /\ resolution' = [resolution EXCEPT ![r] = s] /\ tried' = [tried EXCEPT ![r] = tried[r]]
          /\ diagnostic' = [diagnostic EXCEPT ![r] = diagnostic[r]]
          /\ routingMode' = routingMode /\ registered' = registered
          /\ healthChanges' = healthChanges /\ resolutionFaults' \in 0..MaxResolutionFaults
      BY <2>8 DEF Refuse, Goes, Others, ResolutionIInv
    <3>2. s \in ResolutionState /\ s.step = "refused" /\ s.candidates = resolution[r].candidates
      BY <2>1 DEF ResolutionOK, ResolutionState, ResolutionSteps
    <3>3. routingMode = "fallback" => FallbackOK(s, tried[r])
      BY <2>1, <3>2 DEF ResolutionOK, FallbackOK
    <3>4. ResolutionOK(s, tried[r], diagnostic[r], routingMode, registered)
      BY <2>1, <3>2, <3>3 DEF ResolutionOK
    <3> QED
      BY <3>1, <3>4, ResolutionStep, Zenon
  <2> QED
    BY <1>3, <2>2, <2>3, <2>4, <2>5, <2>6, <2>7, <2>8
<1>4. CASE UNCHANGED resolutionVars
  BY <1>4 DEF resolutionVars, ResolutionIInv
<1> QED
  BY <1>1, <1>2, <1>3, <1>4 DEF ResolutionNext

LEMMA ResolutionIInvImplies == ResolutionIInv => ResolutionInv
<1> SUFFICES ASSUME ResolutionIInv PROVE ResolutionInv
  OBVIOUS
<1>1. ResolutionTypeOK
  BY DEF ResolutionIInv, ResolutionOK, ResolutionState, ResolutionTypeOK
<1>2. NeverRebound
  BY DEF ResolutionIInv, ResolutionOK, FallbackOK, NeverRebound
<1> QED
  BY <1>1, <1>2 DEF ResolutionInv

(* From a capability to its provider: for any implementations, orders and requests, whose *)
(* health changes at any time, and any adapters of a provider.                               *)
THEOREM ProvidersAreAnswerable == ResolutionSpec /\ AiSpec => []ProvidersInv
<1>1. ResolutionSpec => []ResolutionInv
  BY ResolutionInitOK, ResolutionStepOK, ResolutionIInvImplies, PTL DEF ResolutionSpec
<1>2. AiSpec => []AiInv
  BY AiInitOK, AiStepOK, AiIInvImplies, PTL DEF AiSpec
<1>3. ResolutionInv /\ AiInv => ProvidersInv
  BY DEF ProvidersInv
<1> QED
  BY <1>1, <1>2, <1>3, PTL

\* A nonempty set of natural numbers has a smallest member.
LEMMA Smallest ==
  ASSUME NEW T \in SUBSET Nat, T # {}
  PROVE  \E i \in T : \A j \in T : i <= j
<1>1. IsWellFoundedOn(OpToRel(<, Nat), Nat)
  BY NatLessThanWellFounded
<1>2. PICK i \in T : \A j \in T : ~(<<j, i>> \in OpToRel(<, Nat))
  BY <1>1, WFMin, Zenon
<1>3. \A j \in T : ~(j < i)
  BY <1>2, Zenon DEF OpToRel
<1>4. i \in Nat /\ \A j \in T : j \in Nat
  OBVIOUS
<1>5. \A j \in T : i <= j
  BY <1>3, <1>4
<1> QED
  BY <1>5, Zenon

-----------------------------------------------------------------------------
(* Migrations: what a transaction did to table and row, next to what is committed, and   *)
(* what its locks keep the others from doing.                                              *)

MigratorState ==
  [step : {"idle", "selected", "looked", "ran", "recorded"}, kind : {"none", "apply", "rollback"},
   profile : Profiles \cup {NoTable}, saw : Profiles \cup {NoTable},
   table : {"untouched", "created", "indexed", "dropped"}, row : {"untouched", "inserted", "deleted"}]

HasRun(k) == k.step \in {"ran", "recorded"}

\* k: the command of a migrator; was, rows and ever: table, applied and everApplied
MigratorOK(k, was, rows, ever) ==
  /\ k \in MigratorState
  /\ k.step # "idle" => k.profile \in Profiles /\ k.kind # "none"
  /\ k.step # "idle" /\ k.kind = "rollback" => k.profile \in ever
  /\ k.step = "looked" => k.kind = "apply"
  /\ ~HasRun(k) => k.table = "untouched"
  /\ HasRun(k) /\ k.kind = "apply" => k.table \in {"created", "indexed"}
  /\ HasRun(k) /\ k.kind = "rollback" => k.table \in {"untouched", "dropped"}
  /\ k.table = "created" => was = NoTable
  /\ k.table \in {"indexed", "dropped"} => was # NoTable
  /\ k.step # "recorded" => k.row = "untouched"
  /\ k.step = "recorded" /\ k.kind = "apply" => k.row = "inserted"
  /\ k.step = "recorded" /\ k.kind = "rollback" => k.row \in {"untouched", "deleted"}
  /\ k.row = "inserted" => k.profile \notin rows
  /\ k.row = "deleted" => k.profile \in rows
  /\ k.step = "recorded" /\ k.table = "dropped" /\ k.row = "untouched" => k.profile \notin rows

\* l is the command of another migrator
Apart(k, l) ==
  /\ k.table \in {"created", "dropped"} => l.table = "untouched"
  /\ k.row # "untouched" /\ k.profile = l.profile => l.row = "untouched"

SingleProfile(ever) == \A p, q \in ever : p = q
RowsHave(rows, made) == \A p \in rows : made = p
SchemaIs(rows, made) == rows = IF made = NoTable THEN {} ELSE {made}
SchemaOK(rows, made, ever, skipped) ==
  SingleProfile(ever) => RowsHave(rows, made) /\ (~skipped => SchemaIs(rows, made))

MigrationsIInv ==
  /\ table \in everApplied \cup {NoTable} /\ applied \subseteq everApplied
  /\ everApplied \subseteq Profiles /\ IsFiniteSet(everApplied) /\ missed \in BOOLEAN
  /\ migratorCommand \in [Migrators -> MigratorState]
  /\ \A m \in Migrators : MigratorOK(migratorCommand[m], table, applied, everApplied)
  /\ \A m, n \in Migrators : m # n => Apart(migratorCommand[m], migratorCommand[n])
  /\ SchemaOK(applied, table, everApplied, missed)

LEMMA IdleIs ==
  /\ Idle \in MigratorState
  /\ \A was, rows, ever : MigratorOK(Idle, was, rows, ever)
  /\ \A l : Apart(Idle, l) /\ Apart(l, Idle)
BY DEF Idle, MigratorOK, MigratorState, HasRun, Apart

LEMMA MigrationsInitOK == MigrationsInit => MigrationsIInv
<1> SUFFICES ASSUME MigrationsInit PROVE MigrationsIInv
  OBVIOUS
<1>1. IsFiniteSet({})
  BY FS_EmptySet
<1>2. SchemaOK({}, NoTable, {}, FALSE)
  BY DEF SchemaOK, RowsHave, SchemaIs
<1>3. migratorCommand \in [Migrators -> MigratorState] /\ \A m \in Migrators : migratorCommand[m] = Idle
  BY IdleIs DEF MigrationsInit
<1> QED
  BY <1>1, <1>2, <1>3, IdleIs DEF MigrationsInit, MigrationsIInv

(* A step of one migrator that commits nothing. *)
LEMMA MigratorStep ==
  ASSUME MigrationsIInv, NEW m \in Migrators, NEW k,
         migratorCommand' = [migratorCommand EXCEPT ![m] = k],
         MigratorOK(k, table, applied, everApplied),
         \A n \in Migrators \ {m} : Apart(k, migratorCommand[n]) /\ Apart(migratorCommand[n], k),
         UNCHANGED <<table, applied, everApplied, missed>>
  PROVE  MigrationsIInv'
<1>1. k \in MigratorState
  BY DEF MigratorOK
<1>2. migratorCommand' \in [Migrators -> MigratorState] /\ migratorCommand'[m] = k
      /\ \A n \in Migrators \ {m} : migratorCommand'[n] = migratorCommand[n]
  BY <1>1 DEF MigrationsIInv
<1>3. \A n \in Migrators : MigratorOK(migratorCommand'[n], table, applied, everApplied)
  BY <1>2 DEF MigrationsIInv
<1>4. ASSUME NEW n \in Migrators, NEW o \in Migrators, n # o
      PROVE  Apart(migratorCommand'[n], migratorCommand'[o])
  <2>1. CASE n = m
    BY <1>2, <1>4, <2>1
  <2>2. CASE o = m
    BY <1>2, <1>4, <2>2
  <2>3. CASE n # m /\ o # m
    BY <1>2, <1>4, <2>3 DEF MigrationsIInv
  <2> QED
    BY <2>1, <2>2, <2>3
<1> QED
  BY <1>2, <1>3, <1>4 DEF MigrationsIInv

(* A transaction that ends without its commit, and one that goes on as it was. *)
LEMMA MigratorEnds ==
  ASSUME MigrationsIInv, NEW m \in Migrators, Ended(m), UNCHANGED <<table, applied, everApplied, missed>>
  PROVE  MigrationsIInv'
BY IdleIs, MigratorStep DEF Ended

LEMMA MigratorGoesOn ==
  ASSUME MigrationsIInv, NEW m \in Migrators, NEW k,
         migratorCommand' = [migratorCommand EXCEPT ![m] = k],
         MigratorOK(k, table, applied, everApplied), k.profile = migratorCommand[m].profile,
         k.table \in {migratorCommand[m].table, "untouched"},
         k.row \in {migratorCommand[m].row, "untouched"},
         UNCHANGED <<table, applied, everApplied, missed>>
  PROVE  MigrationsIInv'
<1>1. ASSUME NEW n \in Migrators \ {m} PROVE Apart(k, migratorCommand[n]) /\ Apart(migratorCommand[n], k)
  <2>1. Apart(migratorCommand[m], migratorCommand[n]) /\ Apart(migratorCommand[n], migratorCommand[m])
    BY DEF MigrationsIInv
  <2> QED
    BY <2>1 DEF Apart
<1> QED
  BY <1>1, MigratorStep

(* What a commit leaves of table, rows and history. *)
LEMMA CommitIs ==
  ASSUME MigrationsIInv, NEW m \in Migrators, migratorCommand[m].step = "recorded", Committed(m),
         NEW k, k = migratorCommand[m]
  PROVE  /\ k.profile \in Profiles
         /\ \/ /\ k.table = "created" /\ table = NoTable /\ table' = k.profile
               /\ k.row = "inserted" /\ applied' = applied \cup {k.profile}
               /\ everApplied' = everApplied \cup {k.profile} /\ missed' = missed
            \/ /\ k.table = "indexed" /\ table # NoTable /\ table' = table
               /\ k.row = "inserted" /\ applied' = applied \cup {k.profile}
               /\ everApplied' = everApplied \cup {k.profile} /\ missed' = missed
            \/ /\ k.table = "dropped" /\ table' = NoTable /\ k.profile \in everApplied
               /\ k.row \in {"untouched", "deleted"} /\ applied' = applied \ {k.profile}
               /\ k.row = "untouched" => k.profile \notin applied
               /\ everApplied' = everApplied /\ missed' = missed
            \/ /\ k.table = "untouched" /\ table' = table /\ k.row \in {"untouched", "deleted"}
               /\ applied' = (IF k.row = "deleted" THEN applied \ {k.profile} ELSE applied)
               /\ everApplied' = everApplied /\ missed' = TRUE
<1>1. MigratorOK(k, table, applied, everApplied) /\ k.step = "recorded" /\ HasRun(k)
      /\ applied \subseteq everApplied /\ missed \in BOOLEAN
  BY DEF MigrationsIInv, HasRun
<1>2. k \in MigratorState /\ k.profile \in Profiles /\ k.kind \in {"apply", "rollback"}
  BY <1>1 DEF MigratorOK, MigratorState
<1>3. table' = TableAfter(m) /\ applied' = RowsAfter(m) /\ everApplied' = everApplied \cup RowsAfter(m)
      /\ missed' = (missed \/ k.table = "untouched")
  BY DEF Committed
<1>4. CASE k.kind = "apply"
  <2>1. k.table \in {"created", "indexed"} /\ k.row = "inserted"
    BY <1>1, <1>4 DEF MigratorOK
  <2>2. RowsAfter(m) = applied \cup {k.profile}
    BY <2>1 DEF RowsAfter
  <2>3. everApplied' = everApplied \cup {k.profile} /\ missed' = missed
    BY <1>1, <1>3, <2>1, <2>2
  <2>4. k.table = "created" => table = NoTable /\ table' = k.profile
    BY <1>1, <1>3 DEF TableAfter, MigratorOK
  <2>5. k.table = "indexed" => table # NoTable /\ table' = table
    BY <1>1, <1>3 DEF TableAfter, MigratorOK
  <2> QED
    BY <1>2, <1>3, <2>1, <2>2, <2>3, <2>4, <2>5
<1>5. CASE k.kind = "rollback"
  <2>1. k.table \in {"untouched", "dropped"} /\ k.row \in {"untouched", "deleted"} /\ k.profile \in everApplied
    BY <1>1, <1>5 DEF MigratorOK
  <2>2. RowsAfter(m) = IF k.row = "deleted" THEN applied \ {k.profile} ELSE applied
    BY <2>1 DEF RowsAfter
  <2>3. everApplied' = everApplied
    BY <1>1, <1>3, <2>2
  <2>4. CASE k.table = "dropped"
    <3>1. table' = NoTable /\ missed' = missed
      BY <1>1, <1>3, <2>4 DEF TableAfter
    <3>2. k.row = "untouched" => k.profile \notin applied
      BY <1>1, <2>4 DEF MigratorOK
    <3>3. RowsAfter(m) = applied \ {k.profile}
      BY <2>1, <2>2, <3>2
    <3> QED
      BY <1>2, <1>3, <2>1, <2>3, <2>4, <3>1, <3>2, <3>3
  <2>5. CASE k.table = "untouched"
    <3>1. table' = table /\ missed' = TRUE
      BY <1>1, <1>3, <2>5 DEF TableAfter
    <3> QED
      BY <1>2, <1>3, <2>1, <2>2, <2>3, <2>5, <3>1
  <2> QED
    BY <2>1, <2>4, <2>5
<1> QED
  BY <1>2, <1>4, <1>5

(* The schema and its row are committed together. *)
LEMMA CommittedKeeps ==
  ASSUME MigrationsIInv, NEW m \in Migrators, migratorCommand[m].step = "recorded", Committed(m)
  PROVE  MigrationsIInv'
<1> PICK k : k = migratorCommand[m]
  OBVIOUS
<1>1. /\ k.profile \in Profiles
      /\ \/ /\ k.table = "created" /\ table = NoTable /\ table' = k.profile
            /\ k.row = "inserted" /\ applied' = applied \cup {k.profile}
            /\ everApplied' = everApplied \cup {k.profile} /\ missed' = missed
         \/ /\ k.table = "indexed" /\ table # NoTable /\ table' = table
            /\ k.row = "inserted" /\ applied' = applied \cup {k.profile}
            /\ everApplied' = everApplied \cup {k.profile} /\ missed' = missed
         \/ /\ k.table = "dropped" /\ table' = NoTable /\ k.profile \in everApplied
            /\ k.row \in {"untouched", "deleted"} /\ applied' = applied \ {k.profile}
            /\ k.row = "untouched" => k.profile \notin applied
            /\ everApplied' = everApplied /\ missed' = missed
         \/ /\ k.table = "untouched" /\ table' = table /\ k.row \in {"untouched", "deleted"}
            /\ applied' = (IF k.row = "deleted" THEN applied \ {k.profile} ELSE applied)
            /\ everApplied' = everApplied /\ missed' = TRUE
  BY CommitIs
<1>2. /\ table \in everApplied \cup {NoTable} /\ applied \subseteq everApplied
      /\ everApplied \subseteq Profiles /\ IsFiniteSet(everApplied) /\ missed \in BOOLEAN
      /\ SchemaOK(applied, table, everApplied, missed)
  BY DEF MigrationsIInv
<1>3. /\ table' \in everApplied' \cup {NoTable} /\ applied' \subseteq everApplied'
      /\ everApplied' \subseteq Profiles /\ missed' \in BOOLEAN
  BY <1>1, <1>2
<1>4. IsFiniteSet(everApplied')
  <2>1. IsFiniteSet({k.profile})
    BY FS_Singleton
  <2>2. IsFiniteSet(everApplied \cup {k.profile})
    BY <1>2, <2>1, FS_Union
  <2> QED
    BY <1>1, <1>2, <2>2
<1>5. ASSUME SingleProfile(everApplied')
      PROVE  RowsHave(applied', table') /\ (~missed' => SchemaIs(applied', table'))
  <2>0. SingleProfile(everApplied) /\ RowsHave(applied, table) /\ (~missed => SchemaIs(applied, table))
    BY <1>1, <1>2, <1>5 DEF SingleProfile, SchemaOK
  <2>1. CASE k.table \in {"created", "indexed"}
    <3>1. k.profile \in everApplied' /\ applied' = applied \cup {k.profile} /\ applied' \subseteq everApplied'
      BY <1>1, <1>3, <2>1
    <3>2. applied' = {k.profile}
      BY <1>5, <3>1 DEF SingleProfile
    <3>3. table' = k.profile
      BY <1>1, <1>3, <1>5, <2>1, <3>1 DEF SingleProfile
    <3>4. k.profile # NoTable
      BY <1>1, MigrationsAssumption
    <3> QED
      BY <3>2, <3>3, <3>4 DEF RowsHave, SchemaIs
  <2>2. CASE k.table = "dropped"
    <3>1. applied' = applied \ {k.profile} /\ table' = NoTable /\ k.profile \in everApplied
      BY <1>1, <2>2
    <3>2. applied' = {}
      BY <1>2, <2>0, <3>1 DEF SingleProfile
    <3> QED
      BY <3>1, <3>2 DEF RowsHave, SchemaIs
  <2>3. CASE k.table = "untouched"
    BY <1>1, <2>0, <2>3 DEF RowsHave
  <2> QED
    BY <1>1, <2>1, <2>2, <2>3
<1>6. migratorCommand' = [migratorCommand EXCEPT ![m] = Idle]
  BY DEF Committed, Ended
<1>7. migratorCommand' \in [Migrators -> MigratorState] /\ migratorCommand'[m] = Idle
      /\ \A n \in Migrators \ {m} : migratorCommand'[n] = migratorCommand[n]
  BY <1>6, IdleIs DEF MigrationsIInv
<1>8. ASSUME NEW n \in Migrators \ {m}
      PROVE  MigratorOK(migratorCommand[n], table', applied', everApplied')
  <2> PICK l : l = migratorCommand[n]
    OBVIOUS
  <2>1. MigratorOK(l, table, applied, everApplied) /\ Apart(k, l) /\ Apart(l, k)
    BY DEF MigrationsIInv
  <2>2. everApplied \subseteq everApplied'
    BY <1>1
  <2>3. l.table # "untouched" => table' = table
    BY <1>1, <2>1 DEF Apart
  <2>4. l.row # "untouched" => (l.profile \in applied' <=> l.profile \in applied)
    BY <1>1, <2>1 DEF Apart
  <2>5. l.table = "dropped" => (l.profile \in applied' => l.profile \in applied)
    BY <1>1, <2>1 DEF Apart
  <2> QED
    BY <2>1, <2>2, <2>3, <2>4, <2>5 DEF MigratorOK
<1>9. \A n \in Migrators : MigratorOK(migratorCommand'[n], table', applied', everApplied')
  BY <1>7, <1>8, IdleIs
<1>10. ASSUME NEW n \in Migrators, NEW o \in Migrators, n # o
       PROVE  Apart(migratorCommand'[n], migratorCommand'[o])
  BY <1>7, <1>10, IdleIs DEF MigrationsIInv
<1> QED
  BY <1>3, <1>4, <1>5, <1>7, <1>9, <1>10 DEF MigrationsIInv, SchemaOK

(* The SQL of a migration: it takes the locks that its effect needs. *)
LEMMA SqlKeeps ==
  ASSUME MigrationsIInv, NEW m \in Migrators, RunsSql(m)
  PROVE  MigrationsIInv'
<1> PICK was : was = migratorCommand[m]
  OBVIOUS
<1>1. MigratorOK(was, table, applied, everApplied) /\ was \in MigratorState
      /\ UNCHANGED <<table, applied, everApplied, missed>>
  BY DEF MigrationsIInv, RunsSql
<1>2. ASSUME NEW effect \in {"untouched", "created", "indexed", "dropped"}, Ran(m, effect),
             was.step \in {"selected", "looked"},
             was.kind = "apply" => effect \in {"created", "indexed"},
             was.kind = "rollback" => effect \in {"untouched", "dropped"},
             effect = "created" => table = NoTable,
             effect \in {"indexed", "dropped"} => table # NoTable,
             effect \in {"created", "indexed"} => NoneChanges(m),
             effect = "dropped" => NoneHolds(m)
      PROVE  MigrationsIInv'
  <2> PICK k : k = [was EXCEPT !.step = "ran", !.table = effect]
    OBVIOUS
  <2>1. migratorCommand' = [migratorCommand EXCEPT ![m] = k]
    BY <1>2 DEF Ran, MigrationsIInv
  <2>2. k \in MigratorState /\ k.step = "ran" /\ k.table = effect /\ k.kind = was.kind
        /\ k.profile = was.profile /\ k.row = was.row
    BY <1>1, <1>2 DEF MigratorState
  <2>3. was.row = "untouched" /\ was.profile \in Profiles /\ was.kind \in {"apply", "rollback"}
    BY <1>1, <1>2 DEF MigratorOK, MigratorState
  <2>4. MigratorOK(k, table, applied, everApplied)
    BY <1>1, <1>2, <2>2, <2>3 DEF MigratorOK, HasRun
  <2>5. ASSUME NEW n \in Migrators \ {m}
        PROVE  Apart(k, migratorCommand[n]) /\ Apart(migratorCommand[n], k)
    <3> PICK l : l = migratorCommand[n]
      OBVIOUS
    <3>1. l \in OtherCommands(m) /\ Apart(l, was) /\ MigratorOK(l, table, applied, everApplied) /\ l \in MigratorState
      BY DEF OtherCommands, MigrationsIInv
    <3>2. effect \in {"created", "indexed"} => l.table \notin {"created", "dropped"}
      BY <1>2, <3>1 DEF NoneChanges
    <3>3. effect = "dropped" => l.table = "untouched"
      BY <1>2, <3>1 DEF NoneHolds
    <3>4. effect = "created" => l.table = "untouched"
      BY <1>2, <3>1, <3>2 DEF MigratorOK, MigratorState
    <3> QED
      BY <1>2, <2>2, <2>3, <3>2, <3>3, <3>4 DEF Apart
  <2> QED
    BY <1>1, <2>1, <2>4, <2>5, MigratorStep
<1>3. ASSUME Ended(m) PROVE MigrationsIInv'
  BY <1>1, <1>3, MigratorEnds
<1>4. was.step = "looked" => was.kind = "apply"
  BY <1>1 DEF MigratorOK
<1>5. CASE CreatesTable(m)
  BY <1>2, <1>3, <1>4, <1>5 DEF CreatesTable
<1>6. CASE IndexesTable(m)
  BY <1>2, <1>3, <1>4, <1>6 DEF IndexesTable
<1>7. CASE DropsTable(m)
  BY <1>2, <1>7 DEF DropsTable
<1> QED
  BY <1>5, <1>6, <1>7 DEF RunsSql

(* The row of a migration, which no other transaction has changed. *)
LEMMA RecordsKeeps ==
  ASSUME MigrationsIInv, NEW m \in Migrators, Records(m)
  PROVE  MigrationsIInv'
<1> PICK was : was = migratorCommand[m]
  OBVIOUS
<1>1. MigratorOK(was, table, applied, everApplied) /\ was \in MigratorState /\ was.step = "ran"
      /\ UNCHANGED <<table, applied, everApplied, missed>>
  BY DEF MigrationsIInv, Records
<1>2. ASSUME NEW effect \in {"untouched", "inserted", "deleted"},
             migratorCommand' = [migratorCommand EXCEPT ![m].step = "recorded", ![m].row = effect],
             was.kind = "apply" => effect = "inserted",
             was.kind = "rollback" => effect \in {"untouched", "deleted"},
             effect \in {"untouched", "inserted"} => was.profile \notin applied,
             effect = "deleted" => was.profile \in applied,
             effect # "untouched" => ~RowHeld(m)
      PROVE  MigrationsIInv'
  <2> PICK k : k = [was EXCEPT !.step = "recorded", !.row = effect]
    OBVIOUS
  <2>1. migratorCommand' = [migratorCommand EXCEPT ![m] = k]
    BY <1>2 DEF MigrationsIInv
  <2>2. k \in MigratorState /\ k.step = "recorded" /\ k.table = was.table /\ k.kind = was.kind
        /\ k.profile = was.profile /\ k.row = effect
    BY <1>1, <1>2 DEF MigratorState
  <2>3. MigratorOK(k, table, applied, everApplied)
    BY <1>1, <1>2, <2>2 DEF MigratorOK, HasRun
  <2>4. ASSUME NEW n \in Migrators \ {m}
        PROVE  Apart(k, migratorCommand[n]) /\ Apart(migratorCommand[n], k)
    <3> PICK l : l = migratorCommand[n]
      OBVIOUS
    <3>1. l \in OtherCommands(m) /\ Apart(l, was) /\ Apart(was, l)
      BY DEF OtherCommands, MigrationsIInv
    <3>2. effect # "untouched" => l.profile # was.profile \/ l.row = "untouched"
      BY <1>2, <3>1 DEF RowHeld
    <3> QED
      BY <2>2, <3>1, <3>2 DEF Apart
  <2> QED
    BY <1>1, <2>1, <2>3, <2>4, MigratorStep
<1>3. CASE InsertsRow(m)
  <2>1. CASE Pending(was.profile)
    BY <1>2, <1>3, <2>1 DEF InsertsRow, Pending
  <2>2. CASE ~Pending(was.profile)
    BY <1>1, <1>3, <2>2, MigratorEnds DEF InsertsRow
  <2> QED
    BY <2>1, <2>2
<1>4. CASE DeletesRow(m)
  <2>1. CASE Pending(was.profile)
    BY <1>2, <1>4, <2>1 DEF DeletesRow, Pending
  <2>2. CASE ~Pending(was.profile)
    BY <1>2, <1>4, <2>2 DEF DeletesRow, Pending
  <2> QED
    BY <2>1, <2>2
<1> QED
  BY <1>3, <1>4 DEF Records

LEMMA MigrationsStepOK == MigrationsIInv /\ [MigrationsNext]_migrationVars => MigrationsIInv'
<1> SUFFICES ASSUME MigrationsIInv, [MigrationsNext]_migrationVars PROVE MigrationsIInv'
  OBVIOUS
<1>1. ASSUME NEW m \in Migrators, NEW kind \in {"apply", "rollback"}, NEW p \in Profiles,
             Begins(m, kind, p), kind = "rollback" => p \in applied
      PROVE  MigrationsIInv'
  <2> PICK k : k = [Idle EXCEPT !.step = "selected", !.kind = kind, !.profile = p]
    OBVIOUS
  <2>1. migratorCommand' = [migratorCommand EXCEPT ![m] = k]
        /\ UNCHANGED <<table, applied, everApplied, missed>>
    BY <1>1 DEF Begins
  <2>2. k \in MigratorState /\ k.step = "selected" /\ k.profile = p /\ k.kind = kind
        /\ k.table = "untouched" /\ k.row = "untouched"
    BY DEF Idle, MigratorState
  <2>3. MigratorOK(k, table, applied, everApplied)
    BY <1>1, <2>2 DEF MigratorOK, HasRun, MigrationsIInv
  <2>4. \A l : Apart(k, l) /\ Apart(l, k)
    BY <2>2 DEF Apart
  <2> QED
    BY <2>1, <2>3, <2>4, MigratorStep
<1>2. ASSUME NEW m \in Migrators, apply(m) PROVE MigrationsIInv'
  BY <1>1, <1>2 DEF apply
<1>3. ASSUME NEW m \in Migrators, rollbackLast(m) PROVE MigrationsIInv'
  BY <1>1, <1>3 DEF rollbackLast, Pending
<1>4. ASSUME NEW m \in Migrators, LooksForTable(m) PROVE MigrationsIInv'
  <2> PICK was : was = migratorCommand[m]
    OBVIOUS
  <2> PICK k : k = [was EXCEPT !.step = "looked", !.saw = table]
    OBVIOUS
  <2>1. was.step = "selected" /\ was.kind = "apply" /\ UNCHANGED <<table, applied, everApplied, missed>>
        /\ migratorCommand' = [migratorCommand EXCEPT ![m] = k]
    BY <1>4 DEF LooksForTable, MigrationsIInv
  <2>2. MigratorOK(was, table, applied, everApplied) /\ was \in MigratorState
        /\ table \in Profiles \cup {NoTable}
    BY DEF MigrationsIInv
  <2>3. k \in MigratorState /\ k.step = "looked" /\ k.kind = was.kind /\ k.profile = was.profile
        /\ k.table = was.table /\ k.row = was.row
    BY <2>2 DEF MigratorState
  <2>4. MigratorOK(k, table, applied, everApplied)
    BY <2>1, <2>2, <2>3 DEF MigratorOK, HasRun
  <2> QED
    BY <2>1, <2>3, <2>4, MigratorGoesOn
<1>5. ASSUME NEW m \in Migrators, MigrationFails(m) PROVE MigrationsIInv'
  BY <1>5, MigratorEnds DEF MigrationFails, Undone
<1>6. ASSUME NEW m \in Migrators, Commits(m) \/ CommitLost(m) PROVE MigrationsIInv'
  BY <1>6, CommittedKeeps DEF Commits, CommitLost
<1>7. CASE UNCHANGED migrationVars
  BY <1>7 DEF migrationVars, MigrationsIInv
<1> QED
  BY <1>2, <1>3, <1>4, <1>5, <1>6, <1>7, SqlKeeps, RecordsKeeps DEF MigrationsNext

LEMMA MigrationsIInvImplies == MigrationsIInv => MigrationsInv
<1> SUFFICES ASSUME MigrationsIInv PROVE MigrationsInv
  OBVIOUS
<1>1. MigrationsTypeOK
  <2>1. \A m \in Migrators : LET k == migratorCommand[m] IN
          /\ k.table # "untouched" => k.step \in {"ran", "recorded"}
          /\ k.row # "untouched" => k.step = "recorded"
    BY DEF MigrationsIInv, MigratorOK, HasRun
  <2> QED
    BY <2>1 DEF MigrationsIInv, MigrationsTypeOK
<1>2. ASSUME OneProfile PROVE SingleProfile(everApplied)
  <2>1. SUFFICES ASSUME NEW p \in everApplied, NEW q \in everApplied, p # q PROVE FALSE
    BY DEF SingleProfile
  <2>2. IsFiniteSet({p}) /\ Cardinality({p}) = 1
    BY FS_Singleton
  <2>3. IsFiniteSet({p, q}) /\ Cardinality({p, q}) = 2
    <3>1. {p, q} = {p} \cup {q} /\ q \notin {p}
      BY <2>1
    <3> QED
      BY <2>2, <3>1, FS_AddElement
  <2>4. Cardinality({p, q}) <= Cardinality(everApplied) /\ Cardinality(everApplied) \in Nat
    BY <2>1, <2>3, FS_Subset, FS_CardinalityType DEF MigrationsIInv
  <2> QED
    BY <1>2, <2>3, <2>4 DEF OneProfile
<1>3. RecordHasItsTable /\ OnlyMissLeavesTable
  BY <1>2 DEF RecordHasItsTable, OnlyMissLeavesTable, RowsHave, SchemaIs, SchemaOK, MigrationsIInv
<1> QED
  BY <1>1, <1>3 DEF MigrationsInv

-----------------------------------------------------------------------------
(* The in-memory store: a token names the revision of an entity and its tick; staged *)
(* operations expect what was read, or follow one of their transaction.                *)

WrittenBy(c, revision) == [revision |-> revision, token |-> <<revision, WrittenAt[c]>>, data |-> c]
Entities == {e \in {Missing, Earlier} : TRUE} \cup {WrittenBy(c, r) : c \in Clients, r \in Nat \ {0}}
Operations == [type : {"save", "delete"}, key : Keys, expected : Entities]
ClientState ==
  [state : {"active", "publishing", "committed", "failed", "rolled-back"}, staged : Seq(Operations),
   told : {"nothing", "committed", "failed", "rolled-back"},
   read : [Keys -> Entities], replaced : [Keys -> Entities]]

Alike(e, f) == e = f \/ SameTick(e, f)
StagedBefore(staged, i) == \E j \in 1..(i - 1) : staged[j].key = staged[i].key
ExpectsRead(staged, i, read) == staged[i].expected = read[staged[i].key] \/ StagedBefore(staged, i)

ClientOK(c, k, stored) ==
  /\ Len(k.staged) <= MaxStaged[c]
  /\ \A i \in 1..Len(k.staged) : ExpectsRead(k.staged, i, k.read)
  /\ k.state \in {"publishing", "committed"} =>
       \A i \in 1..Len(k.staged) : Alike(k.replaced[k.staged[i].key], k.read[k.staged[i].key])
  /\ k.state \in {"active", "failed", "rolled-back"} => \A x \in Keys : stored[x].data # c
  /\ k.told = "rolled-back" => k.state = "rolled-back"

ReferenceIInv ==
  /\ entities \in [Keys -> Entities] /\ client \in [Clients -> ClientState]
  /\ \A c \in Clients : ClientOK(c, client[c], entities)

(* What the clients wrote, by its fields. *)
LEMMA EntityIs ==
  ASSUME NEW e \in Entities
  PROVE  \/ e = Missing \/ e = Earlier
         \/ \E c \in Clients, r \in Nat \ {0} : e = WrittenBy(c, r)
BY DEF Entities

(* Two states of one token have their revision and their tick in common. *)
LEMMA MatchesAlike ==
  ASSUME NEW e \in Entities, NEW f \in Entities, Matches(e, f)
  PROVE  Alike(e, f)
<1>1. ASSUME NEW g \in Entities
      PROVE  \/ g = Missing /\ g.revision = 0 /\ g.data = "none"
             \/ g.revision # 0 /\ g.data # "none" /\ g.token = <<g.revision, TimeOf(g.data)>>
  <2>1. CASE g = Missing
    BY <2>1 DEF Missing
  <2>2. CASE g = Earlier
    <3>1. "earlier" \notin Clients
      BY ReferenceAssumption
    <3> QED
      BY <2>2, <3>1 DEF Earlier, TimeOf
  <2>3. ASSUME NEW c \in Clients, NEW r \in Nat \ {0}, g = WrittenBy(c, r)
        PROVE  g.revision # 0 /\ g.data # "none" /\ g.token = <<g.revision, TimeOf(g.data)>>
    <3>1. c # "none"
      BY ReferenceAssumption
    <3> QED
      BY <2>3, <3>1 DEF WrittenBy, TimeOf
  <2> QED
    BY <2>1, <2>2, <2>3, EntityIs
<1>2. e.revision = f.revision /\ e.token = f.token
  BY DEF Matches
<1>3. CASE e = Missing
  <2>1. e.revision = 0
    BY <1>3 DEF Missing
  <2>2. f.revision = 0
    BY <1>2, <2>1
  <2>3. f = Missing
    BY <1>1, <2>2, Zenon
  <2> QED
    BY <1>3, <2>3 DEF Alike
<1>4. CASE e # Missing
  <2>1. e.revision # 0 /\ e.data # "none" /\ e.token = <<e.revision, TimeOf(e.data)>>
    BY <1>1, <1>4
  <2>2. f.data # "none" /\ f.token = <<f.revision, TimeOf(f.data)>>
    BY <1>1, <1>2, <2>1
  <2> PICK te, tf : te = TimeOf(e.data) /\ tf = TimeOf(f.data)
    OBVIOUS
  <2>3. te = tf
    <3>1. <<e.revision, te>> = <<f.revision, tf>>
      BY <1>2, <2>1, <2>2, Zenon
    <3>2. <<e.revision, te>>[2] = te /\ <<f.revision, tf>>[2] = tf
      OBVIOUS
    <3> QED
      BY <3>1, <3>2, Zenon
  <2> QED
    BY <1>2, <2>1, <2>2, <2>3 DEF Alike, SameTick
<1> QED
  BY <1>3, <1>4

-----------------------------------------------------------------------------
(* The copies of a commit, operation by operation. *)

NextCopy(g, n, start, operations, c) ==
  IF n = 0 THEN start ELSE applyOperation(g[n - 1], operations[n], c)
AreCopies(g, len, start, operations, c) ==
  g = [n \in 0..len |-> NextCopy(g, n, start, operations, c)]

(* There is a sequence of copies for any number of operations. *)
LEMMA CopiesExist ==
  ASSUME NEW start, NEW operations, NEW c, NEW len \in Nat
  PROVE  \E g : AreCopies(g, len, start, operations, c)
<1> DEFINE Bad == {m \in Nat : ~\E g : AreCopies(g, m, start, operations, c)}
<1> SUFFICES ASSUME Bad # {} PROVE FALSE
  OBVIOUS
<1>1. PICK m \in Bad : \A j \in Bad : m <= j
  BY Smallest
<1>2. CASE m = 0
  <2> PICK g : g = [n \in 0..0 |-> start]
    OBVIOUS
  <2>1. \A n \in 0..0 : NextCopy(g, n, start, operations, c) = start
    BY DEF NextCopy
  <2>2. AreCopies(g, 0, start, operations, c)
    BY <2>1 DEF AreCopies
  <2> QED
    BY <1>1, <1>2, <2>2
<1>3. CASE m # 0
  <2>1. m - 1 \in Nat /\ m - 1 \notin Bad
    BY <1>1, <1>3
  <2>2. PICK g : AreCopies(g, m - 1, start, operations, c)
    BY <2>1
  <2> PICK h : h = [n \in 0..m |-> IF n = m THEN applyOperation(g[m - 1], operations[m], c) ELSE g[n]]
    OBVIOUS
  <2>3. \A n \in 0..m : n # m => n \in 0..(m - 1) /\ (n # 0 => n - 1 \in 0..m /\ n - 1 # m)
    BY <1>1
  <2>4. m - 1 \in 0..m /\ m - 1 # m /\ m \in 0..m
    BY <2>1
  <2>5. ASSUME NEW n \in 0..m PROVE h[n] = NextCopy(h, n, start, operations, c)
    <3>1. CASE n = m
      <4>1. h[n - 1] = g[m - 1]
        BY <2>4, <3>1
      <4> QED
        BY <1>3, <3>1, <4>1 DEF NextCopy
    <3>2. CASE n # m
      <4>1. h[n] = g[n] /\ n \in 0..(m - 1)
        BY <2>3, <3>2
      <4>2. g[n] = NextCopy(g, n, start, operations, c)
        BY <2>2, <4>1 DEF AreCopies
      <4>3. n # 0 => h[n - 1] = g[n - 1]
        BY <2>3, <3>2
      <4> QED
        BY <4>1, <4>2, <4>3 DEF NextCopy
    <3> QED
      BY <3>1, <3>2
  <2>6. h = [n \in 0..m |-> h[n]]
    OBVIOUS
  <2>7. AreCopies(h, m, start, operations, c)
    BY <2>5, <2>6 DEF AreCopies
  <2> QED
    BY <1>1, <2>7
<1> QED
  BY <1>2, <1>3

LEMMA CopiesAre ==
  ASSUME NEW start, NEW operations, NEW c, NEW len \in Nat, Len(operations) = len
  PROVE  AreCopies(Copies(start, operations, c), len, start, operations, c)
<1>1. Copies(start, operations, c) =
        CHOOSE g : g = [n \in 0..len |-> IF n = 0 THEN start ELSE applyOperation(g[n - 1], operations[n], c)]
  BY DEF Copies
<1>2. \E g : g = [n \in 0..len |-> IF n = 0 THEN start ELSE applyOperation(g[n - 1], operations[n], c)]
  <2>1. PICK g : AreCopies(g, len, start, operations, c)
    BY CopiesExist
  <2>2. g = [n \in 0..len |-> IF n = 0 THEN start ELSE applyOperation(g[n - 1], operations[n], c)]
    BY <2>1 DEF AreCopies, NextCopy
  <2> QED
    BY <2>2, Zenon
<1>3. PICK f : f = Copies(start, operations, c)
  OBVIOUS
<1>4. f = [n \in 0..len |-> IF n = 0 THEN start ELSE applyOperation(f[n - 1], operations[n], c)]
  BY <1>1, <1>2, <1>3, Zenon
<1> QED
  BY <1>3, <1>4, Zenon DEF AreCopies, NextCopy


(* What an operation leaves of a copy: it is refused, or it matched and replaced one entity *)
(* by a state its client writes or by none.                                                   *)
LEMMA OperationIs ==
  ASSUME NEW shadow \in [Keys -> Entities], NEW staging \in Operations, NEW c \in Clients
  PROVE  \/ applyOperation(shadow, staging, c) = Refused
         \/ /\ Matches(shadow[staging.key], staging.expected)
            /\ \E e \in Entities :
                 /\ e.data \in {c, "none"}
                 /\ applyOperation(shadow, staging, c) = [shadow EXCEPT ![staging.key] = e]
<1> PICK current : current = shadow[staging.key]
  OBVIOUS
<1>0. staging.key \in Keys /\ current \in Entities
  BY DEF Operations
<1>1. current.revision \in Nat
  BY <1>0, EntityIs DEF Missing, Earlier, WrittenBy
<1>2. WrittenBy(c, current.revision + 1) \in Entities
  BY <1>1 DEF Entities
<1>3. Missing \in Entities /\ Missing.data = "none" /\ WrittenBy(c, current.revision + 1).data = c
  BY DEF Entities, Missing, WrittenBy
<1>4. shadow # Refused
  BY <1>0 DEF Refused
<1>5. CASE \/ ~Matches(current, staging.expected)
           \/ staging.type = "delete" /\ current = Missing
  <2>1. applyOperation(shadow, staging, c) = Refused
    BY <1>4, <1>5 DEF applyOperation
  <2> QED
    BY <2>1
<1>6. CASE ~(\/ ~Matches(current, staging.expected)
             \/ staging.type = "delete" /\ current = Missing)
  <2> PICK e : e = IF staging.type = "delete" THEN Missing ELSE WrittenBy(c, current.revision + 1)
    OBVIOUS
  <2>1. applyOperation(shadow, staging, c) = [shadow EXCEPT ![staging.key] = e]
    BY <1>4, <1>6 DEF applyOperation, WrittenBy
  <2>2. e \in Entities /\ e.data \in {c, "none"}
    BY <1>2, <1>3
  <2> QED
    BY <1>6, <2>1, <2>2
<1> QED
  BY <1>5, <1>6

(* What is known of the copies after n operations that were not refused: an entity that  *)
(* an operation named matched what the client had read, any other is that of the store.     *)
CopyOK(copy, n, start, operations, read, c) ==
  copy # Refused =>
    /\ copy \in [Keys -> Entities]
    /\ \A x \in Keys : copy[x].data \in {start[x].data, c, "none"}
    /\ \A x \in Keys : \/ Matches(start[x], read[x])
                       \/ copy[x] = start[x] /\ \A i \in 1..n : operations[i].key # x
    /\ \A i \in 1..n : Matches(start[operations[i].key], read[operations[i].key])

(* One operation more. *)
LEMMA CopyStep ==
  ASSUME NEW c \in Clients, NEW start \in [Keys -> Entities], NEW read \in [Keys -> Entities],
         NEW operations, NEW n \in Nat, NEW staging \in Operations, operations[n + 1] = staging,
         staging.expected = read[staging.key] \/ StagedBefore(operations, n + 1),
         NEW copy, CopyOK(copy, n, start, operations, read, c)
  PROVE  CopyOK(applyOperation(copy, staging, c), n + 1, start, operations, read, c)
<1> PICK next : next = applyOperation(copy, staging, c)
  OBVIOUS
<1> SUFFICES ASSUME next # Refused
             PROVE  CopyOK(next, n + 1, start, operations, read, c)
  BY DEF CopyOK
<1>1. copy # Refused
  BY DEF applyOperation
<1>2. /\ copy \in [Keys -> Entities]
      /\ \A x \in Keys : copy[x].data \in {start[x].data, c, "none"}
      /\ \A x \in Keys : \/ Matches(start[x], read[x])
                         \/ copy[x] = start[x] /\ \A i \in 1..n : operations[i].key # x
      /\ \A i \in 1..n : Matches(start[operations[i].key], read[operations[i].key])
  BY <1>1 DEF CopyOK
<1>3. Matches(copy[staging.key], staging.expected) /\ staging.key \in Keys
  BY <1>2, OperationIs DEF Operations
<1>4. PICK e \in Entities : e.data \in {c, "none"} /\ next = [copy EXCEPT ![staging.key] = e]
  BY <1>2, OperationIs
<1>5. next \in [Keys -> Entities]
  BY <1>2, <1>4
<1>6. Matches(start[staging.key], read[staging.key])
  <2>1. CASE staging.expected = read[staging.key]
    BY <1>2, <1>3, <2>1
  <2>2. CASE StagedBefore(operations, n + 1)
    <3>1. n + 1 - 1 = n
      OBVIOUS
    <3>2. PICK j \in 1..n : operations[j].key = staging.key
      BY <2>2, <3>1 DEF StagedBefore
    <3> QED
      BY <1>2, <3>2
  <2> QED
    BY <2>1, <2>2
<1>7. ASSUME NEW x \in Keys
      PROVE  /\ next[x].data \in {start[x].data, c, "none"}
             /\ \/ Matches(start[x], read[x])
                \/ next[x] = start[x] /\ \A i \in 1..(n + 1) : operations[i].key # x
  <2>1. CASE x = staging.key
    BY <1>2, <1>4, <1>6, <2>1
  <2>2. CASE x # staging.key
    <3>1. next[x] = copy[x]
      BY <1>2, <1>4, <2>2
    <3>2. \A i \in 1..(n + 1) : i \in 1..n \/ i = n + 1
      OBVIOUS
    <3> QED
      BY <1>2, <2>2, <3>1, <3>2
  <2> QED
    BY <2>1, <2>2
<1>8. ASSUME NEW i \in 1..(n + 1)
      PROVE  Matches(start[operations[i].key], read[operations[i].key])
  <2>1. i \in 1..n \/ i = n + 1
    OBVIOUS
  <2> QED
    BY <1>2, <1>6, <2>1
<1> QED
  BY <1>5, <1>7, <1>8 DEF CopyOK

(* What a commit that is not refused puts in place. *)
LEMMA ShadowIs ==
  ASSUME NEW c \in Clients, NEW start \in [Keys -> Entities], NEW read \in [Keys -> Entities],
         NEW operations \in Seq(Operations), NEW len \in Nat, len = Len(operations),
         \A i \in 1..len : ExpectsRead(operations, i, read)
  PROVE  CopyOK(Copies(start, operations, c)[len], len, start, operations, read, c)
<1> PICK g : g = Copies(start, operations, c)
  OBVIOUS
<1>1. AreCopies(g, len, start, operations, c)
  BY CopiesAre
<1>2. \A n \in 0..len : g[n] = NextCopy(g, n, start, operations, c)
  BY <1>1 DEF AreCopies
<1> DEFINE Bad == {n \in Nat : n <= len /\ ~CopyOK(g[n], n, start, operations, read, c)}
<1> SUFFICES ASSUME Bad # {} PROVE FALSE
  OBVIOUS
<1>3. PICK n \in Bad : \A j \in Bad : n <= j
  BY Smallest
<1>4. CASE n = 0
  <2>1. g[0] = start
    BY <1>2 DEF NextCopy
  <2>2. CopyOK(start, 0, start, operations, read, c)
    BY DEF CopyOK
  <2> QED
    BY <1>3, <1>4, <2>1, <2>2
<1>5. CASE n # 0
  <2>1. PICK p \in Nat : p = n - 1 /\ n = p + 1
    BY <1>3, <1>5
  <2>2. p \notin Bad /\ p <= len /\ n \in 0..len /\ n \in 1..len
    BY <1>3, <2>1
  <2>3. CopyOK(g[p], p, start, operations, read, c)
    BY <2>2
  <2>4. g[n] = applyOperation(g[p], operations[n], c)
    BY <1>2, <1>5, <2>1, <2>2 DEF NextCopy
  <2>5. PICK staging \in Operations : staging = operations[n]
    BY <2>2
  <2>6. staging.expected = read[staging.key] \/ StagedBefore(operations, p + 1)
    BY <2>1, <2>2, <2>5 DEF ExpectsRead
  <2>7. CopyOK(applyOperation(g[p], staging, c), p + 1, start, operations, read, c)
    BY <2>1, <2>3, <2>5, <2>6, CopyStep
  <2> QED
    BY <1>3, <2>1, <2>4, <2>5, <2>7
<1> QED
  BY <1>4, <1>5

-----------------------------------------------------------------------------
(* The invariant of the in-memory store. *)

LEMMA ReferenceInitOK == ReferenceInit => ReferenceIInv
<1> SUFFICES ASSUME ReferenceInit PROVE ReferenceIInv
  OBVIOUS
<1>1. entities \in [Keys -> Entities]
  BY DEF ReferenceInit, Entities
<1> PICK start : start = [state |-> "active", staged |-> <<>>, told |-> "nothing",
                          read |-> entities, replaced |-> entities]
  OBVIOUS
<1>2. client = [c \in Clients |-> start]
  BY DEF ReferenceInit
<1>3. start \in ClientState
  BY <1>1 DEF ClientState
<1>4. Len(start.staged) = 0
  OBVIOUS
<1>5. \A x \in Keys : entities[x].data \in {"none", "earlier"}
  BY DEF ReferenceInit, Missing, Earlier
<1>6. ASSUME NEW c \in Clients PROVE ClientOK(c, start, entities)
  <2>1. c \notin {"none", "earlier"} /\ 0 <= MaxStaged[c]
    BY ReferenceAssumption
  <2> QED
    BY <1>4, <1>5, <2>1 DEF ClientOK
<1> QED
  BY <1>1, <1>2, <1>3, <1>6 DEF ReferenceIInv

(* A step of one client that leaves the entities alone. *)
LEMMA ClientStep ==
  ASSUME ReferenceIInv, NEW c \in Clients, NEW k \in ClientState, ClientOK(c, k, entities),
         client' = [client EXCEPT ![c] = k], entities' = entities
  PROVE  ReferenceIInv'
<1>1. ASSUME NEW d \in Clients PROVE ClientOK(d, client'[d], entities)
  <2>1. CASE d = c
    BY <2>1 DEF ReferenceIInv
  <2>2. CASE d # c
    <3>1. client'[d] = client[d]
      BY <2>2 DEF ReferenceIInv
    <3> QED
      BY <3>1 DEF ReferenceIInv
  <2> QED
    BY <2>1, <2>2
<1> QED
  BY <1>1 DEF ReferenceIInv

LEMMA ClientFinds ==
  ASSUME ReferenceIInv, NEW c \in Clients, NEW x \in Keys, find(c, x)
  PROVE  ReferenceIInv'
<1> PICK was \in ClientState : was = client[c] /\ ClientOK(c, was, entities)
  BY DEF ReferenceIInv
<1> PICK read : read = [was.read EXCEPT ![x] = entities[x]]
  OBVIOUS
<1> PICK k : k = [was EXCEPT !.read = read]
  OBVIOUS
<1>1. client' = [client EXCEPT ![c] = k] /\ entities' = entities /\ was.state = "active"
  BY DEF find, Active, ReferenceIInv
<1>2. \A i \in 1..Len(was.staged) : was.staged[i].key # x /\ was.staged[i].key \in Keys
  <2>1. DOMAIN was.staged = 1..Len(was.staged) /\ \A i \in 1..Len(was.staged) : was.staged[i] \in Operations
    BY DEF ClientState
  <2> QED
    BY <2>1 DEF find, Operations
<1>3. read \in [Keys -> Entities] /\ \A y \in Keys : y # x => read[y] = was.read[y]
  BY DEF ClientState, ReferenceIInv
<1>4. k \in ClientState /\ k.staged = was.staged /\ k.read = read /\ k.state = "active"
      /\ k.told = was.told
  BY <1>1, <1>3 DEF ClientState
<1>5. \A i \in 1..Len(was.staged) : ExpectsRead(was.staged, i, read)
  BY <1>2, <1>3 DEF ClientOK, ExpectsRead
<1>6. ClientOK(c, k, entities)
  BY <1>1, <1>4, <1>5 DEF ClientOK
<1> QED
  BY <1>1, <1>4, <1>6, ClientStep

LEMMA ClientStages ==
  ASSUME ReferenceIInv, NEW c \in Clients, NEW x \in Keys, NEW type \in {"save", "delete"},
         stage(c, x, type)
  PROVE  ReferenceIInv'
<1> PICK was \in ClientState : was = client[c] /\ ClientOK(c, was, entities)
  BY DEF ReferenceIInv
<1> PICK expected : expected = ExpectedOf(was.staged, x, was.read[x])
  OBVIOUS
<1> PICK staging : staging = [type |-> type, key |-> x, expected |-> expected]
  OBVIOUS
<1>0. expected = was.read[x] \/ \E j \in DOMAIN was.staged : was.staged[j].key = x /\ expected = Missing
  BY DEF ExpectedOf
<1>1. staging \in Operations
  BY <1>0 DEF Operations, ClientState, Entities
<1> PICK staged : staged = Append(was.staged, staging)
  OBVIOUS
<1> PICK k : k = [was EXCEPT !.staged = staged]
  OBVIOUS
<1>2. client' = [client EXCEPT ![c] = k] /\ entities' = entities /\ was.state = "active"
      /\ Len(was.staged) < MaxStaged[c]
  BY DEF stage, Active, ReferenceIInv
<1>3. was.staged \in Seq(Operations)
  BY DEF ClientState
<1>4. PICK len \in Nat : len = Len(was.staged)
  BY <1>3, LenProperties, Zenon
<1>5. staged \in Seq(Operations) /\ Len(staged) = len + 1 /\ staged[len + 1] = staging
      /\ \A i \in 1..len : staged[i] = was.staged[i]
  BY <1>1, <1>3, <1>4
<1>6. k \in ClientState /\ k.staged = staged /\ k.read = was.read /\ k.state = "active"
      /\ k.told = was.told
  BY <1>2, <1>5 DEF ClientState
<1>7. ASSUME NEW i \in 1..(len + 1) PROVE ExpectsRead(staged, i, was.read)
  <2>1. CASE i \in 1..len
    <3>1. staged[i] = was.staged[i] /\ ExpectsRead(was.staged, i, was.read)
      BY <1>4, <1>5, <2>1 DEF ClientOK
    <3>2. \A j \in 1..(i - 1) : staged[j] = was.staged[j]
      BY <1>4, <1>5, <2>1
    <3>3. CASE was.staged[i].expected = was.read[was.staged[i].key]
      BY <3>1, <3>3 DEF ExpectsRead
    <3>4. CASE StagedBefore(was.staged, i)
      <4> PICK j \in 1..(i - 1) : was.staged[j].key = was.staged[i].key
        BY <3>4 DEF StagedBefore
      <4>1. staged[j].key = staged[i].key
        BY <3>1, <3>2, Zenon
      <4> QED
        BY <4>1 DEF ExpectsRead, StagedBefore
    <3> QED
      BY <3>1, <3>3, <3>4 DEF ExpectsRead
  <2>2. CASE i = len + 1
    <3>1. i - 1 = len /\ DOMAIN was.staged = 1..len
      BY <1>3, <1>4, <2>2
    <3>2. staged[i] = staging
      BY <1>5, <2>2
    <3> QED
      BY <1>0, <1>5, <3>1, <3>2 DEF ExpectsRead, StagedBefore
  <2> QED
    BY <2>1, <2>2
<1>8. len + 1 <= MaxStaged[c]
  BY <1>2, <1>4, ReferenceAssumption
<1>9. ClientOK(c, k, entities)
  <2>1. Len(k.staged) = len + 1
    BY <1>5, <1>6, Zenon
  <2>2. Len(k.staged) <= MaxStaged[c]
    BY <1>8, <2>1
  <2>3. \A i \in 1..Len(k.staged) : ExpectsRead(k.staged, i, k.read)
    BY <1>6, <1>7, <2>1, Zenon
  <2>4. (\A y \in Keys : entities[y].data # c) /\ k.told # "rolled-back"
    BY <1>2, <1>6 DEF ClientOK
  <2> QED
    BY <1>6, <2>2, <2>3, <2>4 DEF ClientOK
<1> QED
  BY <1>2, <1>6, <1>9, ClientStep

(* A client that goes to another state and is told something. *)
LEMMA ClientTold ==
  ASSUME ReferenceIInv, NEW c \in Clients, NEW state, NEW word,
         client' = [client EXCEPT ![c].state = state, ![c].told = word], entities' = entities,
         \/ client[c].state = "publishing" /\ state = "committed" /\ word \in {"committed", "failed"}
         \/ client[c].state = "active" /\ state = "failed" /\ word = "failed"
         \/ client[c].state \in {"active", "failed"} /\ state = "rolled-back"
            /\ word \in {"rolled-back", "failed"}
  PROVE  ReferenceIInv'
<1> PICK was \in ClientState : was = client[c] /\ ClientOK(c, was, entities)
  BY DEF ReferenceIInv
<1> PICK k : k = [was EXCEPT !.state = state, !.told = word]
  OBVIOUS
<1>1. client' = [client EXCEPT ![c] = k]
  BY DEF ReferenceIInv
<1>2. k \in ClientState /\ k.staged = was.staged /\ k.read = was.read /\ k.state = state
      /\ k.told = word /\ k.replaced = was.replaced
  BY DEF ClientState
<1>3. ClientOK(c, k, entities)
  BY <1>2 DEF ClientOK
<1> QED
  BY <1>1, <1>2, <1>3, ClientStep

LEMMA ClientCommits ==
  ASSUME ReferenceIInv, NEW c \in Clients, commit(c)
  PROVE  ReferenceIInv'
<1> PICK was \in ClientState : was = client[c] /\ ClientOK(c, was, entities)
  BY DEF ReferenceIInv
<1>1. was.state = "active"
  BY DEF commit, Active
<1>2. CASE Shadow(c) = Refused
  <2>1. client' = [client EXCEPT ![c].state = "failed", ![c].told = "failed"] /\ entities' = entities
    BY <1>2 DEF commit
  <2> QED
    BY <1>1, <2>1, ClientTold
<1>3. CASE Shadow(c) # Refused
  <2>1. was.staged \in Seq(Operations) /\ was.read \in [Keys -> Entities]
        /\ entities \in [Keys -> Entities]
    BY DEF ClientState, ReferenceIInv
  <2>2. PICK len \in Nat : len = Len(was.staged)
    BY <2>1, LenProperties, Zenon
  <2>3. \A i \in 1..len : ExpectsRead(was.staged, i, was.read)
    BY <2>2 DEF ClientOK
  <2>4. CopyOK(Copies(entities, was.staged, c)[len], len, entities, was.staged, was.read, c)
    BY <2>1, <2>2, <2>3, ShadowIs
  <2> PICK stored : stored = Shadow(c)
    OBVIOUS
  <2>5. stored = Copies(entities, was.staged, c)[len]
    BY <2>2 DEF Shadow
  <2>6. /\ stored \in [Keys -> Entities]
        /\ \A x \in Keys : stored[x].data \in {entities[x].data, c, "none"}
        /\ \A i \in 1..len : Matches(entities[was.staged[i].key], was.read[was.staged[i].key])
    BY <1>3, <2>4, <2>5 DEF CopyOK
  <2> PICK k : k = [was EXCEPT !.state = "publishing", !.replaced = entities]
    OBVIOUS
  <2>7. client' = [client EXCEPT ![c] = k] /\ entities' = stored
    BY <1>3 DEF commit, ReferenceIInv
  <2>8. k \in ClientState /\ k.staged = was.staged /\ k.read = was.read /\ k.state = "publishing"
        /\ k.told = was.told /\ k.replaced = entities
    BY <2>1 DEF ClientState
  <2>9. ASSUME NEW i \in 1..len PROVE Alike(entities[was.staged[i].key], was.read[was.staged[i].key])
    <3>1. was.staged[i].key \in Keys
      <4>1. was.staged[i] \in Operations
        BY <2>1, <2>2
      <4> QED
        BY <4>1 DEF Operations
    <3>2. entities[was.staged[i].key] \in Entities /\ was.read[was.staged[i].key] \in Entities
      BY <2>1, <3>1
    <3> QED
      BY <2>6, <3>2, MatchesAlike
  <2>10. ClientOK(c, k, stored)
    BY <1>1, <2>2, <2>3, <2>8, <2>9 DEF ClientOK
  <2>11. ASSUME NEW d \in Clients PROVE ClientOK(d, client'[d], stored)
    <3>1. CASE d = c
      BY <2>7, <2>10, <3>1 DEF ReferenceIInv
    <3>2. CASE d # c
      <4>1. client'[d] = client[d] /\ ClientOK(d, client[d], entities)
        BY <2>7, <3>2 DEF ReferenceIInv
      <4>2. \A x \in Keys : stored[x].data = d => entities[x].data = d
        BY <2>6, <3>2, ReferenceAssumption
      <4> QED
        BY <4>1, <4>2 DEF ClientOK
    <3> QED
      BY <3>1, <3>2
  <2>12. client' \in [Clients -> ClientState]
    BY <2>7, <2>8 DEF ReferenceIInv
  <2> QED
    BY <2>6, <2>7, <2>11, <2>12 DEF ReferenceIInv
<1> QED
  BY <1>2, <1>3

LEMMA ReferenceStepOK == ReferenceIInv /\ [ReferenceNext]_referenceVars => ReferenceIInv'
<1> SUFFICES ASSUME ReferenceIInv, [ReferenceNext]_referenceVars PROVE ReferenceIInv'
  OBVIOUS
<1>1. ASSUME NEW c \in Clients, commit(c) PROVE ReferenceIInv'
  BY <1>1, ClientCommits
<1>2. ASSUME NEW c \in Clients, CommitTold(c) PROVE ReferenceIInv'
  BY <1>2, ClientTold DEF CommitTold
<1>3. ASSUME NEW c \in Clients, CommitUnpublished(c) PROVE ReferenceIInv'
  BY <1>3, ClientTold DEF CommitUnpublished
<1>4. ASSUME NEW c \in Clients, rollsBack(c) PROVE ReferenceIInv'
  BY <1>4, ClientTold DEF rollsBack, RollsBack
<1>5. ASSUME NEW c \in Clients, NEW x \in Keys, find(c, x) PROVE ReferenceIInv'
  BY <1>5, ClientFinds
<1>6. ASSUME NEW c \in Clients, NEW x \in Keys, NEW type \in {"save", "delete"}, stage(c, x, type)
      PROVE  ReferenceIInv'
  BY <1>6, ClientStages
<1>7. CASE UNCHANGED referenceVars
  BY <1>7 DEF referenceVars, ReferenceIInv
<1> QED
  BY <1>1, <1>2, <1>3, <1>4, <1>5, <1>6, <1>7 DEF ReferenceNext

LEMMA ReferenceIInvImplies == ReferenceIInv => ReferenceInv
<1> SUFFICES ASSUME ReferenceIInv PROVE ReferenceInv
  OBVIOUS
<1>1. \A x \in Keys : entities[x].token[1] = entities[x].revision
                      /\ entities[x].data \in Clients \cup {"none", "earlier"}
  BY EntityIs DEF ReferenceIInv, Missing, Earlier, WrittenBy
<1>2. ReferenceTypeOK
  BY <1>1 DEF ReferenceIInv, ClientOK, ClientState, ReferenceTypeOK
<1>3. NoLostUpdate
  <2> SUFFICES ASSUME NEW c \in Clients, client[c].state \in {"publishing", "committed"},
                      NEW x \in Touches(c)
               PROVE  Alike(client[c].replaced[x], client[c].read[x])
    BY DEF NoLostUpdate, Alike
  <2>1. client[c] \in ClientState /\ ClientOK(c, client[c], entities)
    BY DEF ReferenceIInv
  <2>2. DOMAIN client[c].staged = 1..Len(client[c].staged)
    BY <2>1 DEF ClientState
  <2> QED
    BY <2>1, <2>2 DEF Touches, ClientOK
<1>4. RolledBackLeavesNothing
  BY DEF ReferenceIInv, ClientOK, RolledBackLeavesNothing
<1> QED
  BY <1>2, <1>3, <1>4 DEF ReferenceInv

(* What two stores leave behind: for any migrators, profiles and faults, and any clients, *)
(* transactions and times at which they write.                                             *)
THEOREM StoresAgree == MigrationsSpec /\ ReferenceSpec => []StorageInv
<1>1. MigrationsSpec => []MigrationsInv
  BY MigrationsInitOK, MigrationsStepOK, MigrationsIInvImplies, PTL DEF MigrationsSpec
<1>2. ReferenceSpec => []ReferenceInv
  BY ReferenceInitOK, ReferenceStepOK, ReferenceIInvImplies, PTL DEF ReferenceSpec
<1>3. MigrationsInv /\ ReferenceInv => StorageInv
  BY DEF StorageInv
<1> QED
  BY <1>1, <1>2, <1>3, PTL

=============================================================================
