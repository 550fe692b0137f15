------------------------------- MODULE PlatformHost -------------------------------
(***************************************************************************)
(* The platform host as a process: the boot that seeds the composition, the    *)
(* HTTP server, the invocations it admits from authorization to their audit       *)
(* record and answer, and the stop on SIGTERM that drains them for a time and       *)
(* then disposes of the composition under those that are left.                        *)
(***************************************************************************)
EXTENDS Naturals, Sequences, SequencesExt, FiniteSets

CONSTANTS
  Configurations,    \* configurations a run starts from: see Accepted
  HostRequests,      \* names of POST requests
  Correlation,       \* [HostRequests -> x-correlation-id]
  StreamRequests,    \* the requests to /invoke/stream
  MaxHostFaults, MaxOutages   \* bounds

\* loadLocalReferenceConfig
Accepted(c) ==
  /\ c.vectorSearch => c.vectorStore # "none" /\ c.embedding # "none"
  /\ c.vectorSearch /\ c.vectorStore = "pgvector" => c.databaseUrl
  /\ c.persistence = "postgres" => c.databaseUrl
  /\ c.routing = "fallback" => c.fallbacks # <<>>
  /\ IsInjective(c.fallbacks) /\ c.provider \notin ToSet(c.fallbacks)

ASSUME HostAssumption == \A c \in Configurations : Accepted(c)

VARIABLES
  configuration,
  host,              \* [phase, ready, timedOut]
  boot,              \* what seed() has still to do
  agentState,        \* lifecycle state of the reference agent
  databaseUp,        \* whether PostgreSQL answers
  request,           \* per request: its step
  statusCode,        \* per request: status of its response, 0 while it has none
  contexts,          \* requests whose security context the host holds
  hostResults,       \* requests whose result the runtime port holds
  ranToEnd,          \* history: requests whose execution completed
  records,           \* audit records in the order of the store: [source, execution, previous]
  chained,           \* per request: position of the record it will link to
  hostFaults, outages

hostVars == <<configuration, host, boot, agentState, databaseUp, request, statusCode, contexts,
              hostResults, ranToEnd, records, chained, hostFaults, outages>>

Postgres == configuration.persistence = "postgres"

\* what seed() awaits, in its order
SeedSteps(c) ==
  LET Step(when, name) == IF when THEN <<name>> ELSE <<>> IN
    Step(c.persistence = "postgres", "assertReady")
    \o Step(c.memory = "persistent", "memory health")
    \o Step(c.vectorSearch /\ c.vectorStore = "pgvector", "vector health")
    \o Step(c.evaluation = "persistent" /\ c.persistence = "postgres", "assertReady")
    \o Step(c.agent, "register") \o Step(c.agent, "approve") \o Step(c.agent, "activate")
    \o Step(c.recovery, "recoverIncomplete")

HostInit ==
  /\ configuration \in Configurations
  /\ host = [phase |-> "booting", ready |-> FALSE, timedOut |-> FALSE]
  /\ boot = SeedSteps(configuration) /\ agentState = "none" /\ databaseUp = TRUE
  /\ request = [r \in HostRequests |-> "none"] /\ statusCode = [r \in HostRequests |-> 0]
  /\ contexts = {} /\ hostResults = {} /\ ranToEnd = {}
  /\ records = <<>> /\ chained = [r \in HostRequests |-> 0]
  /\ hostFaults = 0 /\ outages = 0

----------------------------------------------------------------------------
(* Boot *)

AsksDatabase(step) ==
  \/ step = "vector health"
  \/ step \in {"assertReady", "memory health", "recoverIncomplete"} /\ Postgres

SeedStep ==
  /\ host.phase = "booting" /\ boot # <<>>
  /\ AsksDatabase(Head(boot)) => databaseUp
  /\ boot' = Tail(boot)
  /\ agentState' = CASE Head(boot) = "register" -> "registered"
                     [] Head(boot) = "approve" -> "approved"
                     [] Head(boot) = "activate" -> "active"
                     [] OTHER -> agentState
  /\ UNCHANGED <<configuration, host, databaseUp, request, statusCode, contexts, hostResults,
                 ranToEnd, records, chained, hostFaults, outages>>

\* a check or the recovery throws: bootstrap rejects and the process ends
BootFails ==
  /\ host.phase = "booting" /\ boot # <<>> /\ AsksDatabase(Head(boot)) /\ ~databaseUp
  /\ host' = [host EXCEPT !.phase = "exited"]
  /\ UNCHANGED <<configuration, boot, agentState, databaseUp, request, statusCode, contexts, hostResults,
                 ranToEnd, records, chained, hostFaults, outages>>

Seeded == boot = <<>>

\* ready, then listening
Listens ==
  /\ host.phase = "booting" /\ Seeded
  /\ host' = [host EXCEPT !.phase = "listening", !.ready = TRUE]
  /\ UNCHANGED <<configuration, boot, agentState, databaseUp, request, statusCode, contexts, hostResults,
                 ranToEnd, records, chained, hostFaults, outages>>

DatabaseChanges ==
  /\ host.phase # "exited" /\ outages < MaxOutages /\ outages' = outages + 1
  /\ databaseUp' = ~databaseUp
  /\ UNCHANGED <<configuration, host, boot, agentState, request, statusCode, contexts, hostResults,
                 ranToEnd, records, chained, hostFaults>>

----------------------------------------------------------------------------
(* Requests *)

WantsStream(r) == r \in StreamRequests
Alive == host.phase # "exited"

RequestGoes(r, to) == request' = [request EXCEPT ![r] = to] /\ UNCHANGED statusCode
AnswersWith(r, status) ==
  request' = [request EXCEPT ![r] = "answered"] /\ statusCode' = [statusCode EXCEPT ![r] = status]

\* handleRequest up to the authorization it awaits; 400 stands for every refusal of
\* the body and of the credentials (400, 401, 413)
handleRequest(r) ==
  /\ host.phase = "listening" /\ request[r] = "none"
  /\ \/ AnswersWith(r, 400)
     \/ IF ~host.ready THEN AnswersWith(r, 503)
        ELSE IF ~configuration.agent THEN AnswersWith(r, 404)
        ELSE RequestGoes(r, "authorizing")
  /\ UNCHANGED <<configuration, host, boot, agentState, databaseUp, contexts, hostResults, ranToEnd,
                 records, chained, hostFaults, outages>>

\* authorized, the request is handed to the runtime in the same turn: an execution
\* begins, or a stream that runs as it is read
Accepts(r) ==
  /\ Alive /\ request[r] = "authorizing"
  /\ IF agentState # "active" THEN AnswersWith(r, 409) /\ UNCHANGED contexts
     ELSE /\ RequestGoes(r, IF WantsStream(r) THEN "accepted" ELSE "running")
          /\ contexts' = contexts \cup {r}
  /\ UNCHANGED <<configuration, host, boot, agentState, databaseUp, hostResults, ranToEnd, records,
                 chained, hostFaults, outages>>

\* what an execution needs of the host to save its checkpoints
Persists == Postgres => databaseUp /\ host.phase \notin {"closed", "exited"}

RunCompletes(r) ==
  /\ Alive /\ request[r] \in {"running", "piping"} /\ Persists
  /\ ranToEnd' = ranToEnd \cup {r}
  /\ hostResults' = hostResults \cup {r}
  /\ IF WantsStream(r) THEN AnswersWith(r, 200) ELSE RequestGoes(r, "accepted")
  /\ UNCHANGED <<configuration, host, boot, agentState, databaseUp, contexts, records, chained,
                 hostFaults, outages>>

\* the execution fails: a fault, its database gone, or its security context cleared
ExecutionFails(r) ==
  /\ Alive /\ request[r] \in {"running", "piping"}
  /\ IF Persists /\ r \in contexts THEN hostFaults < MaxHostFaults /\ hostFaults' = hostFaults + 1
     ELSE UNCHANGED hostFaults
  /\ AnswersWith(r, IF WantsStream(r) THEN 200 ELSE 500)
  /\ UNCHANGED <<configuration, host, boot, agentState, databaseUp, contexts, hostResults, ranToEnd,
                 records, chained, outages>>

\* the fact of the acceptance is published: getResult, or getStream
Collects(r) ==
  /\ Alive /\ request[r] = "accepted"
  /\ IF (IF WantsStream(r) THEN r \in contexts ELSE r \in hostResults) THEN RequestGoes(r, "finding")
     ELSE AnswersWith(r, 500)
  /\ UNCHANGED <<configuration, host, boot, agentState, databaseUp, contexts, hostResults, ranToEnd,
                 records, chained, hostFaults, outages>>

----------------------------------------------------------------------------
(* AuditPlatform.ingest, with an await at every port *)

Source(r) == Correlation[r]
AlreadyAudited(r) == \E n \in DOMAIN records : records[n].source = Source(r)
Ingested(r) == RequestGoes(r, IF WantsStream(r) THEN "piping" ELSE "publishing")

\* findBySource
FindsRecord(r) ==
  /\ Alive /\ request[r] = "finding"
  /\ IF AlreadyAudited(r) THEN Ingested(r) ELSE RequestGoes(r, "chaining")
  /\ UNCHANGED <<configuration, host, boot, agentState, databaseUp, contexts, hostResults, ranToEnd,
                 records, chained, hostFaults, outages>>

\* list().at(-1), given to the integrity provider
ChainsRecord(r) ==
  /\ Alive /\ request[r] = "chaining"
  /\ chained' = [chained EXCEPT ![r] = Len(records)] /\ RequestGoes(r, "saving")
  /\ UNCHANGED <<configuration, host, boot, agentState, databaseUp, contexts, hostResults, ranToEnd,
                 records, hostFaults, outages>>

\* the id is the digest of the source: a record of the same source is replaced
SavesRecord(r) ==
  /\ Alive /\ request[r] = "saving"
  /\ LET record == [source |-> Source(r), execution |-> r, previous |-> chained[r]] IN
       records' = IF AlreadyAudited(r)
                  THEN [n \in DOMAIN records |-> IF records[n].source = Source(r) THEN record ELSE records[n]]
                  ELSE Append(records, record)
  /\ Ingested(r)
  /\ UNCHANGED <<configuration, host, boot, agentState, databaseUp, contexts, hostResults, ranToEnd,
                 chained, hostFaults, outages>>

\* the logs and the event of a completed invocation, then the response
AnswersRequest(r) ==
  /\ Alive /\ request[r] = "publishing"
  /\ AnswersWith(r, 200)
  /\ UNCHANGED <<configuration, host, boot, agentState, databaseUp, contexts, hostResults, ranToEnd,
                 records, chained, hostFaults, outages>>

\* Seeded bug: a failing audit record does not fail the invocation.
AfterRunFails_Logged(r) ==
  /\ Alive /\ request[r] \in {"finding", "chaining", "saving", "publishing"}
  /\ hostFaults < MaxHostFaults /\ hostFaults' = hostFaults + 1
  /\ AnswersWith(r, 200)
  /\ UNCHANGED <<configuration, host, boot, agentState, databaseUp, contexts, hostResults, ranToEnd,
                 records, chained, outages>>
\* audit, logs or event reject: the invocation is answered as failed
AfterRunFails(r) ==
  /\ Alive /\ request[r] \in {"finding", "chaining", "saving", "publishing"}
  /\ hostFaults < MaxHostFaults /\ hostFaults' = hostFaults + 1
  /\ AnswersWith(r, 500)
  /\ UNCHANGED <<configuration, host, boot, agentState, databaseUp, contexts, hostResults, ranToEnd,
                 records, chained, outages>>

----------------------------------------------------------------------------
(* Stop *)

InFlight == {r \in HostRequests : request[r] \notin {"none", "answered"}}

stop ==
  /\ host.phase = "listening" /\ host' = [host EXCEPT !.phase = "stopping"]
  /\ UNCHANGED <<configuration, boot, agentState, databaseUp, request, statusCode, contexts, hostResults,
                 ranToEnd, records, chained, hostFaults, outages>>

\* close() calls back when the last response has ended
ServerClosed == InFlight = {}

\* Seeded bug: only the server is awaited.
ShutdownTimeout_None == FALSE
ShutdownTimeout == ~ServerClosed

\* dispose, up to its first await
Disposes ==
  /\ host.phase = "stopping"
  /\ \/ ServerClosed /\ host' = [host EXCEPT !.phase = "disposing", !.ready = FALSE]
     \/ ShutdownTimeout /\ host' = [phase |-> "disposing", ready |-> FALSE, timedOut |-> TRUE]
  /\ contexts' = {} /\ hostResults' = {}
  /\ UNCHANGED <<configuration, boot, agentState, databaseUp, request, statusCode, ranToEnd, records,
                 chained, hostFaults, outages>>

ClosesPersistence ==
  /\ host.phase = "disposing" /\ host' = [host EXCEPT !.phase = "closed"]
  /\ UNCHANGED <<configuration, boot, agentState, databaseUp, request, statusCode, contexts, hostResults,
                 ranToEnd, records, chained, hostFaults, outages>>

Exits ==
  /\ host.phase = "closed" /\ host' = [host EXCEPT !.phase = "exited"]
  /\ UNCHANGED <<configuration, boot, agentState, databaseUp, request, statusCode, contexts, hostResults,
                 ranToEnd, records, chained, hostFaults, outages>>

HostNext ==
  \/ SeedStep \/ BootFails \/ Listens \/ DatabaseChanges
  \/ \E r \in HostRequests :
       \/ handleRequest(r) \/ Accepts(r) \/ RunCompletes(r) \/ ExecutionFails(r) \/ Collects(r)
       \/ FindsRecord(r) \/ ChainsRecord(r) \/ SavesRecord(r) \/ AnswersRequest(r) \/ AfterRunFails(r)
  \/ stop \/ Disposes \/ ClosesPersistence \/ Exits

\* timers fire and the steps of dispose() follow one another; nobody owes the host
\* the end of an execution or of a stream
HostFairness == WF_hostVars(Disposes) /\ WF_hostVars(ClosesPersistence) /\ WF_hostVars(Exits)

HostSpec == HostInit /\ [][HostNext]_hostVars /\ HostFairness

----------------------------------------------------------------------------
(* Properties *)

HostTypeOK ==
  /\ host.phase \in {"booting", "listening", "stopping", "disposing", "closed", "exited"}
  /\ host.ready => host.phase \in {"listening", "stopping"}
  /\ contexts \cup hostResults \cup ranToEnd \subseteq HostRequests
  /\ \A r \in HostRequests : request[r] = "answered" <=> statusCode[r] # 0
  /\ \A r \in HostRequests : chained[r] \in 0..Len(records)

(* No request finds the agent inactive: whatever is checked and recovered at boot, *)
(* the host takes requests only when all of it is done.                               *)
NeverInactive == \A r \in HostRequests : statusCode[r] # 409 /\ (request[r] # "none" => boot = <<>>)

(* Persistence is closed under a request that is still running only when the          *)
(* shutdown timeout has elapsed (bootstrap-local.ts 42-53).                             *)
DrainedBeforeClosed == host.phase \in {"disposing", "closed"} /\ InFlight # {} => host.timedOut

(* An invocation is answered as completed only if its execution completed and an       *)
(* audit record tells of it, with other requests, duplicates of its correlation id,       *)
(* faults and a disposal in between (local-reference-composition.ts 768-811).               *)
AnsweredIsRecorded ==
  \A r \in HostRequests \ StreamRequests : statusCode[r] = 200 => r \in ranToEnd /\ AlreadyAudited(r)

(* A stop ends the process whatever executions hang.                                   *)
StopEnds == host.phase = "stopping" ~> host.phase = "exited"

(* Readiness is false when "graceful shutdown has begun" (v0.1 specification, 153).     *)
(* Refuted: stop() clears readiness only after the drain.                                *)
NotReadyWhileStopping == host.phase = "stopping" => ~host.ready

(* Records that nobody touched verify: each links to the one before it.  Refuted:     *)
(* two requests link to the record both found last.                                      *)
UntamperedVerifies == \A n \in DOMAIN records : records[n].previous = n - 1

(* "outcome: succeeded" is recorded of executions that completed.  Refuted: the      *)
(* record of a streamed request is made before its stream has run.                        *)
SucceededHasCompleted == \A n \in DOMAIN records : records[n].execution \in ranToEnd

(* The host from boot to exit: ready when it listens, drained when it closes, and no    *)
(* answer without its record (bootstrap-local.ts, local-reference-composition.ts).        *)
HostInv == HostTypeOK /\ NeverInactive /\ DrainedBeforeClosed /\ AnsweredIsRecorded

=============================================================================
