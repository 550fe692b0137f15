# A TLA+ model of AgentProdReady

This directory holds TLA+ specifications of the parts of AgentProdReady whose
correctness depends on interleavings, crashes, retries and steps that fail
half-way, the TLC runs that check them on small instances, and TLAPS proofs, for
every value of the constants, of most of the safety properties those runs check.

## Inventory

Paths are relative to `src/`; `P/` is `packages/`, `H/` is `apps/platform-host/src/`,
`A/` is `packages/agent-framework/src/simple/`.

| Component | State | Operations | Hard behaviour | What makes it correct |
|---|---|---|---|---|
| **runtime** `P/runtime` | one `ExecutionCheckpoint` per execution in a store with revisions; one `ExecutionStateManager` per coroutine | `execute`, `executeStream`, `recoverIncomplete`, `persistToolLoop` | a timeout does not stop the work it abandons; crashes at every await; recovery without a lease | the durable history is a legal path and is only extended; terminal once; results never lost or recomputed; the answer agrees with what is durable |
| **streams** `P/runtime`, `H/http/sse-stream.ts`, `H/composition/local-reference-ai-routing.ts` | routing, checkpoint, event log, SSE pipe | pull, fall back, disconnect, reconnect | a failure after visible content; a log that fails; a client that stops reading | one provider speaks; `completed` is told last and kept; a replay covers what was seen |
| **persistence** `P/persistence`, `P/persistence-postgres`, `H/composition/persistence-execution-checkpoint-store.ts` | rows with revision and version token; transactions; a pool | find, stage, commit, rollback, migrate | publication fails after the commit; unknown outcome of COMMIT; opposite lock orders; a bounded pool; racing migrators | a commit is atomic and refuses old revisions; every call is answered; the recorded migration has its table |
| **tool loop** `H/composition/local-reference-tool-loop.ts`, `P/tool-framework` | `toolLoop` record inside the checkpoint; the host gives the coordinator no ledger | run, resume, invoke | a crash between the call of a tool and its record | a non-idempotent tool runs at most once; what has a result is not run again |
| **embedded agent** `A/create-agent.ts`, `A/embedded-*.ts`, `A/memory.ts` | approvals in files; one resume slot per agent; turns in a memory store | invoke, approve, reject, resume; remember, recall | approve and reject race; the slot is shared; a turn stored in several steps | no tool unapproved; an approval used by its own resume; an answered turn is recalled, up to the limits of a recall |
| **multi-agent** `P/multi-agent/src/simple` | `OrchestrationCheckpoint` per run, effect ledger; team runs | run, approve, resume, cancel, `runEffect`; seven team strategies | parallel steps, one failing; overlapping drives; a late member | a step runs after its dependencies; completed means run; failures and cancellations are reported |
| **scheduler** `P/scheduler` | jobs, a priority queue | schedule, trigger, dispatch, cancel | cancel while a dispatch is awaited; publication fails after acceptance | hand-offs within the budget; every queued job ends; an ended one rests |
| **human-interaction** `P/human-interaction` | interaction records | issue, respond, expire, cancel, retryDelivery | all decide on a record read before an await | no response after a result; a quorum resolves |
| **event-bus** `P/event-bus` | subscriptions, journal, inboxes, outbox | publish, replay, flush | redelivery; crash between publish and mark | delivered at least once to all, handled once |
| **platform host** `H/` | the process: boot, requests, audit records, stop | boot, invoke, stop | stop under running requests; a step after the execution fails | ready before serving; drained before closed; no completed answer without a record |
| **container** `P/composition` | cached promises per root and scope | resolve, createScope, dispose | resolvers meet on a value in the making; dispose while making | a singleton made once; within a root or scope, what was finished when its disposal began is disposed from the dependents down |
| **AI vendors** `P/ai-provider*` | assemblies of tool-call fragments; facts of a call | translate a stream; execute, stream | interleaved fragments; a cut stream; a failing publication | every call crosses once; one terminal event at most, on record unless the request was refused before an adapter was tried |
| **memory, evaluation** `P/memory`, `P/vector-store*`, `P/evaluation`, `H/composition/evaluation` | records with lifecycle versions, vectors; results | transition, recall; evaluate | index and store change in separate steps; one request evaluated twice | no lost write; only available memories are recalled; the answer is the stored one |
| **frameworks** `P/configuration`, `plugin-marketplace`, `platform-governance`, `capability-resolution`, `observability`, `api-`, `cli-`, `sdk-`, `deployment-framework`, `testing-verification`, `plugin-framework` | registries, histories, walks, deployments | create, resolve, install, release, check, retry, deploy, run, activate | overlapping calls; a publication between what is stored and what is told | named in the modules' table |
| planning, workflow engine, context, prompt, knowledge, security, application host | request-local | pipelines and decision tables | none that outlives a request | not modelled, see below |

**How they interact.** A host process composes everything in memory. A request
reaches `RuntimeOrchestrator.execute`, which authorizes it, takes its policy,
schedules it, and delegates to three ports: planning, workflow and capability
invocation. The capability port runs the tool loop, which calls back into the
runtime (`persistToolLoop`) to extend the same checkpoint, asks AI providers
through routing and fallback, and calls tools through the tool framework. A streamed request runs the same capability as a chain of generators
down to the SSE pipe. The checkpoint store writes through the persistence unit of
work. Facts go to the event bus. At boot, before it serves requests, the host
calls `recoverIncomplete`, which resumes or terminalizes every non-terminal
checkpoint with the same delegated stages. The embedded agent has a platform of
its own with files for approvals, ledger and memory. Workflows, teams and the
scheduler sit on top: a step, a member's turn or a dispatched job is an execution.

The hazards this gives rise to are listed, each at its line, in `PROJECT.json`.

## Modules

`MC*` modules instantiate the others for TLC. `MCServices`, `MCAgents`,
`MCPlatform` and `MCFrameworks` hold several components that share no state in
the code: one variable of theirs chooses, in the initial state, which component
runs, so that the state space is the sum and not the product of the components',
and every fault bound is spent on one of them.

JavaScript runs one coroutine of a process at a time and switches at `await`: in
every module an action is what runs between two awaits, and the steps of
different calls and processes interleave. An await that nothing depends on
afterwards ends its action and is not a step of its own.

| Module | Models | State ↔ code | Actions ↔ code |
|---|---|---|---|
| `Lifecycle` | tables and pure functions of `checkpoint.ts`, `contracts/runtime.ts`, `runtime.ts` | `ExecutionCheckpoint` | `Normalized` is `#upsert`'s patch, `Stamped` that of `#transitionAndCheckpoint` |
| `RuntimeExecution` | `execute`, `recoverIncomplete` and what they call, on any number of hosts | see below | see below |
| `RuntimeExecutionProofs`, `RuntimeGrowProofs`, `RuntimeCallProofs`, `RuntimeAnswerProofs` | proofs: types, lawful records, artifacts and completion; one host, without deadlines and under manual recovery; one host with deadlines: calls of the capability; the answer of `execute()` | | |
| `AtomicStore` | what the callers of a checkpoint store rely on: a transaction takes effect at once on what its caller loaded, or not at all | `rows`, `base`, `applied`, `answer` | `LoadAll`, `Apply`, `Tell` |
| `Persistence` | `postgres-transaction.ts` query by query under its caller, with row locks, the pool, conflicts, deadlocks, lost connections, the accountable wrapper | `tx` where a call is, `lock`, `connections`, `facts` | one action per query, and what PostgreSQL (external) does to it |
| `ReferenceStore` | the in-memory provider with several repositories | `entities`, `client` | `find`, `stage`, `commit`, `rollsBack` |
| `Streaming` | one streamed execution from the adapter to the client | `routing`, `execution`, `checkpoint`, `transit`, `log`, `pipe`, `seen` | `Adapter*`, `FallBackTo`, `Record`, `Deliver`, `Drained`, `Disconnect`, `DrainTimeout`, `Dispose`: one pull runs all layers |
| `ToolLoop` | the host's loop, the tool framework (without a ledger, as composed), provider fallback | `saved` is `toolLoop` of the checkpoint, `run` the locals of the attempt | `LoopStep` (ask, admit, pre-tool, invoke, post-tool), `Abort`, `AbortRecorded`, `Crash` |
| `AgentApprovals` | the embedded agent's approvals and tool loop | `approval` files, `resumeApproval` the shared field, `keys` the file ledger | `InvokeAgent`, `ResumeAgent`, `Park`, `Decide`, `Decided`, `ExecuteTool`, `AgentCrash` |
| `AgentMemory` | the memory of an agent over several processes | `session`, `turns` the store; a recall is cut at `MaximumResults` (8), a search at `SearchWindow` rows (50 with PostgreSQL) | `retrieveForPrompt`, `rememberTurn`, `transition`, `Restart` |
| `Workflow` | `create-workflow.ts` and `effect-ledger.ts` | `checkpoint`, `drives` each with its copy, `effectLedger` | `RunWorkflow`, `ResumeWorkflow`, `ApproveWorkflow`, rounds, effects, `CancelWorkflow`, `WorkflowCrash` |
| `Team` | `create-team.ts`, its strategies, handoffs, the orchestrator's record | `teamRuns`, `teamStatus`, `teamAborted` | turns, answers, failures, iterations, `Settles`, `Straggles` |
| `Scheduler` | `scheduler/src/index.ts` | `jobs`, `queue`, `flights` (what a dispatch awaits) | `Schedule`, `Trigger`, `Dispatch`, `Answer`, `Cancel` |
| `HumanInteraction` | `human-interaction/src/index.ts` | `record`, `replying`, `redelivering` | `Issue`, `Deliver`, `Respond`, `Complete`, `Tell`, `ExpireInteraction`, `CancelInteraction` |
| `EventBus` | bus, outbox, idempotent subscriber | `intents`, `publications`, `deliveries`, `inbox`, `journal` | `Flush`, `Publish`, `Attempt`, `Replay`, `BusCrash` |
| `PlatformHost` | the host as a process | `host`, `boot`, `request`, `records` | `SeedStep`, `Listens`, `handleRequest` to `AnswersRequest`, `stop`, `Disposes`, `Exits` |
| `Composition` | `composition-root.ts` | `promises`, `cache`, `disposables` | `resolve`, `Made`, `FactoryFails`, `dispose`, `DisposesNext` |
| `StreamTranslation` | `translate-stream.ts` of three vendors | `assemblies`, `emitted`, `ending` | one action per chunk |
| `AiProvider` | `ai-provider-framework.ts` | `aiCall`, `onRecord`, `aiFacts` | `execute`, `stream`, `AdapterYields`, `CaughtPublished` |
| `Evaluation` | `evaluate()` and the host's evaluators and stores | `evaluation`, `results`, `reviews` | the pipeline's steps for two calls of one request |
| `Memory` | `memory/src/index.ts` over its provider and vector index | `records`, `vectors`, `recall` | `Begin`, `Read`, `Index`, `Commit`, `Clean`; `Retrieve` to `Answer` |
| `Facts` | the `announce` of two frameworks: publish, then audit | `announcing`, `recorded` | `publish`, `record`, `AnnouncementFails` |
| `Configuration`, `PluginMarketplace` | their `index.ts` with the reference stores | definitions; packages, histories, `walk` of a client | the public operations |
| `Governance` | `platform-governance` | histories, `released` | `register*`, `validateRelease` |
| `CapabilityResolution` | `resolution.ts` | `resolution` per request, `tried` | `Resolve`, `resolveNext`, `Bind`, `setHealth` |
| `Observability` | `observability/src/index.ts` | `report` per health call, `previousHealth`, `page` | `health`, `check`, `Aggregated`, records and pages |
| `ApiAccess` | CLI, SDK, a lossy transport, API | `command`, `apiRequest`, `consumed` | attempts, retries, frames of a stream |
| `Deployment` | `deployment-framework` under several operators | `status`, `provided`, `operation` of each operator; `ordering`, `versioning`: histories of the operations that met | `deploy`, `upgrade`, `rollback`, `scale`, `stop`, each step able to fail |
| `Migrations` | the two migrators, statement by statement, over what PostgreSQL (external) locks and shows to a transaction | `table` and `applied`, as committed; `migratorCommand`: what each open transaction has done | `apply`, `rollbackLast`, `LooksForTable`, `RunsSql`, `Records`, `Commits`, `CommitLost`, `MigrationFails` |
| `Verification` | `testing-verification` | `runner`, `results`, `certified` | `run`, `Executes`, sinks that throw, `BuildsReport` |
| `Plugins` | `plugin-framework` | `pluginRecord`, `registries`, `activationOrder`, `pluginCall` | `initialize`, `activate`, `deactivate`, `shutdown` |
| `Frameworks` | joins two modules of one subject under one invariant: `RecordsInv`, `ProvidersInv`, `StorageInv` | | |
| `ServicesProofs` | proofs about `EventBus`, `HumanInteraction`, `Scheduler` | | |
| `AgentsProofs` | proofs about `ToolLoop`, `AgentApprovals`, `Workflow`, `Team` | | |
| `PlatformProofs` | proofs about `Streaming`, `StreamTranslation`, `Evaluation`, `AgentMemory`, `Composition`, `PlatformHost`; `Persistence` implements `AtomicStore` | | |
| `FrameworksProofs` | proofs about `Memory`, `Deployment`, `ApiAccess` and the parts of `Frameworks` | | |

`Plugins` orders plugins with a RECURSIVE operator; only TLC's runs reach it.

### RuntimeExecution

**Threads.** Every host process `p` has a main coroutine `<<p, 0>>`, which is
`execute()` when the request arrives there and `recoverIncomplete()` when it
boots, and a worker `<<p, i>>` for the delegated stages (`#runDelegatedStages`)
of attempt `i`. JavaScript runs one coroutine of a process at a time and
switches at `await`, so an action is what runs between two awaits. The steps of
different coroutines, and of different processes, interleave freely.

**Abandoned work.** `TimeoutManager.run` races the worker against a timer and
the caller's signal. `Promise.race` does not stop its loser. In the model the
main coroutine waits in `await`; `TimerFires` and `Abort` send it to its catch
and leave the worker where it is. What the worker returns or throws afterwards
is dropped (`Awaited`), but what it stores is not.

**A checkpoint write** is two steps, as in the code: `checkpoints.store`, which
is accepted only if the writer's revision is the durable one (`StoreCommits`,
`StoreConflicts`, `StoreFails`), then the `load` after it (`Reload`), which
returns whatever is durable by then and is followed by the publication of the
lifecycle fact. The load before a decision (`load(id) ?? checkpoint`) is
`Loaded`, taken in the step that uses it.

| State | In the code |
|---|---|
| `ckpt` | the execution's row in the checkpoint store (`rev` is `concurrencyRevision`) |
| `policy` | `RuntimePolicy.recovery` of the execution's policy, chosen from `Policies` in `Init` |
| `expired`, `aborted` | `now >= deadlineAt`; the controller of `execute()` |
| `mgr[p]` | the histories of the state manager of the run and of that of `#recoveryTerminalize` |
| `main[p]` | locals of the main coroutine: attempt, the catch block an exception reaches (`handler`), the error, the result, the target of `#reachState` |
| `pc[t]`, `cur[t]`, `op[t]`, `loc[w]` | control point, the `checkpoint` variable, the store under way, the locals of a worker |
| `answer`, `invoked`, `finals` | what the caller was told, how often `capability.invoke` was called, how many terminal facts were published |
| `budget` | the faults still to come |

| Actions | In the code |
|---|---|
| `Start`, `Authorize`, `Schedule`, `Attempt`, `Run` | `execute()` up to `timeout.run` |
| `TimerFires`, `Abort` | `TimeoutManager.run` |
| `Retry`, `Backoff` | `RetryManager.run` and its recover callback |
| `Succeeded`, `Completed`, `Catch`, `Fail`, `Cancelled`, `Answer` | the rest of `execute()` |
| `Reach`, `Terminalize` | `#reachState`, `#terminalize`, for `execute()` and recovery |
| `Boot`, `RecoverIgnores`, `RecoverTerminalizes`, `RecoverResumes`, `Resume`, `ResumeRun`, `Resumed`, `ResumeCatch`, `BootCheck`, `RecoveryFactFails` | `recoverIncomplete` and what it calls; `Decision` is the order of tests in `#recoverOne` |
| `Enter`, `PlanStage`, `Planning`, `WorkStage`, `Working`, `Ready`, `Invoke`, `InvokeReturns`, `PersistToolLoop`, `Invoked`, `Return` | `#runDelegatedStages` and the control it hands to the capability |

**Abstractions.** A plan and a workflow result are present or absent. A
capability result is the number of the call that produced it, so that a result
computed twice is told from one restored. Ports answer, throw, or (no fairness)
never answer. Loads, telemetry and `scope.dispose` do not fail; stores and
publications may. A store that fails may have been applied. The history is a
sequence of states. Time is the one bit `expired`; recovery reads it once, at
boot, as the code does. One execution is modelled: executions share nothing but
the concurrency limit, which is the choice in `Schedule`, and the fact that one
failing recovery fails the sweep, which is `BootCheck`.

## Runs

`PROJECT.json` lists the twelve runs. Deadlock is not checked in any: when a
request has its answer, a store its transactions or a process its exit, nothing
remains to be done.

| Run | Instance | What it shows |
|---|---|---|
| `runtime_crash` | 1 host, default policy, abort, 2 crashes, 1 failing store, 1 failing publication, 1 tool-loop write | at every point of a crash the durable record is lawful (`DurableLifecycle`), its history and artifacts only grow and it is terminal once and for all (`RecordGrows`, `TerminalInv`), completion implies a result, the unsafe stage is on record before the call (`WriteAhead`) |
| `runtime_expiry` | 1 host, default policy, deadline and abort, 2 crashes, fairness | `execute()` ends although a port hangs (`Answered`), every boot gets past the checkpoint (`BootCompletes`), a durable result is not recomputed, and recovery contradicts neither a success nor a failure the caller was told (`AnswerKept`) |
| `runtime_policies` | 2 attempts, three policies, deadline and abort, 1 crash | how often the capability is called under retry, `resume-immediately`, expiry not enforced, and manual recovery, which leaves an interrupted execution exactly as it was (`DeferredIsUntouched`) |
| `runtime_hosts` | 2 hosts (symmetric), no crash | a second host that boots recovers an execution that is alive elsewhere: the revision check alone keeps the artifacts of the record |
| `services` | 2 jobs, 2 dispatchers, 3 triggers; 2 participants under 2 policies; 2 events, 3 subscriptions, 1 failing publication each; fairness | hand-offs within their budget whatever is lost in between, retired jobs rest (`SchedulerInv`, `RetiredAtRest`); no response after an interaction's result, and a result once there is a quorum (`InteractionCorrect`); at least once to every subscription and once to its handler (`BusInv`); and, under fairness, every queued job, complete quorum and intent comes to its end (`ServicesEnd`) |
| `agents` | 3 tools of which 2 are not idempotent, 2 turns, 2 crashes; 3 executions of an agent; a diamond of 3 steps (its two sides symmetric), 3 overlapping drives; 3 members under 8 configurations, 2 runs | a tool runs at most once and nothing with a durable result is run again (`ToolLoopInv`, `NothingRerun`); no tool unapproved (`AgentCorrect`); completed steps and runs have run, in order, and no run is orphaned (`WorkflowInv`); failures and cancellations are reported (`TeamInv`) |
| `platform` | 3 transactions on 2 rows in both orders, a pool of 2; 2 providers, 4 pulls, both readers; 2 processes with 3 turns, one result of a recall and a search of 2 rows; 2 tokens, 2 resolvers, 1 scope; 2 configurations, 2 requests; 2 tool calls of one name by 3 vendors in 6 chunks; 2 calls of one evaluation | `Persistence` implements `AtomicStore` and answers every call (`ImplementsAtomicStore`, `EveryStoreAnswered`); the rest as named in the inventory |
| `frameworks` | the frameworks around a platform, with one or two faults each. At a time: 3 health calls, 2 memory calls, 3 migrators, 2 clients of the store, 2 callers of 3 plugins, 2 AI calls, 4 commands of one principal (two of them reads) against a limit of 2 requests, 2 operators of a deployment. Calls of the configuration and the marketplace are one synchronous step each and follow one another | locked values are kept (`ConfigInv`); dependencies are installed, registered and ordered (`PackagesInv`); no implementation is bound twice, a call gives one terminal event at most and what it told its consumer is on record once an adapter was tried (`ProvidersInv`); health changes are announced and pages miss nothing (`ObservabilityInv`); nothing is created twice by a retry (`ApiInv`); components are up in order and the active version runs, unless operations that change the same met (`DeploymentInv`); the recorded migration has its table, and a commit replaced what its client had read (`StorageInv`); what is released is compatible and what is certified was run (`RecordsInv`); no write is lost and only what was available is recalled (`MemoryCorrect`) |

And four runs in which something the repository says of the program does not
hold; the findings in `PROJECT.json` quote the lines.

| Run | What happens |
|---|---|
| `runtime_terminal_final` | the deadline passes while a resume runs; `#recoveryTerminalize` stores `failed`; the abandoned worker, whose last store returned just before, reloads that revision and stores `planning` over it |
| `runtime_cancel_answer` | the caller is told `RUNTIME_CANCELLED`, the write of the mark lost to the abandoned worker and the conflict was swallowed; after a crash recovery completes the execution |
| `runtime_retry_result` | with timeouts retryable, the first attempt's worker replaces the durable result after the second attempt's result was returned |
| `runtime_boot_block` | with `failIfCancelled` off, a crash between `cancelling` and `cancelled` leaves a checkpoint on which every later boot fails; under `resume-immediately` each of those boots first calls the capability again |

`RecordGrows` and `TerminalInv` are checked where no timer fires
(`runtime_crash`), since `runtime_terminal_final` shows they fail where one does;
`AnswerKept` is checked where `TIMEOUT` is not retryable, for the same reason
(`runtime_retry_result`).

**Conjunctions.** A run property of a module is the conjunction of its type
invariant and its safety invariants, each of which is a definition with a comment
of its own; `RecordsInv`, `ProvidersInv` and `StorageInv` of `Frameworks` and
`PackagesInv` of `MCFrameworks` join two modules of one subject.

**Bounds.** Every bound is a constant whose name begins with `Max`. Those of
faults (crashes, failing stores, publications, transports, factories) are one or
two: one fault can hit any of the steps of an operation, the second one its
recovery. Those of calls give at least two actors that overlap, but for `MaxOverlap` (configuration and marketplace): their reads and writes are one step,
and what is awaited after it only announces what is stored. Of the runtime:
two crashes are needed to crash a recovery and to recover from that; two attempts
give two workers of one process at once, two hosts two writers without shared
memory. Three transactions are needed for a lock that two wait for while the pool
of two connections is used up. The bounds leave out: more than one level of
nested scopes, more than two pages, jobs at the queue's limit, a second
`initialize()` of the plugins, transient tokens.

**Chosen instances.** Some properties hold of a choice of constants only, and the
choice is part of what the run says. In `services` no participant defers and one
event has an ordering key; in `frameworks` every request for a capability names its version. What
happens otherwise is in the next section. The two requests of `platform` share a
correlation id, the interesting case for their records.

**Fairness.** Weak, but for one place.
`RuntimeExecution!Fairness` (`runtime_expiry`, `runtime_boot_block`): each host's
main coroutine, its boot included, and the clock. The event loop runs a coroutine
whose await has settled, a supervisor restarts a host that is down, and the clock
advances. Workers get no fairness: a delegated port may hang for ever.
`SchedulerFairness`: authorized callers poll the queue, the worker and the event
port answer, the clock runs while an entry waits. `InteractionFairness`: resolver,
event port and audit answer; participants owe nothing. `BusFairness`: the outbox
is polled, authorizer, subscribers and stores answer. `PersistenceFairness`: the
server answers a query that can be answered, and, strongly, whoever waits for a
row or a connection gets it if it is free again and again (PostgreSQL and the
pool queue those who wait). `HostFairness`: timers fire and the steps of
`dispose()` follow one another; nobody owes the host the end of an execution.

**Refinement.** `Persistence` has the variables of `AtomicStore` and the
mechanism's beside them; `Atomic == INSTANCE AtomicStore WITH rows <- rows, ...` maps the
former to themselves, and `ImplementsAtomicStore == Atomic!StoreSpec` is a property of
`platform`: the COMMIT whose answer is lost, the rollback by a deadlock, the
conflict found under the lock and the publication that rejects after the commit
are each one step or none of the atomic store. `CommitIsAtomic` of `PlatformProofs` proves
the same for every value of the constants. `RuntimeExecution` takes a store of exactly this kind for granted (`StoreCommits`, `StoreConflicts`,
`StoreFails`, which may have been applied).

## Disagreements without a run

The four runs above are findings. While modelling, TLC also refuted the following; the definitions are kept in their
modules with a comment, and each can be checked by naming it in the module's
configuration (with the changed constant where one is mentioned).

| Definition | What the code does |
|---|---|
| `EffectOnce` (Workflow) | `runEffect` runs a side effect twice for two drives that both find no record, or after a crash before `complete()`; `effect-ledger.ts:102` says once per key |
| `ResumeContinues` (AgentApprovals) | a resumed execution whose deadline passes before its loop begins, or whose call another execution picked up, asks the model again |
| `SoleResult` (HumanInteraction) | an interaction expires, is cancelled, or is completed by another response while a response awaits the resolver, and the response completes it over that result; specification 20, line 11, calls the result the sole immutable completion artifact, and `human-interaction.spec.ts:34` rejects later responses |
| `DeferIsNoApproval` (HumanInteraction, with `defer` in `ResponseTypes`) | `AllApproversPolicy` counts deferrals to its quorum and answers `approved`; `human-interaction.spec.ts:25` says silence and deferral are no approval, of the other policy |
| `KeyOrder` (EventBus, with two events of one key) | the ordering key is required and not looked at: a failing delivery is overtaken |
| `CancelEndsCancelled` (Streaming) | a store that fails in the catch of `executeStream` is swallowed; the client is told of a cancellation, the checkpoint stays `cancelling` |
| `RecalledAfterRestart` (AgentMemory) | `createAgent` gives the agent of a new process a new id, under which the durable turns of the last one are not found; `docs/guides/durable-memory.md:34` says they are recalled |
| `SingletonsOutliveScopes` (Composition) | a singleton first resolved through a scope is disposed with that scope and stays cached |
| `NotReadyWhileStopping` (PlatformHost) | readiness is true until the drain is over; the v0.1 specification, 149-153, says it is false once a shutdown has begun |
| `UntamperedVerifies` (PlatformHost) | two requests link to the record that both found last: the chain of records nobody touched does not verify |
| `SucceededHasCompleted` (PlatformHost) | a streamed request is recorded as succeeded before its stream has run |
| `EveryCallGiven` (StreamTranslation) | Gemini's calls of one name at one position in two chunks are taken for one; Anthropic drops an incomplete call |
| `ResumedCompletes` (Evaluation) | the waiting result has the id under which the completed one would be stored: a review never completes its request (`docs/guides/evaluation.md:67`) |
| `ResolvedInScope` (Configuration) | a definition of another tenant with the same id is chosen when its version is later |
| `StatusAdvances` (Governance) | a blueprint may go back to an earlier status |
| `BoundVersionSupported` (CapabilityResolution, with a request without version) | it is bound with the newest version, which the implementation may not support |
| `CancelIsReported` (ApiAccess) | a stream cancelled before its last frame ends with exit code 0 |
| `RecordedHasTable` (Migrations) | a second embedding profile is recorded as applied over the table of the first |
| `OneResultEach` (Verification) | a test whose event throws after its result was kept gets a second result |
| `ShutdownReachesAll` (Plugins) | a plugin whose activation could not be published is `failed` but set up, and the shutdown stops at it |
| `NeverThrowsAfterTerminal`, `ConsumedIsOnRecord` (AiProvider) | the publication after the catch's own terminal event is not guarded; the record is made after the yield, which a consumer that throws never resumes |
| `NothingIsLost` (ReferenceStore) | a token is made of id, revision and time: when a client deletes an entity and saves it again within one tick, another client's token fits the new entity, and its commit replaces what it has not read |
| `InOrder` (Deployment) | a `deploy` and a `stop` that overlap leave a component up whose predecessors are down: the manager has no lock |
| `SchemaMatchesRecord` (Migrations) | a rollback selects a migration that is rolled back and applied again meanwhile: its `DROP TABLE IF EXISTS` passes by the table the open apply has created, its `DELETE` removes the row that apply has committed; a table without a record is left |
| `CancelledStays` (Scheduler) | a dispatch that awaits the worker writes the job's next status over a cancellation |
| `NeedsAreActive` (Plugins) | `activate()` and `deactivate()` of one plugin look at its own state only: a plugin is active while one it requires is not |

Of the hazards without a property, the scope of the checkpoint store is one of
wiring: `store()` uses the scope of the checkpoint, `load()` and
`listIncomplete()` the store's default scope
(`persistence-execution-checkpoint-store.ts:97`), so that an execution of another
tenant would never be found again. The modules run in one scope.

## Proofs

Every theorem holds for every value of the constants that meets the assumption of
its module, and so for any number of actors, calls and faults. Beyond that a few
have a hypothesis, given below with the reason. Each invariant is proved from an
inductive one, `...IInv`, which is the sum of what each actor knows when it is
between two of its steps. Each has a lemma that the initial states meet it, one
that every step keeps it (one step per action), and one that it implies the property.

### The runtime

`RuntimeExecutionProofs`: `TypeCorrect` (`TypeOK`) and `DurableLifecycleHolds`
(`DurableLifecycle`). The durable record alone is not inductive: a checkpoint is
stored from a coroutine's copy, stamped with the history of a state manager. `IInv`
says of every place a history can come from that it is lawful: the durable
checkpoint (`StoreOK`), every coroutine's copy (`CurOK`), every record being stored
(`OpOK`) and every manager (`MgrOK`), next to the types of the other variables. The
lemmas follow the code: a transition the table allows extends a legal path
(`LegalStep`), `Normalized` and `Stamped` make lawful records of lawful ones,
`upsert`, `transitionAndCheckpoint` and `Throw` preserve what they touch.

In the same module, `ArtifactsAreKept` (`ArtifactsKept`) and
`CompletedHasItsResult` (`CompletedHasResult`, a part of `TerminalInv`), still for any
number of hosts and any deadlines. `RecordInv` says that a copy of the durable
revision has all that is durable, that a store the revision lets through carries it on,
and that a coroutine that has come to where it overwrites an artifact holds one in its
locals (`Holds`).

`RuntimeGrowProofs`: `RecordOnlyGrows` (`RecordGrows`) and `EndsOnce`
(`TerminalInv`), for one host (`OneHost`) whose deadlines do not pass (`NoDeadline`),
and any attempts, policies, crashes, faults and aborts. Both hypotheses are needed:
`runtime_terminal_final` refutes `TerminalIsFinal` with a deadline, since the recovery
that terminalizes has a manager of its own while the abandoned worker goes on with the
first, and the second host brings a manager too. `GrowInv` says that
the one manager in charge (`Steered`) has walked the durable history and on from there,
that every store under way carries a part of its walk, and that at most one store carries the
terminal fact (`Facts`).

`ManualRecoveryLeavesAlone` (`DeferredIsUntouched`), for one host and any deadline:
`DeferInv` says that once the request is gone with its process, unanswered, every
copy with a policy snapshot had it from the durable record (`Taken`), and that while the
record is deferred no coroutine is left but one that boots or has booted (`Quiet`).
The boot's clock may be older than the deadline but never ahead of it (`BootsLate`), so
its decision is `ignore` (`DecisionIgnores`). With a second host the theorem is not
claimed: that host may still be at work on a recovery it began before.

`RuntimeCallProofs`: `CallsAreOnRecord` (`WriteAhead`), `CallsAreBounded`
(`InvocationsBounded`) and `ResultsAreKept` (`ResultNotRecomputed`), for one host with
any deadline, crashes, conflicts and store faults. Their hypotheses:

* `AbandonedIsFinal`: `TIMEOUT` and `CANCELLED` are not retryable. An attempt that ends so
  leaves its worker running; were it retried, the next attempt would read and write beside
  it, and TLC finds `WriteAhead` violated with `CANCELLED` retryable.
* `NeverForced` (the last two): no policy says `resume-immediately`. Under such a policy every
  crash after pre-invoke may cost a call, as the policy asks for.
* `OneAttempt` (`ResultsAreKept`): one attempt, or nothing to retry. With more, TLC has
  the store of the result answer with an error although its write was applied, and the
  second attempt, which does not look for a result, calls again.

`SoleInv` says that at most one worker runs and that the main coroutine is out of its
way. `WriteInv` says what a store under way adds to the record and what a
worker knows: a worker past its pre-invoke checkpoint has it on record, and nothing
stored over it takes it back. `CountInv` counts: a coroutine that may still call
(`MayCall`) leaves room for its call below the limit, an attempt's number
(`Tries`) is ahead of its calls, and a recovery that resumes (`Resumes`) has found a record without
a call. `ResultsInv` says that every result, stored or held, is of a call that was
made, so that a worker that comes to call again would need a second attempt.

`RuntimeAnswerProofs`: `AnswersAreKept` (`AnswerKept`), for one host with any deadline,
abort, crashes, conflicts and attempts. Its hypotheses, next to `AbandonedIsFinal`:

* `OneHost`: a second host that boots fails or resumes the execution while the first still
  answers for it.
* `NoFaults`: no store and no publication fails. Errors in the catch block of `execute()`
  are swallowed, so that a caller may be told of a failure that never became durable, and a
  later recovery completes the execution.
* `ExpiryFails`: every policy says `failIfExpired` (the default). Otherwise a recovery
  resumes, and may complete, what a deadline has made `execute()` answer with a failure.

The invariant says where `execute()` is (`Placed`) and what its answer rests on (`Told`). It is
undecided, with the manager at work and at most one worker, awaited or abandoned
(`Proceeds`); or, alone with the record, it is on its way to the completed
(`Completes`) or to the failed checkpoint (`Fails`); or it has given up beside
the worker it abandoned (`Gone`). While it is `Gone` no store under way
says completed and the manager, which the worker shares, is not completed either;
`GoneNext` keeps this through crash, boot and recovery, which terminalizes an
execution whose deadline is past. After a completion or a failure either the record is terminal and
nobody is left to write (`Rests`), or the deadline is past and the execution `Gone`.

### The components around it

| Theorem | Property | What makes it inductive |
|---|---|---|
| `BusIsSafe` | `BusInv` | a flush on its way to `mark` has a publication whose deliveries settled every subscription; a handler that runs has not marked |
| `ClosedTakesNoResponse` | `InteractionCorrect` | what a reply or an expiry read before its await is no newer than the record |
| `RetiredJobsRest` | `RetiredAtRest` | a retired job has no entry in the queue unless a dispatch holds it |
| `CallsRunOnce`, `ResultsAreReused` | `ToolLoopInv`, `NothingRerun` | calls are made in the order of their turn (`InOrder`); the checkpoint knows every call that was started; the attempt is where its checkpoint is |
| `ApprovalsAreKept` | `AgentCorrect` | the shared resume field is set only while its resume is under way; a loop at its tool holds the grant |
| `WorkflowsAreHonest` | `WorkflowInv` | every copy a drive holds, however old, claims only steps that have run (`CopyOK`). Hypothesis `Acyclic` |
| `TeamsReport` | `TeamInv` | a run that may still complete has neither failed nor been interrupted (`Completable`) |
| `StreamsAreKept` | `StreamingInv` | what is visible is of the bound provider, which can no longer change; log and client are prefixes of one another |
| `TurnsGiveOnce` | `TranslationInv` | an assembly that was given is closed, one that is open has not been given |
| `EvaluationsAreStored` | `EvaluationInv` | a call that has stored, or found a store, holds what is stored |
| `AnswersAreRecalled` | `AgentMemoryInv` | sequence numbers name turns; an answered turn is whole, and one a run holds is stored; what was recalled keeps fitting a store that only grows (`RecallFits`, `StoreGrows`) |
| `CommitIsAtomic` | `ImplementsAtomicStore` | a row a call has applied is locked by it and still what its `find()` returned |
| `ContainerHolds` | `CompositionInv` | the parts of a promise are older than it; a cached singleton is the only one; what a place has left to dispose is in the reverse order of its making there, so no part is disposed before a value the place had made from it (parts of other places and values finished during the disposal are exempt) |
| `HostKeeps` | `HostInv` | a request that has come to a stage has the context, the execution and the record of the stages before |
| `MemoriesAreKept` | `MemoryCorrect` | what a call works on is a version the record had; what a recall holds was available when it was read |
| `DeploymentsAreInOrder` | `DeploymentInv` | operations that met are known (`crossed`), and nothing is settled while one of them is at work; an operation that met no other knows how far up or down the components are, and which version runs |
| `RetriesAreSafe` | `ApiInv` | only reads have a second attempt; what a handler runs was charged to its principal |
| `RecordsAreTrue` | `RecordsInv` | a release is versioned against its predecessor; a report that may still pass has passed up to the runner |
| `ProvidersAreAnswerable` | `ProvidersInv` | what was tried is excluded; a call's events end at the terminal one, which its record repeats |
| `StoresAgree` | `StorageInv` | an open apply holds the table it has made or found until its row is committed, and no two transactions have touched the same row; a token names one state of an entity, up to its tick |

The refinement `CommitIsAtomic` needs more than its rows. COMMIT changes the rows of
the moment; that these are still what the caller loaded is not checked there but was,
row by row, when each was locked. `StoreInv` says of every call that a row it has
applied is locked by it and is still what `find()` returned (`HoldsWhatItApplied`), that
what `find()` returned is what had been loaded (`AppliesWhatWasLoaded`), when it has
taken effect (`EffectKnown`) and that its caller is answered last
(`AnsweredAtTheEnd`). `OthersAsTheyWere` is the heart of the argument: a step leaves
the calls beside it as they were as long as it touches no row they hold. Nothing is
assumed of the pool, of deadlocks or of the order in which transactions lock.

**Hypotheses.** `Acyclic`: the code does not check for cycles
(`create-workflow.ts:442-448` looks for unknown dependencies and for a root only), and
with a root beside a cycle the steps of the cycle never get ready: such a run falls
through its loop and is recorded as completed. A team that wants the
theorem for its workflow has to keep its graph acyclic.

### Only model-checked

* Liveness: `Answered`, `BootCompletes`, `ServicesEnd`, `EveryStoreAnswered`,
  `StopEnds`. Out of the prover's reach.
* `SchedulerInv`: its budget is a sum and a power of two over the jobs' retries, and
  `MapThenSumSet` is a fold, which the provers can only treat by induction over data.
* `ConfigInv`: the resolution sorts its definitions (`SetToSortSeq`), of which no
  theorem of the library speaks.
* `PackagesInv`: what the recursive order of `Plugins` computes.
* `ObservabilityInv`: its pages are a query's, which sorts (`SetToSortSeq`) as well.

## Not modelled

* Planning, context assembly, prompt building and knowledge retrieval: pipelines
  over one request that keep nothing between requests. Their ports answer, throw
  or hang in `RuntimeExecution`.
* The `WorkflowEngine` of `packages/workflow`: the product calls its
  `initialize()` and reads what is eligible, once per execution; its `start` and
  `complete` have no caller.
* The decision tables of `packages/security`: pure functions of one request.
* `ApplicationHost` of `packages/foundation`: no process of the repository starts
  components through it.
* Queries with filters, snapshots and backups of the persistence providers; the
  ranking of vectors; the parsing and formatting of HTTP, CLI and vendor payloads.
* Scripts, examples and the generator of new projects.

## Plan

1. A queue at its limit in `Scheduler`, a second scope in `Persistence`, several
   executions in one sweep of `recoverIncomplete`.
2. Parts of the not modelled components, where they come to keep state.
