------------------------------ MODULE Scheduler ------------------------------
(***************************************************************************)
(* SchedulerFramework (packages/scheduler/src/index.ts) over its in-memory *)
(* queue and job store (reference.ts).  Jobs are scheduled, queued by a    *)
(* trigger, taken from the queue by a dispatch and handed to a worker.     *)
(* One process: an operation is atomic up to an await, and two awaits hand *)
(* control to others while something still depends on what was read        *)
(* before: the hand-off to the worker and the publication that follows its *)
(* acceptance.  A dispatch keeps the job it read across both.              *)
(*                                                                         *)
(* Every other await is the last thing its operation does to the jobs and  *)
(* the queue, so that a publication or audit that fails there changes the  *)
(* caller's answer and no state.  Callers pass the current time.           *)
(***************************************************************************)
EXTENDS Naturals, FiniteSets, FiniteSetsExt

CONSTANTS
  Jobs,             \* job identifiers; naturals, compared as the queue does
  Definition,       \* [Jobs -> JobDefinition]
  Dispatchers,      \* concurrent callers of dispatch()
  MaxTriggers,      \* bound: [Jobs -> triggers that queue the job]
  MaxFactFaults,    \* bound: failing publications of job.dispatched
  MaxTime           \* bound of the clock

VARIABLES
  jobs,             \* JobStore: [Jobs -> ScheduledJob]
  queue,            \* JobQueue: the set of its entries
  flights,          \* [Dispatchers -> what its dispatch() awaits]
  now,              \* the clock the callers read
  triggered,        \* history: [Jobs -> entries queued by trigger()]
  handoffs,         \* history: [Jobs -> calls of worker.dispatch]
  accepted,         \* history: [Jobs -> hand-offs the worker accepted]
  denied,           \* history: jobs whose entry an unauthorized caller took
  factFaults        \* publications of job.dispatched that failed so far

schedulerVars == <<jobs, queue, flights, now, triggered, handoffs, accepted,
                   denied, factFaults>>

JobState == {"created", "scheduled", "queued", "dispatched", "retrying", "cancelled",
             "expired", "dead-letter"}

\* one-time, delayed, fixed-interval and cron schedules have a time and are
\* told apart by nothing else: nextEligibleAt is set once and never advanced.
ScheduleDefinition == [type : {"clock"}, eligibleAt : Nat]
                      \cup [type : {"event", "manual"}]

\* validateJob: what buildJobDefinition lets through
JobDefinition ==
  {d \in [schedule : ScheduleDefinition, priority : Nat, expiresAt : Nat \ {0},
          strategy : {"fixed", "exponential"}, maximumAttempts : Nat \ {0},
          maximumDispatchAttempts : Nat, baseDelay : Nat, maximumDelay : Nat] :
     d.maximumDelay >= d.baseDelay}

ASSUME SchedulerAssumption ==
  /\ Jobs \subseteq Nat /\ Definition \in [Jobs -> JobDefinition]
  /\ MaxTriggers \in [Jobs -> Nat]
  /\ MaxFactFaults \in Nat /\ MaxTime \in Nat

\* an unknown job is in the state the lifecycle records it to come from
ScheduledJob == [state : JobState, dispatchAttempts : Nat]
Unknown == [state |-> "created", dispatchAttempts |-> 0]
QueueEntry == [job : Jobs, attempt : Nat, eligibleAt : Nat]

Idle == [phase |-> "idle"]
Flight == [phase : {"worker", "publish"}, entry : QueueEntry,
           job : ScheduledJob, at : Nat]

SchedulerInit ==
  /\ jobs = [j \in Jobs |-> Unknown]
  /\ queue = {}
  /\ flights = [d \in Dispatchers |-> Idle]
  /\ now = 0
  /\ triggered = [j \in Jobs |-> 0]
  /\ handoffs = [j \in Jobs |-> 0]
  /\ accepted = [j \in Jobs |-> 0]
  /\ denied = {}
  /\ factFaults = 0

----------------------------------------------------------------------------
(* The queue: an entry's identifier is its job and attempt. *)

enqueue(e) ==
  IF \E f \in queue : f.job = e.job /\ f.attempt = e.attempt
  THEN queue ELSE queue \cup {e}

\* Seeded bug: a retry that is not due yet stays.
Without_Due(j) == {e \in queue : e.job = j => e.eligibleAt > now}

Without(j) == {e \in queue : e.job # j}

Precedes(e, f) ==
  LET p == Definition[e.job].priority
      q == Definition[f.job].priority
  IN \/ p > q
     \/ p = q /\ e.eligibleAt < f.eligibleAt
     \/ p = q /\ e.eligibleAt = f.eligibleAt /\ e.job < f.job
     \/ p = q /\ e.eligibleAt = f.eligibleAt /\ e.job = f.job
          /\ e.attempt < f.attempt

Eligible == {e \in queue : e.eligibleAt <= now}

\* what dequeue(now) removes and returns: one entry, as the order is total
Foremost == {e \in Eligible : \A f \in Eligible \ {e} : Precedes(e, f)}

Limit(j) ==
  LET d == Definition[j]
  IN IF d.maximumAttempts < d.maximumDispatchAttempts
     THEN d.maximumAttempts ELSE d.maximumDispatchAttempts

Delay(j, attempt) ==
  LET d == Definition[j]
      grown == d.baseDelay * 2 ^ (attempt - 1)
  IN IF d.strategy = "fixed" THEN d.baseDelay
     ELSE IF grown < d.maximumDelay THEN grown ELSE d.maximumDelay

save(j, job) == jobs' = [jobs EXCEPT ![j] = job]

Known(j) == jobs[j].state # "created"

----------------------------------------------------------------------------
(* Operations of the framework *)

\* an existing job is returned as it is
Schedule(j) ==
  /\ ~Known(j)
  /\ save(j, [state |-> "scheduled", dispatchAttempts |-> 0])
  /\ UNCHANGED <<queue, flights, now, triggered, handoffs, accepted, denied,
                 factFaults>>

\* expire(job, at)
Expire(j, job) ==
  /\ queue' = Without(j)
  /\ save(j, [job EXCEPT !.state = "expired"])

eligible(j, type) ==
  LET schedule == Definition[j].schedule
  IN /\ type = schedule.type
     /\ type = "clock" => now >= schedule.eligibleAt

Dormant(j) == jobs[j].state \in {"cancelled", "expired", "dead-letter"}

\* trigger() of a job past its expiry, whatever the trigger is
TriggerExpired(j) ==
  /\ Known(j) /\ ~Dormant(j)
  /\ now >= Definition[j].expiresAt
  /\ Expire(j, jobs[j])
  /\ UNCHANGED <<flights, now, triggered, handoffs, accepted, denied,
                 factFaults>>

\* trigger(): a second entry with the identifier of a queued one is rejected
\* (QUEUE_UNAVAILABLE) before anything is saved
Trigger(j, type) ==
  /\ Known(j) /\ ~Dormant(j)
  /\ now < Definition[j].expiresAt
  /\ eligible(j, type)
  /\ triggered[j] < MaxTriggers[j]
  /\ LET entry == [job |-> j, attempt |-> jobs[j].dispatchAttempts + 1,
                   eligibleAt |-> now]
     IN /\ enqueue(entry) # queue
        /\ queue' = enqueue(entry)
  /\ save(j, [jobs[j] EXCEPT !.state = "queued"])
  /\ triggered' = [triggered EXCEPT ![j] = @ + 1]
  /\ UNCHANGED <<flights, now, handoffs, accepted, denied, factFaults>>

\* dispatch(), up to the await of the worker.  The entry is dequeued before
\* the caller's authorization is looked at.
DispatchDenied(e) ==
  /\ queue' = queue \ {e}
  /\ denied' = denied \cup {e.job}
  /\ UNCHANGED <<jobs, flights, now, triggered, handoffs, accepted, factFaults>>

DispatchExpired(e) ==
  /\ now >= Definition[e.job].expiresAt
  /\ Expire(e.job, jobs[e.job])
  /\ UNCHANGED <<flights, now, triggered, handoffs, accepted, denied,
                 factFaults>>

Dispatch(d, e) ==
  /\ flights[d] = Idle
  /\ now < Definition[e.job].expiresAt
  /\ queue' = queue \ {e}
  /\ flights' = [flights EXCEPT ![d] = [phase |-> "worker", entry |-> e,
                                        job |-> jobs[e.job], at |-> now]]
  /\ handoffs' = [handoffs EXCEPT ![e.job] = @ + 1]
  /\ UNCHANGED <<jobs, now, triggered, accepted, denied, factFaults>>

\* the acceptance is saved over whatever the job has become since
WorkerAccepts(d) ==
  LET f == flights[d]
      j == f.entry.job
  IN /\ f.phase = "worker"
     /\ save(j, [state |-> "dispatched", dispatchAttempts |-> f.entry.attempt])
     /\ flights' = [flights EXCEPT ![d].phase = "publish"]
     /\ accepted' = [accepted EXCEPT ![j] = @ + 1]
     /\ UNCHANGED <<queue, now, triggered, handoffs, denied, factFaults>>

DispatchPublished(d) ==
  /\ flights[d].phase = "publish"
  /\ flights' = [flights EXCEPT ![d] = Idle]
  /\ UNCHANGED <<jobs, queue, now, triggered, handoffs, accepted, denied,
                 factFaults>>

\* Seeded bug: an attempt beyond the limit.
RetryQueue_OffByOne(f) ==
  IF f.entry.attempt > Limit(f.entry.job) THEN queue
  ELSE enqueue([job |-> f.entry.job, attempt |-> f.entry.attempt + 1,
                eligibleAt |-> f.at + Delay(f.entry.job, f.entry.attempt)])

\* retry(job, entry, at, failure): every failure is retryable, and the answer
\* of enqueue is not looked at
RetryState(f) ==
  IF f.entry.attempt >= Limit(f.entry.job) THEN "dead-letter" ELSE "retrying"

RetryQueue(f) ==
  IF f.entry.attempt >= Limit(f.entry.job) THEN queue
  ELSE enqueue([job |-> f.entry.job, attempt |-> f.entry.attempt + 1,
                eligibleAt |-> f.at + Delay(f.entry.job, f.entry.attempt)])

Retry(d) ==
  LET f == flights[d]
  IN /\ queue' = RetryQueue(f)
     /\ save(f.entry.job, [state |-> RetryState(f),
                           dispatchAttempts |-> f.entry.attempt])
     /\ flights' = [flights EXCEPT ![d] = Idle]

\* the worker rejects the hand-off, or throws
WorkerFails(d) ==
  /\ flights[d].phase = "worker"
  /\ Retry(d)
  /\ UNCHANGED <<now, triggered, handoffs, accepted, denied, factFaults>>

\* the publication of job.dispatched throws into the same catch
DispatchUnpublished(d) ==
  /\ flights[d].phase = "publish"
  /\ factFaults < MaxFactFaults
  /\ factFaults' = factFaults + 1
  /\ Retry(d)
  /\ UNCHANGED <<now, triggered, handoffs, accepted, denied>>

\* cancel(): whatever the job's state is
Cancel(j) ==
  /\ Known(j)
  /\ queue' = Without(j)
  /\ save(j, [jobs[j] EXCEPT !.state = "cancelled"])
  /\ UNCHANGED <<flights, now, triggered, handoffs, accepted, denied,
                 factFaults>>

Tick ==
  /\ now < MaxTime
  /\ now' = now + 1
  /\ UNCHANGED <<jobs, queue, flights, triggered, handoffs, accepted, denied,
                 factFaults>>

Answer(d) == \/ WorkerAccepts(d)
             \/ WorkerFails(d)
             \/ DispatchPublished(d)
             \/ DispatchUnpublished(d)

SchedulerNext ==
  \/ \E j \in Jobs : \/ Schedule(j)
                     \/ TriggerExpired(j)
                     \/ \E type \in {"clock", "event", "manual"} : Trigger(j, type)
                     \/ Cancel(j)
  \/ \E d \in Dispatchers : Answer(d) \/ \E e \in Foremost : Dispatch(d, e)
  \/ \E e \in Foremost : DispatchDenied(e) \/ DispatchExpired(e)
  \/ Tick

\* Authorized callers poll the queue, the worker and the event port answer,
\* the clock runs while an entry waits.
SchedulerFairness ==
  /\ \A d \in Dispatchers : /\ WF_schedulerVars(\E e \in Foremost : Dispatch(d, e))
                            /\ WF_schedulerVars(Answer(d))
  /\ WF_schedulerVars(\E e \in Foremost : DispatchExpired(e))
  /\ WF_schedulerVars(queue # {} /\ Tick)

SchedulerSpec ==
  SchedulerInit /\ [][SchedulerNext]_schedulerVars /\ SchedulerFairness

----------------------------------------------------------------------------
(* Properties *)

SchedulerTypeOK ==
  /\ jobs \in [Jobs -> ScheduledJob]
  /\ queue \in SUBSET QueueEntry
  /\ flights \in [Dispatchers -> Flight \cup {Idle}]
  /\ now \in 0 .. MaxTime
  /\ \A j \in Jobs : triggered[j] \in 0 .. MaxTriggers[j]
  /\ handoffs \in [Jobs -> Nat] /\ accepted \in [Jobs -> Nat]
  /\ denied \in SUBSET Jobs
  /\ factFaults \in 0 .. MaxFactFaults

\* However triggers, concurrent dispatches, lost acknowledgements and retries
\* interleave, a trigger never buys more than the configured number of
\* hand-offs, and no more than one that the worker accepts unless the
\* publication after the acceptance failed.  What the entries of the queue and
\* the dispatches under way may still become is paid for too (retry() and its
\* limit, the identifiers enqueue() rejects, the catch of dispatch()).
Spent(j) == IF Limit(j) > 1 THEN Limit(j) ELSE 1
Chain(j, attempt) == IF attempt >= Limit(j) THEN 1 ELSE Limit(j) - attempt + 1
Flying(j) == {d \in Dispatchers : flights[d] # Idle /\ flights[d].entry.job = j}

DispatchBudget ==
  \A j \in Jobs :
    LET entries == {e \in queue : e.job = j}
        queued(e) == Chain(j, e.attempt)
        flying(d) == Chain(j, flights[d].entry.attempt) - 1
        waiting == {d \in Flying(j) : flights[d].phase = "worker"}
    IN /\ handoffs[j] + MapThenSumSet(queued, entries)
            + MapThenSumSet(flying, Flying(j)) <= triggered[j] * Spent(j)
       /\ accepted[j] + Cardinality(entries) + Cardinality(waiting)
            <= triggered[j] + factFaults

Waiting(j) == jobs[j].state \in {"queued", "retrying"}

\* A job that waits is eventually handed over, given up, expired or cancelled,
\* however dispatches of other jobs overtake it, if authorized dispatches keep
\* being made, the worker answers and the clock runs on.
JobResolved == \A j \in Jobs : Waiting(j) ~> ~Waiting(j) \/ j \in denied

\* A cancelled or expired job that no dispatch holds stays so and is not handed
\* over again: cancel() and expire() leave no entry behind and trigger() makes
\* none, so that only what was under way at the time revives the job.
RetiredAtRest ==
  [][\A j \in Jobs : jobs[j].state \in {"cancelled", "expired"} /\ Flying(j) = {}
       => /\ jobs'[j].state \in {"cancelled", "expired"}
          /\ handoffs'[j] = handoffs[j]]_schedulerVars

\* Without that condition: refuted by a cancellation between the read of the job and
\* the answer of the worker, which dispatch() overwrites (index.ts 390).
CancelledStays ==
  [][\A j \in Jobs : jobs[j].state = "cancelled" => jobs'[j].state = "cancelled"]_schedulerVars

\* Nothing is dispatched beyond its budget, whatever its type (scheduler/src/index.ts
\* 335-520).
SchedulerInv == SchedulerTypeOK /\ DispatchBudget

=============================================================================
