------------------------------- MODULE Observability -------------------------------
(***************************************************************************)
(* ObservabilityFramework over its providers.  An observation is stored with  *)
(* its provider and then published as a fact; a health report asks every       *)
(* component at once, compares the aggregate with the previous one, publishes   *)
(* the change and only then remembers it; diagnostics are read page by page      *)
(* while others are recorded.  Every call of a provider is awaited.               *)
(***************************************************************************)
EXTENDS Naturals, Sequences, FiniteSets, SequencesExt

CONSTANTS
  HealthComponents,  \* the health providers
  HealthCalls,       \* names of the calls of health()
  Logs, Metrics,     \* the observations callers make, records
  SpanSets,          \* what callers pass to trace: sets of spans
  DiagnosticRecords, \* [id, tenant, classification, at, length, secret]
  DiagnosticQuery,   \* [tenant, limit, from, to, authorization]
  MaximumMetricLabelCount, MaximumMessageLength,   \* ObservabilityPolicy
  MaxStatusChanges, MaxObservationFaults           \* bounds

VARIABLES
  componentHealth,   \* what each component would answer
  report,            \* per call of health(): [step, answers, status]
  previousHealth,    \* #previousHealth
  healthFacts,       \* the statuses of the health-changed facts, in order
  observed,          \* what the providers stored, as <<kind, value>>
  publishing,        \* observations stored, their fact not yet published
  page,              \* the walk of one reader: [cursor, read, due, done]
  statusChanges, observationFaults

healthVars == <<componentHealth, report, previousHealth, healthFacts, statusChanges>>
recordVars == <<observed, publishing, page>>
observabilityVars == <<healthVars, recordVars, observationFaults>>

Undefined == "undefined"
NoAnswers == [c \in {} |-> Undefined]
ObservabilityInit ==
  /\ componentHealth = [c \in HealthComponents |-> "healthy"]
  /\ report = [h \in HealthCalls |-> [step |-> "idle", answers |-> NoAnswers, status |-> Undefined]]
  /\ previousHealth = Undefined /\ healthFacts = <<>>
  /\ observed = {} /\ publishing = {}
  /\ page = [cursor |-> 0, read |-> <<>>, due |-> {}, done |-> FALSE]
  /\ statusChanges = 0 /\ observationFaults = 0

Faulty == observationFaults < MaxObservationFaults /\ observationFaults' = observationFaults + 1

----------------------------------------------------------------------------
(* Health *)

set(c, status) ==
  /\ componentHealth[c] # status
  /\ statusChanges < MaxStatusChanges /\ statusChanges' = statusChanges + 1
  /\ componentHealth' = [componentHealth EXCEPT ![c] = status]
  /\ UNCHANGED <<report, previousHealth, healthFacts, recordVars, observationFaults>>

\* the worst status wins
aggregateHealth(statuses) ==
  CASE "unavailable" \in statuses -> "unavailable"
    [] "unavailable" \notin statuses /\ "degraded" \in statuses -> "degraded"
    [] statuses \cap {"unavailable", "degraded"} = {} /\ "recovering" \in statuses -> "recovering"
    [] statuses = {"healthy"} -> "healthy"
    [] OTHER -> "unknown"

Reports(h, to) == report' = [report EXCEPT ![h] = to]

\* Promise.all: every provider is asked, each answers in its own time
health(h) ==
  /\ report[h].step = "idle"
  /\ Reports(h, [report[h] EXCEPT !.step = "checking"])
  /\ UNCHANGED <<componentHealth, previousHealth, healthFacts, statusChanges, recordVars, observationFaults>>

check(h, c) ==
  /\ report[h].step = "checking" /\ c \notin DOMAIN report[h].answers
  /\ LET answers == report[h].answers IN
       Reports(h, [report[h] EXCEPT !.answers =
                    [x \in DOMAIN answers \cup {c} |-> IF x = c THEN componentHealth[c] ELSE answers[x]]])
  /\ UNCHANGED <<componentHealth, previousHealth, healthFacts, statusChanges, recordVars, observationFaults>>

Aggregate(h) == aggregateHealth({report[h].answers[c] : c \in HealthComponents})
Compared(h) == [report[h] EXCEPT !.status = Aggregate(h),
                  !.step = IF Aggregate(h) = previousHealth THEN "answered" ELSE "publishing"]

\* Seeded bug: the new status is remembered before its fact is out.
Aggregated_RemembersFirst(h) ==
  /\ report[h].step = "checking" /\ DOMAIN report[h].answers = HealthComponents
  /\ Reports(h, Compared(h)) /\ previousHealth' = Aggregate(h)
  /\ UNCHANGED <<componentHealth, healthFacts, statusChanges, recordVars, observationFaults>>

Aggregated(h) ==
  /\ report[h].step = "checking" /\ DOMAIN report[h].answers = HealthComponents
  /\ Reports(h, Compared(h))
  /\ UNCHANGED <<componentHealth, previousHealth, healthFacts, statusChanges, recordVars, observationFaults>>

PublishesChange(h) ==
  /\ report[h].step = "publishing"
  /\ healthFacts' = Append(healthFacts, report[h].status)
  /\ Reports(h, [report[h] EXCEPT !.step = "published"])
  /\ UNCHANGED <<componentHealth, previousHealth, statusChanges, recordVars, observationFaults>>

Remembers(h) ==
  /\ report[h].step = "published"
  /\ previousHealth' = report[h].status
  /\ Reports(h, [report[h] EXCEPT !.step = "answered"])
  /\ UNCHANGED <<componentHealth, healthFacts, statusChanges, recordVars, observationFaults>>

\* a component or the publication rejects: so does health()
HealthFails(h) ==
  /\ report[h].step \in {"checking", "publishing"} /\ Faulty
  /\ Reports(h, [report[h] EXCEPT !.step = "failed"])
  /\ UNCHANGED <<componentHealth, previousHealth, healthFacts, statusChanges, recordVars>>

----------------------------------------------------------------------------
(* Observations *)

text(entry) == entry.length \in 1..MaximumMessageLength /\ ~entry.secret

Stores(kind, value) ==
  /\ <<kind, value>> \notin observed /\ observed' = observed \cup {<<kind, value>>}
  /\ UNCHANGED <<page, healthVars, observationFaults>>

Announced(kind, value) == Stores(kind, value) /\ publishing' = publishing \cup {<<kind, value>>}

log(entry) == text(entry) /\ Stores("log", entry) /\ UNCHANGED publishing

metric(entry) == Cardinality(entry.labels) <= MaximumMetricLabelCount /\ Announced("metric", entry)

span(s) == s.startedAt <= s.endedAt /\ s.durationMs = s.endedAt - s.startedAt

\* every span shares the trace and the correlation of the one without a parent
trace(spans) ==
  /\ \A s \in spans : span(s)
  /\ \E root \in spans :
       /\ root.parent = Undefined
       /\ \A s \in spans : s.traceId = root.traceId /\ s.correlationId = root.correlationId
       /\ Announced("trace", [id |-> root.traceId,
                              status |-> IF \E s \in spans : s.status = "failed"
                                           THEN "failed" ELSE "completed"])

diagnose(entry) == text(entry) /\ Announced("diagnostic", entry)

PublishesFact(o) ==
  /\ publishing' = publishing \ {o}
  /\ UNCHANGED <<observed, page, healthVars, observationFaults>>

\* the caller is told that the provider failed, and the observation stays
FactFails(o) ==
  /\ Faulty /\ publishing' = publishing \ {o}
  /\ UNCHANGED <<observed, page, healthVars>>

----------------------------------------------------------------------------
(* Diagnostic queries *)

Ranked == <<"public", "internal", "confidential", "restricted">>
rank(classification) == CHOOSE n \in DOMAIN Ranked : Ranked[n] = classification

enforceQuery(q) ==
  /\ q.authorization.authorized /\ q.authorization.state = "active" /\ q.authorization.operation = "query"
  /\ q.authorization.tenant = q.tenant
  /\ q.limit >= 1 /\ q.from <= q.to

MatchingRecords(q) ==
  LET matches(o) == /\ o[1] = "diagnostic" /\ o[2].tenant = q.tenant
                    /\ rank(o[2].classification) <= rank(q.authorization.maximumClassification)
                    /\ o[2].at \in q.from..q.to
  IN {o[2] : o \in {x \in observed : matches(x)}}

Sorted(entries) ==
  SetToSortSeq(entries, LAMBDA a, b : a.at < b.at \/ (a.at = b.at /\ a.id < b.id))

Cursor(cursor, selected) == cursor + Len(selected)

query(q) ==
  /\ enforceQuery(q) /\ ~page.done
  /\ LET values == Sorted(MatchingRecords(q))
         last == IF page.cursor + q.limit < Len(values) THEN page.cursor + q.limit ELSE Len(values)
         shown == SubSeq(values, page.cursor + 1, last)
     IN page' = [cursor |-> Cursor(page.cursor, shown),
                 read |-> page.read \o shown,
                 due |-> IF page.cursor = 0 THEN ToSet(values) ELSE page.due,
                 done |-> Cursor(page.cursor, shown) >= Len(values)]
  /\ UNCHANGED <<observed, publishing, healthVars, observationFaults>>

----------------------------------------------------------------------------
HealthNext ==
  \/ \E c \in HealthComponents, to \in {"healthy", "degraded", "unavailable", "recovering"} : set(c, to)
  \/ \E h \in HealthCalls : \/ health(h) \/ Aggregated(h) \/ PublishesChange(h) \/ Remembers(h)
                            \/ HealthFails(h) \/ \E c \in HealthComponents : check(h, c)

RecordNext ==
  \/ \E entry \in Logs : log(entry)
  \/ \E entry \in Metrics : metric(entry)
  \/ \E spans \in SpanSets : trace(spans)
  \/ \E entry \in DiagnosticRecords : diagnose(entry)
  \/ \E o \in publishing : PublishesFact(o) \/ FactFails(o)
  \/ query(DiagnosticQuery)

ObservabilityNext == HealthNext \/ RecordNext

ObservabilitySpec == ObservabilityInit /\ [][ObservabilityNext]_observabilityVars

----------------------------------------------------------------------------
(* Properties *)

ObservabilityTypeOK ==
  /\ previousHealth \in {Undefined, "healthy", "degraded", "unavailable", "recovering", "unknown"}
  /\ \A h \in HealthCalls : DOMAIN report[h].answers \subseteq HealthComponents
  /\ publishing \subseteq observed
  /\ statusChanges \in 0..MaxStatusChanges /\ observationFaults \in 0..MaxObservationFaults

(* The status the framework compares with is one whose change it announced,   *)
(* whatever overlapping reports and failing publications do: a change that     *)
(* could not be published is published by the next report (index.ts 404-409).  *)
ChangeIsAnnounced == previousHealth # Undefined => previousHealth \in ToSet(healthFacts)

(* A reader that follows the cursors until there is none has read every        *)
(* diagnostic that its first page could have shown, whatever was recorded in    *)
(* between and wherever it sorts (index.ts 470-474).                             *)
PagesMissNothing == page.done => page.due \subseteq ToSet(page.read)

(* What is announced and what can be read back (observability/src/index.ts). *)
ObservabilityInv == ObservabilityTypeOK /\ ChangeIsAnnounced /\ PagesMissNothing

=============================================================================
