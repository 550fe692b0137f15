-------------------------------- MODULE Evaluation --------------------------------
(***************************************************************************)
(* The evaluation framework as the platform host builds it: evaluate() of one         *)
(* request, called again after a human review, criterion by criterion; the result is    *)
(* aggregated, stored once under the id of its request, audited and announced.             *)
(***************************************************************************)
EXTENDS Naturals, Sequences, SequencesExt, FiniteSets

CONSTANTS
  Evaluations,       \* calls of evaluate() with the request
  Criteria,          \* the criteria of the request, in order
  Category,          \* per criterion, that of its evaluator: "exact", "ai" or "human"
  PersistentStore,   \* config.evaluationResultStore = "persistent"; else every result is kept
  MaxEvaluationFaults   \* bound: resolutions, judges, stores and events that reject

ASSUME EvaluationAssumption ==
  /\ Criteria \in Seq(DOMAIN Category) /\ IsInjective(Criteria) /\ DOMAIN Category = ToSet(Criteria)
  /\ PersistentStore \in BOOLEAN

VARIABLES
  matches,           \* the artifact equals what is expected: the request's, so chosen once
  evaluation,        \* per call: [step, outputs, result, reviewed]
  reviews,           \* InMemoryHumanEvaluator: per human criterion "none", "pending" or a response
  results,           \* the store: results of the request
  audited,           \* assessments recorded
  evaluationFaults

evaluationVars == <<matches, evaluation, reviews, results, audited, evaluationFaults>>

HumanCriteria == {c \in ToSet(Criteria) : Category[c] = "human"}
NoResult == [status |-> "none", assessment |-> "none", outputs |-> <<>>]
NotBegun == [step |-> "idle", outputs |-> <<>>, result |-> NoResult, reviewed |-> FALSE]

EvaluationInit ==
  /\ matches \in BOOLEAN /\ evaluation = [e \in Evaluations |-> NotBegun]
  /\ reviews = [c \in HumanCriteria |-> "none"]
  /\ results = {} /\ audited = {} /\ evaluationFaults = 0

----------------------------------------------------------------------------
GoesTo(e, step) == evaluation' = [evaluation EXCEPT ![e].step = step]
Criterion(e) == Criteria[Len(evaluation[e].outputs) + 1]
Asked(e) == Len(evaluation[e].outputs) = Len(Criteria)
Reviewed == \A c \in HumanCriteria : reviews[c] \notin {"none", "pending"}

\* evaluation.requested is published, and the evaluators are resolved, before the first is asked
evaluate(e) ==
  /\ evaluation[e].step = "idle"
  /\ evaluation' = [evaluation EXCEPT ![e].step = "executing", ![e].reviewed = Reviewed]
  /\ UNCHANGED <<matches, reviews, results, audited, evaluationFaults>>

\* [outcome, score], score "none" when there is none
Scored(score) == [outcome |-> "scored", score |-> score]
Unscored(outcome) == [outcome |-> outcome, score |-> 2]
HasScore(output) == output.score \in {0, 1}

\* exact-match and composite evaluators compare; the judge only decides what does not match
Outputs(c) ==
  CASE Category[c] = "exact" -> {Scored(IF matches THEN 1 ELSE 0)}
    [] Category[c] = "ai" -> IF matches THEN {Scored(1)} ELSE {Scored(0), Scored(1)}
    [] OTHER -> {CASE reviews[c] \in {"none", "pending"} -> Unscored("waiting")
                   [] reviews[c] = "abstained" -> Unscored("abstained")
                   [] OTHER -> Scored(IF reviews[c] = "passed" THEN 1 ELSE 0)}

Executes(e) ==
  LET c == Criterion(e) IN
  /\ evaluation[e].step = "executing" /\ ~Asked(e)
  /\ \E output \in Outputs(c) : evaluation' = [evaluation EXCEPT ![e].outputs = Append(@, output)]
  /\ reviews' = [h \in HumanCriteria |-> IF h = c /\ reviews[h] = "none" THEN "pending" ELSE reviews[h]]
  /\ UNCHANGED <<matches, results, audited, evaluationFaults>>

\* the reviewer answers, whether or not the review was asked for; an earlier response is replaced
resume(c) ==
  /\ \E response \in {"passed", "failed", "abstained"} : reviews' = [reviews EXCEPT ![c] = response]
  /\ UNCHANGED <<matches, evaluation, results, audited, evaluationFaults>>

----------------------------------------------------------------------------
(* The result *)

StatusOf(outputs) ==
  IF outputs = <<>> THEN "empty"
  ELSE IF \E o \in ToSet(outputs) : o.outcome = "waiting" THEN "waiting"
  ELSE IF \A o \in ToSet(outputs) : o.outcome = "abstained" THEN "inconclusive"
  ELSE "complete"

\* the weighted average of what has a score, against the policy's 0.8
AssessmentOf(outputs) ==
  LET scored == {n \in DOMAIN outputs : HasScore(outputs[n])}
      ones == {n \in scored : outputs[n].score = 1} IN
  IF scored = {} THEN "no-outcome"
  ELSE IF 10 * Cardinality(ones) >= 8 * Cardinality(scored) THEN "passed" ELSE "failed"

Aggregates(e) ==
  LET outputs == evaluation[e].outputs IN
  /\ evaluation[e].step = "executing" /\ Asked(e)
  /\ evaluation' = [evaluation EXCEPT ![e].step = "finding",
       ![e].result = [status |-> StatusOf(outputs), assessment |-> AssessmentOf(outputs),
                      outputs |-> outputs]]
  /\ UNCHANGED <<matches, reviews, results, audited, evaluationFaults>>

EvaluationFails(e) == evaluation' = [evaluation EXCEPT ![e].step = "failed"]

\* PersistenceEvaluationResultStore.save: a result under the request's id is final
Finds(e) ==
  /\ evaluation[e].step = "finding"
  /\ IF PersistentStore /\ results # {} THEN EvaluationFails(e) ELSE GoesTo(e, "saving")
  /\ UNCHANGED <<matches, reviews, results, audited, evaluationFaults>>

\* the unit of work: an entity that was saved in between is a DUPLICATE_ENTITY
\* Seeded bug: the duplicate is taken for the result that was to be stored.
Duplicate_IsStored(e) == GoesTo(e, "auditing")
Duplicate(e) == EvaluationFails(e)

Saves(e) ==
  /\ evaluation[e].step = "saving"
  /\ IF PersistentStore /\ results # {} THEN Duplicate(e) /\ UNCHANGED results
     ELSE GoesTo(e, "auditing") /\ results' = results \cup {evaluation[e].result}
  /\ UNCHANGED <<matches, reviews, audited, evaluationFaults>>

Audits(e) ==
  /\ evaluation[e].step = "auditing" /\ GoesTo(e, "announcing")
  /\ audited' = audited \cup {evaluation[e].result.assessment}
  /\ UNCHANGED <<matches, reviews, results, evaluationFaults>>

Announces(e) ==
  /\ evaluation[e].step = "announcing" /\ GoesTo(e, "answered")
  /\ UNCHANGED <<matches, reviews, results, audited, evaluationFaults>>

\* an await rejects: evaluation.failed, whatever was stored before
PortRejects(e) ==
  /\ evaluation[e].step \in {"executing", "finding", "saving", "announcing"}
  /\ evaluationFaults < MaxEvaluationFaults /\ evaluationFaults' = evaluationFaults + 1 /\ EvaluationFails(e)
  /\ UNCHANGED <<matches, reviews, results, audited>>

EvaluationNext ==
  \/ \E e \in Evaluations :
       evaluate(e) \/ Executes(e) \/ Aggregates(e) \/ Finds(e) \/ Saves(e) \/ Audits(e)
       \/ Announces(e) \/ PortRejects(e)
  \/ \E c \in HumanCriteria : resume(c)

EvaluationSpec == EvaluationInit /\ [][EvaluationNext]_evaluationVars

----------------------------------------------------------------------------
(* Properties *)

EvaluationTypeOK ==
  /\ \A e \in Evaluations : Len(evaluation[e].outputs) <= Len(Criteria)
  /\ \A c \in HumanCriteria : reviews[c] \in {"none", "pending", "passed", "failed", "abstained"}

(* Calls of one request that overlap, or follow one another, are answered with the result *)
(* that is stored, and a durable store holds one (persistence-evaluation-result-store.ts).   *)
AnsweredIsStored ==
  /\ \A e \in Evaluations : evaluation[e].step = "answered" => evaluation[e].result \in results
  /\ PersistentStore => Cardinality(results) <= 1

(* A review that is answered lets its request complete: fails, since the waiting result    *)
(* already has the id under which the complete one would be stored.                            *)
ResumedCompletes ==
  \A e \in Evaluations : evaluation[e].reviewed => evaluation[e].step # "failed"

(* The answers of evaluate() and the store (evaluation/src/index.ts 35-61). *)
EvaluationInv == EvaluationTypeOK /\ AnsweredIsStored

=============================================================================
