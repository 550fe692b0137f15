------------------------------- MODULE Verification -------------------------------
(***************************************************************************)
(* The testing and verification framework: a suite run test by test, each result    *)
(* kept before it is announced; contract rules verified, a compliance policy          *)
(* evaluated over the findings, and the report built from the three.                     *)
(***************************************************************************)
EXTENDS Naturals, Sequences, SequencesExt, FiniteSets

CONSTANTS
  Suite,             \* the ids of the tests of a suite, in order
  Rules,             \* the contract rules there are
  Required,          \* those the compliance policy asks for
  MaxSinkFaults      \* bound: events, diagnostics and audits that throw

ASSUME VerificationAssumption ==
  Suite \in Seq(ToSet(Suite)) /\ Len(Suite) > 0 /\ MaxSinkFaults \in Nat

VARIABLES
  catalog,           \* the tests registered
  runner,            \* [step, test]
  results,           \* [test, outcome], in order
  executed,          \* history: per test, how its executor answered
  certified,         \* the production audit: an outcome, or "none"
  suiteReport,            \* [status, passed, failed], status "none" before it is built
  findings,          \* per rule that was verified: [passed, severity], chosen once
  sinkFaults

verificationVars == <<catalog, runner, results, executed, certified, suiteReport, findings, sinkFaults>>

NotRun == "not run"
NoReport == [status |-> "none", passed |-> 0, failed |-> 0]

VerificationInit ==
  /\ catalog = {} /\ runner = [step |-> "idle", test |-> 1] /\ results = <<>>
  /\ executed = [t \in ToSet(Suite) |-> NotRun] /\ certified = "none" /\ suiteReport = NoReport
  /\ findings \in UNION {[S -> [passed : BOOLEAN, severity : {"error", "warning"}]] : S \in SUBSET Rules}
  /\ sinkFaults = 0

----------------------------------------------------------------------------
(* TestCatalog, LocalTestRunner *)

registerSuite ==
  /\ runner.step = "idle" /\ \E t \in ToSet(Suite) \ catalog : catalog' = catalog \cup {t}
  /\ UNCHANGED <<runner, results, executed, certified, suiteReport, findings, sinkFaults>>

run ==
  /\ runner.step = "idle" /\ runner' = [step |-> "next", test |-> 1] /\ results' = <<>>
  /\ UNCHANGED <<catalog, executed, certified, suiteReport, findings, sinkFaults>>

Test == Suite[runner.test]
Result(outcome) == [test |-> Test, outcome |-> outcome]

\* an unknown test, or an event that throws before its test starts, ends the run without results
Starts ==
  /\ runner.step = "next"
  /\ runner' = [runner EXCEPT !.step = IF Test \in catalog THEN "executing" ELSE "rejected"]
  /\ UNCHANGED <<catalog, results, executed, certified, suiteReport, findings, sinkFaults>>

SinkFails == sinkFaults < MaxSinkFaults /\ sinkFaults' = sinkFaults + 1

AnnounceFails(step) ==
  /\ runner.step = step /\ SinkFails /\ runner' = [runner EXCEPT !.step = "rejected"]
  /\ UNCHANGED <<catalog, results, executed, certified, suiteReport, findings>>

\* the executor's assertions, or its error
Executes ==
  /\ runner.step = "executing" /\ UNCHANGED <<catalog, certified, suiteReport, findings, sinkFaults>>
  /\ \E outcome \in {"passed", "failed"}, rejects \in BOOLEAN :
       /\ rejects => outcome = "failed"
       /\ executed' = [executed EXCEPT ![Test] = outcome]
       /\ results' = Append(results, Result(outcome))
       /\ runner' = [runner EXCEPT !.step = IF rejects THEN "caught" ELSE "announcing"]

Follows ==
  runner' = IF runner.test = Len(Suite) THEN [runner EXCEPT !.step = "auditing"]
            ELSE [step |-> "next", test |-> runner.test + 1]

AnnouncesResult ==
  /\ runner.step \in {"announcing", "caught"} /\ Follows
  /\ UNCHANGED <<catalog, results, executed, certified, suiteReport, findings, sinkFaults>>

\* what follows the kept result throws inside its try: the catch keeps a failed one as well
Caught == Append(results, Result("failed"))

AnnouncementThrows ==
  /\ runner.step = "announcing" /\ SinkFails
  /\ results' = Caught /\ runner' = [runner EXCEPT !.step = "caught"]
  /\ UNCHANGED <<catalog, executed, certified, suiteReport, findings>>

\* Seeded bug: a suite is certified by its last test.
AllPassed_Last == Last(results).outcome = "passed"
AllPassed == \A r \in ToSet(results) : r.outcome = "passed"

\* a suite that targets production
Audits ==
  /\ runner.step = "auditing" /\ certified' = IF AllPassed THEN "passed" ELSE "failed"
  /\ runner' = [runner EXCEPT !.step = "done"]
  /\ UNCHANGED <<catalog, results, executed, suiteReport, findings, sinkFaults>>

----------------------------------------------------------------------------
(* ContractVerifier, ComplianceEngine, ReportingEngine *)

\* a warning does not fail a contract, but a required rule must pass, and be among the verified
ContractPassed == \A r \in DOMAIN findings : findings[r].passed \/ findings[r].severity # "error"

Failures == {r \in Required : IF r \in DOMAIN findings THEN ~findings[r].passed ELSE TRUE}

CountOf(outcome) == Cardinality({n \in DOMAIN results : results[n].outcome = outcome})

BuildsReport ==
  /\ runner.step = "done" /\ suiteReport = NoReport
  /\ suiteReport' = [status |-> IF CountOf("failed") = 0 /\ ContractPassed /\ Failures = {}
                           THEN "passed" ELSE "failed",
                passed |-> CountOf("passed"), failed |-> CountOf("failed")]
  /\ UNCHANGED <<catalog, runner, results, executed, certified, findings, sinkFaults>>

VerificationNext ==
  \/ registerSuite \/ run \/ Starts \/ Executes \/ AnnouncesResult \/ AnnouncementThrows \/ Audits \/ BuildsReport
  \/ \E step \in {"next", "caught", "auditing"} : AnnounceFails(step)

VerificationSpec == VerificationInit /\ [][VerificationNext]_verificationVars

----------------------------------------------------------------------------
(* Properties *)

VerificationTypeOK ==
  /\ catalog \subseteq ToSet(Suite) /\ runner.test \in DOMAIN Suite
  /\ Len(results) <= 2 * Len(Suite)
  /\ certified \in {"none", "passed", "failed"}

(* A suite certified for production, and a report that passed, had every test executed  *)
(* and passed; the report also had every required rule verified and passed, whichever      *)
(* sink threw in between (testing-verification index.ts 301-367, 387-414).                   *)
PassedWasRun ==
  /\ certified = "passed" => \A t \in ToSet(Suite) : executed[t] = "passed"
  /\ suiteReport.status = "passed" =>
       (\A t \in ToSet(Suite) : executed[t] = "passed")
       /\ \A r \in Required : r \in DOMAIN findings /\ findings[r].passed

(* One result per test: fails when the event of a kept result throws.                        *)
OneResultEach == suiteReport.status # "none" => suiteReport.passed + suiteReport.failed = Len(Suite)

(* What a suite reports of its tests (testing-verification/src/index.ts). *)
VerificationInv == VerificationTypeOK /\ PassedWasRun

=============================================================================
