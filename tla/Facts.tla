---------------------------------- MODULE Facts ----------------------------------
(***************************************************************************)
(* The end that the operations of the framework packages share: what the     *)
(* operation changed is already stored, it publishes a fact, then it records  *)
(* the fact for audit, and only then it answers its caller.  Publication and   *)
(* audit are awaited, other calls run in between, and either may fail: the     *)
(* call is then rejected, and what it stored stays.                            *)
(***************************************************************************)
EXTENDS Naturals, FiniteSets

CONSTANTS
  MaxOperations,  \* bound: calls that publish a fact
  MaxOverlap,     \* bound: calls that wait for events or audit at a time
  MaxFactFaults   \* bound: publications and audits that fail

VARIABLES
  announcing,     \* [type, subject, published]: calls that wait for events or audit
  recorded,       \* facts the audit port took: their callers have an answer
  operations,
  factFaults

factVars == <<announcing, recorded, operations, factFaults>>

FactsInit ==
  /\ announcing = {} /\ recorded = {}
  /\ operations = 0 /\ factFaults = 0

Fact(call) == [type |-> call.type, subject |-> call.subject]

\* the last conjunct of an operation
Announces(type, subject) ==
  /\ Cardinality(announcing) < MaxOverlap /\ operations < MaxOperations
  /\ operations' = operations + 1
  /\ announcing' = announcing \cup {[type |-> type, subject |-> subject, published |-> FALSE]}
  /\ UNCHANGED <<recorded, factFaults>>

publish(call) ==
  /\ ~call.published
  /\ announcing' = (announcing \ {call}) \cup {[call EXCEPT !.published = TRUE]}
  /\ UNCHANGED <<recorded, operations, factFaults>>

record(call) ==
  /\ call.published
  /\ announcing' = announcing \ {call}
  /\ recorded' = recorded \cup {Fact(call)}
  /\ UNCHANGED <<operations, factFaults>>

AnnouncementFails(call) ==
  /\ factFaults < MaxFactFaults /\ factFaults' = factFaults + 1
  /\ announcing' = announcing \ {call}
  /\ UNCHANGED <<recorded, operations>>

FactsNext == \E call \in announcing : publish(call) \/ record(call) \/ AnnouncementFails(call)

FactsTypeOK ==
  /\ \A call \in announcing : call.published \in BOOLEAN
  /\ Cardinality(announcing) <= MaxOverlap
  /\ Cardinality(recorded) + Cardinality(announcing) + factFaults <= operations
  /\ operations \in 0..MaxOperations /\ factFaults \in 0..MaxFactFaults
=============================================================================
