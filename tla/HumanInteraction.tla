--------------------------- MODULE HumanInteraction ---------------------------
(***************************************************************************)
(* HumanInteractionFramework (packages/human-interaction/src/index.ts)     *)
(* over its in-memory store, with the validator and the two response       *)
(* policies of reference.ts: one interaction that is issued to             *)
(* participants, answered by them, and may be expired or cancelled.        *)
(* Every operation runs up to its next await; what it read before an await *)
(* it still uses afterwards.  The store appends to the record of the       *)
(* moment, whatever the caller had read.                                   *)
(***************************************************************************)
EXTENDS Naturals, FiniteSets, Sequences, SequencesExt

CONSTANTS
  Participants,        \* who is eligible to respond
  Replies,             \* calls of respond(), one response identifier each
  ReplyBy,             \* [Replies -> Participants]
  ResponseTypes,       \* the response types the participants use
  InteractionPolicies, \* the policies of the request to check
  MaxRedeliveries,     \* bound: calls of retryDelivery()
  MaxInteractionFaults \* bound: rejected publications of a completion

VARIABLES
  policy,       \* the interactionPolicy and expirationPolicy of the request
  record,       \* InteractionRecord: state, responses, delivered, result
  issuing,      \* where issue() awaits, and how many it has still to deliver to
  replying,     \* [Replies -> where respond() awaits, its snapshot]
  redelivering, \* the records that retryDelivery() calls under way have read
  overdue,      \* the clock has passed expiresAt
  told,         \* history: the results given to runtime.completed
  unspent       \* what is left of MaxRedeliveries and MaxInteractionFaults

interactionVars ==
  <<policy, record, issuing, replying, redelivering, overdue, told, unspent>>

InteractionState ==
  {"unknown", "created", "issued", "delivered", "delivery-failed",
   "awaiting-response", "validated", "completed", "expired", "escalated",
   "cancelled"}
CompletionStatus ==
  {"approved", "rejected", "conditionally-approved", "information-provided",
   "correction-provided", "confirmed", "escalated", "cancelled", "inconclusive"}
ResponseType ==
  {"approve", "reject", "conditional-approval", "defer", "input", "correction",
   "confirm", "escalate"}
InteractionPolicy ==
  [type : {"first-valid", "all-approvers"}, requiredApprovals : Nat,
   conflicting : {"escalate", "reject", "inconclusive"},
   expiration : {"escalate", "reject", "cancel", "inconclusive"},
   minimumParticipants : Nat \ {0}]

HumanResponse == [by : Participants, type : ResponseType]
ASSUME InteractionAssumption ==
  /\ IsFiniteSet(Participants)
  /\ ReplyBy \in [Replies -> Participants]
  /\ ResponseTypes \subseteq ResponseType
  /\ InteractionPolicies \subseteq InteractionPolicy
  /\ MaxRedeliveries \in Nat /\ MaxInteractionFaults \in Nat

Pending == "none"          \* the status of a record without a result
NoResult == [status |-> Pending, responses |-> <<>>]
HumanInteractionResult ==
  [status : CompletionStatus \cup {Pending}, responses : Seq(HumanResponse)]

InteractionInit ==
  /\ policy \in InteractionPolicies
  /\ record = [state |-> "unknown", responses |-> <<>>, delivered |-> FALSE,
               result |-> NoResult]
  /\ issuing = [at |-> "idle", left |-> 0]
  /\ replying = [r \in Replies |-> [at |-> "idle", seen |-> <<>>]]
  /\ redelivering = {}
  /\ overdue = FALSE
  /\ told = <<>>
  /\ unspent = [redeliveries |-> MaxRedeliveries, faults |-> MaxInteractionFaults]

----------------------------------------------------------------------------
(* The response policies.  A decision is a status, or Pending.  Nothing     *)
(* tells a status with conditions from one without.                         *)

decision(type) ==
  CASE type = "approve" -> "approved"
    [] type = "conditional-approval" -> "conditionally-approved"
    [] type = "reject" -> "rejected"
    [] type = "defer" -> Pending
    [] type = "correction" -> "correction-provided"
    [] type = "confirm" -> "confirmed"
    [] type = "escalate" -> "escalated"
    [] OTHER -> "information-provided"

FirstValid(responses) ==
  IF responses = <<>> THEN Pending ELSE decision(responses[1].type)

\* each principal counts with the last response
Latest(responses) ==
  {responses[i].type : i \in {k \in DOMAIN responses :
     \A l \in k + 1 .. Len(responses) : responses[l].by # responses[k].by}}
Principals(responses) == {responses[i].by : i \in DOMAIN responses}

Lesser(m, n) == IF m < n THEN m ELSE n

AllApprovers(responses) ==
  LET types == Latest(responses)
      approve == types \cap {"approve", "conditional-approval"} # {}
      quorum == Lesser(policy.requiredApprovals, Cardinality(Participants))
  IN IF "reject" \in types /\ approve
     THEN CASE policy.conflicting = "reject" -> "rejected"
            [] policy.conflicting = "inconclusive" -> "inconclusive"
            [] OTHER -> "escalated"
     ELSE IF Cardinality(Principals(responses)) < quorum THEN Pending
     ELSE IF "reject" \in types THEN "rejected"
     ELSE IF "conditional-approval" \in types THEN "conditionally-approved"
     ELSE "approved"

decide(responses) ==
  IF policy.type = "first-valid" THEN FirstValid(responses)
  ELSE AllApprovers(responses)

----------------------------------------------------------------------------
(* issue() *)

Create ==
  /\ record.state = "unknown"
  /\ record' = [record EXCEPT !.state = "created"]
  /\ issuing' = [at |-> "resolve", left |-> Cardinality(Participants)]
  /\ UNCHANGED <<policy, replying, redelivering, overdue, told, unspent>>

\* too few participants: the interaction stays created
Unresolved ==
  /\ issuing.at = "resolve"
  /\ Cardinality(Participants) < policy.minimumParticipants
  /\ issuing' = [at |-> "failed", left |-> 0]
  /\ UNCHANGED <<policy, record, replying, redelivering, overdue, told, unspent>>

\* the record passes through authorized to issued
Issue ==
  /\ issuing.at = "resolve"
  /\ Cardinality(Participants) >= policy.minimumParticipants
  /\ record' = [record EXCEPT !.state = "issued"]
  /\ issuing' = [issuing EXCEPT !.at = "deliver"]
  /\ UNCHANGED <<policy, replying, redelivering, overdue, told, unspent>>

Deliver(delivered) ==
  /\ issuing.at = "deliver" /\ issuing.left > 0
  /\ record' = [record EXCEPT
       !.state = IF delivered THEN "delivered" ELSE "delivery-failed",
       !.delivered = @ \/ delivered]
  /\ issuing' = [issuing EXCEPT !.left = @ - 1]
  /\ UNCHANGED <<policy, replying, redelivering, overdue, told, unspent>>

Await ==
  /\ issuing = [at |-> "deliver", left |-> 0]
  /\ record' = [record EXCEPT
       !.state = IF record.delivered THEN "awaiting-response" ELSE @]
  /\ issuing' = [issuing EXCEPT !.at = "done"]
  /\ UNCHANGED <<policy, replying, redelivering, overdue, told, unspent>>

(* retryDelivery(): the state it writes is the one it read. *)
Redeliver ==
  /\ record.state # "unknown"
  /\ unspent.redeliveries > 0
  /\ unspent' = [unspent EXCEPT !.redeliveries = @ - 1]
  /\ redelivering' = redelivering \cup {record.state}
  /\ UNCHANGED <<policy, record, issuing, replying, overdue, told>>

Redelivered(state, delivered) ==
  /\ state \in redelivering
  /\ record' = [record EXCEPT !.state = state, !.delivered = @ \/ delivered]
  /\ redelivering' = redelivering \ {state}
  /\ UNCHANGED <<policy, issuing, replying, overdue, told, unspent>>

----------------------------------------------------------------------------
(* respond() *)

\* DeterministicResponseValidator: an invalid response changes nothing, and a
\* repeated response identifier is answered without effect
Valid == ~overdue /\ record.state # "cancelled" /\ record.result = NoResult

\* Seeded bug: no test for a result.
Respond_Late(r, type) ==
  /\ record.state \notin {"unknown", "cancelled"} /\ replying[r].at = "idle"
  /\ ~overdue
  /\ record' = [record EXCEPT !.state = "validated",
                  !.responses = Append(@, [by |-> ReplyBy[r], type |-> type])]
  /\ replying' = [replying EXCEPT ![r] = [at |-> "resolve",
                                          seen |-> record'.responses]]
  /\ UNCHANGED <<policy, issuing, redelivering, overdue, told, unspent>>

Respond(r, type) ==
  /\ record.state # "unknown" /\ replying[r].at = "idle"
  /\ Valid
  /\ record' = [record EXCEPT !.state = "validated",
                  !.responses = Append(@, [by |-> ReplyBy[r], type |-> type])]
  /\ replying' = [replying EXCEPT ![r] = [at |-> "resolve",
                                          seen |-> record'.responses]]
  /\ UNCHANGED <<policy, issuing, redelivering, overdue, told, unspent>>

Undecided(r) ==
  /\ replying[r].at = "resolve"
  /\ decide(replying[r].seen) = Pending
  /\ replying' = [replying EXCEPT ![r].at = "done"]
  /\ UNCHANGED <<policy, record, issuing, redelivering, overdue, told, unspent>>

\* the result is stored over whatever result there is by now
Complete(r) ==
  /\ replying[r].at = "resolve"
  /\ decide(replying[r].seen) # Pending
  /\ record' = [record EXCEPT !.state = "completed",
       !.result = [status |-> decide(replying[r].seen),
                   responses |-> replying[r].seen]]
  /\ replying' = [replying EXCEPT ![r].at = "tell"]
  /\ UNCHANGED <<policy, issuing, redelivering, overdue, told, unspent>>

\* runtime.completed, after the events and the audit
Tell(r) ==
  /\ replying[r].at = "tell"
  /\ told' = Append(told, [status |-> decide(replying[r].seen),
                           responses |-> replying[r].seen])
  /\ replying' = [replying EXCEPT ![r].at = "done"]
  /\ UNCHANGED <<policy, record, issuing, redelivering, overdue, unspent>>

\* publishCompletion rejects: the Runtime is not told, and nobody tells it later
Untold(r) ==
  /\ replying[r].at = "tell"
  /\ unspent.faults > 0
  /\ unspent' = [unspent EXCEPT !.faults = @ - 1]
  /\ replying' = [replying EXCEPT ![r].at = "untold"]
  /\ UNCHANGED <<policy, record, issuing, redelivering, overdue, told>>

----------------------------------------------------------------------------
(* expire() and cancel(): the first tests for a result, the second does not. *)

ExpirationStatus ==
  CASE policy.expiration = "escalate" -> "escalated"
    [] policy.expiration = "reject" -> "rejected"
    [] policy.expiration = "cancel" -> "cancelled"
    [] OTHER -> "inconclusive"

ExpireInteraction ==
  /\ record.state # "unknown"
  /\ record.result = NoResult
  /\ record' = [record EXCEPT
       !.state = IF policy.expiration = "escalate" THEN "escalated" ELSE "expired",
       !.result = [status |-> ExpirationStatus, responses |-> record.responses]]
  /\ UNCHANGED <<policy, issuing, replying, redelivering, overdue, told, unspent>>

CancelInteraction ==
  /\ record.state # "unknown"
  /\ record' = [record EXCEPT
       !.state = "cancelled",
       !.result = [status |-> "cancelled", responses |-> record.responses]]
  /\ UNCHANGED <<policy, issuing, replying, redelivering, overdue, told, unspent>>

Overdue ==
  /\ ~overdue
  /\ overdue' = TRUE
  /\ UNCHANGED <<policy, record, issuing, replying, redelivering, told, unspent>>

InteractionNext ==
  \/ Create \/ Unresolved \/ Issue \/ Await \/ Redeliver
  \/ \E ok \in BOOLEAN : Deliver(ok)
  \/ \E s \in redelivering, ok \in BOOLEAN : Redelivered(s, ok)
  \/ \E r \in Replies : \/ \E type \in ResponseTypes : Respond(r, type)
                        \/ Undecided(r) \/ Complete(r) \/ Tell(r) \/ Untold(r)
  \/ ExpireInteraction \/ CancelInteraction \/ Overdue

\* The resolver, the event port and the audit answer.
InteractionFairness ==
  \A r \in Replies : /\ WF_interactionVars(Undecided(r) \/ Complete(r))
                     /\ WF_interactionVars(Tell(r))

InteractionSpec ==
  /\ InteractionInit /\ [][InteractionNext]_interactionVars
  /\ InteractionFairness

----------------------------------------------------------------------------
(* Properties *)

InteractionTypeOK ==
  /\ policy \in InteractionPolicy
  /\ record \in [state : InteractionState, responses : Seq(HumanResponse),
                 delivered : BOOLEAN, result : HumanInteractionResult]
  /\ issuing \in [at : {"idle", "resolve", "deliver", "done", "failed"},
                  left : 0 .. Cardinality(Participants)]
  /\ replying \in [Replies -> [at : {"idle", "resolve", "tell", "done", "untold"},
                               seen : Seq(HumanResponse)]]
  /\ redelivering \in SUBSET InteractionState
  /\ overdue \in BOOLEAN
  /\ told \in Seq(HumanInteractionResult)
  /\ unspent \in [redeliveries : 0 .. MaxRedeliveries, faults : 0 .. MaxInteractionFaults]

\* Once there is a result no response is recorded any more, and the result is
\* replaced but never lost, although deliveries, responses under way, expiry
\* and cancellation go on writing the record (respond() tests for the result in
\* the step that appends).
ResponsesClosed ==
  [][record.result # NoResult =>
       record'.responses = record.responses /\ record'.result # NoResult]_interactionVars

\* Under all-approvers the interaction gets a result once every participant has
\* responded, whatever the order in which their concurrent respond() calls get
\* their eligible participants, and the Runtime is told of a result a response
\* completed unless its publication fails.
QuorumResolved ==
  /\ policy.type = "all-approvers" /\ Principals(record.responses) = Participants
       ~> record.result # NoResult
  /\ \A r \in Replies : replying[r].at = "tell" ~> replying[r].at \in {"done", "untold"}

\* An approval the Runtime is told of rests on an approving response: silence
\* and deferral are no approval (human-interaction.spec.ts:25).  Refuted where
\* ResponseTypes has "defer": AllApprovers counts deferrals to its quorum and approves.
DeferIsNoApproval ==
  \A i \in DOMAIN told : told[i].status = "approved" =>
    \E k \in DOMAIN told[i].responses : told[i].responses[k].type = "approve"

\* There is one result: a response does not complete an interaction that has one
\* already ("the sole immutable descriptive completion artifact", specification 20,
\* line 11).  Refuted: respond() tests for a result before it awaits the resolver, and
\* its completion replaces a cancellation, or the completion of a response beside it.
SoleResult ==
  [][record.result # NoResult /\ record'.state = "completed"
       => record'.result = record.result]_interactionVars

\* An interaction that has a result takes no more responses and keeps a result, if
\* not always the same, whatever goes on writing it (human-interaction/src/index.ts 45-49).
InteractionCorrect == []InteractionTypeOK /\ ResponsesClosed

=============================================================================
