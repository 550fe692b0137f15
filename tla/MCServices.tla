------------------------------ MODULE MCServices ------------------------------
(* The scheduler, the human interactions and the event bus for TLC.  They      *)
(* share nothing: a behaviour runs one of them, so that the state space is the *)
(* sum of theirs.                                                              *)
EXTENDS Scheduler, HumanInteraction, EventBus, TLC

VARIABLE service

Init ==
  /\ service \in {"scheduler", "interaction", "bus"}
  /\ SchedulerInit /\ InteractionInit /\ BusInit

Next ==
  \/ /\ service = "scheduler" /\ SchedulerNext
     /\ UNCHANGED <<service, interactionVars, busVars>>
  \/ /\ service = "interaction" /\ InteractionNext
     /\ UNCHANGED <<service, schedulerVars, busVars>>
  \/ /\ service = "bus" /\ BusNext
     /\ UNCHANGED <<service, schedulerVars, interactionVars>>

vars == <<service, schedulerVars, interactionVars, busVars>>

Spec ==
  /\ Init /\ [][Next]_vars
  /\ SchedulerFairness /\ InteractionFairness /\ BusFairness

(* Every wait has an end: of a queued job, of an interaction with its quorum, of  *)
(* a committed intent (scheduler, human-interaction and event-bus index.ts).        *)
ServicesEnd == JobResolved /\ QuorumResolved /\ OutboxDrains

----------------------------------------------------------------------------
(* Job 1 runs on a clock and is triggered twice, each time for one hand-off;   *)
(* job 2 is triggered by hand, once, comes first and backs off.                *)

JobDefinitions ==
  1 :> [schedule |-> [type |-> "clock", eligibleAt |-> 1], priority |-> 0,
        expiresAt |-> 2, strategy |-> "fixed", maximumAttempts |-> 3,
        maximumDispatchAttempts |-> 1, baseDelay |-> 0, maximumDelay |-> 0]
  @@
  2 :> [schedule |-> [type |-> "manual"], priority |-> 1, expiresAt |-> 2,
        strategy |-> "exponential", maximumAttempts |-> 2,
        maximumDispatchAttempts |-> 3, baseDelay |-> 1, maximumDelay |-> 2]
Triggers == 1 :> 2 @@ 2 :> 1

ByParticipant == 1 :> "p" @@ 2 :> "q"
Policy(type, approvals, expiration, participants) ==
  [type |-> type, requiredApprovals |-> approvals, conflicting |-> "escalate",
   expiration |-> expiration, minimumParticipants |-> participants]
SomePolicies == {Policy("first-valid", 1, "reject", 3),
                 Policy("all-approvers", 2, "escalate", 2)}

(* Event 1 goes to a subscription that retries and one that may not see it,    *)
(* event 2 to one that asks for the ordering key it has not.                   *)
EventTable ==
  1 :> [type |-> "a", tenant |-> "t", keyed |-> TRUE] @@
  2 :> [type |-> "b", tenant |-> "t", keyed |-> FALSE]
Subscription(types, authorized, ordering, attempts, replay) ==
  [types |-> types, tenant |-> "t", enabled |-> TRUE, authorized |-> authorized,
   ordering |-> ordering, maximumAttempts |-> attempts,
   retriesTransient |-> TRUE, replay |-> replay]
SubscriptionTable ==
  "s1" :> Subscription({"a"}, TRUE, "unordered", 2, "replay-safe") @@
  "s2" :> Subscription({"a"}, FALSE, "unordered", 1, "prohibited") @@
  "s3" :> Subscription({"b"}, TRUE, "ordering-key", 1, "prohibited")

=============================================================================
