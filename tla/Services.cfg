SPECIFICATION Spec
CONSTANTS
  Jobs = {1, 2}
  Definition <- JobDefinitions
  Dispatchers = {d1, d2}
  MaxTriggers <- Triggers
  MaxFactFaults = 1
  MaxTime = 2
  Participants = {"p", "q"}
  Replies = {1, 2}
  ReplyBy <- ByParticipant
  ResponseTypes = {"approve", "reject"}
  InteractionPolicies <- SomePolicies
  MaxRedeliveries = 1
  MaxInteractionFaults = 1
  Events = {1, 2}
  EventInfo <- EventTable
  Subscriptions = {"s1", "s2", "s3"}
  SubscriptionInfo <- SubscriptionTable
  MaxPublications = 2
  MaxBusFaults = 1
INVARIANTS SchedulerInv BusInv
PROPERTIES RetiredAtRest InteractionCorrect ServicesEnd
CHECK_DEADLOCK FALSE
