------------------------------- MODULE EventBus -------------------------------
(***************************************************************************)
(* EventBus, OutboxPublisher (packages/event-bus/src/index.ts) and the     *)
(* idempotent subscriber, replay store and intent store of reference.ts.   *)
(* An outbox flush publishes the committed intents one after the other; a  *)
(* publication delivers its event to all routed subscriptions at once, and *)
(* each delivery retries, gives up and is recorded on its own.  A delivery *)
(* that throws makes its publication reject while its siblings go on, and  *)
(* the intent is published again.  A crash stops what runs and leaves what *)
(* is stored: intents, inboxes, replay store, journal.                     *)
(***************************************************************************)
EXTENDS Naturals, FiniteSets, Sequences

CONSTANTS
  Events,           \* event identifiers; naturals, in the order of the outbox
  EventInfo,        \* [Events -> type, tenant, keyed]
  Subscriptions,
  SubscriptionInfo, \* [Subscriptions -> EventSubscription]
  MaxPublications,  \* bound: publications and replays
  MaxBusFaults      \* bound: crashes and deliveries that throw

VARIABLES
  intents,       \* PublicationIntentStore: [Events -> state of the intent]
  replayStore,   \* ReplayStore: the events it holds
  flush,         \* the running flush(): the intents still to publish
  publications,  \* publications and replays so far: event, mode, state
  deliveries,    \* deliveries under way: publication, subscription, step
  inbox,         \* [Subscriptions -> events marked as handled]
  journal,       \* DeliveryJournal: outcomes as <<event, subscription, status>>
  started,       \* history: [Events -> [Subscriptions -> runs of the handler]]
  excused,       \* history: runs that ended without a mark, or overlapped
  busFaults

busVars == <<intents, replayStore, flush, publications, deliveries, inbox,
             journal, started, excused, busFaults>>

EventSubscription ==
  [types : SUBSET STRING, tenant : STRING, enabled : BOOLEAN, authorized : BOOLEAN,
   ordering : {"unordered", "ordering-key"}, maximumAttempts : Nat \ {0},
   retriesTransient : BOOLEAN, replay : {"replay-safe", "prohibited"}]
IntentState == {"uncommitted", "pending", "published"}
Status == {"acknowledged", "filtered", "failed", "dead-lettered"}
Publication == [event : Events, mode : {"live", "replay"},
                state : {"open", "resolved", "rejected"}]
Delivery == [pub : Nat, sub : Subscriptions, attempt : Nat,
             at : {"authorize", "handle", "handling"}]

ASSUME SubscriptionAssumption ==
  SubscriptionInfo \in [Subscriptions -> EventSubscription]

ASSUME BusAssumption ==
  /\ Events \subseteq Nat /\ IsFiniteSet(Events) /\ IsFiniteSet(Subscriptions)
  /\ MaxPublications \in Nat /\ MaxBusFaults \in Nat

BusInit ==
  /\ intents = [e \in Events |-> "uncommitted"]
  /\ replayStore = {}
  /\ flush = <<>>
  /\ publications = <<>>
  /\ deliveries = {}
  /\ inbox = [s \in Subscriptions |-> {}]
  /\ journal = {}
  /\ started = [e \in Events |-> [s \in Subscriptions |-> 0]]
  /\ excused = [e \in Events |-> [s \in Subscriptions |-> 0]]
  /\ busFaults = 0

----------------------------------------------------------------------------
(* Routing and visibility *)

\* DeterministicEventRouter.route
Routed(e) ==
  {s \in Subscriptions :
     /\ SubscriptionInfo[s].enabled
     /\ EventInfo[e].type \in SubscriptionInfo[s].types
     /\ EventInfo[e].tenant = SubscriptionInfo[s].tenant}

\* visible(): the decision that the subscription's reference names
Visible(s) == SubscriptionInfo[s].authorized

Unkeyed(e, s) ==
  SubscriptionInfo[s].ordering = "ordering-key" /\ ~EventInfo[e].keyed

EventOf(d) == publications[d.pub].event
Of(i) == {d \in deliveries : d.pub = i}
journalled(d, status) ==
  journal' = journal \cup {<<EventOf(d), d.sub, status>>}

----------------------------------------------------------------------------
(* The outbox *)

Commit(e) ==
  /\ intents[e] = "uncommitted"
  /\ intents' = [intents EXCEPT ![e] = "pending"]
  /\ UNCHANGED <<replayStore, flush, publications, deliveries, inbox, journal,
                 started, excused, busFaults>>

\* Seeded bug: an intent that was tried once is not pending any more.
PendingIntents_Untried ==
  {e \in Events : intents[e] = "pending"
                 /\ \A i \in DOMAIN publications : publications[i].event # e}

PendingIntents == {e \in Events : intents[e] = "pending"}

Busy == \E i \in DOMAIN publications :
          publications[i].mode = "live" /\ publications[i].state = "open"

\* pending(): in the order of the outbox
InOrder(events) ==
  {order \in [1 .. Cardinality(events) -> events] :
     \A i, j \in DOMAIN order : i < j => order[i] < order[j]}

Flush ==
  /\ flush = <<>> /\ ~Busy
  /\ PendingIntents # {}
  /\ flush' \in InOrder(PendingIntents)
  /\ UNCHANGED <<intents, replayStore, publications, deliveries, inbox, journal,
                 started, excused, busFaults>>

Open(e, mode, subs) ==
  /\ Len(publications) < MaxPublications
  /\ publications' = Append(publications, [event |-> e, mode |-> mode, state |-> "open"])
  /\ deliveries' = deliveries \cup
       {[pub |-> Len(publications) + 1, sub |-> s, attempt |-> 1,
         at |-> "authorize"] : s \in subs}

\* publish(): the event enters the replay store once
Publish ==
  /\ flush # <<>> /\ ~Busy
  /\ Open(Head(flush), "live", Routed(Head(flush)))
  /\ flush' = Tail(flush)
  /\ replayStore' = replayStore \cup {Head(flush)}
  /\ UNCHANGED <<intents, inbox, journal, started, excused, busFaults>>

\* Promise.all resolves, then markPublished
Published(i) ==
  /\ publications[i].state = "open"
  /\ publications[i].mode = "live"
  /\ Of(i) = {}
  /\ publications' = [publications EXCEPT ![i].state = "resolved"]
  /\ intents' = [intents EXCEPT ![publications[i].event] = "published"]
  /\ UNCHANGED <<replayStore, flush, deliveries, inbox, journal, started,
                 excused, busFaults>>

(* replay(): a request that selects one event *)
Replay(e, s) ==
  /\ e \in replayStore
  /\ SubscriptionInfo[s].replay # "prohibited"
  /\ Open(e, "replay", {s})
  /\ UNCHANGED <<intents, replayStore, flush, inbox, journal, started, excused,
                 busFaults>>

Replayed(i) ==
  /\ publications[i].state = "open"
  /\ publications[i].mode = "replay"
  /\ Of(i) = {}
  /\ publications' = [publications EXCEPT ![i].state = "resolved"]
  /\ UNCHANGED <<intents, replayStore, flush, deliveries, inbox, journal,
                 started, excused, busFaults>>

----------------------------------------------------------------------------
(* #deliver() *)

\* an event the subscriber may not see, or one without the key its ordering
\* asks for, is recorded and not handed over
Withhold(d) ==
  /\ d.at = "authorize"
  /\ ~Visible(d.sub) \/ Unkeyed(EventOf(d), d.sub)
  /\ journalled(d, IF Visible(d.sub) THEN "failed" ELSE "filtered")
  /\ deliveries' = deliveries \ {d}
  /\ UNCHANGED <<intents, replayStore, flush, publications, inbox, started,
                 excused, busFaults>>

\* on to the subscriber: authorized, or to be tried again
Ready(d) ==
  \/ d.at = "handle"
  \/ d.at = "authorize" /\ Visible(d.sub) /\ ~Unkeyed(EventOf(d), d.sub)

\* the authorizer throws, or the subscriber was unregistered meanwhile
DeliveryThrows(d) ==
  /\ d.at = "authorize"
  /\ busFaults < MaxBusFaults
  /\ busFaults' = busFaults + 1
  /\ deliveries' = deliveries \ {d}
  /\ publications' = [publications EXCEPT ![d.pub].state = "rejected"]
  /\ UNCHANGED <<intents, replayStore, flush, inbox, journal, started, excused>>

Excuse(e, s, n) == excused' = [excused EXCEPT ![e][s] = @ + n]

\* Seeded bug: the inbox is not consulted.
Handled_Again(d) == FALSE

\* IdempotentSubscriber.handle: an event in the inbox is acknowledged unhandled
Handled(d) == EventOf(d) \in inbox[d.sub]

Skip(d) ==
  /\ Ready(d)
  /\ Handled(d)
  /\ journalled(d, "acknowledged")
  /\ deliveries' = deliveries \ {d}
  /\ UNCHANGED <<intents, replayStore, flush, publications, inbox, started,
                 excused, busFaults>>

Handling(e, s) ==
  {c \in deliveries : EventOf(c) = e /\ c.sub = s /\ c.at = "handling"}

Handle(d) ==
  /\ Ready(d)
  /\ ~Handled(d)
  /\ deliveries' = (deliveries \ {d}) \cup {[d EXCEPT !.at = "handling"]}
  /\ started' = [started EXCEPT ![EventOf(d)][d.sub] = @ + 1]
  /\ Excuse(EventOf(d), d.sub, IF Handling(EventOf(d), d.sub) = {} THEN 0 ELSE 1)
  /\ UNCHANGED <<intents, replayStore, flush, publications, inbox, journal,
                 busFaults>>

Acknowledge(d) ==
  /\ d.at = "handling"
  /\ inbox' = [inbox EXCEPT ![d.sub] = @ \cup {EventOf(d)}]
  /\ journalled(d, "acknowledged")
  /\ deliveries' = deliveries \ {d}
  /\ UNCHANGED <<intents, replayStore, flush, publications, started, excused,
                 busFaults>>

\* normalizeFailure: only transient categories are retryable, and only if the
\* subscription's policy names them
Final(d, transient) ==
  \/ d.attempt = SubscriptionInfo[d.sub].maximumAttempts
  \/ ~transient
  \/ ~SubscriptionInfo[d.sub].retriesTransient

HandlerFails(d, transient) ==
  /\ d.at = "handling"
  /\ journalled(d, IF Final(d, transient) THEN "dead-lettered" ELSE "failed")
  /\ deliveries' = (deliveries \ {d}) \cup
       (IF Final(d, transient) THEN {}
        ELSE {[d EXCEPT !.at = "handle", !.attempt = @ + 1]})
  /\ Excuse(EventOf(d), d.sub, 1)
  /\ UNCHANGED <<intents, replayStore, flush, publications, inbox, started,
                 busFaults>>

BusCrash ==
  /\ busFaults < MaxBusFaults
  /\ busFaults' = busFaults + 1
  /\ excused' = [e \in Events |-> [s \in Subscriptions |->
                   excused[e][s] + Cardinality(Handling(e, s))]]
  /\ deliveries' = {}
  /\ flush' = <<>>
  /\ publications' = [i \in DOMAIN publications |->
       [publications[i] EXCEPT !.state = IF @ = "open" THEN "rejected" ELSE @]]
  /\ UNCHANGED <<intents, replayStore, inbox, journal, started>>

Attempt(d) == \/ Withhold(d) \/ DeliveryThrows(d)
              \/ Skip(d) \/ Handle(d) \/ Acknowledge(d)
              \/ \E transient \in BOOLEAN : HandlerFails(d, transient)

BusNext ==
  \/ \E e \in Events : Commit(e)
  \/ Flush \/ Publish
  \/ \E i \in DOMAIN publications : Published(i) \/ Replayed(i)
  \/ \E e \in Events, s \in Subscriptions : Replay(e, s)
  \/ \E d \in deliveries : Attempt(d)
  \/ BusCrash

\* The outbox is polled; authorizer, subscribers and stores answer.
BusFairness ==
  /\ WF_busVars(Flush) /\ WF_busVars(Publish)
  /\ WF_busVars(\E d \in deliveries : Attempt(d))
  /\ WF_busVars(\E i \in DOMAIN publications : Published(i) \/ Replayed(i))

BusSpec == BusInit /\ [][BusNext]_busVars /\ BusFairness

----------------------------------------------------------------------------
(* Properties *)

BusTypeOK ==
  /\ intents \in [Events -> IntentState]
  /\ replayStore \in SUBSET Events
  /\ flush \in Seq(Events)
  /\ publications \in Seq(Publication)
  /\ deliveries \in SUBSET Delivery
  /\ inbox \in [Subscriptions -> SUBSET Events]
  /\ journal \in SUBSET (Events \X Subscriptions \X Status)
  /\ started \in [Events -> [Subscriptions -> Nat]]
  /\ excused \in [Events -> [Subscriptions -> Nat]]
  /\ busFaults \in 0 .. MaxBusFaults

Settled(e, s) ==
  \E status \in {"acknowledged", "dead-lettered"} : <<e, s, status>> \in journal

Withheld(e, s) == \/ ~Visible(s) /\ <<e, s, "filtered">> \in journal
                  \/ Unkeyed(e, s) /\ <<e, s, "failed">> \in journal

\* At least once: the intent of an event is marked published only when every
\* subscription it is routed to has settled it, through rejected publications,
\* siblings that outlive them and crashes in between.
PublishedIsSettled ==
  \A e \in Events : intents[e] = "published" =>
    \A s \in Routed(e) : Settled(e, s) \/ Withheld(e, s)

\* The handler of an idempotent subscriber runs once for an event, except for
\* runs that ended without their mark and runs that began during another.
HandledOnce ==
  \A e \in Events, s \in Subscriptions : started[e][s] <= 1 + excused[e][s]

\* A committed intent is published in the end, however often its publication is
\* rejected or cut off, unless the bound on publications is used up.
OutboxDrains ==
  \A e \in Events : intents[e] = "pending" ~>
    intents[e] = "published" \/ Len(publications) = MaxPublications

\* Events of one ordering key are handled by a subscription that asks for
\* ordering in the order in which they were first published.  Refuted: the key
\* is required and looked at by nothing.
KeyOrder ==
  \A i, j \in DOMAIN publications :
    LET e == publications[i].event
        f == publications[j].event
    IN i < j /\ e # f /\ EventInfo[e].keyed /\ EventInfo[f].keyed =>
         \A s \in Routed(e) \cap Routed(f) :
           /\ SubscriptionInfo[s].ordering = "ordering-key"
           /\ \A k \in 1 .. i : publications[k].event # f
           /\ f \in inbox[s]
           => Settled(e, s)

\* What the two ends of the bus promise together: at least once to every
\* subscription, and once to the handler of an idempotent one (reference.ts, index.ts).
BusInv == BusTypeOK /\ PublishedIsSettled /\ HandledOnce

=============================================================================
