----------------------------- MODULE ServicesProofs -----------------------------
(* Three services, for every number of jobs, callers, participants, events and    *)
(* faults: the event bus delivers at least once, and once to a handler (BusInv);    *)
(* a closed interaction takes no more responses (InteractionCorrect); a cancelled or  *)
(* expired job that nobody holds rests (RetiredAtRest).                                *)
EXTENDS EventBus, HumanInteraction, Scheduler, FiniteSetTheorems, TLAPS

-----------------------------------------------------------------------------
(* The event bus: the inductive invariant. *)

\* a delivery belongs to a publication
Addressed == \A d \in deliveries : d.pub \in DOMAIN publications

\* what an open publication has not settled is still being delivered
Promised ==
  \A i \in DOMAIN publications :
    publications[i].mode = "live" /\ publications[i].state = "open" =>
      \A s \in Routed(publications[i].event) :
        \/ Settled(publications[i].event, s) \/ Withheld(publications[i].event, s)
        \/ \E d \in deliveries : d.pub = i /\ d.sub = s

\* one run of a handler is neither marked nor excused only while it goes on
Current(e, s) == IF Handling(e, s) # {} \/ e \in inbox[s] THEN 1 ELSE 0
RunsOnce ==
  \A e \in Events, s \in Subscriptions : started[e][s] <= excused[e][s] + Current(e, s)

BusIInv == /\ BusTypeOK /\ IsFiniteSet(deliveries) /\ Addressed
           /\ PublishedIsSettled /\ Promised /\ RunsOnce

LEMMA BusIInvImplies == BusIInv => BusInv
<1> SUFFICES ASSUME BusIInv PROVE HandledOnce
  BY DEF BusIInv, BusInv
<1>1. ASSUME NEW e \in Events, NEW s \in Subscriptions
      PROVE  started[e][s] <= 1 + excused[e][s]
  <2>1. started[e][s] \in Nat /\ excused[e][s] \in Nat /\ Current(e, s) \in {0, 1}
    BY DEF BusIInv, BusTypeOK, Current
  <2>2. started[e][s] <= excused[e][s] + Current(e, s)
    BY DEF BusIInv, RunsOnce
  <2>3. QED
    BY <2>1, <2>2
<1>2. QED
  BY <1>1 DEF HandledOnce

LEMMA BusInitOK == BusInit => BusIInv
<1> SUFFICES ASSUME BusInit PROVE BusIInv
  OBVIOUS
<1>1. BusTypeOK
  BY BusAssumption DEF BusInit, BusTypeOK, IntentState
<1>2. IsFiniteSet(deliveries) /\ Addressed
  BY FS_EmptySet DEF BusInit, Addressed
<1>3. PublishedIsSettled /\ Promised
  BY DEF BusInit, PublishedIsSettled, Promised
<1>4. RunsOnce
  BY DEF BusInit, RunsOnce, Current
<1>5. QED
  BY <1>1, <1>2, <1>3, <1>4 DEF BusIInv

-----------------------------------------------------------------------------
(* The event bus: the parts, step by step. *)

\* a delivery of a subscription that is left alone or moves on
LEMMA DeliveryType ==
  ASSUME BusTypeOK, NEW d \in deliveries
  PROVE  /\ d \in Delivery /\ d.sub \in Subscriptions /\ d.pub \in Nat
         /\ [d EXCEPT !.at = "handling"] \in Delivery
         /\ [d EXCEPT !.at = "handle", !.attempt = @ + 1] \in Delivery
<1>1. d \in [pub : Nat, sub : Subscriptions, attempt : Nat,
             at : {"authorize", "handle", "handling"}]
  BY DEF BusTypeOK, Delivery
<1>2. [d EXCEPT !.at = "handling"] \in Delivery
  BY <1>1 DEF Delivery
<1>3. [d EXCEPT !.at = "handle", !.attempt = @ + 1] \in Delivery
  <2>1. ASSUME NEW n \in Nat PROVE [d EXCEPT !.at = "handle", !.attempt = n] \in Delivery
    BY <1>1 DEF Delivery
  <2>2. d.attempt + 1 \in Nat
    BY <1>1
  <2>3. QED
    BY <2>1, <2>2
<1>4. QED
  BY <1>1, <1>2, <1>3 DEF Delivery

LEMMA PublicationType ==
  ASSUME BusTypeOK
  PROVE  /\ DOMAIN publications = 1 .. Len(publications) /\ Len(publications) \in Nat
         /\ \A i \in DOMAIN publications :
              /\ publications[i] \in Publication
              /\ publications[i].event \in Events
<1>1. publications \in Seq(Publication)
  BY DEF BusTypeOK
<1>2. \A i \in DOMAIN publications : publications[i] \in Publication
  BY <1>1
<1>3. QED
  BY <1>1, <1>2 DEF Publication

\* a publication that ends
LEMMA EndType ==
  ASSUME BusTypeOK, NEW i \in DOMAIN publications, NEW state \in {"resolved", "rejected"},
         publications' = [publications EXCEPT ![i].state = state]
  PROVE  /\ publications' \in Seq(Publication) /\ DOMAIN publications' = DOMAIN publications
         /\ \A j \in DOMAIN publications : j # i => publications'[j] = publications[j]
         /\ publications'[i].event = publications[i].event
         /\ publications'[i].mode = publications[i].mode
         /\ publications'[i].state = state
<1> DEFINE p == [publications[i] EXCEPT !.state = state]
<1>1. publications[i] \in Publication /\ publications \in Seq(Publication)
  BY PublicationType DEF BusTypeOK
<1>2. p \in Publication /\ p.event = publications[i].event /\ p.mode = publications[i].mode
      /\ p.state = state
  BY <1>1 DEF Publication
<1>3. publications' = [publications EXCEPT ![i] = p]
  OBVIOUS
<1> HIDE DEF p
<1>4. QED
  BY <1>1, <1>2, <1>3

\* a counter that goes up
LEMMA BumpType ==
  ASSUME NEW f \in [Events -> [Subscriptions -> Nat]], NEW e \in Events,
         NEW s \in Subscriptions, NEW n \in Nat
  PROVE  /\ [f EXCEPT ![e][s] = @ + n] \in [Events -> [Subscriptions -> Nat]]
         /\ [f EXCEPT ![e][s] = @ + n][e][s] = f[e][s] + n
         /\ \A g \in Events, r \in Subscriptions :
              g # e \/ r # s => [f EXCEPT ![e][s] = @ + n][g][r] = f[g][r]
<1>1. f[e] \in [Subscriptions -> Nat] /\ f[e][s] \in Nat
  OBVIOUS
<1>2. [f[e] EXCEPT ![s] = @ + n] \in [Subscriptions -> Nat]
  BY <1>1
<1>3. QED
  BY <1>1, <1>2

LEMMA OpenType ==
  ASSUME BusTypeOK, IsFiniteSet(deliveries), Addressed,
         NEW e \in Events, NEW mode \in {"live", "replay"}, NEW subs \in SUBSET Subscriptions,
         Open(e, mode, subs)
  PROVE  /\ publications' \in Seq(Publication) /\ deliveries' \in SUBSET Delivery
         /\ IsFiniteSet(deliveries') /\ Addressed'
<1> DEFINE new == {[pub |-> Len(publications) + 1, sub |-> s, attempt |-> 1,
                    at |-> "authorize"] : s \in subs}
           f == [s \in subs |-> [pub |-> Len(publications) + 1, sub |-> s, attempt |-> 1,
                                 at |-> "authorize"]]
<1>1. publications \in Seq(Publication) /\ Len(publications) \in Nat
  BY DEF BusTypeOK
<1>2. publications' \in Seq(Publication) /\ DOMAIN publications' = 1 .. Len(publications) + 1
  BY <1>1 DEF Open, Publication
<1>3. new \in SUBSET Delivery
  BY <1>1 DEF Delivery
<1>4. IsFiniteSet(new)
  <2>1. IsFiniteSet(subs)
    BY BusAssumption, FS_Subset
  <2>2. f \in Surjection(subs, new)
    BY DEF Surjection
  <2>3. QED
    BY <2>1, <2>2, FS_Surjection
<1>5. IsFiniteSet(deliveries')
  BY <1>4, FS_Union DEF Open
<1>6. Addressed'
  <2>1. DOMAIN publications = 1 .. Len(publications)
    BY <1>1
  <2>2. QED
    BY <1>1, <1>2, <2>1 DEF Addressed, Open
<1>7. QED
  BY <1>2, <1>3, <1>5, <1>6 DEF Open, BusTypeOK

LEMMA BusTypeNext ==
  ASSUME BusTypeOK, IsFiniteSet(deliveries), Addressed, BusNext
  PROVE  BusTypeOK' /\ IsFiniteSet(deliveries') /\ Addressed'
<1> DEFINE Goal == BusTypeOK' /\ IsFiniteSet(deliveries') /\ Addressed'
<1>1. ASSUME NEW e \in Events, Commit(e) PROVE Goal
  BY <1>1 DEF Commit, BusTypeOK, IntentState, Addressed
<1>2. CASE Flush
  <2>1. flush' \in Seq(Events)
    <3>1. IsFiniteSet(PendingIntents) /\ PendingIntents \subseteq Events
      BY BusAssumption, FS_Subset DEF PendingIntents
    <3>2. Cardinality(PendingIntents) \in Nat
      BY <3>1, FS_CardinalityType
    <3>3. flush' \in [1 .. Cardinality(PendingIntents) -> Events]
      BY <1>2, <3>1 DEF Flush, InOrder
    <3>4. QED
      BY <3>2, <3>3
  <2>2. QED
    BY <1>2, <2>1 DEF Flush, BusTypeOK, Addressed
<1>3. CASE Publish
  <2>1. Head(flush) \in Events /\ Tail(flush) \in Seq(Events)
    BY <1>3 DEF Publish, BusTypeOK
  <2>2. Routed(Head(flush)) \in SUBSET Subscriptions
    BY DEF Routed
  <2>3. /\ publications' \in Seq(Publication) /\ deliveries' \in SUBSET Delivery
        /\ IsFiniteSet(deliveries') /\ Addressed'
    BY <1>3, <2>1, <2>2, OpenType DEF Publish
  <2>4. QED
    BY <1>3, <2>1, <2>3 DEF Publish, BusTypeOK
<1>4. ASSUME NEW i \in DOMAIN publications, Published(i) \/ Replayed(i) PROVE Goal
  <2>1. publications[i].event \in Events
    BY PublicationType
  <2>2. publications' = [publications EXCEPT ![i].state = "resolved"]
    BY <1>4 DEF Published, Replayed
  <2>4. publications' \in Seq(Publication) /\ DOMAIN publications' = DOMAIN publications
    BY <2>2, EndType
  <2>5. intents' \in [Events -> IntentState]
    BY <1>4, <2>1 DEF Published, Replayed, BusTypeOK, IntentState
  <2>6. QED
    BY <1>4, <2>4, <2>5 DEF Published, Replayed, BusTypeOK, Addressed
<1>5. ASSUME NEW e \in Events, NEW s \in Subscriptions, Replay(e, s) PROVE Goal
  <2>1. {s} \in SUBSET Subscriptions
    OBVIOUS
  <2>2. /\ publications' \in Seq(Publication) /\ deliveries' \in SUBSET Delivery
        /\ IsFiniteSet(deliveries') /\ Addressed'
    BY <1>5, <2>1, OpenType DEF Replay
  <2>3. QED
    BY <1>5, <2>2 DEF Replay, BusTypeOK
<1>6. ASSUME NEW d \in deliveries, Attempt(d) PROVE Goal
  <2>0. d \in Delivery /\ d.sub \in Subscriptions /\ d.pub \in Nat
    BY DeliveryType
  <2>1. EventOf(d) \in Events
    BY PublicationType DEF Addressed, EventOf
  <2>2. ASSUME NEW status \in Status, journalled(d, status)
        PROVE  journal' \in SUBSET (Events \X Subscriptions \X Status)
    <3>1. <<EventOf(d), d.sub, status>> \in Events \X Subscriptions \X Status
      BY <2>0, <2>1
    <3>2. journal \in SUBSET (Events \X Subscriptions \X Status)
      BY DEF BusTypeOK
    <3>3. QED
      BY <2>2, <3>1, <3>2 DEF journalled
  <2>3. IsFiniteSet(deliveries \ {d})
    BY FS_RemoveElement
  <2>4. CASE Withhold(d)
    BY <2>2, <2>3, <2>4 DEF Withhold, BusTypeOK, Addressed, Status
  <2>5. CASE DeliveryThrows(d)
    <3>4. publications' \in Seq(Publication) /\ DOMAIN publications' = DOMAIN publications
      BY <2>5, EndType DEF DeliveryThrows, Addressed
    <3>5. busFaults' \in 0 .. MaxBusFaults
      <4>1. busFaults \in 0 .. MaxBusFaults /\ MaxBusFaults \in Nat
        BY BusAssumption DEF BusTypeOK
      <4>2. busFaults < MaxBusFaults /\ busFaults' = busFaults + 1
        BY <2>5 DEF DeliveryThrows
      <4>3. QED
        BY <4>1, <4>2
    <3>6. QED
      BY <2>3, <2>5, <3>4, <3>5 DEF DeliveryThrows, BusTypeOK, Addressed
  <2>6. CASE Skip(d)
    BY <2>2, <2>3, <2>6 DEF Skip, BusTypeOK, Addressed, Status
  <2>7. CASE Handle(d)
    <3> DEFINE c == [d EXCEPT !.at = "handling"]
    <3>1. IsFiniteSet(deliveries') /\ deliveries' = (deliveries \ {d}) \cup {c}
      BY <2>3, <2>7, FS_AddElement DEF Handle
    <3>2. c \in Delivery /\ c.pub = d.pub
      BY <2>0, DeliveryType DEF Delivery
    <3>3. started' \in [Events -> [Subscriptions -> Nat]]
      BY <2>0, <2>1, <2>7, BumpType DEF Handle, BusTypeOK
    <3>4. excused' \in [Events -> [Subscriptions -> Nat]]
      <4> DEFINE n == IF Handling(EventOf(d), d.sub) = {} THEN 0 ELSE 1
      <4>1. n \in Nat /\ excused \in [Events -> [Subscriptions -> Nat]]
        BY DEF BusTypeOK
      <4>2. excused' = [excused EXCEPT ![EventOf(d)][d.sub] = @ + n]
        BY <2>7 DEF Handle, Excuse
      <4> HIDE DEF n
      <4>3. QED
        BY <2>0, <2>1, <4>1, <4>2, BumpType
    <3> HIDE DEF c
    <3>5. QED
      BY <2>7, <3>1, <3>2, <3>3, <3>4 DEF Handle, BusTypeOK, Addressed
  <2>8. CASE Acknowledge(d)
    <3>1. inbox' \in [Subscriptions -> SUBSET Events]
      BY <2>0, <2>1, <2>8 DEF Acknowledge, BusTypeOK
    <3>2. QED
      BY <2>2, <2>3, <2>8, <3>1 DEF Acknowledge, BusTypeOK, Addressed, Status
  <2>9. ASSUME NEW transient \in BOOLEAN, HandlerFails(d, transient) PROVE Goal
    <3> DEFINE c == [d EXCEPT !.at = "handle", !.attempt = @ + 1]
    <3>1. c \in Delivery /\ c.pub = d.pub
      BY <2>0, DeliveryType DEF Delivery
    <3>2. IsFiniteSet((deliveries \ {d}) \cup {c})
      BY <2>3, FS_AddElement
    <3>3. \/ deliveries' = deliveries \ {d}
          \/ deliveries' = (deliveries \ {d}) \cup {c}
      BY <2>9 DEF HandlerFails
    <3>4. excused' \in [Events -> [Subscriptions -> Nat]]
      BY <2>0, <2>1, <2>9, BumpType DEF HandlerFails, BusTypeOK, Excuse
    <3>5. journal' \in SUBSET (Events \X Subscriptions \X Status)
      BY <2>2, <2>9 DEF HandlerFails, Status
    <3> HIDE DEF c
    <3>6. QED
      BY <2>3, <2>9, <3>1, <3>2, <3>3, <3>4, <3>5 DEF HandlerFails, BusTypeOK, Addressed
  <2>10. QED
    BY <1>6, <2>4, <2>5, <2>6, <2>7, <2>8, <2>9 DEF Attempt
<1>7. CASE BusCrash
  <2>1. excused' \in [Events -> [Subscriptions -> Nat]]
    <3>1. ASSUME NEW e \in Events, NEW s \in Subscriptions
          PROVE  excused[e][s] + Cardinality(Handling(e, s)) \in Nat
      <4>1. Handling(e, s) \in SUBSET deliveries
        BY DEF Handling
      <4>2. Cardinality(Handling(e, s)) \in Nat
        BY <4>1, FS_Subset, FS_CardinalityType
      <4>3. QED
        BY <4>2 DEF BusTypeOK
    <3>2. QED
      BY <1>7, <3>1 DEF BusCrash
  <2>2. publications' \in Seq(Publication)
    <3>1. DOMAIN publications = 1 .. Len(publications) /\ Len(publications) \in Nat
      BY DEF BusTypeOK
    <3>2. ASSUME NEW i \in DOMAIN publications
          PROVE  [publications[i] EXCEPT !.state = IF @ = "open" THEN "rejected" ELSE @]
                   \in Publication
      <4>1. publications[i] \in Publication
        BY DEF BusTypeOK
      <4>2. QED
        BY <4>1 DEF Publication
    <3>3. publications' \in [1 .. Len(publications) -> Publication]
      BY <1>7, <3>1, <3>2 DEF BusCrash
    <3>4. QED
      BY <3>1, <3>3
  <2>3. busFaults' \in 0 .. MaxBusFaults
    BY <1>7, BusAssumption DEF BusCrash, BusTypeOK
  <2>4. flush' \in Seq(Events) /\ deliveries' = {} /\ IsFiniteSet(deliveries')
    BY <1>7, FS_EmptySet DEF BusCrash
  <2>5. QED
    BY <1>7, <2>1, <2>2, <2>3, <2>4 DEF BusCrash, BusTypeOK, Addressed
<1>8. QED
  BY <1>1, <1>2, <1>3, <1>4, <1>5, <1>6, <1>7 DEF BusNext

\* what is recorded stays recorded, and an event keeps its identity
LEMMA JournalGrows ==
  ASSUME BusTypeOK, Addressed, BusNext
  PROVE  /\ journal \subseteq journal'
         /\ \A e \in Events, s \in Subscriptions :
              /\ Settled(e, s) => Settled(e, s)'
              /\ Withheld(e, s) => Withheld(e, s)'
<1>1. journal \subseteq journal'
  BY DEF BusNext, Commit, Flush, Publish, Published, Replayed, Replay, BusCrash, Attempt,
         Withhold, DeliveryThrows, Skip, Handle, Acknowledge, HandlerFails, journalled
<1>2. QED
  BY <1>1 DEF Settled, Withheld

LEMMA EventsStay ==
  ASSUME BusTypeOK, IsFiniteSet(deliveries), Addressed, BusNext
  PROVE  \A i \in DOMAIN publications :
           /\ i \in DOMAIN publications'
           /\ publications'[i].event = publications[i].event
           /\ publications'[i].mode = publications[i].mode
           /\ publications'[i].state = "open" => publications[i].state = "open"
<1>1. DOMAIN publications = 1 .. Len(publications) /\ Len(publications) \in Nat
      /\ publications \in Seq(Publication)
  BY PublicationType DEF BusTypeOK
<1>2. ASSUME NEW e, NEW mode, NEW subs, Open(e, mode, subs)
      PROVE  \A i \in DOMAIN publications : /\ i \in DOMAIN publications'
                                           /\ publications'[i] = publications[i]
  BY <1>1, <1>2 DEF Open
<1>3. ASSUME NEW i \in DOMAIN publications, NEW state \in {"resolved", "rejected"},
             publications' = [publications EXCEPT ![i].state = state]
      PROVE  \A j \in DOMAIN publications :
                /\ j \in DOMAIN publications'
                /\ publications'[j].event = publications[j].event
                /\ publications'[j].mode = publications[j].mode
                /\ publications'[j].state = "open" => publications[j].state = "open"
  BY <1>3, EndType
<1>4. CASE Publish
  BY <1>2, <1>4 DEF Publish
<1>5. ASSUME NEW e \in Events, NEW s \in Subscriptions, Replay(e, s)
      PROVE  \A i \in DOMAIN publications : /\ i \in DOMAIN publications'
                                           /\ publications'[i] = publications[i]
  BY <1>2, <1>5 DEF Replay
<1>6. CASE BusCrash
  <2>1. \A i \in DOMAIN publications : publications[i] \in Publication
    BY PublicationType
  <2>2. publications' = [i \in DOMAIN publications |->
          [publications[i] EXCEPT !.state = IF @ = "open" THEN "rejected" ELSE @]]
    BY <1>6 DEF BusCrash
  <2>3. QED
    BY <2>1, <2>2 DEF Publication
<1>7. ASSUME NEW i \in DOMAIN publications, Published(i) \/ Replayed(i)
      PROVE  publications' = [publications EXCEPT ![i].state = "resolved"]
  BY <1>7 DEF Published, Replayed
<1>8. ASSUME NEW d \in deliveries, Attempt(d)
      PROVE  \/ UNCHANGED publications
             \/ /\ d.pub \in DOMAIN publications
                /\ publications' = [publications EXCEPT ![d.pub].state = "rejected"]
  BY <1>8 DEF Attempt, Withhold, DeliveryThrows, Skip, Handle, Acknowledge, HandlerFails,
              Addressed
<1>9. (\E e \in Events : Commit(e)) \/ Flush => UNCHANGED publications
  BY DEF Commit, Flush
<1>10. QED
  BY <1>3, <1>4, <1>5, <1>6, <1>7, <1>8, <1>9 DEF BusNext

-----------------------------------------------------------------------------
(* The event bus: at least once. *)

\* a delivery step settles its own delivery, hands it on or rejects the publication
LEMMA AttemptSettles ==
  ASSUME BusTypeOK, Addressed, NEW d \in deliveries, Attempt(d)
  PROVE  /\ UNCHANGED intents
         /\ \A c \in deliveries : c # d => c \in deliveries'
         /\ \/ \E c \in deliveries' : c.pub = d.pub /\ c.sub = d.sub
            \/ Settled(EventOf(d), d.sub)' \/ Withheld(EventOf(d), d.sub)'
            \/ publications'[d.pub].state = "rejected"
<1>0. d \in Delivery /\ d.pub \in DOMAIN publications
  BY DeliveryType DEF Addressed
<1>1. CASE Withhold(d)
  <2>1. /\ publications' = publications
        /\ <<EventOf(d), d.sub, IF Visible(d.sub) THEN "failed" ELSE "filtered">> \in journal'
        /\ ~Visible(d.sub) \/ Unkeyed(EventOf(d), d.sub)
    BY <1>1 DEF Withhold, journalled
  <2>2. Withheld(EventOf(d), d.sub)'
    BY <2>1 DEF Withheld, EventOf
  <2>3. QED
    BY <1>1, <2>2 DEF Withhold
<1>2. CASE DeliveryThrows(d)
  <2>1. publications'[d.pub].state = "rejected"
    BY <1>0, <1>2, EndType DEF DeliveryThrows
  <2>2. QED
    BY <1>2, <2>1 DEF DeliveryThrows
<1>3. CASE Skip(d) \/ Acknowledge(d)
  <2>1. publications' = publications /\ <<EventOf(d), d.sub, "acknowledged">> \in journal'
    BY <1>3 DEF Skip, Acknowledge, journalled
  <2>2. Settled(EventOf(d), d.sub)'
    BY <2>1 DEF Settled, EventOf
  <2>3. QED
    BY <1>3, <2>2 DEF Skip, Acknowledge
<1>4. CASE Handle(d)
  <2>1. [d EXCEPT !.at = "handling"] \in deliveries'
    BY <1>4 DEF Handle
  <2>2. QED
    BY <1>0, <1>4, <2>1 DEF Handle, Delivery
<1>5. ASSUME NEW transient \in BOOLEAN, HandlerFails(d, transient)
      PROVE  /\ UNCHANGED intents
             /\ \A c \in deliveries : c # d => c \in deliveries'
             /\ \/ \E c \in deliveries' : c.pub = d.pub /\ c.sub = d.sub
                \/ Settled(EventOf(d), d.sub)'
  <2>1. CASE Final(d, transient)
    <3>1. publications' = publications /\ <<EventOf(d), d.sub, "dead-lettered">> \in journal'
      BY <1>5, <2>1 DEF HandlerFails, journalled
    <3>2. Settled(EventOf(d), d.sub)'
      BY <3>1 DEF Settled, EventOf
    <3>3. QED
      BY <1>5, <3>2 DEF HandlerFails
  <2>2. CASE ~Final(d, transient)
    <3>1. [d EXCEPT !.at = "handle", !.attempt = @ + 1] \in deliveries'
      BY <1>5, <2>2 DEF HandlerFails
    <3>2. QED
      BY <1>0, <1>5, <3>1 DEF HandlerFails, Delivery
  <2>3. QED
    BY <2>1, <2>2
<1>6. QED
  BY <1>1, <1>2, <1>3, <1>4, <1>5 DEF Attempt

\* what a new publication has still to settle is being delivered
LEMMA OpenPromises ==
  ASSUME BusTypeOK, NEW e \in Events, NEW mode, NEW subs, Open(e, mode, subs),
         NEW i \in DOMAIN publications', i \notin DOMAIN publications
  PROVE  /\ publications'[i].event = e /\ publications'[i].mode = mode
         /\ \A s \in subs : \E d \in deliveries' : d.pub = i /\ d.sub = s
<1>1. publications \in Seq(Publication) /\ Len(publications) \in Nat
      /\ DOMAIN publications = 1 .. Len(publications)
  BY PublicationType DEF BusTypeOK
<1>2. i = Len(publications) + 1
  BY <1>1 DEF Open
<1>3. publications'[i] = [event |-> e, mode |-> mode, state |-> "open"]
  BY <1>1, <1>2 DEF Open
<1>4. ASSUME NEW s \in subs PROVE \E d \in deliveries' : d.pub = i /\ d.sub = s
  <2>1. [pub |-> Len(publications) + 1, sub |-> s, attempt |-> 1, at |-> "authorize"]
          \in deliveries'
    BY DEF Open
  <2>2. QED
    BY <1>2, <2>1
<1>5. QED
  BY <1>3, <1>4

LEMMA PromisedNext ==
  ASSUME BusIInv, BusNext, BusTypeOK'
  PROVE  Promised'
<1> USE DEF BusIInv
<1> SUFFICES ASSUME NEW i \in DOMAIN publications', publications'[i].mode = "live",
                    publications'[i].state = "open", NEW e \in Events,
                    publications'[i].event = e, NEW s \in Routed(e)
             PROVE  \/ Settled(e, s)' \/ Withheld(e, s)'
                    \/ \E d \in deliveries' : d.pub = i /\ d.sub = s
  <2>1. \A i \in DOMAIN publications' : publications'[i].event \in Events
    <3>1. publications' \in Seq(Publication)
      BY DEF BusTypeOK
    <3>2. \A j \in DOMAIN publications' : publications'[j] \in Publication
      BY <3>1
    <3>3. QED
      BY <3>2 DEF Publication
  <2>2. QED
    BY <2>1 DEF Promised, Routed, Settled, Withheld, Unkeyed, Visible
<1>1. CASE i \notin DOMAIN publications
  <2>1. CASE Publish
    <3>1. Head(flush) \in Events
      BY <2>1 DEF Publish, BusTypeOK
    <3>2. QED
      BY <1>1, <2>1, <3>1, OpenPromises DEF Publish
  <2>2. ASSUME NEW f \in Events, NEW r \in Subscriptions, Replay(f, r) PROVE FALSE
    <3>1. publications'[i].mode = "replay"
      BY <1>1, <2>2, OpenPromises DEF Replay
    <3>2. QED
      BY <3>1
  <2>3. ~Publish /\ (\A f \in Events, r \in Subscriptions : ~Replay(f, r))
          => DOMAIN publications' = DOMAIN publications
    <3>1. ASSUME NEW j \in DOMAIN publications, Published(j) \/ Replayed(j)
          PROVE  DOMAIN publications' = DOMAIN publications
      BY <3>1, EndType DEF Published, Replayed
    <3>2. ASSUME NEW d \in deliveries, Attempt(d)
          PROVE  DOMAIN publications' = DOMAIN publications
      BY <3>2, EndType DEF Attempt, Withhold, DeliveryThrows, Skip, Handle, Acknowledge,
                           HandlerFails, Addressed
    <3>3. BusCrash => DOMAIN publications' = DOMAIN publications
      BY DEF BusCrash
    <3>4. QED
      BY <3>1, <3>2, <3>3 DEF BusNext, Commit, Flush
  <2>4. QED
    BY <1>1, <2>1, <2>2, <2>3
<1>2. CASE i \in DOMAIN publications
  <2>1. /\ publications[i].event = e /\ publications[i].mode = "live"
        /\ publications[i].state = "open" /\ e \in Events /\ s \in Subscriptions
    BY <1>2, EventsStay, PublicationType DEF Routed
  <2>2. \/ Settled(e, s) \/ Withheld(e, s) \/ \E d \in deliveries : d.pub = i /\ d.sub = s
    BY <1>2, <2>1 DEF Promised
  <2>3. CASE Settled(e, s) \/ Withheld(e, s)
    BY <2>1, <2>3, JournalGrows
  <2>4. ASSUME NEW d \in deliveries, d.pub = i, d.sub = s, d \notin deliveries'
        PROVE  \/ Settled(e, s)' \/ Withheld(e, s)'
               \/ \E c \in deliveries' : c.pub = i /\ c.sub = s
    <3>1. EventOf(d) = e
      BY <2>1, <2>4 DEF EventOf
    <3>2. PICK c \in deliveries : Attempt(c)
      <4>1. ~BusCrash
        BY <1>2, PublicationType DEF BusCrash, Publication
      <4>2. QED
        BY <2>4, <4>1 DEF BusNext, Commit, Flush, Publish, Published, Replayed, Replay, Open
    <3>3. c = d
      BY <2>4, <3>2, AttemptSettles
    <3>4. \/ \E x \in deliveries' : x.pub = i /\ x.sub = s
          \/ Settled(EventOf(d), s)' \/ Withheld(EventOf(d), s)'
          \/ publications'[i].state = "rejected"
      BY <2>4, <3>2, <3>3, AttemptSettles
    <3>5. EventOf(d)' = e
      BY <2>4 DEF EventOf
    <3>6. QED
      BY <3>4, <3>5 DEF Settled, Withheld, Unkeyed, Visible
  <2>5. QED
    BY <2>2, <2>3, <2>4
<1>3. QED
  BY <1>1, <1>2

LEMMA SettledNext ==
  ASSUME BusIInv, BusNext
  PROVE  PublishedIsSettled'
<1> USE DEF BusIInv
<1> SUFFICES ASSUME NEW e \in Events, intents'[e] = "published", NEW s \in Routed(e)
             PROVE  Settled(e, s)' \/ Withheld(e, s)'
  BY DEF PublishedIsSettled, Routed
<1>1. s \in Subscriptions
  BY DEF Routed
<1>2. CASE intents[e] = "published"
  BY <1>1, <1>2, JournalGrows DEF PublishedIsSettled
<1>3. CASE intents[e] # "published"
  <2>1. PICK i \in DOMAIN publications : Published(i) /\ publications[i].event = e
    <3>1. \A d \in deliveries : Attempt(d) => UNCHANGED intents
      BY AttemptSettles
    <3>2. QED
      BY <1>3, <3>1 DEF BusNext, Commit, Flush, Publish, Published, Replayed, Replay, BusCrash,
                        BusTypeOK
  <2>2. Settled(e, s) \/ Withheld(e, s)
    BY <2>1 DEF Promised, Published, Of
  <2>3. QED
    BY <1>1, <2>2, JournalGrows
<1>4. QED
  BY <1>2, <1>3

-----------------------------------------------------------------------------
(* The event bus: once to the handler. *)

\* nothing that bears on the runs of a handler changes
Undisturbed(e, s) ==
  /\ started'[e][s] = started[e][s] /\ excused'[e][s] >= excused[e][s]
  /\ Handling(e, s) # {} => Handling(e, s)' # {}
  /\ e \in inbox[s] => e \in inbox'[s]

LEMMA UndisturbedRuns ==
  ASSUME BusIInv, BusTypeOK', NEW e \in Events, NEW s \in Subscriptions, Undisturbed(e, s)
  PROVE  started'[e][s] <= excused'[e][s] + Current(e, s)'
<1>1. started[e][s] <= excused[e][s] + Current(e, s)
  BY DEF BusIInv, RunsOnce
<1>2. Current(e, s) \in {0, 1} /\ Current(e, s)' \in {0, 1} /\ Current(e, s)' >= Current(e, s)
  BY DEF Undisturbed, Current
<1>3. excused[e][s] \in Nat /\ excused'[e][s] \in Nat /\ started[e][s] \in Nat
  BY DEF BusIInv, BusTypeOK
<1>4. QED
  BY <1>1, <1>2, <1>3 DEF Undisturbed

\* a delivery that is not handing over leaves no run behind and takes none away
LEMMA OthersHandle ==
  ASSUME BusIInv, BusNext, NEW d \in deliveries, UNCHANGED publications,
         deliveries \ {d} \subseteq deliveries',
         NEW e \in Events, NEW s \in Subscriptions, d \notin Handling(e, s)
  PROVE  Handling(e, s) # {} => Handling(e, s)' # {}
BY DEF Handling, EventOf

LEMMA RunsNext ==
  ASSUME BusIInv, BusNext, BusTypeOK'
  PROVE  RunsOnce'
<1> SUFFICES ASSUME NEW e \in Events, NEW s \in Subscriptions
             PROVE  started'[e][s] <= excused'[e][s] + Current(e, s)'
  BY DEF RunsOnce
<1>0. /\ started[e][s] \in Nat /\ excused[e][s] \in Nat /\ excused'[e][s] \in Nat
      /\ started[e][s] <= excused[e][s] + Current(e, s)
      /\ Current(e, s) \in {0, 1} /\ Current(e, s)' \in {0, 1}
  <2>1. /\ started \in [Events -> [Subscriptions -> Nat]]
        /\ excused \in [Events -> [Subscriptions -> Nat]]
        /\ excused' \in [Events -> [Subscriptions -> Nat]]
    BY DEF BusIInv, BusTypeOK
  <2>2. started[e][s] <= excused[e][s] + Current(e, s)
    BY DEF BusIInv, RunsOnce
  <2>3. Current(e, s) \in {0, 1} /\ Current(e, s)' \in {0, 1}
    BY DEF Current
  <2>4. QED
    BY <2>1, <2>2, <2>3
<1>1. CASE UNCHANGED <<started, excused, inbox>> /\ Handling(e, s) \subseteq Handling(e, s)'
  BY <1>0, <1>1, UndisturbedRuns DEF Undisturbed
<1>2. CASE (\E f \in Events : Commit(f)) \/ Flush \/ Publish
           \/ (\E f \in Events, r \in Subscriptions : Replay(f, r))
           \/ (\E i \in DOMAIN publications : Published(i) \/ Replayed(i))
  <2>1. UNCHANGED <<started, excused, inbox>> /\ deliveries \subseteq deliveries'
    BY <1>2 DEF Commit, Flush, Publish, Replay, Open, Published, Replayed
  <2>2. \A d \in deliveries : EventOf(d)' = EventOf(d)
    BY EventsStay DEF BusIInv, EventOf, Addressed
  <2>3. QED
    BY <1>1, <2>1, <2>2 DEF Handling
<1>3. CASE BusCrash
  <2>1. /\ excused'[e][s] = excused[e][s] + Cardinality(Handling(e, s))
        /\ started' = started /\ inbox' = inbox
    BY <1>3 DEF BusCrash
  <2>2. IsFiniteSet(Handling(e, s))
    BY FS_Subset DEF BusIInv, Handling
  <2>3. /\ Cardinality(Handling(e, s)) \in Nat
        /\ Handling(e, s) # {} => Cardinality(Handling(e, s)) # 0
    BY <2>2, FS_CardinalityType, FS_EmptySet
  <2>4. e \in inbox[s] => Current(e, s)' = 1
    BY <2>1 DEF Current
  <2>5. Current(e, s) = 1 => e \in inbox[s] \/ Handling(e, s) # {}
    BY DEF Current
  <2>6. CASE e \in inbox[s]
    BY <1>0, <2>1, <2>3, <2>4, <2>6
  <2>7. CASE e \notin inbox[s]
    BY <1>0, <2>1, <2>3, <2>5, <2>7
  <2>8. QED
    BY <2>6, <2>7
<1>4. ASSUME NEW d \in deliveries, Attempt(d)
      PROVE  started'[e][s] <= excused'[e][s] + Current(e, s)'
  <2>0. /\ d \in Delivery /\ d.sub \in Subscriptions /\ EventOf(d) \in Events
        /\ started \in [Events -> [Subscriptions -> Nat]]
        /\ excused \in [Events -> [Subscriptions -> Nat]]
        /\ inbox \in [Subscriptions -> SUBSET Events]
    BY DeliveryType, PublicationType DEF BusIInv, BusTypeOK, Addressed, EventOf
  <2>1. CASE Withhold(d) \/ DeliveryThrows(d) \/ Skip(d)
    <3>1. UNCHANGED <<started, excused, inbox>> /\ deliveries' = deliveries \ {d}
      BY <2>1 DEF Withhold, DeliveryThrows, Skip
    <3>2. d.at # "handling"
      BY <2>1 DEF Withhold, DeliveryThrows, Skip, Ready
    <3>3. \A c \in deliveries : EventOf(c)' = EventOf(c)
      BY EventsStay DEF BusIInv, EventOf, Addressed
    <3>4. QED
      BY <1>1, <3>1, <3>2, <3>3 DEF Handling
  <2>2. CASE Handle(d)
    <3> DEFINE n == IF Handling(EventOf(d), d.sub) = {} THEN 0 ELSE 1
               c == [d EXCEPT !.at = "handling"]
    <3>1. /\ started' = [started EXCEPT ![EventOf(d)][d.sub] = @ + 1]
          /\ excused' = [excused EXCEPT ![EventOf(d)][d.sub] = @ + n]
          /\ inbox' = inbox /\ publications' = publications
          /\ deliveries' = (deliveries \ {d}) \cup {c}
      BY <2>2 DEF Handle, Excuse
    <3>2. d.at # "handling" /\ EventOf(d) \notin inbox[d.sub]
      BY <2>2 DEF Handle, Ready, Handled
    <3>3. c.pub = d.pub /\ c.sub = d.sub /\ c.at = "handling"
      BY <2>0 DEF Delivery
    <3>4. n \in Nat /\ (Handling(EventOf(d), d.sub) = {} => n = 0)
          /\ (Handling(EventOf(d), d.sub) # {} => n = 1)
      OBVIOUS
    <3> HIDE DEF n, c
    <3>5. CASE EventOf(d) = e /\ d.sub = s
      <4>1. started'[e][s] = started[e][s] + 1 /\ excused'[e][s] = excused[e][s] + n
        BY <2>0, <3>1, <3>4, <3>5, BumpType
      <4>2. Current(e, s)' = 1
        BY <3>1, <3>3, <3>5 DEF Current, Handling, EventOf
      <4>3. Current(e, s) = n
        BY <3>2, <3>4, <3>5 DEF Current
      <4>4. QED
        BY <1>0, <4>1, <4>2, <4>3
    <3>6. CASE ~(EventOf(d) = e /\ d.sub = s)
      <4>1. started'[e][s] = started[e][s] /\ excused'[e][s] = excused[e][s]
        BY <2>0, <3>1, <3>4, <3>6, BumpType
      <4>2. d \notin Handling(e, s)
        BY <3>6 DEF Handling
      <4>3. Handling(e, s) # {} => Handling(e, s)' # {}
        BY <3>1, <4>2, OthersHandle
      <4>4. QED
        BY <1>0, <3>1, <4>1, <4>3, UndisturbedRuns DEF Undisturbed
    <3>7. QED
      BY <3>5, <3>6
  <2>3. CASE Acknowledge(d)
    <3>1. /\ started' = started /\ excused' = excused /\ publications' = publications
          /\ deliveries' = deliveries \ {d}
          /\ inbox' = [inbox EXCEPT ![d.sub] = @ \cup {EventOf(d)}]
      BY <2>3 DEF Acknowledge
    <3>2. CASE EventOf(d) = e /\ d.sub = s
      <4>1. Current(e, s)' = 1
        BY <2>0, <3>1, <3>2 DEF Current
      <4>2. QED
        BY <1>0, <3>1, <4>1
    <3>3. CASE ~(EventOf(d) = e /\ d.sub = s)
      <4>1. e \in inbox[s] => e \in inbox'[s]
        BY <2>0, <3>1
      <4>2. Handling(e, s) # {} => Handling(e, s)' # {}
        BY <3>1, <3>3, OthersHandle DEF Handling
      <4>3. QED
        BY <1>0, <3>1, <4>1, <4>2, UndisturbedRuns DEF Undisturbed
    <3>4. QED
      BY <3>2, <3>3
  <2>4. ASSUME NEW transient \in BOOLEAN, HandlerFails(d, transient)
        PROVE  started'[e][s] <= excused'[e][s] + Current(e, s)'
    <3>1. /\ started' = started /\ inbox' = inbox /\ publications' = publications
          /\ deliveries \ {d} \subseteq deliveries'
          /\ excused' = [excused EXCEPT ![EventOf(d)][d.sub] = @ + 1]
      BY <2>4 DEF HandlerFails, Excuse
    <3>2. CASE EventOf(d) = e /\ d.sub = s
      <4>1. excused'[e][s] = excused[e][s] + 1
        BY <2>0, <3>1, <3>2, BumpType
      <4>2. QED
        BY <1>0, <3>1, <4>1
    <3>3. CASE ~(EventOf(d) = e /\ d.sub = s)
      <4>1. excused'[e][s] = excused[e][s]
        BY <2>0, <3>1, <3>3, BumpType
      <4>2. Handling(e, s) # {} => Handling(e, s)' # {}
        BY <3>1, <3>3, OthersHandle DEF Handling
      <4>3. QED
        BY <1>0, <3>1, <4>1, <4>2, UndisturbedRuns DEF Undisturbed
    <3>4. QED
      BY <3>2, <3>3
  <2>5. QED
    BY <1>4, <2>1, <2>2, <2>3, <2>4 DEF Attempt
<1>5. QED
  BY <1>2, <1>3, <1>4 DEF BusNext

-----------------------------------------------------------------------------
(* Whatever publications, retries, replays and crashes there are, an intent is    *)
(* marked published only when every subscription has settled it, and the handler  *)
(* of an idempotent subscriber runs once per mark (EventBus.#deliver,              *)
(* OutboxPublisher.flush, IdempotentSubscriber).                                   *)
THEOREM BusIsSafe == BusSpec => []BusInv
<1>1. BusIInv /\ [BusNext]_busVars => BusIInv'
  <2> SUFFICES ASSUME BusIInv, [BusNext]_busVars PROVE BusIInv'
    OBVIOUS
  <2>1. CASE BusNext
    <3>1. BusTypeOK' /\ IsFiniteSet(deliveries') /\ Addressed'
      BY <2>1, BusTypeNext DEF BusIInv
    <3>2. QED
      BY <2>1, <3>1, PromisedNext, SettledNext, RunsNext DEF BusIInv
  <2>2. CASE UNCHANGED busVars
    <3>1. BusTypeOK' /\ IsFiniteSet(deliveries') /\ Addressed'
      BY <2>2 DEF busVars, BusIInv, BusTypeOK, Addressed
    <3>2. PublishedIsSettled' /\ Promised'
      BY <2>2 DEF busVars, BusIInv, PublishedIsSettled, Promised, Settled, Withheld
    <3>3. RunsOnce'
      BY <2>2 DEF busVars, BusIInv, RunsOnce, Current, Handling, EventOf
    <3>4. QED
      BY <3>1, <3>2, <3>3 DEF BusIInv
  <2>3. QED
    BY <2>1, <2>2
<1>2. QED
  BY <1>1, BusInitOK, BusIInvImplies, PTL DEF BusSpec

-----------------------------------------------------------------------------
(* Human interactions. *)

\* a policy decides a status, or that it is too early
LEMMA DecisionType ==
  ASSUME InteractionTypeOK, NEW responses \in Seq(HumanResponse)
  PROVE  decide(responses) \in CompletionStatus \cup {Pending}
<1>1. \A type : decision(type) \in CompletionStatus \cup {Pending}
  BY DEF decision, CompletionStatus
<1>2. FirstValid(responses) \in CompletionStatus \cup {Pending}
  BY <1>1 DEF FirstValid
<1>3. AllApprovers(responses) \in CompletionStatus \cup {Pending}
  BY DEF AllApprovers, CompletionStatus
<1>4. QED
  BY <1>2, <1>3 DEF decide

Record == [state : InteractionState, responses : Seq(HumanResponse),
           delivered : BOOLEAN, result : HumanInteractionResult]
Issuing == [at : {"idle", "resolve", "deliver", "done", "failed"},
            left : 0 .. Cardinality(Participants)]
Replying == [at : {"idle", "resolve", "tell", "done", "untold"}, seen : Seq(HumanResponse)]

\* how a step may write the record: a response is only added to an open one
RecordStep(r, s) ==
  /\ s \in Record
  /\ r.result # NoResult => s.responses = r.responses /\ s.result # NoResult

LEMMA NoResultType == NoResult \in HumanInteractionResult /\ NoResult.status = Pending
BY DEF NoResult, HumanInteractionResult

LEMMA RecordSteps ==
  ASSUME NEW r \in Record
  PROVE  /\ RecordStep(r, r)
         /\ \A s \in InteractionState, d \in BOOLEAN :
              RecordStep(r, [r EXCEPT !.state = s, !.delivered = d])
         /\ \A s \in InteractionState : RecordStep(r, [r EXCEPT !.state = s])
         /\ \A s \in InteractionState, x \in HumanInteractionResult :
              x.status # Pending => RecordStep(r, [r EXCEPT !.state = s, !.result = x])
         /\ \A s \in InteractionState, x \in Seq(HumanResponse) :
              r.result = NoResult => RecordStep(r, [r EXCEPT !.state = s, !.responses = x])
BY NoResultType DEF RecordStep, Record

LEMMA InteractionInitOK == InteractionInit => InteractionTypeOK
<1> SUFFICES ASSUME InteractionInit PROVE InteractionTypeOK
  OBVIOUS
<1>1. <<>> \in Seq(HumanResponse) /\ <<>> \in Seq(HumanInteractionResult)
  OBVIOUS
<1>2. Cardinality(Participants) \in Nat
  BY InteractionAssumption, FS_CardinalityType
<1>3. record \in Record
  BY <1>1, NoResultType DEF InteractionInit, Record, InteractionState
<1>4. issuing \in Issuing /\ replying \in [Replies -> Replying]
  BY <1>1, <1>2 DEF InteractionInit, Issuing, Replying
<1>5. unspent \in [redeliveries : 0 .. MaxRedeliveries, faults : 0 .. MaxInteractionFaults]
  BY InteractionAssumption DEF InteractionInit
<1>6. QED
  BY <1>1, <1>3, <1>4, <1>5, InteractionAssumption
     DEF InteractionInit, InteractionTypeOK, Record, Issuing, Replying

\* every operation keeps the types and writes the record as it may
LEMMA InteractionNextOK ==
  ASSUME InteractionTypeOK, InteractionNext
  PROVE  InteractionTypeOK' /\ RecordStep(record, record')
<1>0. /\ record \in Record /\ issuing \in Issuing /\ replying \in [Replies -> Replying]
      /\ unspent \in [redeliveries : 0 .. MaxRedeliveries, faults : 0 .. MaxInteractionFaults]
      /\ redelivering \in SUBSET InteractionState /\ told \in Seq(HumanInteractionResult)
      /\ policy \in InteractionPolicy /\ overdue \in BOOLEAN
      /\ record.state \in InteractionState /\ record.delivered \in BOOLEAN
      /\ record.responses \in Seq(HumanResponse) /\ record.result \in HumanInteractionResult
      /\ Cardinality(Participants) \in Nat
  BY InteractionAssumption, FS_CardinalityType
     DEF InteractionTypeOK, Record, Issuing, Replying
<1>1. ASSUME RecordStep(record, record'), issuing' \in Issuing,
             replying' \in [Replies -> Replying], redelivering' \in SUBSET InteractionState,
             overdue' \in BOOLEAN, told' \in Seq(HumanInteractionResult), policy' = policy,
             unspent' \in [redeliveries : 0 .. MaxRedeliveries, faults : 0 .. MaxInteractionFaults]
      PROVE  InteractionTypeOK' /\ RecordStep(record, record')
  BY <1>0, <1>1 DEF InteractionTypeOK, Record, Issuing, Replying, RecordStep
<1>2. \A at \in {"idle", "resolve", "deliver", "done", "failed"} :
        /\ [issuing EXCEPT !.at = at] \in Issuing
        /\ [at |-> at, left |-> 0] \in Issuing
        /\ [at |-> at, left |-> Cardinality(Participants)] \in Issuing
  BY <1>0 DEF Issuing
<1>3. \A at \in {"idle", "resolve", "tell", "done", "untold"}, r \in Replies :
        [replying EXCEPT ![r].at = at] \in [Replies -> Replying]
  BY <1>0 DEF Replying
<1>4. RecordStep(record, record)
  BY <1>0, RecordSteps
<1>5. CASE Create
  <2>1. RecordStep(record, record')
    BY <1>0, <1>5, RecordSteps DEF Create, InteractionState
  <2>2. QED
    BY <1>0, <1>1, <1>2, <1>5, <2>1 DEF Create
<1>6. CASE Unresolved
  BY <1>0, <1>1, <1>2, <1>4, <1>6 DEF Unresolved
<1>7. CASE Issue
  <2>1. RecordStep(record, record')
    BY <1>0, <1>7, RecordSteps DEF Issue, InteractionState
  <2>2. QED
    BY <1>0, <1>1, <1>2, <1>7, <2>1 DEF Issue
<1>8. CASE Await
  <2>1. record' = [record EXCEPT !.state = IF record.delivered THEN "awaiting-response"
                                           ELSE record.state]
    BY <1>0, <1>8 DEF Await
  <2>2. RecordStep(record, record')
    BY <1>0, <2>1, RecordSteps DEF InteractionState
  <2>3. QED
    BY <1>0, <1>1, <1>2, <1>8, <2>2 DEF Await
<1>9. CASE Redeliver
  <2>1. unspent.redeliveries \in 0 .. MaxRedeliveries /\ unspent.redeliveries > 0
        /\ unspent' = [unspent EXCEPT !.redeliveries = @ - 1]
    BY <1>0, <1>9 DEF Redeliver
  <2>2. unspent.redeliveries - 1 \in 0 .. MaxRedeliveries
    BY <2>1, InteractionAssumption
  <2>3. unspent' \in [redeliveries : 0 .. MaxRedeliveries, faults : 0 .. MaxInteractionFaults]
    BY <1>0, <2>1, <2>2
  <2>4. QED
    BY <1>0, <1>1, <1>4, <1>9, <2>3 DEF Redeliver
<1>10. ASSUME NEW ok \in BOOLEAN, Deliver(ok) PROVE InteractionTypeOK' /\ RecordStep(record, record')
  <2>1. record' = [record EXCEPT !.state = IF ok THEN "delivered" ELSE "delivery-failed",
                                 !.delivered = record.delivered \/ ok]
    BY <1>10 DEF Deliver
  <2>2. RecordStep(record, record')
    BY <1>0, <2>1, RecordSteps DEF InteractionState
  <2>3. issuing.left - 1 \in 0 .. Cardinality(Participants)
    BY <1>0, <1>10 DEF Deliver, Issuing
  <2>4. issuing' \in Issuing
    BY <1>0, <1>10, <2>3 DEF Deliver, Issuing
  <2>5. QED
    BY <1>0, <1>1, <1>10, <2>2, <2>4 DEF Deliver
<1>11. ASSUME NEW s \in redelivering, NEW ok \in BOOLEAN, Redelivered(s, ok)
       PROVE  InteractionTypeOK' /\ RecordStep(record, record')
  <2>1. record' = [record EXCEPT !.state = s, !.delivered = record.delivered \/ ok]
    BY <1>11 DEF Redelivered
  <2>2. RecordStep(record, record')
    BY <1>0, <2>1, RecordSteps
  <2>3. QED
    BY <1>0, <1>1, <1>11, <2>2 DEF Redelivered
<1>12. ASSUME NEW r \in Replies, NEW type \in ResponseType, Respond(r, type)
       PROVE  InteractionTypeOK' /\ RecordStep(record, record')
  <2> DEFINE more == Append(record.responses, [by |-> ReplyBy[r], type |-> type])
  <2>1. more \in Seq(HumanResponse)
    BY <1>0, InteractionAssumption DEF HumanResponse
  <2>2. /\ record' = [record EXCEPT !.state = "validated", !.responses = more]
        /\ record'.responses = more /\ record.result = NoResult
    BY <1>0, <1>12 DEF Respond, Valid, Record
  <2>3. replying' = [replying EXCEPT ![r] = [at |-> "resolve", seen |-> more]]
    BY <1>12, <2>2 DEF Respond
  <2> HIDE DEF more
  <2>4. RecordStep(record, record')
    BY <1>0, <2>1, <2>2, RecordSteps DEF InteractionState
  <2>5. replying' \in [Replies -> Replying]
    BY <1>0, <2>1, <2>3 DEF Replying
  <2>6. QED
    BY <1>0, <1>1, <1>12, <2>4, <2>5 DEF Respond
<1>13. ASSUME NEW r \in Replies, Undecided(r) PROVE InteractionTypeOK' /\ RecordStep(record, record')
  BY <1>0, <1>1, <1>3, <1>4, <1>13 DEF Undecided
<1>14. ASSUME NEW r \in Replies, Complete(r) \/ Tell(r) \/ Untold(r)
       PROVE  InteractionTypeOK' /\ RecordStep(record, record')
  <2> DEFINE x == [status |-> decide(replying[r].seen), responses |-> replying[r].seen]
  <2>1. x \in HumanInteractionResult /\ x.status = decide(replying[r].seen)
    <3>1. replying[r].seen \in Seq(HumanResponse)
      BY <1>0 DEF Replying
    <3>2. QED
      BY <3>1, DecisionType DEF HumanInteractionResult
  <2>2. CASE Complete(r)
    <3>1. record' = [record EXCEPT !.state = "completed", !.result = x] /\ x.status # Pending
      BY <2>1, <2>2 DEF Complete
    <3> HIDE DEF x
    <3>2. RecordStep(record, record')
      BY <1>0, <2>1, <3>1, RecordSteps DEF InteractionState
    <3>3. QED
      BY <1>0, <1>1, <1>3, <2>2, <3>2 DEF Complete
  <2>3. CASE Tell(r)
    <3>1. told' \in Seq(HumanInteractionResult)
      BY <1>0, <2>1, <2>3 DEF Tell
    <3>2. QED
      BY <1>0, <1>1, <1>3, <1>4, <2>3, <3>1 DEF Tell
  <2>4. CASE Untold(r)
    <3>1. unspent.faults \in 0 .. MaxInteractionFaults /\ unspent.faults > 0
          /\ unspent' = [unspent EXCEPT !.faults = @ - 1]
      BY <1>0, <2>4 DEF Untold
    <3>2. unspent.faults - 1 \in 0 .. MaxInteractionFaults
      BY <3>1, InteractionAssumption
    <3>3. unspent' \in [redeliveries : 0 .. MaxRedeliveries, faults : 0 .. MaxInteractionFaults]
      BY <1>0, <3>1, <3>2
    <3>4. QED
      BY <1>0, <1>1, <1>3, <1>4, <2>4, <3>3 DEF Untold
  <2>5. QED
    BY <1>14, <2>2, <2>3, <2>4
<1>15. CASE ExpireInteraction
  <2> DEFINE x == [status |-> ExpirationStatus, responses |-> record.responses]
  <2>1. x \in HumanInteractionResult /\ x.status # Pending
    BY <1>0 DEF HumanInteractionResult, ExpirationStatus, CompletionStatus, Pending
  <2>2. record' = [record EXCEPT
          !.state = IF policy.expiration = "escalate" THEN "escalated" ELSE "expired",
          !.result = x]
    BY <1>15 DEF ExpireInteraction
  <2> HIDE DEF x
  <2>3. RecordStep(record, record')
    BY <1>0, <2>1, <2>2, RecordSteps DEF InteractionState
  <2>4. QED
    BY <1>0, <1>1, <1>15, <2>3 DEF ExpireInteraction
<1>16. CASE CancelInteraction
  <2> DEFINE x == [status |-> "cancelled", responses |-> record.responses]
  <2>1. x \in HumanInteractionResult /\ x.status # Pending
    BY <1>0 DEF HumanInteractionResult, CompletionStatus, Pending
  <2>2. record' = [record EXCEPT !.state = "cancelled", !.result = x]
    BY <1>16 DEF CancelInteraction
  <2> HIDE DEF x
  <2>3. RecordStep(record, record')
    BY <1>0, <2>1, <2>2, RecordSteps DEF InteractionState
  <2>4. QED
    BY <1>0, <1>1, <1>16, <2>3 DEF CancelInteraction
<1>17. CASE Overdue
  BY <1>0, <1>1, <1>4, <1>17 DEF Overdue
<1>18. QED
  BY <1>5, <1>6, <1>7, <1>8, <1>9, <1>10, <1>11, <1>12, <1>13, <1>14, <1>15, <1>16, <1>17,
     InteractionAssumption
     DEF InteractionNext

(* Once an interaction has a result no response is added to it and it keeps a      *)
(* result, for any participants, replies, policies, redeliveries and faults.        *)
THEOREM ClosedTakesNoResponse == InteractionSpec => InteractionCorrect
<1>1. InteractionTypeOK /\ [InteractionNext]_interactionVars => InteractionTypeOK'
  <2>1. InteractionTypeOK /\ UNCHANGED interactionVars => InteractionTypeOK'
    BY DEF InteractionTypeOK, interactionVars
  <2>2. QED
    BY <2>1, InteractionNextOK
<1>2. InteractionTypeOK /\ [InteractionNext]_interactionVars
        => [record.result # NoResult =>
              record'.responses = record.responses /\ record'.result # NoResult]_interactionVars
  BY InteractionNextOK DEF RecordStep
<1>3. QED
  BY <1>1, <1>2, InteractionInitOK, PTL DEF InteractionSpec, InteractionCorrect, ResponsesClosed

-----------------------------------------------------------------------------
(* The scheduler: retired jobs. *)

Retired(j) == jobs[j].state \in {"cancelled", "expired"}

\* a dispatch that is awaited holds the entry it took
Underway(f) ==
  /\ \E phase, entry, job, at :
       f = [phase |-> phase, entry |-> entry, job |-> job, at |-> at]
  /\ f.entry.job \in Jobs /\ f.entry.attempt \in Nat

LEMMA UnderwayPhase ==
  ASSUME NEW f, Underway(f), NEW phase
  PROVE  Underway([f EXCEPT !.phase = phase]) /\ [f EXCEPT !.phase = phase].entry = f.entry
<1>1. PICK p, entry, job, at : f = [phase |-> p, entry |-> entry, job |-> job, at |-> at]
  BY DEF Underway
<1>2. [f EXCEPT !.phase = phase] = [phase |-> phase, entry |-> entry, job |-> job, at |-> at]
  BY <1>1
<1>3. f.entry = entry /\ entry.job \in Jobs /\ entry.attempt \in Nat
  BY <1>1 DEF Underway
<1> DEFINE g == [f EXCEPT !.phase = phase]
<1> HIDE DEF g
<1>4. \E x, e, j, y : g = [phase |-> x, entry |-> e, job |-> j, at |-> y]
  <2>1. g = [phase |-> phase, entry |-> entry, job |-> job, at |-> at]
    BY <1>2 DEF g
  <2>2. QED
    BY <2>1, Zenon
<1>5. g.entry = entry
  BY <1>2 DEF g
<1>6. Underway(g) /\ g.entry = f.entry
  BY <1>3, <1>4, <1>5 DEF Underway
<1>7. QED
  BY <1>6 DEF g

\* cancel() and expire() leave no entry behind, and a retry revives its own job
RestInv ==
  /\ jobs \in [Jobs -> ScheduledJob] /\ handoffs \in [Jobs -> Nat]
  /\ \A e \in queue : e.job \in Jobs /\ e.attempt \in Nat
  /\ DOMAIN flights = Dispatchers
  /\ \A d \in Dispatchers : flights[d] # Idle => Underway(flights[d])
  /\ \A j \in Jobs : Retired(j) => \A e \in queue : e.job # j

\* what is said of a retired job that no dispatch holds
Rests(j) == Retired(j) /\ Flying(j) = {} => Retired(j)' /\ handoffs'[j] = handoffs[j]

\* job k is written, for the reason that it is not retired or becomes so
LEMMA SaveRests ==
  ASSUME RestInv, NEW k \in Jobs, NEW job \in ScheduledJob, save(k, job),
         UNCHANGED <<flights, handoffs>>,
         \A e \in queue' : e \in queue \/ (e.job = k /\ e.attempt \in Nat),
         \/ job.state \in {"cancelled", "expired"} /\ queue' = Without(k)
         \/ job.state \notin {"cancelled", "expired"} /\ (~Retired(k) \/ Flying(k) # {})
  PROVE  RestInv' /\ \A j \in Jobs : Rests(j)
<1>1. jobs' \in [Jobs -> ScheduledJob] /\ jobs'[k] = job
      /\ \A j \in Jobs : j # k => jobs'[j] = jobs[j]
  BY DEF save, RestInv
<1>2. \A j \in Jobs : Retired(j)' => \A e \in queue' : e.job # j
  BY <1>1 DEF RestInv, Retired, Without
<1>3. QED
  BY <1>1, <1>2 DEF RestInv, Retired, Rests

LEMMA RestNext ==
  ASSUME RestInv, SchedulerNext
  PROVE  RestInv' /\ \A j \in Jobs : Rests(j)
<1> DEFINE Goal == RestInv' /\ \A j \in Jobs : Rests(j)
<1>0. \A j \in Jobs : jobs[j] \in ScheduledJob
  BY DEF RestInv
<1>1. ASSUME NEW j \in Jobs, Schedule(j) PROVE Goal
  <2>1. [state |-> "scheduled", dispatchAttempts |-> 0] \in ScheduledJob
    BY DEF ScheduledJob, JobState
  <2>2. ~Retired(j)
    BY <1>1 DEF Schedule, Known, Retired
  <2>3. QED
    BY <1>1, <2>1, <2>2, SaveRests DEF Schedule
<1>2. ASSUME NEW j \in Jobs, Expire(j, jobs[j]), UNCHANGED <<flights, handoffs>> PROVE Goal
  <2> DEFINE job == [jobs[j] EXCEPT !.state = "expired"]
  <2>1. job \in ScheduledJob /\ job.state = "expired"
    BY <1>0 DEF ScheduledJob, JobState
  <2> HIDE DEF job
  <2>2. save(j, job) /\ queue' = Without(j)
    BY <1>2 DEF Expire, job
  <2>3. QED
    BY <1>2, <2>1, <2>2, SaveRests DEF Without
<1>3. ASSUME NEW j \in Jobs, TriggerExpired(j) PROVE Goal
  BY <1>2, <1>3 DEF TriggerExpired
<1>4. ASSUME NEW j \in Jobs, NEW type, Trigger(j, type) PROVE Goal
  <2> DEFINE job == [jobs[j] EXCEPT !.state = "queued"]
             entry == [job |-> j, attempt |-> jobs[j].dispatchAttempts + 1, eligibleAt |-> now]
  <2>1. job \in ScheduledJob /\ job.state = "queued"
    BY <1>0 DEF ScheduledJob, JobState
  <2>2. entry.job = j /\ entry.attempt \in Nat
    BY <1>0 DEF ScheduledJob
  <2>3. save(j, job) /\ queue' = enqueue(entry) /\ ~Retired(j) /\ UNCHANGED <<flights, handoffs>>
    BY <1>4 DEF Trigger, Dormant, Retired
  <2> HIDE DEF job, entry
  <2>4. \A e \in queue' : e \in queue \/ e = entry
    BY <2>3 DEF enqueue
  <2>5. \A e \in queue' : e \in queue \/ (e.job = j /\ e.attempt \in Nat)
    BY <2>2, <2>4
  <2>6. QED
    BY <2>1, <2>3, <2>5, SaveRests
<1>5. ASSUME NEW j \in Jobs, Cancel(j) PROVE Goal
  <2> DEFINE job == [jobs[j] EXCEPT !.state = "cancelled"]
  <2>1. job \in ScheduledJob /\ job.state = "cancelled"
    BY <1>0 DEF ScheduledJob, JobState
  <2> HIDE DEF job
  <2>2. save(j, job) /\ queue' = Without(j)
    BY <1>5 DEF Cancel, job
  <2>3. QED
    BY <1>5, <2>1, <2>2, SaveRests DEF Cancel, Without
<1>6. ASSUME NEW d \in Dispatchers, NEW e \in Foremost, Dispatch(d, e) PROVE Goal
  <2>1. e \in queue /\ e.job \in Jobs /\ e.attempt \in Nat /\ ~Retired(e.job)
    BY DEF Foremost, Eligible, RestInv
  <2>2. /\ jobs' = jobs /\ queue' = queue \ {e}
        /\ handoffs' \in [Jobs -> Nat]
        /\ \A j \in Jobs : j # e.job => handoffs'[j] = handoffs[j]
    BY <1>6, <2>1 DEF Dispatch, RestInv
  <2>3. /\ DOMAIN flights' = Dispatchers /\ Underway(flights'[d])
        /\ \A c \in Dispatchers : c # d => flights'[c] = flights[c]
    BY <1>6, <2>1 DEF Dispatch, RestInv, Underway
  <2>4. QED
    BY <2>1, <2>2, <2>3 DEF RestInv, Rests, Retired
<1>7. ASSUME NEW e \in Foremost, DispatchDenied(e) PROVE Goal
  BY <1>7 DEF DispatchDenied, RestInv, Rests, Retired
<1>8. ASSUME NEW e \in Foremost, DispatchExpired(e) PROVE Goal
  <2>1. e.job \in Jobs
    BY DEF Foremost, Eligible, RestInv
  <2>2. QED
    BY <1>2, <1>8, <2>1 DEF DispatchExpired
<1>9. ASSUME NEW d \in Dispatchers, flights[d].phase \in {"worker", "publish"},
             UNCHANGED handoffs,
             \/ \E phase : flights' = [flights EXCEPT ![d].phase = phase]
             \/ flights' = [flights EXCEPT ![d] = Idle],
             NEW job \in ScheduledJob, job.state \notin {"cancelled", "expired"},
             jobs' = [jobs EXCEPT ![flights[d].entry.job] = job],
             \A e \in queue' :
               e \in queue \/ (e.job = flights[d].entry.job /\ e.attempt \in Nat)
      PROVE  Goal
  <2> DEFINE k == flights[d].entry.job
  <2>1. flights[d] # Idle /\ k \in Jobs
    BY <1>9 DEF RestInv, Idle, Underway
  <2>2. Flying(k) # {}
    BY <2>1 DEF Flying
  <2>3. /\ DOMAIN flights' = Dispatchers
        /\ \A c \in Dispatchers : flights'[c] # Idle => Underway(flights'[c])
    <3>1. CASE flights' = [flights EXCEPT ![d] = Idle]
      BY <3>1 DEF RestInv
    <3>2. ASSUME NEW phase, flights' = [flights EXCEPT ![d].phase = phase]
          PROVE  /\ DOMAIN flights' = Dispatchers
                 /\ \A c \in Dispatchers : flights'[c] # Idle => Underway(flights'[c])
      <4>1. flights' = [flights EXCEPT ![d] = [flights[d] EXCEPT !.phase = phase]]
        BY <3>2
      <4>2. Underway([flights[d] EXCEPT !.phase = phase])
        BY <2>1, UnderwayPhase DEF RestInv
      <4>3. QED
        BY <4>1, <4>2 DEF RestInv
    <3>3. QED
      BY <1>9, <3>1, <3>2
  <2>4. jobs' \in [Jobs -> ScheduledJob] /\ jobs'[k] = job
        /\ \A j \in Jobs : j # k => jobs'[j] = jobs[j]
    BY <1>9, <2>1 DEF RestInv
  <2>5. \A e \in queue' : e \in queue \/ (e.job = k /\ e.attempt \in Nat)
    BY <1>9
  <2> HIDE DEF k
  <2>6. RestInv'
    BY <1>9, <2>1, <2>3, <2>4, <2>5 DEF RestInv, Retired
  <2>7. \A j \in Jobs : Rests(j)
    BY <1>9, <2>2, <2>4 DEF Rests, Retired
  <2>8. QED
    BY <2>6, <2>7
<1>10. ASSUME NEW d \in Dispatchers, Answer(d) PROVE Goal
  <2> DEFINE f == flights[d]
  <2>1. f.phase \in {"worker", "publish"}
    BY <1>10 DEF Answer, WorkerAccepts, WorkerFails, DispatchPublished, DispatchUnpublished
  <2>2. f # Idle /\ f.entry.job \in Jobs /\ f.entry.attempt \in Nat
    BY <2>1 DEF RestInv, Idle, Underway
  <2>3. CASE WorkerAccepts(d)
    <3>1. [state |-> "dispatched", dispatchAttempts |-> f.entry.attempt] \in ScheduledJob
      BY <2>2 DEF ScheduledJob, JobState
    <3> DEFINE job == [state |-> "dispatched", dispatchAttempts |-> f.entry.attempt]
    <3>2. /\ jobs' = [jobs EXCEPT ![f.entry.job] = job] /\ job.state = "dispatched"
          /\ flights' = [flights EXCEPT ![d].phase = "publish"]
          /\ queue' = queue /\ handoffs' = handoffs
      BY <2>3 DEF WorkerAccepts, save
    <3> HIDE DEF job
    <3>3. QED
      BY <1>9, <2>1, <3>1, <3>2 DEF job
  <2>4. CASE DispatchPublished(d)
    <3>1. /\ UNCHANGED <<jobs, queue, handoffs>> /\ flights' = [flights EXCEPT ![d] = Idle]
      BY <2>4 DEF DispatchPublished
    <3>2. /\ DOMAIN flights' = Dispatchers
          /\ \A c \in Dispatchers : flights'[c] # Idle => flights'[c] = flights[c]
      BY <3>1 DEF RestInv
    <3>3. QED
      BY <3>1, <3>2 DEF RestInv, Rests, Retired
  <2>5. CASE Retry(d) /\ UNCHANGED handoffs
    <3>1. [state |-> RetryState(f), dispatchAttempts |-> f.entry.attempt] \in ScheduledJob
          /\ RetryState(f) \in {"dead-letter", "retrying"}
      BY <2>2 DEF ScheduledJob, JobState, RetryState
    <3>2. \A e \in RetryQueue(f) :
            e \in queue \/ (e.job = f.entry.job /\ e.attempt \in Nat)
      <4> DEFINE at == f.at + Delay(f.entry.job, f.entry.attempt)
                 next == [job |-> f.entry.job, attempt |-> f.entry.attempt + 1,
                          eligibleAt |-> at]
      <4> HIDE DEF at
      <4>1. next.job = f.entry.job /\ next.attempt \in Nat
        BY <2>2
      <4>2. RetryQueue(f) \in {queue, enqueue(next)}
        BY DEF RetryQueue, at
      <4> HIDE DEF next
      <4>3. \A e \in RetryQueue(f) : e \in queue \/ e = next
        BY <4>2 DEF enqueue
      <4>4. QED
        BY <4>1, <4>3
    <3>3. /\ jobs' = [jobs EXCEPT ![f.entry.job] =
                        [state |-> RetryState(f), dispatchAttempts |-> f.entry.attempt]]
          /\ queue' = RetryQueue(f) /\ flights' = [flights EXCEPT ![d] = Idle]
      BY <2>5 DEF Retry, save
    <3> DEFINE job == [state |-> RetryState(f), dispatchAttempts |-> f.entry.attempt]
    <3>4. job \in ScheduledJob /\ job.state \notin {"cancelled", "expired"}
      BY <3>1
    <3>5. jobs' = [jobs EXCEPT ![f.entry.job] = job]
      BY <3>3
    <3> HIDE DEF job
    <3>6. QED
      BY <1>9, <2>1, <2>5, <3>2, <3>3, <3>4, <3>5
  <2>6. QED
    BY <1>10, <2>3, <2>4, <2>5 DEF Answer, WorkerFails, DispatchUnpublished
<1>11. CASE Tick
  BY <1>11 DEF Tick, RestInv, Rests, Retired
<1>12. QED
  BY <1>1, <1>3, <1>4, <1>5, <1>6, <1>7, <1>8, <1>10, <1>11 DEF SchedulerNext

(* A cancelled or expired job that no dispatch holds stays so and is not handed    *)
(* over again, whatever the other callers of the scheduler do, for any jobs,        *)
(* schedules, limits, dispatchers and failing publications.                         *)
THEOREM RetiredJobsRest == SchedulerSpec => RetiredAtRest
<1>1. SchedulerInit => RestInv
  BY DEF SchedulerInit, RestInv, Unknown, ScheduledJob, JobState, Retired, Idle
<1>2. RestInv /\ [SchedulerNext]_schedulerVars
        => RestInv' /\ [\A j \in Jobs : Rests(j)]_schedulerVars
  <2>1. RestInv /\ UNCHANGED schedulerVars => RestInv'
    BY DEF RestInv, schedulerVars, Retired
  <2>2. QED
    BY <2>1, RestNext
<1>3. (\A j \in Jobs : Rests(j))
        => \A j \in Jobs : jobs[j].state \in {"cancelled", "expired"} /\ Flying(j) = {}
             => /\ jobs'[j].state \in {"cancelled", "expired"}
                /\ handoffs'[j] = handoffs[j]
  BY DEF Rests, Retired
<1>4. QED
  BY <1>1, <1>2, <1>3, PTL DEF SchedulerSpec, RetiredAtRest

=============================================================================
