------------------------------ MODULE PlatformProofs ------------------------------
(***************************************************************************)
(* The parts of a platform that MCPlatform checks on small instances, for  *)
(* every number of providers, chunks, evaluations, runs, tokens, requests, *)
(* transactions and faults:                                                *)
(*  - a stream keeps its promises to its client (StreamingInv), a turn     *)
(*    gives a call once (TranslationInv), an answered evaluation is the    *)
(*    stored one (EvaluationInv), an agent recalls what it answered        *)
(*    (AgentMemoryInv);                                                    *)
(*  - the transaction of persistence-postgres implements the atomic store; *)
(*  - a singleton is created once and a place disposes what it made from   *)
(*    the dependents down (CompositionInv);                                *)
(*  - the host takes requests when its boot is done, drains before it      *)
(*    closes, and answers what it recorded (HostInv).                      *)
(***************************************************************************)
EXTENDS Streaming, StreamTranslation, Evaluation, AgentMemory, Persistence, Composition,
        PlatformHost, FiniteSetTheorems, TLAPS

-----------------------------------------------------------------------------
(* Streams: the inductive invariant. *)

\* what is said is of the bound provider, which can no longer change
Spoken(event) == event.type = "delta" => routing.visible /\ event.from = routing.binding

Voice == Spoken(transit) /\ \A i \in DOMAIN seen : Spoken(seen[i])

\* an event waits for a reader; a terminal one ends the execution it tells of
InTransit ==
  /\ transit # None => pipe \in {"reading", "gone"}
  /\ Ends => execution = "ended"
  /\ transit.type = "completed" => checkpoint = "completed"

\* the client reads nothing after a terminal event
Closed ==
  \A i \in DOMAIN seen : seen[i].type \in Terminals => i = Len(seen) /\ pipe = "ended"

\* the log is one event ahead of the client at most, until a crash
Logged ==
  reader = "embedded" =>
    IF pipe = "left" THEN ReplayCoversClient
    ELSE log = seen \/ (transit # None /\ log = Append(seen, transit))

StreamingIInv == /\ StreamingTypeOK /\ Voice /\ InTransit /\ Closed /\ CompletedIsKept /\ Logged

LEMMA PrefixItself ==
  ASSUME NEW S, NEW s \in Seq(S)
  PROVE  IsPrefix(s, s) /\ \A e \in S : IsPrefix(s, Append(s, e))
BY DEF IsPrefix

LEMMA StreamingIInvImplies == StreamingIInv => StreamingInv
<1> SUFFICES ASSUME StreamingIInv PROVE StreamingInv
  OBVIOUS
<1>1. OneProviderSpoke
  BY DEF StreamingIInv, Voice, Spoken, OneProviderSpoke
<1>2. ReplayCoversClient
  <2> SUFFICES ASSUME reader = "embedded", pipe # "left" PROVE IsPrefix(seen, log)
    BY DEF StreamingIInv, Logged, ReplayCoversClient
  <2>1. seen \in Seq(StreamEvents \ {None}) /\ transit \in StreamEvents
    BY DEF StreamingIInv, StreamingTypeOK
  <2>2. IsPrefix(seen, seen)
    BY <2>1, PrefixItself
  <2>3. CASE log = seen
    BY <2>2, <2>3
  <2>4. CASE transit # None /\ log = Append(seen, transit)
    <3>1. transit \in StreamEvents \ {None}
      BY <2>1, <2>4
    <3>2. QED
      BY <2>1, <2>4, <3>1, PrefixItself
  <2>5. QED
    BY <2>3, <2>4 DEF StreamingIInv, Logged
<1>3. QED
  BY <1>1, <1>2 DEF StreamingIInv, StreamingInv

LEMMA StreamingInitOK == StreamingInit => StreamingIInv
<1> SUFFICES ASSUME StreamingInit PROVE StreamingIInv
  OBVIOUS
<1>1. StreamingTypeOK
  <2>1. transit \in StreamEvents /\ log \in Seq(StreamEvents \ {None}) /\ seen \in Seq(StreamEvents \ {None})
    BY DEF StreamingInit, StreamEvents
  <2>2. routing \in [binding : Providers, excluded : SUBSET Providers, visible : BOOLEAN]
        /\ routing.binding \notin routing.excluded
    BY DEF StreamingInit
  <2>3. pulls \in 0..MaxPulls
    BY StreamingAssumption DEF StreamingInit
  <2>4. QED
    BY <2>1, <2>2, <2>3 DEF StreamingInit, StreamingTypeOK, Terminals
<1>2. Voice /\ InTransit /\ Closed /\ CompletedIsKept /\ Logged
  BY DEF StreamingInit, Voice, Spoken, InTransit, Closed, CompletedIsKept, Logged, Ends, None, Terminals
<1>3. QED
  BY <1>1, <1>2 DEF StreamingIInv

\* what a step yields
LEMMA YieldedEvents ==
  /\ None \in StreamEvents /\ None.type \notin Terminals \cup {"delta"}
  /\ \A p \in Providers : /\ Event("delta", p) \in StreamEvents \ {None}
                          /\ Event("usage", p) \in StreamEvents \ {None}
  /\ \A t \in Terminals : Event(t, "runtime") \in StreamEvents \ {None}
  /\ \A t, p : Event(t, p).type = t /\ Event(t, p).from = p
  /\ "delta" \notin Terminals /\ "usage" \notin Terminals
<1>1. \A t, p : Event(t, p).type = t /\ Event(t, p).from = p
  BY DEF Event
<1>2. \A t, p : t # "none" => Event(t, p) # None
  BY <1>1 DEF None
<1>3. \A p \in Providers : Event("delta", p) \in StreamEvents /\ Event("usage", p) \in StreamEvents
  BY DEF StreamEvents
<1>4. \A t \in Terminals : Event(t, "runtime") \in StreamEvents
  BY DEF StreamEvents
<1>5. None \in StreamEvents /\ None.type \notin Terminals \cup {"delta"} /\ "none" \notin Terminals
      /\ "delta" \notin Terminals /\ "usage" \notin Terminals
  BY DEF StreamEvents, None, Terminals
<1>6. QED
  BY <1>1, <1>2, <1>3, <1>4, <1>5

\* a terminal event, or one the bound provider sent
ThrowsOrArrives ==
  \/ \E terminal \in {"cancelled", "failed"} :
       transit' = Event(terminal, "runtime") /\ execution' = "ended"
       /\ checkpoint' \in {"cancelled", "failed", "cancelling", checkpoint}
  \/ transit' = Event("completed", "runtime") /\ execution' = "ended" /\ checkpoint' = "completed"
  \/ transit' = Event("failed", "runtime") /\ execution' = "ended"
     /\ checkpoint' \in {checkpoint, "completing", "completed", "failed"}
  \/ transit' = None /\ execution' \in {execution, "streaming"} /\ checkpoint' \in {checkpoint, "running"}
  \/ transit' = Event("delta", routing.binding) /\ routing'.visible
     /\ UNCHANGED <<execution, checkpoint>>
  \/ transit' = Event("usage", routing.binding) /\ UNCHANGED <<execution, checkpoint>>

\* the provider is bound anew only before it is heard
Rebinds ==
  \/ UNCHANGED routing
  \/ routing' = MarksVisible
  \/ \E next \in Providers :
       /\ ~routing.visible /\ next \notin routing.excluded \cup {routing.binding}
       /\ routing' = [routing EXCEPT !.excluded = @ \cup {routing.binding}, !.binding = next]

\* one pull of the generators, as the reader sees it
Pulls ==
  /\ Pulling /\ ThrowsOrArrives /\ Rebinds
  /\ pulls' \in {pulls, pulls + 1} /\ (pulls < MaxPulls \/ UNCHANGED pulls)
  /\ UNCHANGED <<reader, signal, readerVars>>

ProviderStep ==
  \/ Prepare \/ AdapterContent \/ AdapterUsage \/ AdapterCompletes \/ AdapterCancelled
  \/ \E kind \in FailureKinds, retryable \in BOOLEAN :
       \/ AdapterFails(kind, retryable) \/ FallbackExhausted(kind, retryable)
       \/ \E next \in Providers : FallBackTo(kind, retryable, next)

LEMMA ThrowsIsSeen == \A c \in BOOLEAN : Throws(c) => ThrowsOrArrives
BY DEF Throws, ThrowsOrArrives

LEMMA ProviderPulls == ASSUME StreamingTypeOK, ProviderStep PROVE Pulls
<1>t. pulls \in Int /\ routing \in [binding : Providers, excluded : SUBSET Providers, visible : BOOLEAN]
  BY DEF StreamingTypeOK
<1>1. ASSUME Prepare PROVE Pulls
  BY <1>1, ThrowsIsSeen DEF Prepare, Pulls, ThrowsOrArrives, Rebinds, Pulling
<1>2. ASSUME AdapterContent PROVE Pulls
  BY <1>2, <1>t, ThrowsIsSeen
     DEF AdapterContent, Streams, Arrives, Interrupted, Pulls, ThrowsOrArrives, Rebinds, MarksVisible
<1>3. ASSUME AdapterUsage PROVE Pulls
  BY <1>3, ThrowsIsSeen
     DEF AdapterUsage, Streams, Arrives, Interrupted, Pulls, ThrowsOrArrives, Rebinds
<1>4. ASSUME AdapterCompletes PROVE Pulls
  BY <1>4, ThrowsIsSeen
     DEF AdapterCompletes, Completes, Streams, Interrupted, Pulls, ThrowsOrArrives, Rebinds
<1>5. ASSUME AdapterCancelled PROVE Pulls
  BY <1>5, ThrowsIsSeen DEF AdapterCancelled, Streams, Pulls, Rebinds
<1>6. ASSUME NEW k, NEW b, AdapterFails(k, b) \/ FallbackExhausted(k, b) PROVE Pulls
  BY <1>6, ThrowsIsSeen DEF AdapterFails, FallbackExhausted, Streams, Pulls, Rebinds
<1>7. ASSUME NEW k, NEW b, NEW next \in Providers, FallBackTo(k, b, next) PROVE Pulls
  BY <1>7 DEF FallBackTo, FallsBack, Streams, Pulls, Rebinds, Pulling, ThrowsOrArrives
<1>8. QED
  BY <1>1, <1>2, <1>3, <1>4, <1>5, <1>6, <1>7 DEF ProviderStep

LEMMA PullsKeep == ASSUME StreamingIInv, Pulls PROVE StreamingIInv'
<1>1. transit = None /\ pipe \in {"reading", "gone"} /\ pulls \in 0..MaxPulls /\ MaxPulls \in Nat
      /\ routing \in [binding : Providers, excluded : SUBSET Providers, visible : BOOLEAN]
      /\ routing.binding \notin routing.excluded /\ routing.binding \in Providers
  BY StreamingAssumption DEF StreamingIInv, StreamingTypeOK, Pulls, Pulling
<1>2. UNCHANGED <<reader, signal, log, result, registered, pipe, seen>>
  BY DEF Pulls, readerVars
<1>3. /\ routing' \in [binding : Providers, excluded : SUBSET Providers, visible : BOOLEAN]
      /\ routing'.binding \notin routing'.excluded
      /\ routing.visible => routing'.visible /\ routing'.binding = routing.binding
  <2>1. ASSUME routing' = MarksVisible
        PROVE  /\ routing' \in [binding : Providers, excluded : SUBSET Providers, visible : BOOLEAN]
               /\ routing'.binding = routing.binding /\ routing'.excluded = routing.excluded
               /\ routing'.visible
    BY <1>1, <2>1 DEF MarksVisible
  <2>2. ASSUME NEW next \in Providers, ~routing.visible,
               next \notin routing.excluded \cup {routing.binding},
               routing' = [routing EXCEPT !.excluded = @ \cup {routing.binding}, !.binding = next]
        PROVE  /\ routing' \in [binding : Providers, excluded : SUBSET Providers, visible : BOOLEAN]
               /\ routing'.binding = next /\ routing'.excluded = routing.excluded \cup {routing.binding}
    BY <1>1, <2>2
  <2>3. QED
    BY <1>1, <2>1, <2>2 DEF Pulls, Rebinds
<1>4. pulls' \in 0..MaxPulls
  BY <1>1 DEF Pulls
<1>5. /\ transit' \in StreamEvents /\ execution' \in {"unstarted", "streaming", "ended"}
      /\ checkpoint' \in {"none", "running", "completing", "cancelling"} \cup Terminals
      /\ (transit' # None => pipe' \in {"reading", "gone"})
  <2>1. execution \in {"unstarted", "streaming", "ended"}
        /\ checkpoint \in {"none", "running", "completing", "cancelling"} \cup Terminals
    BY DEF StreamingIInv, StreamingTypeOK
  <2>2. {"cancelled", "failed", "completed"} \subseteq Terminals
    BY DEF Terminals
  <2>3. QED
    BY <1>1, <1>2, <2>1, <2>2, YieldedEvents DEF Pulls, ThrowsOrArrives
<1>6. StreamingTypeOK'
  BY <1>2, <1>3, <1>4, <1>5 DEF StreamingIInv, StreamingTypeOK
<1>7. /\ transit'.type = "delta" => routing'.visible /\ transit'.from = routing'.binding
      /\ transit'.type \in Terminals => execution' = "ended"
      /\ transit'.type = "completed" => checkpoint' = "completed"
  <2>1. ASSUME UNCHANGED <<execution, checkpoint>>, transit' = Event("delta", routing.binding), routing'.visible
        PROVE  transit'.from = routing'.binding /\ transit'.type = "delta"
    <3>1. ASSUME NEW next \in Providers, ~routing.visible,
                 routing' = [routing EXCEPT !.excluded = @ \cup {routing.binding}, !.binding = next]
          PROVE  FALSE
      BY <1>1, <2>1, <3>1
    <3>2. routing'.binding = routing.binding
      BY <1>1, <3>1 DEF Pulls, Rebinds, MarksVisible
    <3>3. QED
      BY <2>1, <3>2, YieldedEvents
  <2>2. "completed" \in Terminals /\ "completed" # "delta"
    BY DEF Terminals
  <2>3. QED
    BY <2>1, <2>2, YieldedEvents DEF Pulls, ThrowsOrArrives
<1>8. Voice'
  BY <1>2, <1>3, <1>7 DEF Voice, Spoken, StreamingIInv
<1>9. InTransit'
  BY <1>5, <1>7 DEF InTransit, Ends
<1>10. (Closed /\ CompletedIsKept)'
  BY <1>1, <1>2, YieldedEvents DEF StreamingIInv, Closed, CompletedIsKept, Terminals
<1>11. Logged'
  BY <1>1, <1>2 DEF StreamingIInv, Logged, ReplayCoversClient
<1>12. QED
  BY <1>6, <1>8, <1>9, <1>10, <1>11 DEF StreamingIInv

\* a reader that leaves takes nothing with it that the client was promised
LEMMA LeavingKeeps ==
  ASSUME StreamingIInv, pipe' = "left", transit' = None, execution' = "ended", pipe # "ended",
         log' \in {log, <<>>}, UNCHANGED <<reader, routing, checkpoint, seen, pulls>>,
         signal' \in [aborted : BOOLEAN, expired : BOOLEAN], result' \in BOOLEAN, registered' \in BOOLEAN
  PROVE  StreamingIInv'
<1>1. None \in StreamEvents /\ None.type \notin Terminals \cup {"delta", "completed"}
  BY YieldedEvents DEF Terminals
<1>2. StreamingTypeOK'
  <2>1. log' \in Seq(StreamEvents \ {None})
    <3>1. log \in Seq(StreamEvents \ {None})
      BY DEF StreamingIInv, StreamingTypeOK
    <3>2. CASE log' = log
      BY <3>1, <3>2
    <3>3. CASE log' = <<>>
      BY <3>3
    <3>4. QED
      BY <3>2, <3>3, Zenon
  <2>2. /\ reader' \in Readers /\ checkpoint' \in {"none", "running", "completing", "cancelling"} \cup Terminals
        /\ routing' \in [binding : Providers, excluded : SUBSET Providers, visible : BOOLEAN]
        /\ routing'.binding \notin routing'.excluded
        /\ seen' \in Seq(StreamEvents \ {None}) /\ pulls' \in 0..MaxPulls
    BY DEF StreamingIInv, StreamingTypeOK
  <2>3. QED
    BY <1>1, <2>1, <2>2 DEF StreamingTypeOK
<1>3. Voice' /\ InTransit'
  BY <1>1 DEF StreamingIInv, Voice, Spoken, InTransit, Ends
<1>4. \A i \in DOMAIN seen : seen[i].type \notin Terminals
  BY DEF StreamingIInv, Closed
<1>5. (Closed /\ CompletedIsKept)'
  BY <1>4 DEF Closed, CompletedIsKept, Terminals
<1>6. ReplayCoversClient
  BY StreamingIInvImplies DEF StreamingInv
<1>7. Logged'
  BY <1>6 DEF Logged, ReplayCoversClient
<1>8. QED
  BY <1>2, <1>3, <1>5, <1>7 DEF StreamingIInv

LEMMA DeliverKeeps == ASSUME StreamingIInv, Deliver PROVE StreamingIInv'
<1>1. /\ transit \in StreamEvents \ {None} /\ pipe = "reading" /\ Recorded
      /\ seen \in Seq(StreamEvents \ {None}) /\ log \in Seq(StreamEvents \ {None})
  BY DEF StreamingIInv, StreamingTypeOK, Deliver, Deliverable
<1>2. /\ seen' = Append(seen, transit) /\ transit' = None
      /\ UNCHANGED <<reader, routing, execution, checkpoint, signal, log, pulls>>
      /\ pipe' \in {"reading", "draining", "ended"} /\ (Ends => pipe' = "ended")
      /\ (transit.type = "completed" => result')
      /\ result' \in BOOLEAN /\ registered' \in BOOLEAN
  BY DEF StreamingIInv, StreamingTypeOK, Deliver, Writes
<1>3. /\ Len(seen') = Len(seen) + 1 /\ seen' \in Seq(StreamEvents \ {None})
      /\ DOMAIN seen' = 1..Len(seen) + 1 /\ seen'[Len(seen) + 1] = transit
      /\ \A i \in 1..Len(seen) : seen'[i] = seen[i]
  BY <1>1, <1>2
<1>4. DOMAIN seen = 1..Len(seen) /\ Len(seen) \in Nat
  BY <1>1
<1>5. StreamingTypeOK'
  BY <1>2, <1>3, YieldedEvents DEF StreamingIInv, StreamingTypeOK
<1>6. \A i \in DOMAIN seen : seen[i].type \notin Terminals
  BY <1>1 DEF StreamingIInv, Closed
<1>7. \A i \in DOMAIN seen' : (i = Len(seen') /\ seen'[i] = transit) \/ (i \in DOMAIN seen /\ seen'[i] = seen[i])
  <2>1. \A i \in 1..Len(seen) + 1 : i = Len(seen) + 1 \/ i \in 1..Len(seen)
    BY <1>4
  <2>2. QED
    BY <1>3, <1>4, <2>1
<1>8. Voice'
  BY <1>2, <1>7, YieldedEvents DEF StreamingIInv, Voice, Spoken
<1>9. InTransit'
  BY <1>2, YieldedEvents DEF InTransit, Ends, Terminals
<1>10. Closed'
  BY <1>2, <1>6, <1>7 DEF Closed, Ends
<1>11. CompletedIsKept'
  BY <1>2, <1>6, <1>7 DEF StreamingIInv, InTransit, CompletedIsKept, Terminals
<1>12. Logged'
  <2> SUFFICES ASSUME reader = "embedded" PROVE log = seen'
    BY <1>2 DEF Logged
  <2>1. Len(log) = Len(seen) + 1
    BY <1>1 DEF Recorded
  <2>2. log # seen
    BY <2>1, <1>4
  <2>3. QED
    BY <1>1, <1>2, <2>2 DEF StreamingIInv, Logged
<1>13. QED
  BY <1>5, <1>8, <1>9, <1>10, <1>11, <1>12 DEF StreamingIInv

LEMMA RecordKeeps == ASSUME StreamingIInv, Record PROVE StreamingIInv'
<1>1. /\ transit \in StreamEvents \ {None} /\ ~Recorded /\ pipe \in {"reading", "gone"}
      /\ seen \in Seq(StreamEvents \ {None}) /\ log \in Seq(StreamEvents \ {None})
  BY DEF StreamingIInv, StreamingTypeOK, InTransit, Record
<1>2. log' = Append(log, transit) /\ UNCHANGED <<reader, routing, execution, checkpoint, signal, transit,
                                                 result, registered, pipe, seen, pulls>>
  BY DEF Record
<1>3. log = seen
  <2>1. CASE log = Append(seen, transit)
    <3>1. Len(log) = Len(seen) + 1 /\ log # <<>> /\ log[Len(log)] = transit
      BY <1>1, <2>1
    <3>2. QED
      BY <1>1, <3>1 DEF Recorded, Last
  <2>2. QED
    BY <1>1, <2>1, StreamingAssumption DEF StreamingIInv, Logged, Recorded, StreamingTypeOK
<1>4. StreamingTypeOK'
  BY <1>1, <1>2 DEF StreamingIInv, StreamingTypeOK
<1>5. (Voice /\ InTransit /\ Closed /\ CompletedIsKept)'
  BY <1>2 DEF StreamingIInv, Voice, Spoken, InTransit, Ends, Closed, CompletedIsKept
<1>6. Logged'
  BY <1>1, <1>2, <1>3 DEF Logged
<1>7. QED
  BY <1>4, <1>5, <1>6 DEF StreamingIInv

\* the client comes and goes, the timer fires, between two events
Between ==
  /\ UNCHANGED <<reader, routing, execution, checkpoint, transit, log, result, seen, pulls>>
  /\ signal' \in [aborted : BOOLEAN, expired : BOOLEAN] /\ registered' \in BOOLEAN
  /\ \/ UNCHANGED pipe
     \/ transit = None /\ pipe \notin {"ended", "left"} /\ pipe' \in {"reading", "draining", "gone"}

LEMMA BetweenKeeps == ASSUME StreamingIInv, Between PROVE StreamingIInv'
<1>1. StreamingTypeOK'
  BY DEF StreamingIInv, StreamingTypeOK, Between
<1>2. (Voice /\ InTransit)'
  BY DEF StreamingIInv, Voice, Spoken, InTransit, Ends, Between
<1>3. (Closed /\ CompletedIsKept)'
  BY DEF StreamingIInv, Closed, CompletedIsKept, Between
<1>4. Logged'
  BY DEF StreamingIInv, Logged, ReplayCoversClient, Between
<1>5. QED
  BY <1>1, <1>2, <1>3, <1>4 DEF StreamingIInv

LEMMA StreamingStepOK == StreamingIInv /\ [StreamingNext]_streamVars => StreamingIInv'
<1> SUFFICES ASSUME StreamingIInv, [StreamingNext]_streamVars PROVE StreamingIInv'
  OBVIOUS
<1>t. /\ signal \in [aborted : BOOLEAN, expired : BOOLEAN] /\ result \in BOOLEAN /\ registered \in BOOLEAN
      /\ transit # None => pipe \in {"reading", "gone"}
  BY DEF StreamingIInv, StreamingTypeOK, InTransit
<1>s. [signal EXCEPT !.aborted = TRUE] \in [aborted : BOOLEAN, expired : BOOLEAN]
      /\ [signal EXCEPT !.expired = TRUE] \in [aborted : BOOLEAN, expired : BOOLEAN]
  BY <1>t
<1>1. CASE ProviderStep
  BY <1>1, ProviderPulls, PullsKeep DEF StreamingIInv
<1>2. CASE Expire \/ StartFrame \/ Drained \/ Disconnect \/ Dispose
  <2>1. CASE Expire
    BY <2>1, <1>t, <1>s, BetweenKeeps DEF Expire, readerVars, Between
  <2>2. CASE StartFrame \/ Drained
    BY <2>2, <1>t, BetweenKeeps DEF StartFrame, Drained, Writes, Between
  <2>3. CASE Disconnect \/ Dispose
    BY <2>3, <1>t, <1>s, BetweenKeeps DEF Disconnect, Dispose, Aborts, Between
  <2>4. QED
    BY <1>2, <2>1, <2>2, <2>3
<1>3. CASE Record
  BY <1>3, RecordKeeps
<1>4. CASE Deliver
  BY <1>4, DeliverKeeps
<1>5. CASE RecordFails \/ DropAfterDisconnect \/ ReaderBreaks
  <2>1. /\ pipe' = "left" /\ transit' = None /\ execution' = "ended" /\ pipe # "ended" /\ log' = log
        /\ UNCHANGED <<reader, routing, checkpoint, seen, pulls, signal>>
        /\ result' \in {result, TRUE} /\ registered' \in BOOLEAN
    BY <1>5, <1>t DEF RecordFails, DropAfterDisconnect, ReaderBreaks, Abandons
  <2>2. QED
    BY <2>1, <1>t, LeavingKeeps
<1>6. CASE DrainTimeout
  <2>1. /\ pipe' = "left" /\ transit' = None /\ execution' = "ended" /\ pipe # "ended" /\ log' = log
        /\ UNCHANGED <<reader, routing, checkpoint, seen, pulls, result>>
        /\ signal' \in [aborted : BOOLEAN, expired : BOOLEAN] /\ registered' \in BOOLEAN
    BY <1>6, <1>s DEF DrainTimeout, Abandons, Aborts
  <2>2. QED
    BY <2>1, <1>t, LeavingKeeps
<1>9. CASE StreamCrash
  <2>1. /\ pipe' = "left" /\ transit' = None /\ execution' = "ended" /\ pipe # "ended"
        /\ UNCHANGED <<reader, routing, checkpoint, seen, pulls, signal>>
        /\ result' = FALSE /\ registered' = FALSE
    BY <1>9 DEF StreamCrash
  <2>2. log' \in {log, <<>>}
    BY <1>9 DEF StreamCrash
  <2>3. QED
    BY <2>1, <2>2, <1>t, LeavingKeeps
<1>7. CASE UNCHANGED streamVars
  <2>1. Between
    BY <1>7, <1>t DEF streamVars, Between
  <2>2. QED
    BY <2>1, BetweenKeeps
<1>8. QED
  BY <1>1, <1>2, <1>3, <1>4, <1>5, <1>6, <1>7, <1>9 DEF StreamingNext, ProviderStep

(* Whatever the number of providers, fallbacks and pulls, and wherever the stream is  *)
(* cut: the client hears one provider, is told 'completed' last and of what is kept,    *)
(* and finds what it heard in the log (runtime.ts 318-545, sse-stream.ts).               *)
THEOREM StreamsAreKept == StreamingSpec => []StreamingInv
<1>1. QED
  BY StreamingInitOK, StreamingStepOK, StreamingIInvImplies, PTL DEF StreamingSpec

-----------------------------------------------------------------------------
(* Translation of a vendor's stream: the inductive invariant. *)

TranslationTypes ==
  /\ TranslationTypeOK
  /\ sent \in [Calls -> {Nothing, "name", "part", "whole", "stopped"}]
  /\ assemblies \in [Positions -> Calls \cup {Nothing}]
  /\ given \in [Calls -> Nat]
  /\ vendor = "openai" => \A c \in Calls : sent[c] # "stopped"

\* where calls have ids, the ids given are the calls given
GivenById ==
  vendor # "gemini" => \A c \in Calls : given[c] = IF IdOf(c, 0) \in emitted THEN 1 ELSE 0

\* Gemini sends a call once: it is given at once, or waits for the end of the stream
GivenOrWaits ==
  vendor = "gemini" =>
    \A c \in Calls :
      /\ given[c] <= 1
      /\ sent[c] = Nothing => given[c] = 0 /\ \A p \in Positions : assemblies[p] # c
      /\ IsOpen => \A p \in Positions : assemblies[p] = c => given[c] = 0

TranslationIInv == TranslationTypes /\ GivenById /\ GivenOrWaits /\ CallsGiven

LEMMA TranslationIInvImplies == TranslationIInv => TranslationInv
<1> SUFFICES ASSUME TranslationIInv PROVE GivenOnce
  BY DEF TranslationIInv, TranslationInv, TranslationTypes
<1> QED
  BY DEF TranslationIInv, GivenById, GivenOrWaits, GivenOnce

LEMMA TranslationInitOK == TranslationInit => TranslationIInv
<1> SUFFICES ASSUME TranslationInit PROVE TranslationIInv
  OBVIOUS
<1>1. Nothing \notin Calls
  BY TranslationAssumption DEF Nothing
<1>2. TranslationTypes
  BY TranslationAssumption DEF TranslationInit, TranslationTypes, TranslationTypeOK, Open, Nothing
<1>3. GivenById /\ GivenOrWaits /\ CallsGiven
  BY <1>1 DEF TranslationInit, GivenById, GivenOrWaits, CallsGiven, EndsWithCalls, Open
<1>4. QED
  BY <1>2, <1>3 DEF TranslationIInv

\* a chunk that does not end the stream
LEMMA StaysOpen ==
  ASSUME TranslationTypes, ChunkArrives, UNCHANGED ending
  PROVE  /\ IsOpen /\ IsOpen' /\ UNCHANGED <<vendor, aborted>> /\ chunks' \in 0..MaxChunks
         /\ CallsGiven' /\ ending'.terminal = "open"
<1>1. chunks \in 0..MaxChunks /\ MaxChunks \in Nat
  BY TranslationAssumption DEF TranslationTypes, TranslationTypeOK
<1>2. IsOpen /\ IsOpen' /\ UNCHANGED <<vendor, aborted>> /\ chunks' = chunks + 1 /\ chunks < MaxChunks
  BY DEF ChunkArrives, IsOpen
<1>3. QED
  BY <1>1, <1>2 DEF CallsGiven, EndsWithCalls, IsOpen

\* nothing is given twice, whether at a fragment or at the end
LEMMA GivesKeeps ==
  ASSUME TranslationTypes, GivenById, vendor # "gemini", UNCHANGED vendor,
         NEW c \in Calls, Gives(c, 0)
  PROVE  given' \in [Calls -> Nat] /\ GivenById'
<1>1. \A d, e : IdOf(d, 0) = IdOf(e, 0) => d = e
  BY DEF IdOf
<1>2. \A d : IdOf(d, 0)' = IdOf(d, 0)
  BY DEF IdOf
<1>3. given \in [Calls -> Nat]
  BY DEF TranslationTypes
<1>4. CASE Unsent(c, 0)
  <2>1. emitted' = emitted \cup {IdOf(c, 0)} /\ given' = [given EXCEPT ![c] = @ + 1]
    BY <1>4 DEF Gives
  <2>2. given[c] = 0 /\ given'[c] = 1 /\ \A d \in Calls : d # c => given'[d] = given[d]
    BY <1>3, <1>4, <2>1 DEF GivenById, Unsent
  <2>3. given' \in [Calls -> Nat]
    BY <1>3, <2>1
  <2>4. GivenById'
    BY <1>1, <1>2, <2>1, <2>2 DEF GivenById
  <2>5. QED
    BY <2>3, <2>4
<1>5. CASE ~Unsent(c, 0)
  <2>1. UNCHANGED <<emitted, given>>
    BY <1>5 DEF Gives
  <2>2. QED
    BY <1>2, <1>3, <2>1 DEF GivenById
<1>6. QED
  BY <1>4, <1>5

LEMMA FragmentKeeps ==
  ASSUME TranslationIInv, NEW c \in Calls,
         OpenAiFragment(c) \/ AnthropicFragment(c) \/ AnthropicStop(c)
  PROVE  TranslationIInv'
<1>1. vendor \in {"openai", "anthropic"} /\ ChunkArrives /\ UNCHANGED <<assemblies, finishReason, ending>>
  BY DEF OpenAiFragment, AnthropicFragment, AnthropicStop
<1>2. TranslationTypes /\ GivenById
  BY DEF TranslationIInv
<1>3. /\ IsOpen /\ IsOpen' /\ UNCHANGED <<vendor, aborted>> /\ chunks' \in 0..MaxChunks
      /\ CallsGiven' /\ ending'.terminal = "open"
  BY <1>1, <1>2, StaysOpen
<1>4. Gives(c, 0) \/ UNCHANGED <<emitted, given>>
  BY DEF OpenAiFragment, AnthropicFragment, AnthropicStop
<1>5. given' \in [Calls -> Nat] /\ GivenById'
  <2>1. CASE Gives(c, 0)
    BY <1>1, <1>2, <1>3, <2>1, GivesKeeps
  <2>2. CASE UNCHANGED <<emitted, given>>
    BY <1>2, <1>3, <2>2 DEF TranslationTypes, GivenById, IdOf
  <2>3. QED
    BY <1>4, <2>1, <2>2
<1>6. /\ sent' \in [Calls -> {Nothing, "name", "part", "whole", "stopped"}]
      /\ vendor = "openai" => \A d \in Calls : sent'[d] # "stopped"
  <2>1. sent[c] \in {Nothing, "name", "part", "whole", "stopped"}
    BY <1>2 DEF TranslationTypes
  <2>2. \A x \in {Nothing, "name", "part", "whole"} : AfterFragment[x] \subseteq {"name", "part", "whole"}
    BY DEF AfterFragment, Nothing
  <2>3. CASE AnthropicStop(c)
    BY <1>2, <2>3 DEF AnthropicStop, TranslationTypes
  <2>4. CASE OpenAiFragment(c) \/ AnthropicFragment(c)
    <3>1. PICK now \in AfterFragment[sent[c]] : sent' = [sent EXCEPT ![c] = now]
      BY <2>4 DEF OpenAiFragment, AnthropicFragment
    <3>2. sent[c] # "stopped"
      BY <1>2, <2>4 DEF OpenAiFragment, AnthropicFragment, TranslationTypes
    <3>3. now \in {"name", "part", "whole"}
      BY <2>1, <2>2, <3>2
    <3>4. QED
      BY <1>2, <3>1, <3>3 DEF TranslationTypes
  <2>5. QED
    BY <2>3, <2>4
<1>7. TranslationTypes'
  BY <1>1, <1>2, <1>3, <1>5, <1>6 DEF TranslationTypes, TranslationTypeOK
<1>8. GivenOrWaits'
  BY <1>1, <1>3 DEF GivenOrWaits
<1>9. QED
  BY <1>3, <1>5, <1>7, <1>8 DEF TranslationIInv

LEMMA GeminiCallKeeps == ASSUME TranslationIInv, NEW c \in Calls, GeminiCall(c) PROVE TranslationIInv'
<1>1. /\ vendor = "gemini" /\ ChunkArrives /\ sent[c] = Nothing /\ UNCHANGED <<finishReason, ending>>
      /\ sent' = [sent EXCEPT ![c] = "whole"]
  BY DEF GeminiCall
<1>2. TranslationTypes /\ GivenOrWaits
  BY DEF TranslationIInv
<1>3. /\ IsOpen /\ IsOpen' /\ UNCHANGED <<vendor, aborted>> /\ chunks' \in 0..MaxChunks
      /\ CallsGiven' /\ ending'.terminal = "open"
  BY <1>1, <1>2, StaysOpen
<1>4. /\ sent \in [Calls -> {Nothing, "name", "part", "whole", "stopped"}]
      /\ assemblies \in [Positions -> Calls \cup {Nothing}] /\ given \in [Calls -> Nat]
  BY <1>2 DEF TranslationTypes
<1>5. sent' \in [Calls -> {Nothing, "name", "part", "whole", "stopped"}] /\ sent'[c] = "whole"
      /\ \A d \in Calls : d # c => sent'[d] = sent[d]
  BY <1>1, <1>4
<1>6. given[c] = 0 /\ \A p \in Positions : assemblies[p] # c
  BY <1>1, <1>2 DEF GivenOrWaits
<1>7. PICK p \in Positions :
        (Gives(c, p) /\ UNCHANGED assemblies) \/ (assemblies' = [assemblies EXCEPT ![p] = c] /\ UNCHANGED <<emitted, given>>)
  BY DEF GeminiCall
<1>8. /\ assemblies' \in [Positions -> Calls \cup {Nothing}] /\ given' \in [Calls -> Nat]
      /\ \A d \in Calls : d # c => given'[d] = given[d]
      /\ \A d \in Calls, q \in Positions : d # c /\ assemblies'[q] = d => assemblies[q] = d
      /\ given'[c] <= 1
      /\ \A q \in Positions : assemblies'[q] = c => given'[c] = 0
  <2>1. CASE Gives(c, p) /\ UNCHANGED assemblies
    <3>1. given' = given \/ given' = [given EXCEPT ![c] = @ + 1]
      BY <2>1 DEF Gives
    <3>2. QED
      BY <1>4, <1>6, <2>1, <3>1
  <2>2. CASE assemblies' = [assemblies EXCEPT ![p] = c] /\ UNCHANGED <<emitted, given>>
    BY <1>4, <1>6, <2>2
  <2>3. QED
    BY <1>7, <2>1, <2>2
<1>9. Nothing # "whole"
  BY DEF Nothing
<1>10. GivenOrWaits'
  BY <1>2, <1>3, <1>5, <1>8, <1>9 DEF GivenOrWaits
<1>11. TranslationTypes' /\ GivenById'
  BY <1>1, <1>2, <1>3, <1>5, <1>8 DEF TranslationTypes, TranslationTypeOK, GivenById
<1>12. QED
  BY <1>3, <1>10, <1>11 DEF TranslationIInv

\* steps that name no call
LEMMA NoCallKeeps ==
  ASSUME TranslationIInv, IsOpen, NoCall, UNCHANGED vendor, chunks' \in 0..MaxChunks,
         ending'.terminal \in {"open", "completed", "failed", "cancelled", "thrown"},
         ending'.terminal = "completed" => vendor # "openai" \/ finishReason' # "tool-calls"
  PROVE  TranslationIInv'
<1>1. TranslationTypes'
  BY DEF TranslationIInv, TranslationTypes, TranslationTypeOK, NoCall
<1>2. GivenById'
  BY DEF TranslationIInv, GivenById, IdOf, NoCall
<1>3. GivenOrWaits'
  BY DEF TranslationIInv, GivenOrWaits, NoCall
<1>4. CallsGiven'
  BY DEF CallsGiven, EndsWithCalls
<1>5. QED
  BY <1>1, <1>2, <1>3, <1>4 DEF TranslationIInv

LEMMA Terminated ==
  /\ Open.terminal = "open"
  /\ \A t : Terminates(t) => ending'.terminal = t
BY DEF Open, Terminates

\* those a turn ends with were not given before it
LEMMA GivesAllKeeps ==
  ASSUME TranslationIInv, vendor = "openai", NEW calls \in SUBSET Flushed, GivesAll(calls), UNCHANGED vendor
  PROVE  /\ given' \in [Calls -> Nat] /\ GivenById'
         /\ \A c \in calls : given'[c] = 1
         /\ \A c \in Calls \ calls : given'[c] = given[c]
<1>1. given \in [Calls -> Nat] /\ GivenById /\ Flushed \subseteq Calls
  BY DEF TranslationIInv, TranslationTypes, Flushed, Begun
<1>2. \A d, e : IdOf(d, 0) = IdOf(e, 0) => d = e
  BY DEF IdOf
<1>3. \A d : IdOf(d, 0)' = IdOf(d, 0)
  BY DEF IdOf
<1>4. \A c \in calls : given[c] = 0
  BY <1>1 DEF Flushed, Unsent, GivenById
<1>5. /\ emitted' = emitted \cup {IdOf(c, 0) : c \in calls}
      /\ given' = [c \in Calls |-> given[c] + IF c \in calls THEN 1 ELSE 0]
  BY DEF GivesAll
<1>6. \A c \in Calls : given'[c] = given[c] + (IF c \in calls THEN 1 ELSE 0) /\ given[c] \in Nat
  BY <1>1, <1>5
<1>7. (\A c \in calls : given'[c] = 1) /\ (\A c \in Calls \ calls : given'[c] = given[c])
  BY <1>1, <1>4, <1>6
<1>8. given' \in [Calls -> Nat]
  BY <1>1, <1>5
<1>9. \A c \in Calls : IdOf(c, 0) \in emitted' <=> IdOf(c, 0) \in emitted \/ c \in calls
  BY <1>2, <1>5
<1>10. GivenById'
  BY <1>1, <1>3, <1>7, <1>9 DEF GivenById
<1>11. QED
  BY <1>7, <1>8, <1>10

LEMMA OpenAiEndsKeeps == ASSUME TranslationIInv, OpenAiEnds PROVE TranslationIInv'
<1>1. vendor = "openai" /\ IsOpen /\ UNCHANGED <<vendor, chunks, aborted, finishReason>>
  BY DEF OpenAiEnds
<1>2. TranslationTypes /\ chunks' \in 0..MaxChunks
  BY <1>1 DEF TranslationIInv, TranslationTypes, TranslationTypeOK
<1>3. ASSUME NEW calls \in SUBSET Flushed, GivesAll(calls),
             ending'.terminal \in {"open", "completed", "failed", "cancelled", "thrown"},
             ending'.terminal = "completed" => calls = Flushed
      PROVE  TranslationIInv'
  <2>1. /\ given' \in [Calls -> Nat] /\ GivenById'
        /\ \A c \in calls : given'[c] = 1
        /\ \A c \in Calls \ calls : given'[c] = given[c]
    BY <1>1, <1>3, GivesAllKeeps
  <2>2. UNCHANGED <<sent, placed, assemblies>>
    BY <1>3 DEF GivesAll
  <2>3. TranslationTypes'
    BY <1>1, <1>2, <1>3, <2>1, <2>2 DEF TranslationTypes, TranslationTypeOK
  <2>4. GivenOrWaits'
    BY <1>1 DEF GivenOrWaits
  <2>5. CallsGiven'
    <3> SUFFICES ASSUME ending'.terminal = "completed", NEW c \in Begun' PROVE given'[c] = 1
      BY DEF CallsGiven, EndsWithCalls
    <3>1. c \in Begun /\ c \in Calls /\ calls = Flushed
      BY <1>3, <2>2 DEF Begun
    <3>2. CASE c \in Flushed
      BY <2>1, <3>1, <3>2
    <3>3. CASE c \notin Flushed
      BY <1>1, <2>1, <3>1, <3>3 DEF Flushed, Unsent, TranslationIInv, GivenById
    <3>4. QED
      BY <3>2, <3>3
  <2>6. QED
    BY <2>1, <2>3, <2>4, <2>5 DEF TranslationIInv
<1>4. CASE aborted
  BY <1>1, <1>2, <1>4, Terminated, NoCallKeeps DEF OpenAiEnds
<1>5. CASE ~aborted /\ finishReason # "tool-calls"
  BY <1>1, <1>2, <1>5, Terminated, NoCallKeeps DEF OpenAiEnds
<1>6. CASE ~aborted /\ finishReason = "tool-calls" /\ (Incomplete # {} \/ Begun = {})
  <2>1. ending'.terminal = "failed" /\ \E before \in SUBSET (Flushed \ Incomplete) : GivesAll(before)
    BY <1>6 DEF OpenAiEnds
  <2>2. QED
    BY <1>3, <2>1
<1>7. CASE ~aborted /\ finishReason = "tool-calls" /\ ~(Incomplete # {} \/ Begun = {})
  <2>1. Terminates("completed") /\ GivesAll(Flushed)
    BY <1>7 DEF OpenAiEnds
  <2>2. QED
    BY <1>3, <2>1, Terminated
<1>8. QED
  BY <1>4, <1>5, <1>6, <1>7

LEMMA GeminiEndsKeeps == ASSUME TranslationIInv, GeminiEnds PROVE TranslationIInv'
<1>1. /\ vendor = "gemini" /\ IsOpen /\ ending'.terminal = "completed"
      /\ given' = [c \in Calls |-> given[c] + IF c \in Waiting THEN 1 ELSE 0]
      /\ UNCHANGED <<vendor, chunks, aborted, sent, placed, assemblies>>
  BY Terminated DEF GeminiEnds
<1>2. ~IsOpen'
  BY <1>1 DEF IsOpen
<1>3. TranslationTypes /\ GivenOrWaits /\ given \in [Calls -> Nat]
  BY DEF TranslationIInv, TranslationTypes
<1>4. \A c \in Calls : c \in Waiting => (given[c] = 0 /\ sent[c] # Nothing)
  BY <1>1, <1>3 DEF Waiting, GivenOrWaits
<1>5. \A c \in Calls : given[c] \in Nat /\ given'[c] = given[c] + (IF c \in Waiting THEN 1 ELSE 0)
  BY <1>1, <1>3
<1>6. given' \in [Calls -> Nat]
  BY <1>1, <1>3
<1>7. TranslationTypes'
  BY <1>1, <1>3, <1>6 DEF TranslationTypes, TranslationTypeOK
<1>8. \A c \in Calls : given'[c] <= 1 /\ (sent[c] = Nothing => given'[c] = given[c])
  BY <1>1, <1>3, <1>4, <1>5 DEF GivenOrWaits
<1>9. GivenOrWaits'
  BY <1>1, <1>2, <1>3, <1>8 DEF GivenOrWaits
<1>10. GivenById' /\ CallsGiven'
  BY <1>1 DEF GivenById, CallsGiven
<1>11. QED
  BY <1>7, <1>9, <1>10 DEF TranslationIInv

LEMMA TranslationStepOK == TranslationIInv /\ [TranslationNext]_translationVars => TranslationIInv'
<1> SUFFICES ASSUME TranslationIInv, [TranslationNext]_translationVars PROVE TranslationIInv'
  OBVIOUS
<1>t. TranslationTypes /\ chunks \in 0..MaxChunks /\ MaxChunks \in Nat
      /\ (ending.terminal = "open" <=> IsOpen)
  BY TranslationAssumption DEF TranslationIInv, TranslationTypes, TranslationTypeOK, IsOpen
<1>c. ChunkArrives => IsOpen /\ chunks' \in 0..MaxChunks /\ UNCHANGED <<vendor, aborted>>
  BY <1>t DEF ChunkArrives
<1>1. CASE CallerAborts
  BY <1>1, <1>t, NoCallKeeps DEF CallerAborts
<1>2. CASE SeesAbort
  BY <1>2, <1>t, <1>c, Terminated, NoCallKeeps DEF SeesAbort
<1>3. CASE Content \/ Stops
  BY <1>3, <1>t, <1>c, NoCallKeeps DEF Content, Stops
<1>4. CASE VendorFails
  <2>1. ending'.terminal \in {"failed", "thrown"}
    BY <1>4 DEF VendorFails
  <2>2. QED
    BY <1>4, <1>t, <2>1, NoCallKeeps DEF VendorFails
<1>5. ASSUME NEW c \in Calls, OpenAiFragment(c) \/ AnthropicFragment(c) \/ AnthropicStop(c)
      PROVE  TranslationIInv'
  BY <1>5, FragmentKeeps
<1>6. ASSUME NEW c \in Calls, GeminiCall(c) PROVE TranslationIInv'
  BY <1>6, GeminiCallKeeps
<1>7. CASE OpenAiEnds
  BY <1>7, OpenAiEndsKeeps
<1>8. CASE AnthropicEnds
  BY <1>8, <1>t, Terminated, NoCallKeeps DEF AnthropicEnds
<1>9. CASE GeminiEnds
  BY <1>9, GeminiEndsKeeps
<1>10. CASE UNCHANGED translationVars
  BY <1>10 DEF translationVars, TranslationIInv, TranslationTypes, TranslationTypeOK, GivenById, IdOf,
       GivenOrWaits, IsOpen, CallsGiven, EndsWithCalls, Begun
<1>11. QED
  BY <1>1, <1>2, <1>3, <1>4, <1>5, <1>6, <1>7, <1>8, <1>9, <1>10 DEF TranslationNext

(* However a vendor cuts its calls into chunks, no call crosses the boundary twice,  *)
(* and an OpenAI turn that ends with calls has given all of them                        *)
(* (translate-stream.ts of the three providers).                                          *)
THEOREM TurnsGiveOnce == TranslationSpec => []TranslationInv
<1>1. QED
  BY TranslationInitOK, TranslationStepOK, TranslationIInvImplies, PTL DEF TranslationSpec

-----------------------------------------------------------------------------
(* Evaluations: the inductive invariant. *)

Outcomes == {"scored", "waiting", "abstained"}
Answer == [outcome : Outcomes, score : Nat]
Statuses == {"none", "empty", "waiting", "inconclusive", "complete"}
Assessments == {"none", "no-outcome", "passed", "failed"}
Responses == {"none", "pending", "passed", "failed", "abstained"}
Call == [step : {"idle", "executing", "finding", "saving", "auditing", "announcing", "answered", "failed"},
         outputs : Seq(Answer), reviewed : BOOLEAN,
         result : [status : Statuses, assessment : Assessments, outputs : Seq(Answer)]]

EvaluationTypes ==
  /\ evaluation \in [Evaluations -> Call]
  /\ reviews \in [HumanCriteria -> Responses]

\* a call that has saved its result has the stored one
Stored ==
  \A e \in Evaluations :
    evaluation[e].step \in {"auditing", "announcing", "answered"} => evaluation[e].result \in results

OneResult == PersistentStore => \A a, b \in results : a = b

EvaluationIInv == EvaluationTypes /\ EvaluationTypeOK /\ Stored /\ OneResult

LEMMA EvaluationIInvImplies == EvaluationIInv => EvaluationInv
<1> SUFFICES ASSUME EvaluationIInv, PersistentStore PROVE Cardinality(results) <= 1
  BY DEF EvaluationIInv, EvaluationInv, AnsweredIsStored, Stored
<1>1. results = {} \/ \E a \in results : results = {a}
  BY DEF EvaluationIInv, OneResult
<1>2. QED
  <2>1. Cardinality({}) = 0 /\ \A a : Cardinality({a}) = 1
    BY FS_EmptySet, FS_Singleton
  <2>2. Cardinality(results) = 0 \/ Cardinality(results) = 1
    BY <1>1, <2>1, Zenon
  <2>3. QED
    BY <2>2

LEMMA EvaluationInitOK == EvaluationInit => EvaluationIInv
<1> SUFFICES ASSUME EvaluationInit PROVE EvaluationIInv
  OBVIOUS
<1>1. NotBegun \in Call
  <2>1. <<>> \in Seq(Answer) /\ "none" \in Statuses /\ "none" \in Assessments
    BY DEF Statuses, Assessments
  <2>2. NoResult \in [status : Statuses, assessment : Assessments, outputs : Seq(Answer)]
    BY <2>1 DEF NoResult
  <2>3. QED
    BY <2>1, <2>2 DEF NotBegun, Call
<1>2. EvaluationTypes
  BY <1>1 DEF EvaluationInit, EvaluationTypes, Responses
<1>3. EvaluationTypeOK /\ Stored /\ OneResult
  <2>1. NotBegun.outputs = <<>> /\ NotBegun.step = "idle" /\ Len(Criteria) \in Nat
    BY EvaluationAssumption DEF NotBegun
  <2>2. \A e \in Evaluations : evaluation[e] = NotBegun
    BY DEF EvaluationInit
  <2>3. QED
    BY <2>1, <2>2 DEF EvaluationInit, EvaluationTypeOK, Stored, OneResult
<1>4. QED
  BY <1>2, <1>3 DEF EvaluationIInv

LEMMA OutputsAnswer == \A c : Outputs(c) \subseteq Answer
<1>1. \A n \in Nat, t \in Outcomes : [outcome |-> t, score |-> n] \in Answer
  BY DEF Answer
<1>2. Scored(0) \in Answer /\ Scored(1) \in Answer /\ Unscored("waiting") \in Answer /\ Unscored("abstained") \in Answer
  BY <1>1 DEF Scored, Unscored, Outcomes
<1>3. TAKE c
<1>4. QED
  BY <1>2 DEF Outputs

\* a step of one call to another place of its pipeline
GoesOn(e) ==
  \E call \in Call :
    /\ evaluation' = [evaluation EXCEPT ![e] = call]
    /\ Len(call.outputs) <= Len(Criteria)
    /\ call.step \in {"auditing", "announcing", "answered"} => call.result \in results'

LEMMA GoesOnKeeps ==
  ASSUME EvaluationIInv, NEW e \in Evaluations, GoesOn(e), results \subseteq results',
         (PersistentStore => UNCHANGED results \/ (results = {} /\ \E a : results' = {a})),
         reviews' \in [HumanCriteria -> Responses]
  PROVE  EvaluationIInv'
<1>1. PICK call \in Call :
        /\ evaluation' = [evaluation EXCEPT ![e] = call]
        /\ Len(call.outputs) <= Len(Criteria)
        /\ call.step \in {"auditing", "announcing", "answered"} => call.result \in results'
  BY DEF GoesOn
<1>2. evaluation \in [Evaluations -> Call]
  BY DEF EvaluationIInv, EvaluationTypes
<1>3. /\ evaluation' \in [Evaluations -> Call] /\ evaluation'[e] = call
      /\ \A f \in Evaluations : f # e => evaluation'[f] = evaluation[f]
  BY <1>1, <1>2
<1>4. EvaluationTypes' /\ EvaluationTypeOK'
  BY <1>1, <1>3 DEF EvaluationIInv, EvaluationTypes, EvaluationTypeOK, Responses
<1>5. Stored'
  BY <1>1, <1>3 DEF EvaluationIInv, Stored
<1>6. OneResult'
  BY DEF EvaluationIInv, OneResult
<1>7. QED
  BY <1>4, <1>5, <1>6 DEF EvaluationIInv

\* the call after its field is set
LEMMA CallType ==
  ASSUME NEW call \in Call,
         NEW step \in {"idle", "executing", "finding", "saving", "auditing", "announcing", "answered", "failed"}
  PROVE  /\ [call EXCEPT !.step = step] \in Call
         /\ [call EXCEPT !.step = step].step = step
         /\ [call EXCEPT !.step = step].outputs = call.outputs
         /\ [call EXCEPT !.step = step].result = call.result
BY DEF Call

LEMMA GoesToOK ==
  ASSUME EvaluationIInv, NEW e \in Evaluations, results \subseteq results',
         NEW step \in {"idle", "executing", "finding", "saving", "auditing", "announcing", "answered", "failed"},
         evaluation' = [evaluation EXCEPT ![e].step = step],
         step \in {"auditing", "announcing", "answered"} => evaluation[e].result \in results'
  PROVE  GoesOn(e)
<1> DEFINE call == [evaluation[e] EXCEPT !.step = step]
<1>1. evaluation[e] \in Call /\ Len(evaluation[e].outputs) <= Len(Criteria)
  BY DEF EvaluationIInv, EvaluationTypes, EvaluationTypeOK
<1>2. call \in Call /\ call.step = step /\ call.outputs = evaluation[e].outputs /\ call.result = evaluation[e].result
  BY <1>1, CallType, ZenonT(40)
<1>3. evaluation' = [evaluation EXCEPT ![e] = call]
  OBVIOUS
<1> HIDE DEF call
<1>4. QED
  BY <1>1, <1>2, <1>3 DEF GoesOn

LEMMA EvaluationStepOK == EvaluationIInv /\ [EvaluationNext]_evaluationVars => EvaluationIInv'
<1> SUFFICES ASSUME EvaluationIInv, [EvaluationNext]_evaluationVars PROVE EvaluationIInv'
  OBVIOUS
<1>t. /\ evaluation \in [Evaluations -> Call] /\ reviews \in [HumanCriteria -> Responses]
      /\ Len(Criteria) \in Nat
      /\ \A e \in Evaluations : Len(evaluation[e].outputs) <= Len(Criteria)
  BY EvaluationAssumption DEF EvaluationIInv, EvaluationTypes, EvaluationTypeOK
<1>1. ASSUME NEW e \in Evaluations, evaluate(e) PROVE EvaluationIInv'
  <2> DEFINE call == [evaluation[e] EXCEPT !.step = "executing", !.reviewed = Reviewed]
  <2>1. Reviewed \in BOOLEAN
    BY DEF Reviewed
  <2>2. evaluation[e] \in Call
    BY <1>t
  <2>3. call \in Call /\ call.step = "executing" /\ call.outputs = evaluation[e].outputs
    BY <2>1, <2>2 DEF Call
  <2>4. evaluation' = [evaluation EXCEPT ![e] = call] /\ UNCHANGED <<reviews, results>>
    BY <1>1 DEF evaluate
  <2> HIDE DEF call
  <2>5. GoesOn(e)
    BY <1>t, <2>3, <2>4 DEF GoesOn
  <2>6. QED
    BY <1>t, <2>4, <2>5, GoesOnKeeps
<1>2. ASSUME NEW e \in Evaluations, Executes(e) PROVE EvaluationIInv'
  <2>1. PICK output \in Outputs(Criterion(e)) : evaluation' = [evaluation EXCEPT ![e].outputs = Append(@, output)]
    BY <1>2 DEF Executes
  <2>2. output \in Answer /\ evaluation[e] \in Call /\ evaluation[e].step = "executing"
        /\ evaluation[e].outputs \in Seq(Answer) /\ Len(evaluation[e].outputs) # Len(Criteria)
    BY <1>2, <1>t, <2>1, OutputsAnswer DEF Executes, Asked, Call
  <2> DEFINE outputs == Append(evaluation[e].outputs, output)
             call == [evaluation[e] EXCEPT !.outputs = outputs]
  <2>3. outputs \in Seq(Answer) /\ Len(outputs) = Len(evaluation[e].outputs) + 1
    BY <2>2
  <2>4. Len(evaluation[e].outputs) \in Nat /\ Len(outputs) <= Len(Criteria)
    BY <1>t, <2>2, <2>3
  <2>5. evaluation' = [evaluation EXCEPT ![e] = call]
    BY <2>1
  <2> HIDE DEF outputs
  <2>6. call \in Call /\ call.step = "executing" /\ call.outputs = outputs
    BY <2>2, <2>3 DEF Call
  <2> HIDE DEF call
  <2>7. GoesOn(e)
    BY <2>4, <2>5, <2>6 DEF GoesOn
  <2>8. reviews' \in [HumanCriteria -> Responses] /\ UNCHANGED results
    BY <1>2, <1>t DEF Executes, Responses
  <2>9. QED
    BY <2>7, <2>8, GoesOnKeeps
<1>3. ASSUME NEW e \in Evaluations, Aggregates(e) PROVE EvaluationIInv'
  <2> DEFINE outputs == evaluation[e].outputs
             found == [status |-> StatusOf(outputs), assessment |-> AssessmentOf(outputs), outputs |-> outputs]
             call == [evaluation[e] EXCEPT !.step = "finding", !.result = found]
  <2>1. evaluation' = [evaluation EXCEPT ![e] = call] /\ UNCHANGED <<reviews, results>>
    BY <1>3 DEF Aggregates
  <2>2. evaluation[e] \in Call /\ outputs \in Seq(Answer)
    BY <1>t DEF Call
  <2>3. found \in [status : Statuses, assessment : Assessments, outputs : Seq(Answer)]
    <3>1. StatusOf(outputs) \in Statuses
      BY DEF StatusOf, Statuses
    <3>2. AssessmentOf(outputs) \in Assessments
      BY DEF AssessmentOf, Assessments
    <3>3. QED
      BY <2>2, <3>1, <3>2
  <2> HIDE DEF found
  <2>4. call \in Call /\ call.step = "finding" /\ call.outputs = evaluation[e].outputs
    BY <2>2, <2>3 DEF Call
  <2> HIDE DEF call
  <2>5. GoesOn(e)
    BY <1>t, <2>1, <2>4 DEF GoesOn
  <2>6. QED
    BY <1>t, <2>1, <2>5, GoesOnKeeps
<1>4. ASSUME NEW e \in Evaluations, Finds(e) \/ PortRejects(e) PROVE EvaluationIInv'
  <2>1. UNCHANGED <<reviews, results>>
        /\ \E step \in {"failed", "saving"} : evaluation' = [evaluation EXCEPT ![e].step = step]
    BY <1>4 DEF Finds, PortRejects, EvaluationFails, GoesTo
  <2>2. GoesOn(e)
    BY <2>1, GoesToOK
  <2>3. QED
    BY <1>t, <2>1, <2>2, GoesOnKeeps
<1>5. ASSUME NEW e \in Evaluations, Saves(e) PROVE EvaluationIInv'
  <2>1. CASE PersistentStore /\ results # {}
    <3>1. UNCHANGED <<reviews, results>> /\ evaluation' = [evaluation EXCEPT ![e].step = "failed"]
      BY <1>5, <2>1 DEF Saves, Duplicate, EvaluationFails
    <3>2. GoesOn(e)
      BY <3>1, GoesToOK
    <3>3. QED
      BY <1>t, <3>1, <3>2, GoesOnKeeps
  <2>2. CASE ~(PersistentStore /\ results # {})
    <3>1. UNCHANGED reviews /\ evaluation' = [evaluation EXCEPT ![e].step = "auditing"]
          /\ results' = results \cup {evaluation[e].result}
      BY <1>5, <2>2 DEF Saves, GoesTo
    <3>2. GoesOn(e)
      BY <3>1, GoesToOK
    <3>3. QED
      BY <1>t, <2>2, <3>1, <3>2, GoesOnKeeps
  <2>3. QED
    BY <2>1, <2>2
<1>6. ASSUME NEW e \in Evaluations, Audits(e) \/ Announces(e) PROVE EvaluationIInv'
  <2>1. /\ UNCHANGED <<reviews, results>> /\ evaluation[e].step \in {"auditing", "announcing"}
        /\ \E step \in {"announcing", "answered"} : evaluation' = [evaluation EXCEPT ![e].step = step]
    BY <1>6 DEF Audits, Announces, GoesTo
  <2>2. evaluation[e].result \in results'
    BY <2>1 DEF EvaluationIInv, Stored
  <2>3. GoesOn(e)
    BY <2>1, <2>2, GoesToOK
  <2>4. QED
    BY <1>t, <2>1, <2>3, GoesOnKeeps
<1>7. ASSUME NEW c \in HumanCriteria, resume(c) PROVE EvaluationIInv'
  <2>1. UNCHANGED <<evaluation, results>> /\ reviews' \in [HumanCriteria -> Responses]
    BY <1>7, <1>t DEF resume, Responses
  <2>2. QED
    BY <2>1 DEF EvaluationIInv, EvaluationTypes, EvaluationTypeOK, Responses, Stored, OneResult
<1>8. CASE UNCHANGED evaluationVars
  BY <1>8 DEF evaluationVars, EvaluationIInv, EvaluationTypes, EvaluationTypeOK, Stored, OneResult
<1>9. QED
  BY <1>1, <1>2, <1>3, <1>4, <1>5, <1>6, <1>7, <1>8 DEF EvaluationNext

(* However many calls of one request overlap, an answer is the stored result, and a   *)
(* durable store holds one (persistence-evaluation-result-store.ts).                     *)
THEOREM EvaluationsAreStored == EvaluationSpec => []EvaluationInv
<1>1. QED
  BY EvaluationInitOK, EvaluationStepOK, EvaluationIInvImplies, PTL DEF EvaluationSpec

-----------------------------------------------------------------------------
(* The memory of an agent: the inductive invariant. *)

Turns == Nat \X Nat
TurnSteps == {"captured", "classified", "organized", "indexed", "available"}
RunRecord == [step : {"idle", "recalling", "model", "remembering"}, turn : Turns,
              recalled : SUBSET Turns, owed : SUBSET Turns]

AgentMemoryTypes ==
  /\ session \in [agentId : 1..MaxProcesses, sequence : Nat, closed : BOOLEAN]
  /\ turns \in [DOMAIN turns -> TurnSteps] /\ IsFiniteSet(DOMAIN turns) /\ DOMAIN turns \subseteq Turns
  /\ run \in [Runs -> RunRecord]
  /\ storeFaults \in 0..MaxStoreFaults

\* a turn is numbered by the session that is open, or of an earlier agent
Numbered ==
  /\ session.sequence <= Cardinality(DOMAIN turns)
  /\ \A t \in DOMAIN turns : /\ t[1] <= session.agentId
                             /\ t[1] = session.agentId => t[2] <= session.sequence

\* what a run holds is stored
HeldIsStored ==
  \A r \in Runs : /\ run[r].turn \in DOMAIN turns \cup {NoTurn} /\ run[r].recalled \subseteq DOMAIN turns
                  /\ run[r].step = "remembering" => run[r].turn \in DOMAIN turns
                  /\ run[r].owed \subseteq answered

\* what was answered went through the whole lifecycle
AnsweredIsWhole == \A t \in answered : t \in DOMAIN turns /\ turns[t] = "available"

AgentMemoryIInv == AgentMemoryTypes /\ Numbered /\ HeldIsStored /\ AnsweredIsWhole /\ AnsweredIsRecalled

LEMMA StepsOfATurn ==
  /\ Steps[1] = "captured" /\ Steps[Len(Steps)] = "available" /\ ToSet(Steps) = TurnSteps
  /\ \A x \in TurnSteps \ {"available"} :
       Steps[1 + CHOOSE n \in DOMAIN Steps : Steps[n] = x] \in TurnSteps
<1>1. /\ DOMAIN Steps = 1..5 /\ Len(Steps) = 5
      /\ Steps[1] = "captured" /\ Steps[2] = "classified" /\ Steps[3] = "organized"
      /\ Steps[4] = "indexed" /\ Steps[5] = "available"
  BY DEF Steps
<1>2. \A n \in 1..5 : n = 1 \/ n = 2 \/ n = 3 \/ n = 4 \/ n = 5
  OBVIOUS
<1>3. ToSet(Steps) = TurnSteps
  BY <1>1, <1>2 DEF ToSet, TurnSteps
<1>4. ASSUME NEW x \in TurnSteps \ {"available"}
      PROVE  Steps[1 + CHOOSE n \in DOMAIN Steps : Steps[n] = x] \in TurnSteps
  <2> DEFINE m == CHOOSE n \in DOMAIN Steps : Steps[n] = x
  <2>1. \E n \in DOMAIN Steps : Steps[n] = x
    BY <1>1 DEF TurnSteps
  <2>2. m \in DOMAIN Steps /\ Steps[m] = x
    BY <2>1
  <2> HIDE DEF m
  <2>3. m \in 1..5 /\ m # 5
    BY <1>1, <2>2
  <2>4. 1 + m \in 1..5
    BY <2>3
  <2>5. Steps[1 + m] \in TurnSteps
    BY <1>1, <1>2, <2>4 DEF TurnSteps
  <2>6. QED
    BY <2>5 DEF m
<1>5. QED
  BY <1>1, <1>3, <1>4

LEMMA AgentMemoryIInvImplies == AgentMemoryIInv => AgentMemoryInv
<1> SUFFICES ASSUME AgentMemoryIInv PROVE AgentMemoryTypeOK
  BY DEF AgentMemoryIInv, AgentMemoryInv
<1> QED
  BY StepsOfATurn DEF AgentMemoryIInv, AgentMemoryTypes, Numbered, HeldIsStored, AgentMemoryTypeOK

LEMMA AgentMemoryInitOK == AgentMemoryInit => AgentMemoryIInv
<1> SUFFICES ASSUME AgentMemoryInit PROVE AgentMemoryIInv
  OBVIOUS
<1>1. Idle \in RunRecord
  BY DEF Idle, RunRecord, NoTurn, Turns
<1>2. DOMAIN turns = {} /\ turns \in [{} -> TurnSteps] /\ IsFiniteSet({}) /\ Cardinality({}) = 0
  BY FS_EmptySet DEF AgentMemoryInit
<1>3. AgentMemoryTypes
  BY <1>1, <1>2, AgentMemoryAssumption DEF AgentMemoryInit, AgentMemoryTypes, createAgent
<1>4. Numbered
  BY <1>2 DEF AgentMemoryInit, Numbered, createAgent
<1>5. HeldIsStored /\ AnsweredIsWhole /\ AnsweredIsRecalled
  BY DEF AgentMemoryInit, HeldIsStored, AnsweredIsWhole, AnsweredIsRecalled, Prompted, Idle
<1>6. QED
  BY <1>3, <1>4, <1>5 DEF AgentMemoryIInv

\* what a run recalled fits what is stored
RecallFits(of) ==
  /\ of.recalled \subseteq Recallable(session.agentId) /\ Cardinality(of.recalled) <= MaximumResults
  /\ \/ {t \in of.owed : t[1] = session.agentId} \subseteq of.recalled
     \/ Cardinality(of.recalled) = MaximumResults \/ Cardinality(DOMAIN turns) > SearchWindow

\* the store of the agent only grows
StoreGrows ==
  /\ session'.agentId = session.agentId /\ Recallable(session.agentId) \subseteq Recallable(session.agentId)'
  /\ Cardinality(DOMAIN turns) \in Nat /\ Cardinality(DOMAIN turns') \in Nat
  /\ Cardinality(DOMAIN turns) <= Cardinality(DOMAIN turns')

LEMMA RecalledFits == AnsweredIsRecalled <=> \A r \in Runs : Prompted(r) => RecallFits(run[r])
BY DEF AnsweredIsRecalled, RecallFits

LEMMA FitsStays == ASSUME StoreGrows, NEW of, RecallFits(of) PROVE RecallFits(of)'
BY AgentMemoryAssumption DEF StoreGrows, RecallFits

LEMMA SameStoreGrows == ASSUME AgentMemoryIInv, UNCHANGED <<session, turns>> PROVE StoreGrows
<1>1. Cardinality(DOMAIN turns) \in Nat
  BY FS_CardinalityType DEF AgentMemoryIInv, AgentMemoryTypes
<1>2. QED
  BY <1>1 DEF StoreGrows, Recallable

\* a run goes to a record the store supports
RunRecordOK(to) ==
  /\ to \in RunRecord
  /\ to.turn \in DOMAIN turns' \cup {NoTurn} /\ to.recalled \subseteq DOMAIN turns'
  /\ to.step = "remembering" => to.turn \in DOMAIN turns'
  /\ to.owed \subseteq answered'
  /\ to.step \in {"model", "remembering"} => RecallFits(to)'

LEMMA RunGoesKeeps ==
  ASSUME AgentMemoryIInv, NEW r \in Runs, NEW to, RunRecordOK(to), RunGoes(r, to),
         DOMAIN turns \subseteq DOMAIN turns', answered \subseteq answered', StoreGrows
  PROVE  run' \in [Runs -> RunRecord] /\ HeldIsStored' /\ AnsweredIsRecalled'
<1>1. run \in [Runs -> RunRecord] /\ run' = [run EXCEPT ![r] = to] /\ to \in RunRecord
  BY DEF AgentMemoryIInv, AgentMemoryTypes, RunGoes, RunRecordOK
<1>2. run' \in [Runs -> RunRecord] /\ run'[r] = to /\ \A s \in Runs : s # r => run'[s] = run[s]
  BY <1>1
<1>3. HeldIsStored'
  BY <1>2 DEF AgentMemoryIInv, HeldIsStored, RunRecordOK
<1>4. AnsweredIsRecalled'
  <2>1. \A s \in Runs : Prompted(s) => RecallFits(run[s])
    BY RecalledFits DEF AgentMemoryIInv
  <2>2. ASSUME NEW s \in Runs, Prompted(s)' PROVE RecallFits(run[s])'
    <3>1. CASE s = r
      <4>1. RecallFits(to)'
        BY <1>2, <2>2, <3>1 DEF Prompted, RunRecordOK
      <4>2. QED
        BY <1>2, <3>1, <4>1 DEF RecallFits
    <3>2. CASE s # r
      <4>1. PICK of : of = run[s]
        OBVIOUS
      <4>2. RecallFits(of)'
        BY <1>2, <2>1, <2>2, <3>2, <4>1, FitsStays DEF Prompted
      <4>3. QED
        BY <1>2, <3>2, <4>1, <4>2 DEF RecallFits
    <3>3. QED
      BY <3>1, <3>2
  <2>3. (\A s \in Runs : Prompted(s) => RecallFits(run[s]))'
    BY <2>2
  <2>4. QED
    BY <2>3 DEF AnsweredIsRecalled, RecallFits
<1>5. QED
  BY <1>2, <1>3, <1>4

LEMMA IdleOK == RunRecordOK(Idle)
BY DEF RunRecordOK, Idle, RunRecord, NoTurn, Turns

\* steps that leave the store and the session as they are
LEMMA SameStoreKeeps ==
  ASSUME AgentMemoryIInv, NEW r \in Runs, NEW to, RunRecordOK(to), RunGoes(r, to),
         UNCHANGED <<session, turns, answered>>, storeFaults' \in 0..MaxStoreFaults
  PROVE  AgentMemoryIInv'
<1>1. run' \in [Runs -> RunRecord] /\ HeldIsStored' /\ AnsweredIsRecalled'
  BY RunGoesKeeps, SameStoreGrows
<1>2. AgentMemoryTypes' /\ Numbered' /\ AnsweredIsWhole'
  BY <1>1 DEF AgentMemoryIInv, AgentMemoryTypes, Numbered, AnsweredIsWhole
<1>3. QED
  BY <1>1, <1>2 DEF AgentMemoryIInv

\* the runs are as they were, over a store that has grown
LEMMA SameRunsRecall == ASSUME AgentMemoryIInv, StoreGrows, UNCHANGED run PROVE AnsweredIsRecalled'
<1>1. \A s \in Runs : Prompted(s) => RecallFits(run[s])
  BY RecalledFits DEF AgentMemoryIInv
<1>2. ASSUME NEW s \in Runs, Prompted(s)' PROVE RecallFits(run[s])'
  <2>1. RecallFits(run[s])
    BY <1>1, <1>2 DEF Prompted
  <2>2. PICK of : of = run[s]
    OBVIOUS
  <2>3. RecallFits(of)'
    BY <2>1, <2>2, FitsStays
  <2>4. QED
    BY <2>2, <2>3 DEF RecallFits
<1>3. (\A s \in Runs : Prompted(s) => RecallFits(run[s]))'
  BY <1>2
<1>4. QED
  BY <1>3 DEF AnsweredIsRecalled, RecallFits

PromptOf(r, found) == [run[r] EXCEPT !.step = "model", !.recalled = found]

LEMMA RetrieveIs ==
  ASSUME NEW r \in Runs, retrieveForPrompt(r), ~session.closed
  PROVE  /\ UNCHANGED <<session, turns, answered, storeFaults>>
         /\ \E found \in Retrieved(session.agentId) : RunGoes(r, PromptOf(r, found))
BY Zenon DEF retrieveForPrompt, PromptOf

LEMMA RecallKeeps ==
  ASSUME AgentMemoryIInv, NEW r \in Runs, invoke(r) \/ retrieveForPrompt(r) PROVE AgentMemoryIInv'
<1>t. run[r] \in RunRecord /\ storeFaults \in 0..MaxStoreFaults /\ DOMAIN turns \subseteq Turns
      /\ IsFiniteSet(DOMAIN turns)
      /\ \A t \in answered : t \in DOMAIN turns /\ turns[t] = "available"
  BY DEF AgentMemoryIInv, AgentMemoryTypes, AnsweredIsWhole
<1>1. CASE invoke(r)
  <2>0. PICK to : to = [Idle EXCEPT !.step = "recalling", !.owed = answered]
    OBVIOUS
  <2>1. /\ to \in [step : {"recalling"}, turn : {NoTurn}, recalled : {{}}, owed : {answered}]
        /\ to.step = "recalling" /\ to.turn = NoTurn /\ to.recalled = {} /\ to.owed = answered
    BY <2>0 DEF Idle
  <2>2. RunGoes(r, to) /\ UNCHANGED <<session, turns, answered, storeFaults>>
    BY <1>1, <2>0 DEF invoke, RunGoes
  <2>3. RunRecordOK(to)
    BY <1>t, <2>1, <2>2 DEF RunRecordOK, RunRecord, NoTurn, Turns
  <2>4. QED
    BY <1>t, <2>2, <2>3, SameStoreKeeps
<1>2. CASE retrieveForPrompt(r) /\ session.closed
  BY <1>t, <1>2, IdleOK, SameStoreKeeps DEF retrieveForPrompt, Rejected
<1>3. CASE retrieveForPrompt(r) /\ ~session.closed
  <2>1. PICK found \in Retrieved(session.agentId) : RunGoes(r, PromptOf(r, found))
    BY <1>3, RetrieveIs
  <2>2. UNCHANGED <<session, turns, answered, storeFaults>>
    BY <1>3, RetrieveIs
  <2>3. PICK to : to = [run[r] EXCEPT !.step = "model", !.recalled = found]
    OBVIOUS
  <2>4. found \subseteq Recallable(session.agentId) /\ Cardinality(found) <= MaximumResults
    BY DEF Retrieved
  <2>5. found \subseteq DOMAIN turns
    BY <2>4 DEF Recallable
  <2>6. /\ to \in RunRecord /\ to.step = "model" /\ to.recalled = found
        /\ to.turn = run[r].turn /\ to.owed = run[r].owed
    BY <1>t, <2>3, <2>5 DEF RunRecord
  <2>7. run[r].owed \subseteq answered /\ run[r].turn \in DOMAIN turns \cup {NoTurn}
    BY DEF AgentMemoryIInv, HeldIsStored
  <2>8. {t \in answered : t[1] = session.agentId} \subseteq Recallable(session.agentId)
    BY <1>t DEF Recallable
  <2>9. \/ Recallable(session.agentId) \subseteq found
        \/ Cardinality(found) = MaximumResults \/ Cardinality(DOMAIN turns) > SearchWindow
    <3>1. PICK W \in Searched : \/ Recallable(session.agentId) \cap W \subseteq found
                               \/ Cardinality(found) = MaximumResults
      BY DEF Retrieved
    <3>2. CASE W = DOMAIN turns
      BY <3>1, <3>2 DEF Recallable
    <3>3. CASE W # DOMAIN turns
      <4>1. W \subseteq DOMAIN turns /\ Cardinality(W) = SearchWindow
        BY <3>3 DEF Searched
      <4>2. Cardinality(W) < Cardinality(DOMAIN turns)
        <5>1. /\ Cardinality(W) <= Cardinality(DOMAIN turns) /\ Cardinality(DOMAIN turns) # Cardinality(W)
              /\ IsFiniteSet(W)
          BY <1>t, <3>3, <4>1, FS_Subset
        <5>2. QED
          BY <1>t, <5>1, FS_CardinalityType
      <4>3. QED
        BY <4>1, <4>2, <1>t, FS_CardinalityType, AgentMemoryAssumption
    <3>4. QED
      BY <3>2, <3>3
  <2>10. RecallFits(to)'
    <3>1. RecallFits(to)
      BY <2>4, <2>6, <2>7, <2>8, <2>9 DEF RecallFits
    <3>2. QED
      BY <2>2, <3>1, SameStoreGrows, FitsStays
  <2>11. RunRecordOK(to)
    BY <2>2, <2>5, <2>6, <2>7, <2>10 DEF RunRecordOK
  <2>12. RunGoes(r, to)
    BY <2>1, <2>3 DEF RunGoes, PromptOf
  <2>13. QED
    BY <1>t, <2>2, <2>11, <2>12, SameStoreKeeps
<1>4. QED
  BY <1>1, <1>2, <1>3

LEMMA RememberKeeps == ASSUME AgentMemoryIInv, NEW r \in Runs, rememberTurn(r) PROVE AgentMemoryIInv'
<1>t. /\ run[r] \in RunRecord /\ storeFaults \in 0..MaxStoreFaults
      /\ session \in [agentId : 1..MaxProcesses, sequence : Nat, closed : BOOLEAN]
      /\ turns \in [DOMAIN turns -> TurnSteps] /\ IsFiniteSet(DOMAIN turns) /\ DOMAIN turns \subseteq Turns
      /\ run[r].step = "model" /\ UNCHANGED <<answered, storeFaults>>
  BY DEF AgentMemoryIInv, AgentMemoryTypes, rememberTurn
<1> DEFINE turn == <<session.agentId, session.sequence + 1>>
<1>1. CASE session.closed
  BY <1>t, <1>1, IdleOK, SameStoreKeeps DEF rememberTurn, Rejected
<1>2. CASE ~session.closed
  <2>1. turn \in Turns /\ turn[1] = session.agentId /\ turn[2] = session.sequence + 1
    BY <1>t DEF Turns
  <2>2. turn \notin DOMAIN turns
    BY <1>t, <2>1 DEF AgentMemoryIInv, Numbered
  <2>3. /\ session' = [session EXCEPT !.sequence = @ + 1]
        /\ turns' = [t \in DOMAIN turns \cup {turn} |-> IF t = turn THEN Steps[1] ELSE turns[t]]
        /\ RunGoes(r, [run[r] EXCEPT !.step = "remembering", !.turn = turn])
    BY <1>2, <2>2 DEF rememberTurn
  <2> HIDE DEF turn
  <2>4. /\ session' \in [agentId : 1..MaxProcesses, sequence : Nat, closed : BOOLEAN]
        /\ session'.agentId = session.agentId /\ session'.sequence = session.sequence + 1
        /\ session.sequence \in Nat
    <3> SUFFICES ASSUME NEW n \in Nat
                 PROVE  /\ [session EXCEPT !.sequence = n] \in [agentId : 1..MaxProcesses, sequence : Nat, closed : BOOLEAN]
                        /\ [session EXCEPT !.sequence = n].agentId = session.agentId
                        /\ [session EXCEPT !.sequence = n].sequence = n
      BY <1>t, <2>3
    <3> QED
      BY <1>t
  <2>5. /\ DOMAIN turns' = DOMAIN turns \cup {turn} /\ turns'[turn] = "captured"
        /\ \A t \in DOMAIN turns : turns'[t] = turns[t]
    BY <2>2, <2>3, StepsOfATurn
  <2>6. turns' \in [DOMAIN turns' -> TurnSteps]
    BY <1>t, <2>3, StepsOfATurn DEF TurnSteps
  <2>7. IsFiniteSet(DOMAIN turns') /\ Cardinality(DOMAIN turns') = Cardinality(DOMAIN turns) + 1
        /\ Cardinality(DOMAIN turns) \in Nat
    BY <1>t, <2>2, <2>5, FS_AddElement, FS_CardinalityType
  <2>8. Numbered'
    <3>1. session'.sequence <= Cardinality(DOMAIN turns')
      BY <2>4, <2>7 DEF AgentMemoryIInv, Numbered
    <3>2. ASSUME NEW t \in DOMAIN turns'
          PROVE  t[1] <= session.agentId /\ (t[1] = session.agentId => t[2] <= session.sequence + 1)
      <4>1. CASE t = turn
        BY <1>t, <2>1, <4>1
      <4>2. CASE t \in DOMAIN turns
        <5>1. t[2] \in Nat
          BY <1>t, <4>2 DEF Turns
        <5>2. QED
          BY <1>t, <2>4, <4>2, <5>1 DEF AgentMemoryIInv, Numbered
      <4>3. QED
        BY <2>5, <4>1, <4>2
    <3>3. QED
      BY <2>4, <3>1, <3>2 DEF Numbered
  <2>9. AnsweredIsWhole'
    BY <1>t, <2>5 DEF AgentMemoryIInv, AnsweredIsWhole
  <2>a. PICK to : to = [run[r] EXCEPT !.step = "remembering", !.turn = turn]
    OBVIOUS
  <2>10. /\ to \in RunRecord /\ to.step = "remembering" /\ to.turn = turn
         /\ to.recalled = run[r].recalled /\ to.owed = run[r].owed
    BY <1>t, <2>1, <2>a DEF RunRecord
  <2>11. RunGoes(r, to)
    BY <2>3, <2>a
  <2>12. StoreGrows
    BY <2>4, <2>5, <2>7 DEF StoreGrows, Recallable
  <2>13. run' \in [Runs -> RunRecord] /\ HeldIsStored' /\ AnsweredIsRecalled'
    <3>1. RecallFits(run[r])
      BY <1>t, RecalledFits DEF AgentMemoryIInv, Prompted
    <3>2. RecallFits(to)'
      <4>1. PICK of : of = run[r]
        OBVIOUS
      <4>2. RecallFits(of)'
        BY <2>12, <3>1, <4>1, FitsStays
      <4>3. /\ of.recalled = to.recalled /\ of.owed = to.owed
        BY <2>10, <4>1
      <4>4. QED
        BY <4>2, <4>3 DEF RecallFits
    <3>3. RunRecordOK(to)
      BY <1>t, <2>4, <2>5, <2>10, <3>2 DEF RunRecordOK, AgentMemoryIInv, HeldIsStored
    <3>4. QED
      BY <1>t, <2>4, <2>5, <2>11, <2>12, <3>3, RunGoesKeeps
  <2>14. AgentMemoryTypes'
    BY <1>t, <2>1, <2>4, <2>5, <2>6, <2>7, <2>13 DEF AgentMemoryTypes
  <2>15. QED
    BY <2>8, <2>9, <2>13, <2>14 DEF AgentMemoryIInv
<1>3. QED
  BY <1>1, <1>2

LEMMA TransitionKeeps == ASSUME AgentMemoryIInv, NEW r \in Runs, transition(r) PROVE AgentMemoryIInv'
<1> DEFINE turn == run[r].turn
<1>1. /\ run[r].step = "remembering" /\ turns[turn] # "available" /\ UNCHANGED <<session, run, answered, storeFaults>>
      /\ turns' = [turns EXCEPT ![turn] = Steps[1 + CHOOSE n \in DOMAIN Steps : Steps[n] = turns[turn]]]
  BY StepsOfATurn DEF transition, WholeTurn
<1>2. /\ turn \in DOMAIN turns /\ turns \in [DOMAIN turns -> TurnSteps]
      /\ IsFiniteSet(DOMAIN turns) /\ DOMAIN turns \subseteq Turns
  BY <1>1 DEF AgentMemoryIInv, AgentMemoryTypes, HeldIsStored
<1> HIDE DEF turn
<1>3. turns[turn] \in TurnSteps \ {"available"}
  BY <1>1, <1>2
<1>4. /\ DOMAIN turns' = DOMAIN turns /\ turns' \in [DOMAIN turns' -> TurnSteps]
      /\ \A t \in DOMAIN turns : t # turn => turns'[t] = turns[t]
  BY <1>1, <1>2, <1>3, StepsOfATurn
<1>5. AnsweredIsWhole'
  BY <1>1, <1>4 DEF AgentMemoryIInv, AnsweredIsWhole
<1>6. AgentMemoryTypes' /\ Numbered' /\ HeldIsStored'
  BY <1>1, <1>4 DEF AgentMemoryIInv, AgentMemoryTypes, Numbered, HeldIsStored
<1>7. StoreGrows
  <2>1. Cardinality(DOMAIN turns) \in Nat
    BY <1>2, FS_CardinalityType
  <2>2. QED
    BY <1>1, <1>4, <2>1 DEF StoreGrows, Recallable
<1>8. AnsweredIsRecalled'
  BY <1>1, <1>7, SameRunsRecall
<1>9. QED
  BY <1>5, <1>6, <1>8 DEF AgentMemoryIInv

LEMMA AnswersKeeps == ASSUME AgentMemoryIInv, NEW r \in Runs, Answers(r) PROVE AgentMemoryIInv'
<1>1. /\ run[r].step = "remembering" /\ turns[run[r].turn] = "available"
      /\ answered' = answered \cup {run[r].turn} /\ RunGoes(r, Idle) /\ UNCHANGED <<session, turns, storeFaults>>
  BY StepsOfATurn DEF Answers, WholeTurn, Rejected
<1>2. run[r].turn \in DOMAIN turns
  BY <1>1 DEF AgentMemoryIInv, HeldIsStored
<1>3. run' \in [Runs -> RunRecord] /\ HeldIsStored' /\ AnsweredIsRecalled'
  BY <1>1, IdleOK, RunGoesKeeps, SameStoreGrows
<1>4. AgentMemoryTypes' /\ Numbered' /\ AnsweredIsWhole'
  BY <1>1, <1>2, <1>3 DEF AgentMemoryIInv, AgentMemoryTypes, Numbered, AnsweredIsWhole
<1>5. QED
  BY <1>3, <1>4 DEF AgentMemoryIInv

LEMMA RestartKeeps == ASSUME AgentMemoryIInv, Restart PROVE AgentMemoryIInv'
<1>t. /\ session \in [agentId : 1..MaxProcesses, sequence : Nat, closed : BOOLEAN]
      /\ IsFiniteSet(DOMAIN turns) /\ MaxProcesses \in Nat /\ session.agentId < MaxProcesses
      /\ DOMAIN turns \subseteq Turns
  BY AgentMemoryAssumption DEF AgentMemoryIInv, AgentMemoryTypes, Restart
<1>1. Idle \in RunRecord /\ Idle.turn = NoTurn /\ Idle.recalled = {} /\ Idle.owed = {} /\ Idle.step = "idle"
  BY DEF Idle, RunRecord, NoTurn, Turns
<1>2. session' = [agentId |-> session.agentId + 1, sequence |-> 0, closed |-> FALSE]
      /\ run' = [s \in Runs |-> Idle] /\ UNCHANGED storeFaults
  BY DEF Restart, createAgent
<1>3. session' \in [agentId : 1..MaxProcesses, sequence : Nat, closed : BOOLEAN]
  BY <1>t, <1>2
<1>4. run' \in [Runs -> RunRecord] /\ HeldIsStored' /\ AnsweredIsRecalled'
  BY <1>1, <1>2 DEF HeldIsStored, AnsweredIsRecalled, Prompted
<1>5. CASE Durable
  <2>1. UNCHANGED <<turns, answered>>
    BY <1>5 DEF Restart
  <2>2. Cardinality(DOMAIN turns) \in Nat
    BY <1>t, FS_CardinalityType
  <2>3. \A t \in DOMAIN turns : t[1] <= session.agentId /\ t[1] \in Nat
    BY <1>t DEF AgentMemoryIInv, Numbered, Turns
  <2>4. \A t \in DOMAIN turns : t[1] <= session.agentId + 1 /\ t[1] # session.agentId + 1
    BY <1>t, <2>3
  <2>5. AgentMemoryTypes' /\ Numbered' /\ AnsweredIsWhole'
    BY <1>2, <1>3, <1>4, <2>1, <2>2, <2>4 DEF AgentMemoryIInv, AgentMemoryTypes, Numbered, AnsweredIsWhole
  <2>6. QED
    BY <1>4, <2>5 DEF AgentMemoryIInv
<1>6. CASE ~Durable
  <2>1. turns' = [t \in {} |-> "captured"] /\ answered' = {}
    BY <1>6 DEF Restart
  <2>2. DOMAIN turns' = {} /\ turns' \in [{} -> TurnSteps] /\ IsFiniteSet({}) /\ Cardinality({}) = 0
    BY <2>1, FS_EmptySet
  <2>3. AgentMemoryTypes' /\ Numbered' /\ AnsweredIsWhole'
    BY <1>2, <1>3, <1>4, <2>1, <2>2 DEF AgentMemoryIInv, AgentMemoryTypes, Numbered, AnsweredIsWhole
  <2>4. QED
    BY <1>4, <2>3 DEF AgentMemoryIInv
<1>7. QED
  BY <1>5, <1>6

LEMMA AgentMemoryStepOK == AgentMemoryIInv /\ [AgentMemoryNext]_agentMemoryVars => AgentMemoryIInv'
<1> SUFFICES ASSUME AgentMemoryIInv, [AgentMemoryNext]_agentMemoryVars PROVE AgentMemoryIInv'
  OBVIOUS
<1>1. ASSUME NEW r \in Runs, RunFails(r) PROVE AgentMemoryIInv'
  <2>1. storeFaults' \in 0..MaxStoreFaults
    BY <1>1, AgentMemoryAssumption DEF AgentMemoryIInv, AgentMemoryTypes, RunFails
  <2>2. QED
    BY <1>1, <2>1, IdleOK, SameStoreKeeps DEF RunFails, Rejected
<1>2. CASE disposeSession
  <2>1. /\ session' = [session EXCEPT !.closed = TRUE] /\ UNCHANGED <<turns, run, answered, storeFaults>>
        /\ session \in [agentId : 1..MaxProcesses, sequence : Nat, closed : BOOLEAN]
    BY <1>2 DEF disposeSession, AgentMemoryIInv, AgentMemoryTypes
  <2>2. /\ session' \in [agentId : 1..MaxProcesses, sequence : Nat, closed : BOOLEAN]
        /\ session'.agentId = session.agentId /\ session'.sequence = session.sequence
    BY <2>1
  <2>3. StoreGrows
    <3>1. Cardinality(DOMAIN turns) \in Nat
      BY FS_CardinalityType DEF AgentMemoryIInv, AgentMemoryTypes
    <3>2. QED
      BY <2>1, <2>2, <3>1 DEF StoreGrows, Recallable
  <2>4. AnsweredIsRecalled'
    BY <2>1, <2>3, SameRunsRecall
  <2>5. QED
    BY <2>1, <2>2, <2>4 DEF AgentMemoryIInv, AgentMemoryTypes, Numbered, HeldIsStored, AnsweredIsWhole
<1>3. CASE UNCHANGED agentMemoryVars
  <2>1. UNCHANGED <<session, turns, run, answered, storeFaults>>
    BY <1>3 DEF agentMemoryVars
  <2>2. AnsweredIsRecalled'
    BY <2>1, SameStoreGrows, SameRunsRecall
  <2>3. QED
    BY <2>1, <2>2 DEF AgentMemoryIInv, AgentMemoryTypes, Numbered, HeldIsStored, AnsweredIsWhole
<1>4. QED
  BY <1>1, <1>2, <1>3, RecallKeeps, RememberKeeps, TransitionKeeps, AnswersKeeps, RestartKeeps
     DEF AgentMemoryNext

(* Whatever runs remember at the same time, fail or are cut off by a restart, a run of    *)
(* an agent recalls whole turns of that agent, at most as many as it asks for, and leaves  *)
(* out one that was answered before it began only at that limit or once more turns are       *)
(* stored than a search reads (memory.ts 186-312, memory/src/index.ts:50).                     *)
THEOREM AnswersAreRecalled == AgentMemorySpec => []AgentMemoryInv
<1>1. QED
  BY AgentMemoryInitOK, AgentMemoryStepOK, AgentMemoryIInvImplies, PTL DEF AgentMemorySpec


-----------------------------------------------------------------------------
(* The transaction of persistence-postgres: the inductive invariant.  A commit  *)
(* takes effect on the rows of the moment.  That these are still what its       *)
(* caller had loaded is known of each row since the query that locked it: a row *)
(* that was applied is locked by its transaction and is what find() returned.   *)

Version == [revision : Nat, token : Transactions \cup {"none"}]

ShapeOK ==
  /\ rows \in [Entities -> Version]
  /\ base \in [Transactions -> [Entities -> Version]]
  /\ applied \subseteq Transactions
  /\ answer \in [Transactions -> {"none", "committed", "failed"}]
  /\ tx \in [Transactions -> PersistenceTransaction]
  /\ lock \in [Entities -> Transactions \cup {Free}]

\* a caller is answered last
AnsweredAtTheEnd(t) == tx[t].at # "ended" => answer[t] = "none"

\* it took effect when it publishes, and not before
EffectKnown(t) ==
  /\ tx[t].at \in {"unused", "loaded", "found", "begun", "applying"} => t \notin applied
  /\ tx[t].at = "publishing" => t \in applied

\* it applies its operations only to what the checkpoint was loaded from
AppliesWhatWasLoaded(t) == tx[t].at = "applying" => SameVersion(t)

\* what was applied is locked, and nobody has changed it
HoldsWhatItApplied(t) ==
  /\ tx[t].at \in {"unused", "loaded", "found", "begun"} => tx[t].next = 1
  /\ tx[t].at = "applying" =>
       \A i \in 1..Len(Order[t]) : i < tx[t].next =>
         /\ lock[Order[t][i]] = t
         /\ rows[Order[t][i]] = tx[t].existing[Order[t][i]]

CallOK(t) ==
  AnsweredAtTheEnd(t) /\ EffectKnown(t) /\ AppliesWhatWasLoaded(t) /\ HoldsWhatItApplied(t)

StoreInv == ShapeOK /\ \A t \in Transactions : CallOK(t)

-----------------------------------------------------------------------------
(* Lemmas about the parameters and the state *)

(* The operations of a transaction are those of its order: each entity it      *)
(* touches is one that PostgresPersistenceTransaction.commit applies.          *)
LEMMA OrderIsOperations ==
  ASSUME NEW t \in Transactions
  PROVE  /\ Len(Order[t]) \in Nat
         /\ \A i \in 1..Len(Order[t]) : Order[t][i] \in Entities
         /\ Touched(t) \subseteq Entities
         /\ \A e \in Touched(t) : \E i \in 1..Len(Order[t]) : Order[t][i] = e
         /\ \A i \in 1..Len(Order[t]) : Order[t][i] \in Touched(t)
  <1>1. Order[t] \in Seq(Entities) /\ ToSet(Order[t]) = DOMAIN Operations[t]
    BY PersistenceAssumption
  <1>2. DOMAIN Order[t] = 1..Len(Order[t]) /\ Len(Order[t]) \in Nat
        /\ \A i \in 1..Len(Order[t]) : Order[t][i] \in Entities
    BY <1>1
  <1>3. DOMAIN Operations[t] = {Order[t][i] : i \in 1..Len(Order[t])}
    BY <1>1, <1>2 DEF ToSet
  <1> QED BY <1>2, <1>3 DEF Touched

(* A transaction that has applied all of its operations holds every row it     *)
(* touches, and each is still what its caller loaded.                          *)
LEMMA AllAppliedIsAllHeld ==
  ASSUME StoreInv, NEW t \in Transactions, At(t, "applying"), tx[t].next > Len(Order[t])
  PROVE  \A e \in Touched(t) : lock[e] = t /\ rows[e] = base[t][e]
  <1> SUFFICES ASSUME NEW e \in Touched(t) PROVE lock[e] = t /\ rows[e] = base[t][e]
    OBVIOUS
  <1>1. PICK i \in 1..Len(Order[t]) : Order[t][i] = e
    BY OrderIsOperations
  <1>2. i < tx[t].next
    BY <1>1, OrderIsOperations DEF StoreInv, ShapeOK, PersistenceTransaction
  <1>3. lock[e] = t /\ rows[e] = tx[t].existing[e]
    BY <1>1, <1>2 DEF StoreInv, CallOK, HoldsWhatItApplied, At
  <1>4. tx[t].existing[e] = base[t][e]
    BY DEF StoreInv, CallOK, AppliesWhatWasLoaded, SameVersion, At
  <1> QED BY <1>3, <1>4

(* What a commit leaves behind are versions again. *)
LEMMA AfterIsRows ==
  ASSUME rows \in [Entities -> Version], NEW t \in Transactions
  PROVE  /\ After(t) \in [Entities -> Version]
         /\ \A e \in Entities \ Touched(t) : After(t)[e] = rows[e]
  <1>1. \A e \in Entities : Written(rows[e], t, Operations[t][e]) \in Version
    BY DEF Written, Absent, Version
  <1> QED BY <1>1 DEF After, Touched

(* A call that moves on keeps what it has found and how far it has come.        *)
LEMMA Moving ==
  ASSUME ShapeOK, NEW t \in Transactions,
         NEW place \in {"unused", "loaded", "found", "begun", "applying", "publishing",
                        "undoing", "ended"},
         MovesTo(t, place)
  PROVE  /\ tx' \in [Transactions -> PersistenceTransaction] /\ tx'[t].at = place
         /\ tx'[t].existing = tx[t].existing /\ tx'[t].next = tx[t].next
         /\ \A u \in Transactions \ {t} : tx'[u] = tx[u]
  BY DEF ShapeOK, PersistenceTransaction, MovesTo

(* The locks a call gives up are its own. *)
LEMMA Unlocking ==
  ASSUME ShapeOK, NEW t \in Transactions
  PROVE  /\ Unlocked(t) \in [Entities -> Transactions \cup {Free}]
         /\ \A u \in Transactions \ {t} : \A e \in Entities : lock[e] = u => Unlocked(t)[e] = u
  BY PersistenceAssumption DEF ShapeOK, Unlocked

-----------------------------------------------------------------------------
(* The invariant is inductive, one kind of step at a time *)

LEMMA StoreInvInitially == PersistenceInit => StoreInv
  <1> SUFFICES ASSUME PersistenceInit PROVE StoreInv
    OBVIOUS
  <1> USE DEF PersistenceInit, StoreInit
  <1>1. Absent \in Version
    BY DEF Absent, Version
  <1>2. ShapeOK
    BY <1>1 DEF ShapeOK, PersistenceTransaction, Version
  <1>3. ASSUME NEW t \in Transactions PROVE CallOK(t)
    BY DEF CallOK, AnsweredAtTheEnd, EffectKnown, AppliesWhatWasLoaded, HoldsWhatItApplied
  <1> QED BY <1>2, <1>3 DEF StoreInv

(* A call that another's step leaves alone is as it was, as long as the rows it  *)
(* has locked stay its own and stay as they are.                                 *)
LEMMA OthersAsTheyWere ==
  ASSUME ShapeOK, NEW u \in Transactions, CallOK(u),
         tx'[u] = tx[u], base'[u] = base[u], answer'[u] = answer[u],
         u \in applied' <=> u \in applied,
         \A e \in Entities : lock[e] = u => lock'[e] = u /\ rows'[e] = rows[e]
  PROVE  CallOK(u)'
  <1>1. AnsweredAtTheEnd(u)' /\ EffectKnown(u)'
    BY DEF CallOK, AnsweredAtTheEnd, EffectKnown
  <1>2. AppliesWhatWasLoaded(u)'
    BY DEF CallOK, AppliesWhatWasLoaded, SameVersion, Touched
  <1>3. HoldsWhatItApplied(u)'
    BY OrderIsOperations DEF CallOK, HoldsWhatItApplied
  <1> QED BY <1>1, <1>2, <1>3 DEF CallOK

(* Before anything is applied: the calls read, begin and compare, and nothing of  *)
(* the store or of the locks changes.                                             *)
LEMMA BeforeApplying ==
  ASSUME StoreInv, NEW t \in Transactions,
         FindExisting(t) \/ Begin(t) \/ StageWrite(t) \/ CheckpointConflict(t)
  PROVE  StoreInv' /\ UNCHANGED storeVars
  <1> USE DEF StoreInv, At
  <1>1. UNCHANGED storeVars /\ lock' = lock
    BY DEF FindExisting, Begin, StageWrite, CheckpointConflict
  <1>2. /\ tx' \in [Transactions -> PersistenceTransaction]
        /\ \A u \in Transactions \ {t} : tx'[u] = tx[u]
        /\ CallOK(t)'
    <2>1. CASE FindExisting(t)
      <3>1. /\ tx[t].at = "loaded" /\ tx'[t].at = "found" /\ tx'[t].next = tx[t].next
            /\ tx' \in [Transactions -> PersistenceTransaction]
            /\ \A u \in Transactions \ {t} : tx'[u] = tx[u]
        <4>1. PICK call : call = [tx[t] EXCEPT !.at = "found", !.existing = rows]
          OBVIOUS
        <4>2. tx' = [tx EXCEPT ![t] = call] /\ tx[t].at = "loaded"
          BY <2>1, <4>1 DEF FindExisting
        <4>3. call \in PersistenceTransaction /\ call.at = "found" /\ call.next = tx[t].next
          BY <4>1 DEF ShapeOK, PersistenceTransaction, Version
        <4> QED BY <4>2, <4>3 DEF ShapeOK
      <3>2. CallOK(t)'
        BY <1>1, <3>1 DEF CallOK, AnsweredAtTheEnd, EffectKnown, AppliesWhatWasLoaded,
                          HoldsWhatItApplied, storeVars
      <3> QED BY <3>1, <3>2
    <2>2. CASE Begin(t) \/ CheckpointConflict(t)
      <3>1. \/ tx[t].at = "found" /\ MovesTo(t, "begun")
            \/ tx[t].at = "begun" /\ MovesTo(t, "undoing")
        BY <2>2 DEF Begin, CheckpointConflict
      <3>2. CallOK(t)'
        BY <1>1, <3>1, Moving DEF CallOK, AnsweredAtTheEnd, EffectKnown,
                                  AppliesWhatWasLoaded, HoldsWhatItApplied, storeVars
      <3> QED BY <3>1, <3>2, Moving
    <2>3. CASE StageWrite(t)
      <3>1. tx[t].at = "begun" /\ SameVersion(t) /\ MovesTo(t, "applying")
        BY <2>3 DEF StageWrite
      <3>2. AnsweredAtTheEnd(t)' /\ EffectKnown(t)'
        BY <1>1, <3>1, Moving DEF CallOK, AnsweredAtTheEnd, EffectKnown, storeVars
      <3>3. AppliesWhatWasLoaded(t)'
        BY <1>1, <3>1, Moving DEF AppliesWhatWasLoaded, SameVersion, Touched, storeVars
      <3>4. HoldsWhatItApplied(t)'
        BY <3>1, Moving, OrderIsOperations DEF CallOK, HoldsWhatItApplied
      <3> QED BY <3>1, <3>2, <3>3, <3>4, Moving DEF CallOK
    <2> QED BY <2>1, <2>2, <2>3
  <1>3. ShapeOK'
    BY <1>1, <1>2 DEF ShapeOK, storeVars, Version, PersistenceTransaction
  <1>4. ASSUME NEW u \in Transactions \ {t} PROVE CallOK(u)'
    BY <1>1, <1>2, OthersAsTheyWere DEF storeVars
  <1> QED BY <1>1, <1>2, <1>3, <1>4

(* Applying an operation moves on to the next one, and changes nothing else.      *)
LEMMA AppliesOneMore ==
  ASSUME ShapeOK, NEW t \in Transactions, NEW n \in Nat, tx' = [tx EXCEPT ![t].next = n]
  PROVE  /\ tx' \in [Transactions -> PersistenceTransaction]
         /\ tx'[t].at = tx[t].at /\ tx'[t].existing = tx[t].existing /\ tx'[t].next = n
         /\ \A u \in Transactions \ {t} : tx'[u] = tx[u]
  BY DEF ShapeOK, PersistenceTransaction

(* An operation that is applied locks a row that nobody held. *)
LEMMA ApplyingOperation ==
  ASSUME StoreInv, NEW t \in Transactions, ApplyOperation(t)
  PROVE  StoreInv' /\ UNCHANGED storeVars
  <1> USE DEF StoreInv, At
  <1> DEFINE e == Target(t)
  <1>1. /\ UNCHANGED storeVars
        /\ tx[t].at = "applying" /\ tx[t].next <= Len(Order[t])
        /\ lock[e] = Free /\ rows[e] = tx[t].existing[e]
        /\ lock' = [lock EXCEPT ![e] = t]
        /\ tx' = [tx EXCEPT ![t].next = @ + 1]
    BY DEF ApplyOperation, Applying, Expected
  <1>2. /\ tx' \in [Transactions -> PersistenceTransaction]
        /\ tx'[t].at = "applying" /\ tx'[t].existing = tx[t].existing
        /\ tx'[t].next = tx[t].next + 1 /\ tx[t].next \in Nat
        /\ \A u \in Transactions \ {t} : tx'[u] = tx[u]
    <2>1. tx[t].next \in Nat
      BY DEF ShapeOK, PersistenceTransaction
    <2>2. PICK n \in Nat : n = tx[t].next + 1
      BY <2>1
    <2>3. tx' = [tx EXCEPT ![t].next = n]
      BY <1>1, <2>2
    <2> QED BY <1>1, <2>1, <2>2, <2>3, AppliesOneMore
  <1>3. ShapeOK'
    BY <1>1, <1>2 DEF ShapeOK, storeVars, Version, PersistenceTransaction
  <1>4. AnsweredAtTheEnd(t)' /\ EffectKnown(t)'
    BY <1>1, <1>2 DEF CallOK, AnsweredAtTheEnd, EffectKnown, storeVars
  <1>5. AppliesWhatWasLoaded(t)'
    BY <1>1, <1>2 DEF CallOK, AppliesWhatWasLoaded, SameVersion, Touched, storeVars
  <1>6. HoldsWhatItApplied(t)'
    <2> SUFFICES ASSUME NEW i \in 1..Len(Order[t]), i < tx[t].next + 1
                 PROVE  /\ lock'[Order[t][i]] = t
                        /\ rows[Order[t][i]] = tx[t].existing[Order[t][i]]
      BY <1>1, <1>2 DEF HoldsWhatItApplied, storeVars
    <2>1. Order[t][i] \in Entities
      BY OrderIsOperations
    <2>2. CASE i = tx[t].next
      BY <1>1, <2>1, <2>2 DEF Target, ShapeOK
    <2>3. CASE i # tx[t].next
      <3>1. i < tx[t].next
        BY <1>2, <2>3, OrderIsOperations
      <3> QED BY <1>1, <2>1, <3>1 DEF CallOK, HoldsWhatItApplied, ShapeOK
    <2> QED BY <2>2, <2>3
  <1>7. ASSUME NEW u \in Transactions \ {t} PROVE CallOK(u)'
    <2>1. \A f \in Entities : lock[f] = u => lock'[f] = u
      BY <1>1, PersistenceAssumption DEF ShapeOK
    <2> QED BY <1>1, <1>2, <2>1, OthersAsTheyWere DEF storeVars
  <1> QED BY <1>1, <1>3, <1>4, <1>5, <1>6, <1>7 DEF CallOK

(* A commit that fails before COMMIT gives its rows back as it found them. *)
LEMMA FailingBeforeCommit ==
  ASSUME StoreInv, NEW t \in Transactions,
         OperationRefused(t) \/ DeadlockDetected(t) \/ QueryFails(t)
  PROVE  StoreInv' /\ UNCHANGED storeVars
  <1> USE DEF StoreInv, At
  <1>1. UNCHANGED storeVars /\ tx[t].at = "applying" /\ MovesTo(t, "undoing")
        /\ lock' = Unlocked(t)
    BY DEF OperationRefused, DeadlockDetected, WaitsFor, QueryFails, Applying, Fails
  <1>2. ShapeOK'
    BY <1>1, Moving, Unlocking DEF ShapeOK, storeVars, Version, PersistenceTransaction
  <1>3. CallOK(t)'
    BY <1>1, Moving DEF CallOK, AnsweredAtTheEnd, EffectKnown, AppliesWhatWasLoaded,
                        HoldsWhatItApplied, storeVars
  <1>4. ASSUME NEW u \in Transactions \ {t} PROVE CallOK(u)'
    BY <1>1, Moving, Unlocking, OthersAsTheyWere DEF storeVars
  <1> QED BY <1>1, <1>2, <1>3, <1>4

(* Loading a checkpoint. *)
LEMMA Loading ==
  ASSUME StoreInv, NEW t \in Transactions, LoadCheckpoint(t)
  PROVE  StoreInv'
  <1> USE DEF StoreInv, At
  <1>1. /\ tx[t].at = "unused" /\ MovesTo(t, "loaded") /\ base' = [base EXCEPT ![t] = rows]
        /\ rows' = rows /\ applied' = applied /\ answer' = answer /\ lock' = lock
    BY DEF LoadCheckpoint, LoadAll
  <1>2. ShapeOK'
    BY <1>1, Moving DEF ShapeOK, Version, PersistenceTransaction
  <1>3. CallOK(t)'
    BY <1>1, Moving DEF CallOK, AnsweredAtTheEnd, EffectKnown, AppliesWhatWasLoaded,
                        HoldsWhatItApplied
  <1>4. ASSUME NEW u \in Transactions \ {t} PROVE CallOK(u)'
    <2>1. base'[u] = base[u]
      BY <1>1 DEF ShapeOK
    <2> QED BY <1>1, <2>1, Moving, OthersAsTheyWere
  <1> QED BY <1>2, <1>3, <1>4

Concludes(t) == BeginFails(t) \/ Undo(t) \/ PublishCommitted(t) \/ PublishFails(t)

(* An answer is given once, at the end, and 'committed' is told of what took effect. *)
LEMMA Answering ==
  ASSUME StoreInv, NEW t \in Transactions, Concludes(t)
  PROVE  /\ StoreInv' /\ UNCHANGED <<rows, base, applied>>
         /\ \E what \in {"committed", "failed"} : Tell(t, what)
  <1> USE DEF StoreInv, At
  <1>1. /\ UNCHANGED <<rows, base, applied>> /\ lock' = lock /\ MovesTo(t, "ended")
        /\ \E what \in {"committed", "failed"} : Tell(t, what)
    BY DEF Concludes, BeginFails, Undo, PublishCommitted, PublishFails
  <1>2. /\ answer' \in [Transactions -> {"none", "committed", "failed"}]
        /\ \A u \in Transactions \ {t} : answer'[u] = answer[u]
    BY <1>1 DEF ShapeOK, Tell
  <1>3. ShapeOK'
    BY <1>1, <1>2, Moving DEF ShapeOK, Version, PersistenceTransaction
  <1>4. CallOK(t)'
    BY <1>1, Moving DEF CallOK, AnsweredAtTheEnd, EffectKnown, AppliesWhatWasLoaded,
                        HoldsWhatItApplied
  <1>5. ASSUME NEW u \in Transactions \ {t} PROVE CallOK(u)'
    BY <1>1, <1>2, Moving, OthersAsTheyWere
  <1> QED BY <1>1, <1>3, <1>4, <1>5

TakesEffect(t) == Commit(t) \/ CommitLost(t)

(* A commit takes effect on rows that are all still what its caller had loaded,     *)
(* and on none that another transaction has locked; one whose connection is lost    *)
(* around COMMIT may have changed nothing.                                          *)
LEMMA TakingEffect ==
  ASSUME StoreInv, NEW t \in Transactions, TakesEffect(t)
  PROVE  /\ StoreInv'
         /\ \/ Apply(t) /\ UNCHANGED answer
            \/ UNCHANGED storeVars
  <1> USE DEF StoreInv, At
  <1>1. /\ tx[t].at = "applying" /\ tx[t].next > Len(Order[t])
        /\ UNCHANGED <<base, answer>> /\ lock' = Unlocked(t)
        /\ \/ rows' = After(t) /\ applied' = applied \cup {t} /\ MovesTo(t, "publishing")
           \/ rows' = After(t) /\ applied' = applied \cup {t} /\ MovesTo(t, "undoing")
           \/ UNCHANGED <<rows, applied>> /\ MovesTo(t, "undoing")
    BY DEF TakesEffect, Commit, CommitLost
  <1>2. \A e \in Touched(t) : lock[e] = t /\ rows[e] = base[t][e]
    BY <1>1, AllAppliedIsAllHeld
  <1>3. (Apply(t) /\ UNCHANGED answer) \/ UNCHANGED storeVars
    BY <1>1, <1>2 DEF Apply, Touched, storeVars, CallOK, EffectKnown, AnsweredAtTheEnd
  <1>4. rows' \in [Entities -> Version] /\ \A e \in Entities \ Touched(t) : rows'[e] = rows[e]
    BY <1>1, AfterIsRows DEF ShapeOK
  <1>5. ShapeOK'
    <2>1. tx' \in [Transactions -> PersistenceTransaction]
      BY <1>1, Moving
    <2> QED BY <1>1, <1>4, <2>1, Unlocking DEF ShapeOK, Version, PersistenceTransaction
  <1>6. CallOK(t)'
    BY <1>1, Moving DEF CallOK, AnsweredAtTheEnd, EffectKnown, AppliesWhatWasLoaded,
                        HoldsWhatItApplied
  <1>7. ASSUME NEW u \in Transactions \ {t} PROVE CallOK(u)'
    <2>1. tx'[u] = tx[u] /\ (u \in applied' <=> u \in applied)
      BY <1>1, Moving
    <2>2. \A e \in Entities : lock[e] = u => lock'[e] = u /\ rows'[e] = rows[e]
      BY <1>1, <1>2, <1>4, Unlocking
    <2> QED BY <1>1, <2>1, <2>2, OthersAsTheyWere
  <1> QED BY <1>3, <1>5, <1>6, <1>7

-----------------------------------------------------------------------------
(* The refinement *)

LEMMA EveryStep ==
  ASSUME StoreInv, [PersistenceNext]_persistenceVars
  PROVE  StoreInv' /\ [StoreNext]_storeVars
  <1>1. CASE UNCHANGED persistenceVars
    <2>1. UNCHANGED <<rows, base, applied, answer, tx, lock>>
      BY <1>1 DEF persistenceVars, storeVars
    <2>2. ShapeOK'
      BY <2>1 DEF StoreInv, ShapeOK, Version, PersistenceTransaction
    <2>3. ASSUME NEW u \in Transactions PROVE CallOK(u)'
      BY <2>1, OthersAsTheyWere DEF StoreInv
    <2> QED BY <2>1, <2>2, <2>3 DEF StoreInv, storeVars
  <1>2. CASE PersistenceNext
    <2>1. PICK t \in Transactions :
             \/ LoadCheckpoint(t) \/ Proceed(t)
             \/ BeginFails(t) \/ QueryFails(t) \/ CommitLost(t) \/ PublishFails(t)
      BY <1>2 DEF PersistenceNext
    <2>2. CASE LoadCheckpoint(t)
      BY <2>2, Loading DEF LoadCheckpoint, StoreNext
    <2>3. CASE FindExisting(t) \/ Begin(t) \/ StageWrite(t) \/ CheckpointConflict(t)
      BY <2>3, BeforeApplying
    <2>4. CASE ApplyOperation(t)
      BY <2>4, ApplyingOperation
    <2>5. CASE OperationRefused(t) \/ DeadlockDetected(t) \/ QueryFails(t)
      BY <2>5, FailingBeforeCommit
    <2>6. CASE TakesEffect(t)
      BY <2>6, TakingEffect DEF StoreNext
    <2>7. CASE Concludes(t)
      BY <2>7, Answering DEF StoreNext
    <2> QED BY <2>1, <2>2, <2>3, <2>4, <2>5, <2>6, <2>7 DEF Proceed, TakesEffect, Concludes
  <1> QED BY <1>1, <1>2

(* The instance in Persistence maps every constant and variable to itself. *)
LEMMA SameStore ==
  /\ StoreInit => Atomic!StoreInit
  /\ [StoreNext]_storeVars => [Atomic!StoreNext]_(Atomic!storeVars)
  BY DEF StoreInit, Atomic!StoreInit, Absent, Atomic!Absent, StoreNext, Atomic!StoreNext,
         storeVars, Atomic!storeVars, LoadAll, Atomic!LoadAll, Apply, Atomic!Apply,
         Tell, Atomic!Tell, After, Atomic!After, Written, Atomic!Written

(* The transaction of packages/persistence-postgres implements the atomic one that  *)
(* the persistence contracts promise: it takes effect at once, on what its caller   *)
(* had loaded, or not at all, and 'committed' is told of what took effect.          *)
THEOREM CommitIsAtomic == PersistenceSpec => ImplementsAtomicStore
  <1>1. PersistenceInit => StoreInv /\ Atomic!StoreInit
    BY StoreInvInitially, SameStore DEF PersistenceInit
  <1>2. StoreInv /\ [PersistenceNext]_persistenceVars
          => StoreInv' /\ [Atomic!StoreNext]_(Atomic!storeVars)
    BY EveryStep, SameStore
  <1> QED BY <1>1, <1>2, PTL DEF PersistenceSpec, ImplementsAtomicStore, Atomic!StoreSpec

-----------------------------------------------------------------------------
(* The container: the inductive invariant. *)

PromiseRecord ==
  [token : Tokens, at : Places, parts : Seq(Nat), step : {"making", "made", "failed"}]

CompositionTypes ==
  /\ promises \in Seq(PromiseRecord)
  /\ cache \in [Places -> [Tokens -> Nat]]
  /\ disposables \in [Places -> Seq(Nat)]
  /\ disposal \in [Places -> [step : {"open", "disposing", "disposed"}, left : Seq(Nat)]]
  /\ disposedValues \subseteq DOMAIN promises
  /\ resolver \in [Resolvers -> Nat]
  /\ CompositionTypeOK

\* a value is made of values that are made
PartsOK ==
  \A p \in DOMAIN promises :
    /\ Len(promises[p].parts) <= Len(DependsOn[promises[p].token])
    /\ \A k \in DOMAIN promises[p].parts :
         /\ promises[p].parts[k] \in DOMAIN promises
         /\ promises[p].step = "made" \/ (promises[p].step = "making" /\ k < Len(promises[p].parts))
              => promises[promises[p].parts[k]].step = "made"

\* the cache knows every promise of a singleton, until the root is disposed
CacheOK ==
  /\ \A q \in Places, t \in Tokens :
       cache[q][t] # 0 => cache[q][t] \in DOMAIN promises /\ promises[cache[q][t]].token = t
  /\ \A t \in Tokens :
       Lifetime[t] = "singleton" /\ disposal[Root].step = "open" =>
         \/ \E p \in PromisesOf(t) : promises[p].step = "failed"
         \/ \A p \in PromisesOf(t) : cache[Root][t] = p

\* values of a place, each once
Row(s, w) ==
  /\ \A i \in DOMAIN w : w[i] \in DOMAIN promises /\ promises[w[i]].at = s /\ promises[w[i]].step = "made"
  /\ \A i, j \in DOMAIN w : w[i] = w[j] => i = j

PartsBefore(s, w) ==
  \A i \in DOMAIN w : \A k \in DOMAIN promises[w[i]].parts :
    promises[promises[w[i]].parts[k]].at = s => \E j \in DOMAIN w : j < i /\ w[j] = promises[w[i]].parts[k]

PartsAfter(s, w) ==
  \A i \in DOMAIN w : \A k \in DOMAIN promises[w[i]].parts :
    promises[promises[w[i]].parts[k]].at = s => \E j \in DOMAIN w : i < j /\ w[j] = promises[w[i]].parts[k]

\* an open place lists its values as they were made, and none of them is disposed
ListsValues(s) ==
  /\ disposal[s].left = <<>>
  /\ Row(s, disposables[s]) /\ PartsBefore(s, disposables[s])
  /\ \A p \in DOMAIN promises :
       promises[p].at = s /\ promises[p].step = "made" => \E i \in DOMAIN disposables[s] : disposables[s][i] = p
  /\ \A p \in disposedValues : promises[p].at # s

\* what a place has still to dispose is not disposed, and comes from the dependents down
LeavesValues(s) ==
  /\ Row(s, disposal[s].left) /\ PartsAfter(s, disposal[s].left)
  /\ \A i \in DOMAIN disposal[s].left : disposal[s].left[i] \notin disposedValues

DisposalOK == \A s \in Places : (disposal[s].step = "open" => ListsValues(s)) /\ LeavesValues(s)

CompositionIInv == CompositionTypes /\ PartsOK /\ CacheOK /\ CreatedOnce /\ DisposalOK

LEMMA CompositionIInvImplies == CompositionIInv => CompositionInv
<1> SUFFICES ASSUME CompositionIInv PROVE DependentsFirst
  BY DEF CompositionIInv, CompositionTypes, CompositionInv
<1> SUFFICES ASSUME NEW s \in Places, NEW i \in DOMAIN disposal[s].left,
                    NEW k \in DOMAIN promises[disposal[s].left[i]].parts,
                    promises[promises[disposal[s].left[i]].parts[k]].at = s
             PROVE  promises[disposal[s].left[i]].parts[k] \notin disposedValues
  BY DEF DependentsFirst, ToSet
<1> QED
  BY SMTT(30) DEF CompositionIInv, DisposalOK, LeavesValues, PartsAfter

LEMMA CompositionInitOK == CompositionInit => CompositionIInv
<1> SUFFICES ASSUME CompositionInit PROVE CompositionIInv
  OBVIOUS
<1>1. promises = <<>> /\ DOMAIN promises = {} /\ Len(promises) = 0
  BY DEF CompositionInit
<1>2. /\ promises \in Seq(PromiseRecord) /\ cache \in [Places -> [Tokens -> Nat]]
      /\ disposables \in [Places -> Seq(Nat)] /\ resolver \in [Resolvers -> Nat]
      /\ disposal \in [Places -> [step : {"open", "disposing", "disposed"}, left : Seq(Nat)]]
  BY DEF CompositionInit
<1>3. \A s \in Places : disposables[s] = <<>> /\ disposal[s].left = <<>> /\ DOMAIN <<>> = {}
  BY DEF CompositionInit
<1>4. CompositionTypeOK
  BY <1>1, <1>3 DEF CompositionInit, CompositionTypeOK, ToSet
<1>5. PartsOK /\ CacheOK /\ CreatedOnce
  BY <1>1 DEF CompositionInit, PartsOK, CacheOK, CreatedOnce, PromisesOf
<1>6. DisposalOK
  BY <1>1, <1>3 DEF CompositionInit, DisposalOK, ListsValues, LeavesValues, Row, PartsBefore, PartsAfter
<1>7. QED
  BY <1>1, <1>2, <1>4, <1>5, <1>6 DEF CompositionInit, CompositionIInv, CompositionTypes

\* what no step does to the promises
Grows ==
  /\ promises' \in Seq(PromiseRecord) /\ DOMAIN promises \subseteq DOMAIN promises'
  /\ \A p \in DOMAIN promises :
       /\ promises'[p].token = promises[p].token /\ promises'[p].at = promises[p].at
       /\ promises[p].step # "making" => promises'[p] = promises[p]

LEMMA RowKeeps ==
  ASSUME PartsOK, Grows, NEW s \in Places, NEW w, Row(s, w)
  PROVE  /\ Row(s, w)'
         /\ PartsBefore(s, w) => PartsBefore(s, w)'
         /\ PartsAfter(s, w) => PartsAfter(s, w)'
<1>1. \A i \in DOMAIN w : /\ w[i] \in DOMAIN promises /\ promises[w[i]].step = "made"
                          /\ promises'[w[i]] = promises[w[i]] /\ w[i] \in DOMAIN promises'
  BY DEF Row, Grows
<1>2. \A i \in DOMAIN w : \A k \in DOMAIN promises[w[i]].parts :
        promises'[promises[w[i]].parts[k]].at = promises[promises[w[i]].parts[k]].at
  BY <1>1 DEF PartsOK, Grows
<1>3. Row(s, w)'
  BY <1>1 DEF Row
<1>4. PartsBefore(s, w) => PartsBefore(s, w)'
  BY <1>1, <1>2 DEF PartsBefore
<1>5. PartsAfter(s, w) => PartsAfter(s, w)'
  BY <1>1, <1>2 DEF PartsAfter
<1>6. QED
  BY <1>3, <1>4, <1>5

\* a step that makes no value and disposes none
LEMMA DisposalKeeps ==
  ASSUME CompositionTypes, PartsOK, DisposalOK, Grows, UNCHANGED <<disposables, disposal, disposedValues>>,
         \A p \in DOMAIN promises' : promises'[p].step = "made" => p \in DOMAIN promises /\ promises[p].step = "made"
  PROVE  DisposalOK'
<1> SUFFICES ASSUME NEW s \in Places
             PROVE  (disposal[s].step = "open" => ListsValues(s)') /\ LeavesValues(s)'
  BY DEF DisposalOK
<1>1. LeavesValues(s)'
  <2>1. Row(s, disposal[s].left) /\ PartsAfter(s, disposal[s].left)
    BY DEF DisposalOK, LeavesValues
  <2>2. ASSUME NEW w, Row(s, w), PartsAfter(s, w) PROVE Row(s, w)' /\ PartsAfter(s, w)'
    BY <2>2, RowKeeps
  <2>3. Row(s, disposal[s].left)' /\ PartsAfter(s, disposal[s].left)'
    <3>1. PICK w : w = disposal[s].left
      OBVIOUS
    <3>2. Row(s, w)' /\ PartsAfter(s, w)' /\ disposal'[s].left = w
      BY <2>1, <2>2, <3>1
    <3>3. QED
      BY <3>2 DEF Row, PartsAfter
  <2>4. QED
    BY <2>3 DEF DisposalOK, LeavesValues
<1>2. ASSUME disposal[s].step = "open" PROVE ListsValues(s)'
  <2>1. ListsValues(s)
    BY <1>2 DEF DisposalOK
  <2>2. ASSUME NEW w, Row(s, w), PartsBefore(s, w) PROVE Row(s, w)' /\ PartsBefore(s, w)'
    BY <2>2, RowKeeps
  <2>3. Row(s, disposables[s])' /\ PartsBefore(s, disposables[s])'
    <3>1. PICK w : w = disposables[s]
      OBVIOUS
    <3>2. Row(s, w)' /\ PartsBefore(s, w)' /\ disposables'[s] = w
      BY <2>1, <2>2, <3>1 DEF ListsValues
    <3>3. QED
      BY <3>2 DEF Row, PartsBefore
  <2>4. \A p \in disposedValues' : promises'[p].at # s
    BY <2>1 DEF CompositionTypes, Grows, ListsValues
  <2>5. \A p \in DOMAIN promises' : promises'[p].at = s /\ promises'[p].step = "made" =>
          \E i \in DOMAIN disposables'[s] : disposables'[s][i] = p
    BY <2>1 DEF Grows, ListsValues
  <2>6. QED
    BY <2>1, <2>3, <2>4, <2>5 DEF ListsValues
<1>3. QED
  BY <1>1, <1>2

\* a resolution leaves the promises as they are, but for parts of those being made,
\* and may create one
SameButParts(grown) ==
  /\ grown \in Seq(PromiseRecord) /\ Len(grown) = Len(promises)
  /\ \A p \in DOMAIN promises :
       /\ grown[p].token = promises[p].token /\ grown[p].at = promises[p].at /\ grown[p].step = promises[p].step
       /\ promises[p].step # "making" => grown[p] = promises[p]

Looks(grown, t, place) ==
  IF Creates(t, place)
  THEN promises' = Append(grown, NewPromise(t, place)) /\ cache' = Remembered(t, place, Len(promises) + 1)
  ELSE promises' = grown /\ UNCHANGED cache

LEMMA CachedType ==
  ASSUME CompositionTypes, NEW t \in Tokens, NEW place \in Places
  PROVE  Cached(t, place) \in 0..Len(promises) /\ CacheOf(t, place) \in Places
<1>1. CacheOf(t, place) \in Places
  BY DEF CacheOf, Places
<1>2. QED
  BY <1>1 DEF Cached, CompositionTypes, CompositionTypeOK

LEMMA LooksGrows ==
  ASSUME CompositionIInv, NEW grown, SameButParts(grown), NEW t \in Tokens, NEW place \in Places,
         Looks(grown, t, place)
  PROVE  /\ Grows
         /\ \A p \in DOMAIN promises : promises'[p] = grown[p]
         /\ \A p \in DOMAIN promises' \ DOMAIN promises :
              Creates(t, place) /\ p = Len(promises) + 1 /\ promises'[p] = NewPromise(t, place)
         /\ DOMAIN promises' = 1..Len(promises') /\ Len(promises') \in Nat /\ Len(promises) <= Len(promises')
         /\ Promise(t, place) \in DOMAIN promises'
<1>1. promises \in Seq(PromiseRecord) /\ grown \in Seq(PromiseRecord) /\ Len(grown) = Len(promises)
      /\ DOMAIN promises = 1..Len(promises) /\ DOMAIN grown = 1..Len(promises) /\ Len(promises) \in Nat
  BY DEF CompositionIInv, CompositionTypes, SameButParts
<1>2. NewPromise(t, place) \in PromiseRecord
  <2>1. <<>> \in Seq(Nat)
    OBVIOUS
  <2>2. QED
    BY <2>1 DEF NewPromise, PromiseRecord
<1>3. Cached(t, place) \in 0..Len(promises)
  BY CachedType DEF CompositionIInv
<1>4. CASE Creates(t, place)
  <2>1. promises' = Append(grown, NewPromise(t, place))
    BY <1>4 DEF Looks
  <2>2. /\ promises' \in Seq(PromiseRecord) /\ Len(promises') = Len(promises) + 1
        /\ DOMAIN promises' = 1..Len(promises) + 1
        /\ promises'[Len(promises) + 1] = NewPromise(t, place)
        /\ \A p \in 1..Len(promises) : promises'[p] = grown[p]
    BY <1>1, <1>2, <2>1
  <2>3. Promise(t, place) = Len(promises) + 1
    BY <1>4 DEF Promise, Creates
  <2>4. \A p \in 1..Len(promises) + 1 : p \in 1..Len(promises) \/ p = Len(promises) + 1
    BY <1>1
  <2>5. \A p \in DOMAIN promises' \ DOMAIN promises : p = Len(promises) + 1
    BY <1>1, <2>2, <2>4
  <2>6. Grows
    BY <1>1, <2>2 DEF Grows, SameButParts
  <2>7. Promise(t, place) \in DOMAIN promises' /\ Len(promises) <= Len(promises') /\ Len(promises') \in Nat
    BY <1>1, <2>2, <2>3
  <2>8. QED
    BY <1>1, <1>4, <2>2, <2>5, <2>6, <2>7
<1>5. CASE ~Creates(t, place)
  <2>1. promises' = grown
    BY <1>5 DEF Looks
  <2>2. Promise(t, place) = Cached(t, place) /\ Cached(t, place) # 0
    BY <1>5 DEF Promise, Creates
  <2>3. Grows
    BY <1>1, <2>1 DEF Grows, SameButParts
  <2>4. QED
    BY <1>1, <1>3, <2>1, <2>2, <2>3
<1>6. QED
  BY <1>4, <1>5

LEMMA LooksKeeps ==
  ASSUME CompositionIInv, NEW grown, SameButParts(grown), NEW t \in Tokens, NEW place \in Places,
         ~Refused(t, place), Looks(grown, t, place), UNCHANGED <<disposables, disposal, disposedValues>>
  PROVE  /\ cache' \in [Places -> [Tokens -> Nat]]
         /\ \A q \in Places, u \in Tokens : cache'[q][u] \in 0..Len(promises')
         /\ CacheOK' /\ CreatedOnce' /\ DisposalOK'
<1>1. /\ Grows
      /\ \A p \in DOMAIN promises : promises'[p] = grown[p]
      /\ \A p \in DOMAIN promises' \ DOMAIN promises :
           Creates(t, place) /\ p = Len(promises) + 1 /\ promises'[p] = NewPromise(t, place)
      /\ DOMAIN promises' = 1..Len(promises') /\ Len(promises') \in Nat /\ Len(promises) <= Len(promises')
      /\ Promise(t, place) \in DOMAIN promises'
  BY LooksGrows
<1>2. /\ cache \in [Places -> [Tokens -> Nat]] /\ Len(promises) \in Nat /\ DOMAIN promises = 1..Len(promises)
      /\ \A q \in Places, u \in Tokens : cache[q][u] \in 0..Len(promises)
  BY DEF CompositionIInv, CompositionTypes, CompositionTypeOK
<1>3. \A p \in DOMAIN promises : promises'[p].token = promises[p].token /\ promises'[p].step = promises[p].step
  BY <1>1 DEF SameButParts
<1>4. NewPromise(t, place).token = t /\ NewPromise(t, place).step = "making"
  BY DEF NewPromise
<1>5. DisposalOK'
  BY <1>1, <1>3, <1>4, DisposalKeeps DEF CompositionIInv
<1> DEFINE where == CacheOf(t, place)  new == Len(promises) + 1
<1>6. where \in Places
  BY CachedType DEF CompositionIInv
<1>7. cache' = cache \/ (Creates(t, place) /\ Lifetime[t] # "transient" /\ cache' = [cache EXCEPT ![where][t] = new])
  BY DEF Looks, Remembered
<1>8. Creates(t, place) => /\ new \in DOMAIN promises' /\ promises'[new] = NewPromise(t, place)
                           /\ new \in Nat /\ new # 0
                           /\ new \notin DOMAIN promises
  <2>1. Creates(t, place) => Promise(t, place) = new
    BY DEF Promise, Creates
  <2>2. new \notin DOMAIN promises /\ new \in Nat /\ new # 0
    BY <1>2
  <2>3. QED
    BY <1>1, <2>1, <2>2
<1> HIDE DEF where, new
<1>9. /\ cache' \in [Places -> [Tokens -> Nat]]
      /\ \A q \in Places, u \in Tokens :
           cache'[q][u] = cache[q][u] \/ (Creates(t, place) /\ q = where /\ u = t /\ cache'[q][u] = new)
  <2>1. CASE cache' = cache
    BY <1>2, <2>1
  <2>2. CASE Creates(t, place) /\ cache' = [cache EXCEPT ![where][t] = new]
    <3>1. new \in Nat
      BY <1>8, <2>2
    <3>2. [cache[where] EXCEPT ![t] = new] \in [Tokens -> Nat]
      BY <1>2, <1>6, <3>1
    <3>3. QED
      BY <1>2, <1>6, <2>2, <3>1, <3>2
  <2>3. QED
    BY <1>7, <2>1, <2>2
<1>10. \A q \in Places, u \in Tokens : cache'[q][u] \in 0..Len(promises')
  BY <1>1, <1>2, <1>8, <1>9
<1>11. \A q \in Places, u \in Tokens :
         cache'[q][u] # 0 => cache'[q][u] \in DOMAIN promises' /\ promises'[cache'[q][u]].token = u
  BY <1>1, <1>3, <1>4, <1>8, <1>9 DEF CompositionIInv, CacheOK, Grows
<1>12. disposal[Root].step = "open" /\ Root \in Places
  BY DEF Refused, Places
<1>13. ASSUME NEW u \in Tokens, Lifetime[u] = "singleton"
       PROVE  \/ \E p \in PromisesOf(u)' : promises'[p].step = "failed"
              \/ \A p \in PromisesOf(u)' : cache'[Root][u] = p
  <2>1. CASE \E p \in PromisesOf(u) : promises[p].step = "failed"
    BY <1>1, <1>3, <2>1 DEF PromisesOf, Grows
  <2>2. CASE \A p \in PromisesOf(u) : cache[Root][u] = p
    <3>1. CASE u = t /\ Creates(t, place)
      <4>1. cache[Root][u] = 0 /\ where = Root /\ cache' = [cache EXCEPT ![Root][t] = new]
        BY <1>13, <3>1 DEF Creates, Cached, CacheOf, where, new, Looks, Remembered
      <4>2. \A p \in DOMAIN promises : promises[p].token # t
        BY <1>2, <2>2, <3>1, <4>1 DEF PromisesOf
      <4>3. \A p \in DOMAIN promises' : promises'[p].token = t => p = new
        BY <1>1, <1>3, <4>2 DEF new
      <4>4. cache'[Root][t] = new
        BY <1>2, <1>12, <4>1
      <4>5. QED
        BY <3>1, <4>3, <4>4 DEF PromisesOf
    <3>2. CASE ~(u = t /\ Creates(t, place))
      <4>1. cache'[Root][u] = cache[Root][u]
        BY <1>9, <1>12, <3>2
      <4>2. \A p \in PromisesOf(u)' : p \in PromisesOf(u)
        BY <1>1, <1>3, <1>4, <3>2 DEF PromisesOf
      <4>3. QED
        BY <2>2, <4>1, <4>2
    <3>3. QED
      BY <3>1, <3>2
  <2>3. QED
    BY <1>12, <1>13, <2>1, <2>2 DEF CompositionIInv, CacheOK
<1>14. CacheOK'
  BY <1>11, <1>13 DEF CacheOK
<1>15. CreatedOnce'
  BY <1>13 DEF CreatedOnce
<1>16. QED
  BY <1>5, <1>9, <1>10, <1>14, <1>15

LEMMA ResolveKeeps ==
  ASSUME CompositionIInv, NEW r \in Resolvers, NEW t \in Tokens, NEW place \in Places, resolve(r, t, place)
  PROVE  CompositionIInv'
<1>1. /\ ~Refused(t, place) /\ resolver' = [resolver EXCEPT ![r] = Promise(t, place)]
      /\ Looks(promises, t, place) /\ UNCHANGED <<disposables, disposal, disposedValues>>
  BY DEF resolve, Looks
<1>2. SameButParts(promises)
  BY DEF SameButParts, CompositionIInv, CompositionTypes
<1>3. /\ Grows
      /\ \A p \in DOMAIN promises : promises'[p] = promises[p]
      /\ \A p \in DOMAIN promises' \ DOMAIN promises : promises'[p] = NewPromise(t, place)
      /\ DOMAIN promises' = 1..Len(promises') /\ Len(promises') \in Nat /\ Len(promises) <= Len(promises')
      /\ Promise(t, place) \in DOMAIN promises'
  BY <1>1, <1>2, LooksGrows
<1>4. /\ cache' \in [Places -> [Tokens -> Nat]]
      /\ \A q \in Places, u \in Tokens : cache'[q][u] \in 0..Len(promises')
      /\ CacheOK' /\ CreatedOnce' /\ DisposalOK'
  BY <1>1, <1>2, LooksKeeps
<1>5. NewPromise(t, place).parts = <<>> /\ NewPromise(t, place).token = t /\ Len(DependsOn[t]) \in Nat
      /\ NewPromise(t, place).step = "making" /\ NewPromise(t, place).at = place /\ DOMAIN <<>> = {}
  BY DependenciesAssumption DEF NewPromise
<1>6. PartsOK'
  <2> SUFFICES ASSUME NEW p \in DOMAIN promises'
               PROVE  /\ Len(promises'[p].parts) <= Len(DependsOn[promises'[p].token])
                      /\ \A k \in DOMAIN promises'[p].parts :
                           /\ promises'[p].parts[k] \in DOMAIN promises'
                           /\ promises'[p].step = "made" \/ (promises'[p].step = "making" /\ k < Len(promises'[p].parts))
                                => promises'[promises'[p].parts[k]].step = "made"
    BY DEF PartsOK
  <2>1. CASE p \in DOMAIN promises
    BY <1>3, <2>1 DEF CompositionIInv, PartsOK
  <2>2. CASE p \notin DOMAIN promises
    BY <1>3, <1>5, <2>2
  <2>3. QED
    BY <2>1, <2>2
<1>7. CompositionTypes'
  <2>1. promises' \in Seq(PromiseRecord) /\ disposedValues' \subseteq DOMAIN promises'
        /\ disposables' \in [Places -> Seq(Nat)]
        /\ disposal' \in [Places -> [step : {"open", "disposing", "disposed"}, left : Seq(Nat)]]
    BY <1>1, <1>3 DEF CompositionIInv, CompositionTypes, Grows
  <2>2. resolver' \in [Resolvers -> Nat] /\ \A s \in Resolvers : resolver'[s] \in 0..Len(promises')
    <3>1. Promise(t, place) \in 0..Len(promises')
      BY <1>3
    <3>2. resolver \in [Resolvers -> Nat] /\ Len(promises) \in Nat
          /\ \A s \in Resolvers : resolver[s] \in 0..Len(promises)
      BY DEF CompositionIInv, CompositionTypes, CompositionTypeOK
    <3>3. QED
      BY <1>1, <1>3, <3>1, <3>2
  <2>3. \A p \in DOMAIN promises' : /\ promises'[p].step \in {"making", "made", "failed"}
                                    /\ promises'[p].at \in Places
                                    /\ ToSet(promises'[p].parts) \subseteq DOMAIN promises'
    <3>1. \A p \in DOMAIN promises' : promises'[p] \in PromiseRecord
      BY <2>1
    <3>2. \A p \in DOMAIN promises' : promises'[p].step \in {"making", "made", "failed"} /\ promises'[p].at \in Places
      BY <3>1 DEF PromiseRecord
    <3>3. QED
      BY <1>6, <3>2 DEF PartsOK, ToSet
  <2>4. \A q \in Places : ToSet(disposables'[q]) \subseteq DOMAIN promises'
    BY <1>1, <1>3 DEF CompositionIInv, CompositionTypes, CompositionTypeOK
  <2>5. QED
    BY <1>4, <2>1, <2>2, <2>3, <2>4 DEF CompositionTypes, CompositionTypeOK
<1>8. QED
  BY <1>4, <1>6, <1>7 DEF CompositionIInv

LEMMA TypesFollow ==
  ASSUME promises' \in Seq(PromiseRecord), PartsOK',
         cache' \in [Places -> [Tokens -> Nat]],
         \A q \in Places, u \in Tokens : cache'[q][u] \in 0..Len(promises'),
         disposables' \in [Places -> Seq(Nat)],
         \A q \in Places : ToSet(disposables'[q]) \subseteq DOMAIN promises',
         disposal' \in [Places -> [step : {"open", "disposing", "disposed"}, left : Seq(Nat)]],
         disposedValues' \subseteq DOMAIN promises',
         resolver' \in [Resolvers -> Nat],
         \A r \in Resolvers : resolver'[r] \in 0..Len(promises')
  PROVE  CompositionTypes'
<1>1. \A p \in DOMAIN promises' : promises'[p] \in PromiseRecord
  OBVIOUS
<1>2. \A p \in DOMAIN promises' : promises'[p].step \in {"making", "made", "failed"} /\ promises'[p].at \in Places
  BY <1>1 DEF PromiseRecord
<1>3. \A p \in DOMAIN promises' : ToSet(promises'[p].parts) \subseteq DOMAIN promises'
  BY DEF PartsOK, ToSet
<1>4. QED
  BY <1>2, <1>3 DEF CompositionTypes, CompositionTypeOK

LEMMA TypesHeld ==
  ASSUME CompositionIInv
  PROVE  /\ cache \in [Places -> [Tokens -> Nat]]
         /\ \A q \in Places, u \in Tokens : cache[q][u] \in 0..Len(promises)
         /\ disposables \in [Places -> Seq(Nat)]
         /\ \A q \in Places : ToSet(disposables[q]) \subseteq DOMAIN promises
         /\ disposal \in [Places -> [step : {"open", "disposing", "disposed"}, left : Seq(Nat)]]
         /\ disposedValues \subseteq DOMAIN promises
         /\ resolver \in [Resolvers -> Nat]
         /\ \A r \in Resolvers : resolver[r] \in 0..Len(promises)
  BY DEF CompositionIInv, CompositionTypes, CompositionTypeOK

LEMMA PromiseTypes ==
  ASSUME CompositionTypes
  PROVE  /\ promises \in Seq(PromiseRecord) /\ Len(promises) \in Nat /\ DOMAIN promises = 1..Len(promises)
         /\ \A q \in DOMAIN promises :
              /\ promises[q] \in PromiseRecord /\ promises[q].parts \in Seq(Nat)
              /\ promises[q].token \in Tokens /\ promises[q].at \in Places
              /\ promises[q].step \in {"making", "made", "failed"}
<1>1. promises \in Seq(PromiseRecord)
  BY DEF CompositionTypes
<1>2. \A q \in DOMAIN promises : promises[q] \in PromiseRecord
  BY <1>1
<1>3. QED
  BY <1>1, <1>2 DEF PromiseRecord

\* the last part of a running factory is made, and so are all the others
LEMMA PartsOfRunning ==
  ASSUME CompositionIInv, NEW p \in DOMAIN promises, Running(p), ~PartFailed(p)
  PROVE  \A k \in DOMAIN promises[p].parts :
           promises[p].parts[k] \in DOMAIN promises /\ promises[promises[p].parts[k]].step = "made"
<1>1. promises[p] \in PromiseRecord /\ promises[p].parts \in Seq(Nat) /\ promises[p].step = "making"
      /\ \A q \in DOMAIN promises : promises[q] \in PromiseRecord
      /\ DOMAIN promises = 1..Len(promises)
  BY PromiseTypes DEF CompositionIInv, Running
<1> DEFINE parts == promises[p].parts
<1> SUFFICES ASSUME NEW k \in DOMAIN parts
             PROVE  parts[k] \in DOMAIN promises /\ promises[parts[k]].step = "made"
  OBVIOUS
<1>2. DOMAIN parts = 1..Len(parts) /\ Len(parts) \in Nat /\ k \in 1..Len(parts)
  BY <1>1
<1>3. parts[k] \in DOMAIN promises /\ (k < Len(parts) => promises[parts[k]].step = "made")
  BY <1>1 DEF CompositionIInv, PartsOK
<1>4. CASE k = Len(parts)
  <2>1. parts # <<>>
    BY <1>2
  <2>2. Part(p) = parts[k] /\ Part(p) # 0
    BY <1>1, <1>3, <1>4, <2>1 DEF Part
  <2>3. promises[parts[k]].step \notin {"making", "failed"}
    BY <2>2 DEF Running, Awaits, PartFailed
  <2>4. promises[parts[k]].step \in {"making", "made", "failed"}
    BY <1>1, <1>3 DEF PromiseRecord
  <2>5. QED
    BY <1>3, <2>3, <2>4
<1>5. QED
  BY <1>2, <1>3, <1>4

LEMMA FactoryResolvesKeeps ==
  ASSUME CompositionIInv, NEW p \in DOMAIN promises, FactoryResolves(p) PROVE CompositionIInv'
<1> DEFINE t == Wanted(p)
           place == promises[p].at
           x == Promise(t, place)
           parts == Append(promises[p].parts, x)
           waiting == [promises EXCEPT ![p].parts = parts]
<1>1. /\ Running(p) /\ ~PartFailed(p) /\ ~Complete(p) /\ ~Refused(t, place)
      /\ Looks(waiting, t, place)
      /\ UNCHANGED <<disposables, disposal, disposedValues, resolver>>
  BY DEF FactoryResolves, Looks
<1>2. /\ promises \in Seq(PromiseRecord) /\ promises[p] \in PromiseRecord /\ promises[p].parts \in Seq(Nat)
      /\ promises[p].token \in Tokens /\ place \in Places /\ promises[p].step = "making"
      /\ Len(promises[p].parts) <= Len(DependsOn[promises[p].token])
      /\ Len(promises) \in Nat /\ DOMAIN promises = 1..Len(promises)
  BY <1>1, PromiseTypes DEF CompositionIInv, PartsOK, Running
<1>3. /\ DependsOn[promises[p].token] \in Seq(Tokens)
      /\ Len(promises[p].parts) \in Nat
      /\ Len(promises[p].parts) + 1 \in 1..Len(DependsOn[promises[p].token])
  <2>1. DependsOn[promises[p].token] \in Seq(Tokens)
    BY <1>2, DependenciesAssumption
  <2>2. Len(promises[p].parts) # Len(DependsOn[promises[p].token])
    BY <1>1 DEF Complete
  <2>3. QED
    BY <1>2, <2>1, <2>2
<1>4. t \in Tokens
  BY <1>3 DEF Wanted
<1>5. x \in Nat
  BY <1>2, <1>4, CachedType DEF Promise, CompositionIInv
<1> HIDE DEF t, place, x
<1>6. /\ parts \in Seq(Nat) /\ Len(parts) = Len(promises[p].parts) + 1
      /\ DOMAIN parts = 1..Len(promises[p].parts) + 1 /\ parts[Len(promises[p].parts) + 1] = x
      /\ \A k \in DOMAIN promises[p].parts : parts[k] = promises[p].parts[k]
      /\ DOMAIN promises[p].parts = 1..Len(promises[p].parts)
  BY <1>2, <1>5
<1> HIDE DEF parts
<1> DEFINE rec == [promises[p] EXCEPT !.parts = parts]
<1>7. /\ rec \in PromiseRecord /\ rec.token = promises[p].token /\ rec.at = promises[p].at
      /\ rec.step = "making" /\ rec.parts = parts
  BY <1>2, <1>6 DEF PromiseRecord
<1>8. waiting = [promises EXCEPT ![p] = rec]
  OBVIOUS
<1> HIDE DEF rec, waiting
<1>9. /\ waiting \in Seq(PromiseRecord) /\ Len(waiting) = Len(promises) /\ waiting[p] = rec
      /\ \A q \in DOMAIN promises : q # p => waiting[q] = promises[q]
  BY <1>2, <1>7, <1>8
<1>10. SameButParts(waiting)
  BY <1>2, <1>7, <1>9 DEF SameButParts
<1>11. /\ Grows
       /\ \A q \in DOMAIN promises : promises'[q] = waiting[q]
       /\ \A q \in DOMAIN promises' \ DOMAIN promises : promises'[q] = NewPromise(t, place)
       /\ DOMAIN promises' = 1..Len(promises') /\ Len(promises') \in Nat /\ Len(promises) <= Len(promises')
       /\ x \in DOMAIN promises'
  BY <1>1, <1>2, <1>4, <1>10, LooksGrows DEF place, x
<1>12. /\ cache' \in [Places -> [Tokens -> Nat]]
       /\ \A q \in Places, u \in Tokens : cache'[q][u] \in 0..Len(promises')
       /\ CacheOK' /\ CreatedOnce' /\ DisposalOK'
  BY <1>1, <1>2, <1>4, <1>10, LooksKeeps DEF place
<1>13. NewPromise(t, place).parts = <<>> /\ NewPromise(t, place).token = t /\ Len(DependsOn[t]) \in Nat
       /\ DOMAIN <<>> = {}
  BY <1>4, DependenciesAssumption DEF NewPromise
<1>14. \A q \in DOMAIN promises : promises[q].step = "made" => promises'[q].step = "made"
  BY <1>11 DEF Grows
<1>15. PartsOK'
  <2> SUFFICES ASSUME NEW q \in DOMAIN promises'
               PROVE  /\ Len(promises'[q].parts) <= Len(DependsOn[promises'[q].token])
                      /\ \A k \in DOMAIN promises'[q].parts :
                           /\ promises'[q].parts[k] \in DOMAIN promises'
                           /\ promises'[q].step = "made" \/ (promises'[q].step = "making" /\ k < Len(promises'[q].parts))
                                => promises'[promises'[q].parts[k]].step = "made"
    BY DEF PartsOK
  <2>1. CASE q \in DOMAIN promises /\ q # p
    <3>1. promises'[q] = promises[q]
      BY <1>9, <1>11, <2>1
    <3>2. /\ Len(promises[q].parts) <= Len(DependsOn[promises[q].token])
          /\ \A k \in DOMAIN promises[q].parts :
               /\ promises[q].parts[k] \in DOMAIN promises
               /\ promises[q].step = "made" \/ (promises[q].step = "making" /\ k < Len(promises[q].parts))
                    => promises[promises[q].parts[k]].step = "made"
      BY <2>1 DEF CompositionIInv, PartsOK
    <3>3. DOMAIN promises \subseteq DOMAIN promises' /\ \A j \in DOMAIN promises : promises[j].step = "made" => promises'[j].step = "made"
      BY <1>11 DEF Grows
    <3>4. QED
      BY <3>1, <3>2, <3>3
  <2>2. CASE q = p
    <3>1. promises'[q] = rec /\ rec.parts = parts /\ rec.token = promises[p].token /\ rec.step = "making"
      BY <1>7, <1>9, <1>11, <2>2
    <3>2. Len(parts) <= Len(DependsOn[promises[p].token])
      BY <1>3, <1>6
    <3>3. ASSUME NEW k \in DOMAIN parts
          PROVE  parts[k] \in DOMAIN promises' /\ (k < Len(parts) => promises'[parts[k]].step = "made")
      <4>1. CASE k = Len(promises[p].parts) + 1
        BY <1>3, <1>6, <1>11, <4>1
      <4>2. CASE k \in DOMAIN promises[p].parts
        <5>1. parts[k] \in DOMAIN promises /\ promises[parts[k]].step = "made"
          BY <1>1, <1>6, <4>2, PartsOfRunning
        <5>2. QED
          BY <1>11, <5>1 DEF Grows
      <4>3. QED
        BY <1>3, <1>6, <4>1, <4>2
    <3>4. QED
      BY <3>1, <3>2, <3>3
  <2>3. CASE q \notin DOMAIN promises
    BY <1>11, <1>13, <2>3
  <2>4. QED
    BY <2>1, <2>2, <2>3
<1>16. CompositionTypes'
  <2>1. /\ disposables' \in [Places -> Seq(Nat)]
        /\ disposal' \in [Places -> [step : {"open", "disposing", "disposed"}, left : Seq(Nat)]]
        /\ disposedValues' \subseteq DOMAIN promises' /\ promises' \in Seq(PromiseRecord)
        /\ \A q \in Places : ToSet(disposables'[q]) \subseteq DOMAIN promises'
    BY <1>1, <1>11 DEF CompositionIInv, CompositionTypes, CompositionTypeOK, Grows
  <2>2. resolver' \in [Resolvers -> Nat] /\ \A r \in Resolvers : resolver'[r] \in 0..Len(promises')
    <3>1. resolver \in [Resolvers -> Nat] /\ \A r \in Resolvers : resolver[r] \in 0..Len(promises)
      BY DEF CompositionIInv, CompositionTypes, CompositionTypeOK
    <3>2. QED
      BY <1>1, <1>2, <1>11, <3>1
  <2>3. QED
    BY <1>12, <1>15, <2>1, <2>2, TypesFollow
<1>17. QED
  BY <1>12, <1>15, <1>16 DEF CompositionIInv

\* a factory ends, with a value or with an error
LEMMA StepTo ==
  ASSUME CompositionIInv, NEW p \in DOMAIN promises, promises[p].step = "making",
         NEW step \in {"made", "failed"}, promises' = [promises EXCEPT ![p].step = step],
         step = "made" => \A k \in DOMAIN promises[p].parts : promises[promises[p].parts[k]].step = "made"
  PROVE  /\ Grows /\ PartsOK' /\ DOMAIN promises' = DOMAIN promises /\ Len(promises') = Len(promises)
         /\ promises'[p].step = step /\ promises'[p].parts = promises[p].parts
         /\ \A q \in DOMAIN promises : q # p => promises'[q] = promises[q]
<1> DEFINE rec == [promises[p] EXCEPT !.step = step]
<1>1. promises[p] \in PromiseRecord /\ promises \in Seq(PromiseRecord)
  BY PromiseTypes DEF CompositionIInv
<1>2. /\ rec \in PromiseRecord /\ rec.token = promises[p].token /\ rec.at = promises[p].at
      /\ rec.step = step /\ rec.parts = promises[p].parts
  BY <1>1 DEF PromiseRecord
<1>3. promises' = [promises EXCEPT ![p] = rec]
  OBVIOUS
<1> HIDE DEF rec
<1>4. /\ promises' \in Seq(PromiseRecord) /\ Len(promises') = Len(promises) /\ promises'[p] = rec
      /\ DOMAIN promises' = DOMAIN promises /\ \A q \in DOMAIN promises : q # p => promises'[q] = promises[q]
  BY <1>1, <1>2, <1>3
<1>5. Grows
  BY <1>2, <1>4 DEF Grows
<1>6. \A q \in DOMAIN promises : promises[q].step = "made" => promises'[q].step = "made"
  BY <1>5 DEF Grows
<1>7. PartsOK'
  <2>1. ASSUME NEW q \in DOMAIN promises
        PROVE  /\ Len(promises'[q].parts) <= Len(DependsOn[promises'[q].token])
               /\ \A k \in DOMAIN promises'[q].parts :
                    /\ promises'[q].parts[k] \in DOMAIN promises'
                    /\ promises'[q].step = "made" \/ (promises'[q].step = "making" /\ k < Len(promises'[q].parts))
                         => promises'[promises'[q].parts[k]].step = "made"
    <3>1. /\ Len(promises[q].parts) <= Len(DependsOn[promises[q].token])
          /\ \A k \in DOMAIN promises[q].parts :
               /\ promises[q].parts[k] \in DOMAIN promises
               /\ promises[q].step = "made" \/ (promises[q].step = "making" /\ k < Len(promises[q].parts))
                    => promises[promises[q].parts[k]].step = "made"
      BY DEF CompositionIInv, PartsOK
    <3>2. CASE q # p
      BY <1>4, <1>6, <3>1, <3>2
    <3>3. CASE q = p
      BY <1>2, <1>4, <1>6, <3>1, <3>3
    <3>4. QED
      BY <3>2, <3>3
  <2>2. QED
    BY <1>4, <2>1 DEF PartsOK
<1>8. QED
  BY <1>2, <1>4, <1>5, <1>7

LEMMA RejectsKeeps ==
  ASSUME CompositionIInv, NEW p \in DOMAIN promises, promises[p].step = "making", Rejects(p)
  PROVE  CompositionIInv'
<1>1. /\ promises' = [promises EXCEPT ![p].step = "failed"]
      /\ cache' = [q \in Places |-> [t \in Tokens |-> IF cache[q][t] = p THEN 0 ELSE cache[q][t]]]
      /\ UNCHANGED <<disposables, disposal, disposedValues, resolver>>
  BY DEF Rejects
<1>2. /\ Grows /\ PartsOK' /\ DOMAIN promises' = DOMAIN promises /\ Len(promises') = Len(promises)
      /\ promises'[p].step = "failed"
      /\ \A q \in DOMAIN promises : q # p => promises'[q] = promises[q]
  BY <1>1, StepTo
<1>3. /\ \A q \in DOMAIN promises : promises'[q].token = promises[q].token
      /\ \A q \in DOMAIN promises : promises[q].step = "failed" => promises'[q].step = "failed"
  BY <1>2 DEF Grows
<1>4. /\ cache \in [Places -> [Tokens -> Nat]]
      /\ \A q \in Places, t \in Tokens : cache[q][t] \in 0..Len(promises)
      /\ p \in Nat /\ p # 0 /\ Len(promises) \in Nat
  BY PromiseTypes DEF CompositionIInv, CompositionTypes, CompositionTypeOK
<1>5. /\ cache' \in [Places -> [Tokens -> Nat]]
      /\ \A q \in Places, t \in Tokens : cache'[q][t] = IF cache[q][t] = p THEN 0 ELSE cache[q][t]
  BY <1>1, <1>4
<1>6. \A q \in Places, t \in Tokens : cache'[q][t] \in 0..Len(promises')
  BY <1>2, <1>4, <1>5
<1>7. Root \in Places
  BY DEF Places
<1>8. \A t : PromisesOf(t)' = PromisesOf(t)
  BY <1>2, <1>3 DEF PromisesOf
<1>9. CacheOK'
  <2>1. \A q \in Places, t \in Tokens :
          cache'[q][t] # 0 => cache'[q][t] \in DOMAIN promises' /\ promises'[cache'[q][t]].token = t
    BY <1>2, <1>3, <1>5 DEF CompositionIInv, CacheOK
  <2>2. ASSUME NEW t \in Tokens, Lifetime[t] = "singleton", disposal'[Root].step = "open"
        PROVE  \/ \E q \in PromisesOf(t)' : promises'[q].step = "failed"
               \/ \A q \in PromisesOf(t)' : cache'[Root][t] = q
    <3>1. CASE \E q \in PromisesOf(t) : promises[q].step = "failed"
      BY <1>3, <1>8, <3>1 DEF PromisesOf
    <3>2. CASE \A q \in PromisesOf(t) : cache[Root][t] = q
      <4>1. CASE p \in PromisesOf(t)
        BY <1>2, <1>8, <4>1
      <4>2. CASE p \notin PromisesOf(t)
        BY <1>5, <1>7, <1>8, <3>2, <4>2
      <4>3. QED
        BY <4>1, <4>2
    <3>3. QED
      BY <1>1, <2>2, <3>1, <3>2 DEF CompositionIInv, CacheOK
  <2>3. QED
    BY <2>1, <2>2 DEF CacheOK
<1>10. CreatedOnce'
  <2>1. \A t \in Tokens : (\E q \in PromisesOf(t) : promises[q].step = "failed") =>
                          \E q \in PromisesOf(t)' : promises'[q].step = "failed"
    BY <1>3, <1>8 DEF PromisesOf
  <2>2. QED
    BY <1>8, <2>1 DEF CompositionIInv, CreatedOnce
<1>11. DisposalOK'
  BY <1>1, <1>2, DisposalKeeps DEF CompositionIInv
<1>12. CompositionTypes'
  BY <1>1, <1>2, <1>5, <1>6, TypesFollow, TypesHeld DEF Grows
<1>13. QED
  BY <1>2, <1>9, <1>10, <1>11, <1>12 DEF CompositionIInv

LEMMA MadeKeeps == ASSUME CompositionIInv, NEW p \in DOMAIN promises, Made(p) PROVE CompositionIInv'
<1>0. PICK s : s = promises[p].at
  OBVIOUS
<1>1. /\ Running(p) /\ ~PartFailed(p) /\ promises[p].step = "making"
      /\ promises' = [promises EXCEPT ![p].step = "made"]
      /\ disposables' = [disposables EXCEPT ![s] = Append(@, p)]
      /\ UNCHANGED <<cache, disposal, disposedValues, resolver>>
  BY <1>0 DEF Made, Running
<1>2. \A k \in DOMAIN promises[p].parts :
        promises[p].parts[k] \in DOMAIN promises /\ promises[promises[p].parts[k]].step = "made"
  BY <1>1, PartsOfRunning
<1>3. /\ Grows /\ PartsOK' /\ DOMAIN promises' = DOMAIN promises /\ Len(promises') = Len(promises)
      /\ promises'[p].step = "made" /\ promises'[p].parts = promises[p].parts
      /\ \A q \in DOMAIN promises : q # p => promises'[q] = promises[q]
  BY <1>1, <1>2, StepTo
<1>4. /\ \A q \in DOMAIN promises : promises'[q].token = promises[q].token /\ promises'[q].at = promises[q].at
      /\ \A q \in DOMAIN promises : promises[q].step = "failed" => promises'[q].step = "failed"
  BY <1>3 DEF Grows
<1>5. /\ disposables \in [Places -> Seq(Nat)] /\ s \in Places /\ p \in Nat
      /\ disposables[s] \in Seq(Nat) /\ DOMAIN disposables[s] = 1..Len(disposables[s])
      /\ Len(disposables[s]) \in Nat
  BY <1>0, PromiseTypes DEF CompositionIInv, CompositionTypes
<1> DEFINE w == disposables[s]  v == Append(w, p)
<1>6. /\ v \in Seq(Nat) /\ DOMAIN v = 1..Len(w) + 1 /\ v[Len(w) + 1] = p
      /\ \A i \in DOMAIN w : v[i] = w[i]
      /\ \A i \in DOMAIN v : i = Len(w) + 1 \/ i \in DOMAIN w
      /\ \A i \in DOMAIN w : i \in DOMAIN v /\ i < Len(w) + 1
      /\ Len(w) + 1 \in DOMAIN v
  <2>1. /\ v \in Seq(Nat) /\ DOMAIN v = 1..Len(w) + 1 /\ v[Len(w) + 1] = p
        /\ \A i \in DOMAIN w : v[i] = w[i]
    BY <1>5
  <2>2. \A i \in 1..Len(w) + 1 : i = Len(w) + 1 \/ i \in 1..Len(w)
    BY <1>5
  <2>3. \A i \in 1..Len(w) : i \in 1..Len(w) + 1 /\ i < Len(w) + 1
    BY <1>5
  <2>4. Len(w) + 1 \in 1..Len(w) + 1
    BY <1>5
  <2>5. QED
    BY <1>5, <2>1, <2>2, <2>3, <2>4
<1>7. /\ disposables' \in [Places -> Seq(Nat)] /\ disposables'[s] = v
      /\ \A q \in Places : q # s => disposables'[q] = disposables[q]
  BY <1>1, <1>5, <1>6
<1> HIDE DEF v
<1>8. ASSUME disposal[s].step = "open" PROVE ListsValues(s)'
  <2>1. /\ disposal[s].left = <<>> /\ Row(s, w) /\ PartsBefore(s, w)
        /\ \A q \in DOMAIN promises :
             promises[q].at = s /\ promises[q].step = "made" => \E i \in DOMAIN w : w[i] = q
        /\ \A q \in disposedValues : promises[q].at # s
    BY <1>5, <1>8 DEF CompositionIInv, DisposalOK, ListsValues
  <2>2. \A i \in DOMAIN w : w[i] \in DOMAIN promises /\ promises[w[i]].at = s /\ promises[w[i]].step = "made"
                            /\ w[i] # p /\ promises'[w[i]] = promises[w[i]]
    BY <1>1, <1>3, <2>1 DEF Row
  <2>3. \A i, j \in DOMAIN w : w[i] = w[j] => i = j
    BY <2>1 DEF Row
  <2> HIDE DEF w
  <2>4. \A i \in DOMAIN v : v[i] \in DOMAIN promises' /\ promises'[v[i]].at = s /\ promises'[v[i]].step = "made"
    BY <1>0, <1>3, <1>4, <1>6, <2>2
  <2>5. \A i, j \in DOMAIN v : v[i] = v[j] => i = j
    BY <1>6, <2>2, <2>3
  <2>6. ASSUME NEW i \in DOMAIN v, NEW k \in DOMAIN promises'[v[i]].parts,
               promises'[promises'[v[i]].parts[k]].at = s
        PROVE  \E j \in DOMAIN v : j < i /\ v[j] = promises'[v[i]].parts[k]
    <3>1. CASE i = Len(w) + 1
      <4>1. v[i] = p /\ promises'[v[i]].parts = promises[p].parts
        BY <1>3, <1>6, <3>1
      <4>2. promises[p].parts[k] \in DOMAIN promises /\ promises[promises[p].parts[k]].step = "made"
        BY <1>2, <4>1
      <4>3. promises[promises[p].parts[k]].at = s
        BY <1>4, <2>6, <4>1, <4>2
      <4>4. PICK j \in DOMAIN w : w[j] = promises[p].parts[k]
        BY <2>1, <4>2, <4>3 DEF w
      <4>5. j \in DOMAIN v /\ j < i /\ v[j] = promises'[v[i]].parts[k]
        BY <1>6, <3>1, <4>1, <4>4
      <4>6. QED
        BY <4>5
    <3>2. CASE i \in DOMAIN w
      <4>1. v[i] = w[i] /\ promises'[v[i]] = promises[w[i]] /\ w[i] \in DOMAIN promises
        BY <1>6, <2>2, <3>2
      <4>2. k \in DOMAIN promises[w[i]].parts
        BY <4>1
      <4>3. promises[w[i]].parts[k] \in DOMAIN promises
        BY <4>1, <4>2 DEF CompositionIInv, PartsOK
      <4>4. promises[promises[w[i]].parts[k]].at = s
        BY <1>4, <2>6, <4>1, <4>3
      <4>5. PICK j \in DOMAIN w : j < i /\ w[j] = promises[w[i]].parts[k]
        BY <2>1, <3>2, <4>2, <4>4 DEF PartsBefore, w
      <4>6. QED
        BY <1>6, <4>1, <4>5
    <3>3. QED
      BY <1>6, <3>1, <3>2
  <2>7. ASSUME NEW q \in DOMAIN promises', promises'[q].at = s, promises'[q].step = "made"
        PROVE  \E i \in DOMAIN v : v[i] = q
    <3>1. CASE q = p
      BY <1>6, <3>1
    <3>2. CASE q # p
      <4>1. PICK i \in DOMAIN w : w[i] = q
        BY <1>3, <2>1, <2>7, <3>2 DEF w
      <4>2. QED
        BY <1>6, <4>1
    <3>3. QED
      BY <3>1, <3>2
  <2>8. \A q \in disposedValues' : promises'[q].at # s
    BY <1>1, <1>4, <2>1 DEF CompositionIInv, CompositionTypes
  <2>9. Row(s, disposables[s])'
    BY <1>7, <2>4, <2>5 DEF Row
  <2>10. PartsBefore(s, disposables[s])'
    BY <1>7, <2>6 DEF PartsBefore
  <2>11. QED
    BY <1>1, <1>7, <2>1, <2>7, <2>8, <2>9, <2>10, ZenonT(40) DEF ListsValues
<1> HIDE DEF w
<1>9. ASSUME NEW q \in Places PROVE LeavesValues(q)'
  <2>1. PICK left : left = disposal[q].left
    OBVIOUS
  <2>2. Row(q, left) /\ PartsAfter(q, left) /\ (\A i \in DOMAIN left : left[i] \notin disposedValues)
    BY <2>1 DEF CompositionIInv, DisposalOK, LeavesValues
  <2>3. Row(q, left)' /\ PartsAfter(q, left)' /\ disposal'[q].left = left
    BY <1>1, <1>3, <2>1, <2>2, RowKeeps DEF CompositionIInv
  <2>4. QED
    BY <1>1, <2>2, <2>3 DEF LeavesValues, Row, PartsAfter
<1>10. ASSUME NEW q \in Places, q # s, disposal[q].step = "open" PROVE ListsValues(q)'
  <2>1. ListsValues(q)
    BY <1>10 DEF CompositionIInv, DisposalOK
  <2>2. PICK u : u = disposables[q]
    OBVIOUS
  <2>3. Row(q, u)' /\ PartsBefore(q, u)' /\ disposables'[q] = u
    BY <1>3, <1>7, <1>10, <2>1, <2>2, RowKeeps DEF CompositionIInv, ListsValues
  <2>4. \A r \in DOMAIN promises' : promises'[r].at = q /\ promises'[r].step = "made" =>
          \E i \in DOMAIN disposables'[q] : disposables'[q][i] = r
    <3> SUFFICES ASSUME NEW r \in DOMAIN promises', promises'[r].at = q, promises'[r].step = "made"
                 PROVE  \E i \in DOMAIN disposables[q] : disposables[q][i] = r
      BY <1>7, <1>10
    <3>1. r # p
      BY <1>0, <1>4, <1>10
    <3>2. QED
      BY <1>3, <2>1, <3>1 DEF ListsValues
  <2>5. \A r \in disposedValues' : promises'[r].at # q
    BY <1>1, <1>4, <2>1 DEF CompositionIInv, CompositionTypes, ListsValues
  <2>6. Row(q, disposables[q])' /\ PartsBefore(q, disposables[q])'
    BY <2>3 DEF Row, PartsBefore
  <2>7. QED
    BY <1>1, <2>1, <2>4, <2>5, <2>6 DEF ListsValues
<1>11. DisposalOK'
  BY <1>1, <1>8, <1>9, <1>10 DEF DisposalOK
<1>12. \A t : PromisesOf(t)' = PromisesOf(t)
  BY <1>3, <1>4 DEF PromisesOf
<1>13. CacheOK' /\ CreatedOnce'
  <2>1. \A q \in Places, t \in Tokens :
          cache'[q][t] # 0 => cache'[q][t] \in DOMAIN promises' /\ promises'[cache'[q][t]].token = t
    BY <1>1, <1>3, <1>4 DEF CompositionIInv, CacheOK
  <2>2. \A t \in Tokens : (\E q \in PromisesOf(t) : promises[q].step = "failed") =>
                          \E q \in PromisesOf(t)' : promises'[q].step = "failed"
    BY <1>4, <1>12 DEF PromisesOf
  <2>3. QED
    BY <1>1, <1>12, <2>1, <2>2 DEF CompositionIInv, CacheOK, CreatedOnce
<1>14. \A q \in Places : ToSet(disposables'[q]) \subseteq DOMAIN promises'
  <2>1. \A q \in Places : ToSet(disposables[q]) \subseteq DOMAIN promises
    BY DEF CompositionIInv, CompositionTypes, CompositionTypeOK
  <2>2. ToSet(v) \subseteq ToSet(w) \cup {p}
    BY <1>6 DEF ToSet
  <2>3. ToSet(w) \subseteq DOMAIN promises
    BY <1>5, <2>1 DEF w
  <2>4. ASSUME NEW q \in Places PROVE ToSet(disposables'[q]) \subseteq DOMAIN promises'
    <3>1. CASE q = s
      BY <1>3, <1>7, <2>2, <2>3, <3>1
    <3>2. CASE q # s
      BY <1>3, <1>7, <2>1, <3>2
    <3>3. QED
      BY <3>1, <3>2
  <2>5. QED
    BY <2>4
<1>15. CompositionTypes'
  BY <1>1, <1>3, <1>7, <1>14, TypesFollow, TypesHeld DEF Grows
<1>16. QED
  BY <1>3, <1>11, <1>13, <1>15 DEF CompositionIInv

\* a step that leaves promises and cache alone
LEMMA PromisesStay ==
  ASSUME CompositionIInv, UNCHANGED promises
  PROVE  Grows /\ PartsOK' /\ CreatedOnce'
<1>1. Grows
  BY PromiseTypes DEF CompositionIInv, CompositionTypes, Grows
<1>2. QED
  BY <1>1 DEF CompositionIInv, PartsOK, CreatedOnce, PromisesOf

\* a list and a place that a step leaves alone stay in order
LEMMA PlaceStays ==
  ASSUME CompositionIInv, UNCHANGED promises, NEW s \in Places,
         disposal'[s] = disposal[s], disposables'[s] = disposables[s],
         \A p \in disposedValues' : p \in disposedValues \/ promises[p].at # s
  PROVE  (disposal[s].step = "open" => ListsValues(s)') /\ LeavesValues(s)'
<1>1. (disposal[s].step = "open" => ListsValues(s)) /\ LeavesValues(s)
  BY DEF CompositionIInv, DisposalOK
<1>2. ASSUME disposal[s].step = "open" PROVE ListsValues(s)'
  <2>1. Row(s, disposables[s])' /\ PartsBefore(s, disposables[s])'
    BY <1>1, <1>2 DEF ListsValues, Row, PartsBefore
  <2>2. QED
    BY <1>1, <1>2, <2>1 DEF ListsValues
<1>3. LeavesValues(s)'
  <2>1. Row(s, disposal[s].left)' /\ PartsAfter(s, disposal[s].left)'
    <3>1. PICK w : w = disposal[s].left
      OBVIOUS
    <3>2. Row(s, w) /\ PartsAfter(s, w) /\ disposal'[s].left = w
      BY <1>1, <3>1 DEF LeavesValues
    <3>3. Row(s, w)'
      BY <3>2 DEF Row
    <3>4. PartsAfter(s, w)'
      BY <3>2 DEF PartsAfter
    <3>5. QED
      BY <3>2, <3>3, <3>4 DEF Row, PartsAfter
  <2>2. \A i \in DOMAIN disposal[s].left : promises[disposal[s].left[i]].at = s
    BY <1>1 DEF LeavesValues, Row
  <2>3. QED
    BY <1>1, <2>1, <2>2 DEF LeavesValues
<1>4. QED
  BY <1>2, <1>3

\* disposeReverse: what was made of a value precedes it in the reversed list
LEMMA ReversedOrder ==
  ASSUME NEW s, NEW w \in Seq(Nat), Row(s, w), PartsBefore(s, w)
  PROVE  Reverse(w) \in Seq(Nat) /\ Row(s, Reverse(w)) /\ PartsAfter(s, Reverse(w))
<1> DEFINE n == Len(w)  v == Reverse(w)
<1>1. n \in Nat /\ DOMAIN w = 1..n /\ \A i \in 1..n : w[i] \in Nat
  OBVIOUS
<1>2. \A i \in 1..n : (n - i) + 1 \in 1..n /\ n - ((n - i) + 1) + 1 = i
  BY <1>1
<1>3. v = [i \in 1..n |-> w[(n - i) + 1]]
  BY DEF Reverse
<1>4. DOMAIN v = 1..n /\ v \in Seq(Nat) /\ \A i \in 1..n : v[i] = w[(n - i) + 1]
  BY <1>1, <1>2, <1>3
<1> HIDE DEF v
<1> HIDE DEF n
<1>5. \A i \in 1..n : \E m \in 1..n : m = (n - i) + 1 /\ n - m + 1 = i /\ v[i] = w[m] /\ v[m] = w[i]
  BY <1>1, <1>2, <1>4
<1>6. /\ \A i \in 1..n : w[i] \in DOMAIN promises /\ promises[w[i]].at = s /\ promises[w[i]].step = "made"
      /\ \A i, j \in 1..n : w[i] = w[j] => i = j
  BY <1>1 DEF Row
<1>7. Row(s, v)
  <2>1. \A i \in 1..n : v[i] \in DOMAIN promises /\ promises[v[i]].at = s /\ promises[v[i]].step = "made"
    BY <1>5, <1>6
  <2>2. ASSUME NEW i \in 1..n, NEW j \in 1..n, v[i] = v[j] PROVE i = j
    <3>1. PICK a \in 1..n : v[i] = w[a] /\ n - a + 1 = i
      BY <1>5
    <3>2. PICK b \in 1..n : v[j] = w[b] /\ n - b + 1 = j
      BY <1>5
    <3>3. a = b
      BY <1>6, <2>2, <3>1, <3>2
    <3>4. QED
      BY <3>1, <3>2, <3>3
  <2>3. QED
    BY <1>4, <2>1, <2>2 DEF Row
<1>8. PartsAfter(s, v)
  <2> SUFFICES ASSUME NEW i \in 1..n, NEW k \in DOMAIN promises[v[i]].parts,
                      promises[promises[v[i]].parts[k]].at = s
               PROVE  \E j \in DOMAIN v : i < j /\ v[j] = promises[v[i]].parts[k]
    BY <1>4 DEF PartsAfter
  <2>1. PICK m \in 1..n : m = (n - i) + 1 /\ v[i] = w[m]
    BY <1>5
  <2>2. PICK j \in 1..n : j < m /\ w[j] = promises[w[m]].parts[k]
    BY <1>1, <2>1 DEF PartsBefore
  <2>3. PICK l \in 1..n : l = (n - j) + 1 /\ v[l] = w[j]
    BY <1>5
  <2>4. i < l
    BY <1>1, <2>1, <2>2, <2>3
  <2>5. QED
    BY <1>4, <2>1, <2>2, <2>3, <2>4
<1>9. QED
  BY <1>4, <1>7, <1>8 DEF v

LEMMA DisposeKeeps == ASSUME CompositionIInv, NEW s \in Places, dispose(s) PROVE CompositionIInv'
<1> DEFINE w == Reverse(disposables[s])
<1>1. /\ disposal[s].step = "open"
      /\ disposal' = [disposal EXCEPT ![s] = [step |-> "disposing", left |-> w]]
      /\ UNCHANGED <<promises, cache, disposables, disposedValues, resolver>>
  BY DEF dispose, DisposalOrder
<1>2. Grows /\ PartsOK' /\ CreatedOnce'
  BY <1>1, PromisesStay
<1>3. ListsValues(s) /\ disposables[s] \in Seq(Nat)
  BY <1>1, TypesHeld DEF CompositionIInv, DisposalOK
<1>4. PICK u : u = w
  OBVIOUS
<1>5. u \in Seq(Nat) /\ Row(s, u) /\ PartsAfter(s, u)
  BY <1>3, <1>4, ReversedOrder DEF ListsValues
<1>6. /\ disposal' \in [Places -> [step : {"open", "disposing", "disposed"}, left : Seq(Nat)]]
      /\ disposal'[s].step = "disposing" /\ disposal'[s].left = u
      /\ \A q \in Places : q # s => disposal'[q] = disposal[q]
  BY <1>1, <1>4, <1>5, TypesHeld
<1> HIDE DEF w
<1>7. LeavesValues(s)'
  <2>1. Row(s, u)' /\ PartsAfter(s, u)'
    BY <1>1, <1>5 DEF Row, PartsAfter
  <2>2. Row(s, disposal[s].left)' /\ PartsAfter(s, disposal[s].left)'
    BY <1>6, <2>1 DEF Row, PartsAfter
  <2>3. \A i \in DOMAIN u : u[i] \notin disposedValues
    BY <1>3, <1>5 DEF ListsValues, Row
  <2>4. QED
    BY <1>1, <1>6, <2>2, <2>3 DEF LeavesValues
<1>8. DisposalOK'
  <2> SUFFICES ASSUME NEW q \in Places PROVE (disposal'[q].step = "open" => ListsValues(q)') /\ LeavesValues(q)'
    BY DEF DisposalOK
  <2>1. CASE q = s
    BY <1>6, <1>7, <2>1
  <2>2. CASE q # s
    BY <1>1, <1>6, <2>2, PlaceStays
  <2>3. QED
    BY <2>1, <2>2
<1>9. CacheOK'
  <2>1. disposal'[Root].step = "open" => disposal[Root].step = "open"
    BY <1>6 DEF Places
  <2>2. QED
    BY <1>1, <2>1 DEF CompositionIInv, CacheOK, PromisesOf
<1>10. CompositionTypes'
  BY <1>1, <1>2, <1>6, TypesFollow, TypesHeld DEF Grows
<1>11. QED
  BY <1>2, <1>8, <1>9, <1>10 DEF CompositionIInv

LEMMA DisposesNextKeeps == ASSUME CompositionIInv, NEW s \in Places, DisposesNext(s) PROVE CompositionIInv'
<1>0. PICK w : w = disposal[s].left
  OBVIOUS
<1> DEFINE rec == [disposal[s] EXCEPT !.left = Tail(w)]
<1>1. /\ w # <<>> /\ disposedValues' = disposedValues \cup {Head(w)}
      /\ disposal' = [disposal EXCEPT ![s] = rec]
      /\ UNCHANGED <<promises, cache, disposables, resolver>>
  BY <1>0 DEF DisposesNext
<1>2. Grows /\ PartsOK' /\ CreatedOnce'
  BY <1>1, PromisesStay
<1>3. /\ disposal[s] \in [step : {"open", "disposing", "disposed"}, left : Seq(Nat)] /\ w \in Seq(Nat)
      /\ disposal[s].step # "open" /\ LeavesValues(s)
  BY <1>0, <1>1, TypesHeld DEF CompositionIInv, DisposalOK, ListsValues
<1>4. Row(s, w) /\ PartsAfter(s, w) /\ \A i \in DOMAIN w : w[i] \notin disposedValues
  BY <1>0, <1>3 DEF LeavesValues
<1>5. PICK v : v = Tail(w)
  OBVIOUS
<1>6. /\ Len(w) \in Nat /\ Len(w) > 0 /\ v \in Seq(Nat) /\ DOMAIN v = 1..Len(w) - 1 /\ DOMAIN w = 1..Len(w)
      /\ \A i \in DOMAIN v : v[i] = w[i + 1] /\ i + 1 \in DOMAIN w
      /\ 1 \in DOMAIN w /\ Head(w) = w[1]
  BY <1>1, <1>3, <1>5
<1>7. /\ rec \in [step : {"open", "disposing", "disposed"}, left : Seq(Nat)]
      /\ rec.step = disposal[s].step /\ rec.left = v
  BY <1>3, <1>5, <1>6
<1> HIDE DEF rec
<1>8. /\ disposal' \in [Places -> [step : {"open", "disposing", "disposed"}, left : Seq(Nat)]]
      /\ disposal'[s].step = disposal[s].step /\ disposal'[s].left = v
      /\ \A q \in Places : q # s => disposal'[q] = disposal[q]
  BY <1>1, <1>7, TypesHeld
<1>9. Head(w) \in DOMAIN promises /\ promises[Head(w)].at = s
  BY <1>4, <1>6 DEF Row
<1>10. Row(s, v)
  <2>1. \A i \in DOMAIN v : v[i] \in DOMAIN promises /\ promises[v[i]].at = s /\ promises[v[i]].step = "made"
    BY <1>4, <1>6 DEF Row
  <2>2. ASSUME NEW i \in DOMAIN v, NEW j \in DOMAIN v, v[i] = v[j] PROVE i = j
    <3>1. i + 1 = j + 1
      BY <1>4, <1>6, <2>2 DEF Row
    <3>2. QED
      BY <1>6, <3>1
  <2>3. QED
    BY <2>1, <2>2 DEF Row
<1>11. PartsAfter(s, v)
  <2> SUFFICES ASSUME NEW i \in DOMAIN v, NEW k \in DOMAIN promises[v[i]].parts,
                      promises[promises[v[i]].parts[k]].at = s
               PROVE  \E j \in DOMAIN v : i < j /\ v[j] = promises[v[i]].parts[k]
    BY DEF PartsAfter
  <2>1. PICK m \in DOMAIN w : m = i + 1 /\ v[i] = w[m]
    BY <1>6
  <2>2. PICK j \in DOMAIN w : m < j /\ w[j] = promises[w[m]].parts[k]
    BY <1>4, <2>1 DEF PartsAfter
  <2>3. PICK l \in DOMAIN v : l = j - 1 /\ l + 1 = j /\ i < l
    BY <1>6, <2>1, <2>2
  <2>4. QED
    BY <1>6, <2>1, <2>2, <2>3
<1>12. \A i \in DOMAIN v : v[i] \notin disposedValues \cup {Head(w)}
  <2> SUFFICES ASSUME NEW i \in DOMAIN v, v[i] = Head(w) PROVE FALSE
    BY <1>4, <1>6
  <2>1. i + 1 = 1
    BY <1>4, <1>6 DEF Row
  <2>2. QED
    BY <1>6, <2>1
<1>13. LeavesValues(s)'
  <2>1. Row(s, v)' /\ PartsAfter(s, v)'
    BY <1>1, <1>10, <1>11 DEF Row, PartsAfter
  <2>2. Row(s, disposal[s].left)' /\ PartsAfter(s, disposal[s].left)'
    BY <1>8, <2>1 DEF Row, PartsAfter
  <2>3. QED
    BY <1>1, <1>8, <1>12, <2>2 DEF LeavesValues
<1>14. DisposalOK'
  <2> SUFFICES ASSUME NEW q \in Places PROVE (disposal'[q].step = "open" => ListsValues(q)') /\ LeavesValues(q)'
    BY DEF DisposalOK
  <2>1. CASE q = s
    BY <1>3, <1>8, <1>13, <2>1
  <2>2. CASE q # s
    BY <1>1, <1>8, <1>9, <2>2, PlaceStays
  <2>3. QED
    BY <2>1, <2>2
<1>15. CacheOK'
  <2>1. disposal'[Root].step = "open" => disposal[Root].step = "open"
    BY <1>8 DEF Places
  <2>2. QED
    BY <1>1, <2>1 DEF CompositionIInv, CacheOK, PromisesOf
<1>16. CompositionTypes'
  <2>1. disposedValues' \subseteq DOMAIN promises'
    BY <1>1, <1>9, TypesHeld
  <2>2. QED
    BY <1>1, <1>2, <1>8, <2>1, TypesFollow, TypesHeld DEF Grows
<1>17. QED
  BY <1>2, <1>14, <1>15, <1>16 DEF CompositionIInv

LEMMA DisposedKeeps == ASSUME CompositionIInv, NEW s \in Places, Disposed(s) PROVE CompositionIInv'
<1> DEFINE rec == [disposal[s] EXCEPT !.step = "disposed"]
<1>1. /\ disposal[s] = [step |-> "disposing", left |-> <<>>]
      /\ disposal' = [disposal EXCEPT ![s] = rec]
      /\ disposables' = [disposables EXCEPT ![s] = <<>>]
      /\ cache' = [cache EXCEPT ![s] = [t \in Tokens |-> 0]]
      /\ UNCHANGED <<promises, disposedValues, resolver>>
  BY DEF Disposed
<1>2. Grows /\ PartsOK' /\ CreatedOnce'
  BY <1>1, PromisesStay
<1>3. /\ rec \in [step : {"open", "disposing", "disposed"}, left : Seq(Nat)]
      /\ rec.step = "disposed" /\ rec.left = <<>>
  <2>1. /\ disposal[s] \in [step : {"open", "disposing", "disposed"}, left : Seq(Nat)]
        /\ disposal[s].left = <<>>
    BY <1>1, TypesHeld
  <2>2. QED
    BY <2>1
<1> HIDE DEF rec
<1>4. /\ disposal' \in [Places -> [step : {"open", "disposing", "disposed"}, left : Seq(Nat)]]
      /\ disposal'[s].step = "disposed" /\ disposal'[s].left = <<>>
      /\ \A q \in Places : q # s => disposal'[q] = disposal[q]
  BY <1>1, <1>3, TypesHeld
<1>5. /\ disposables' \in [Places -> Seq(Nat)] /\ disposables'[s] = <<>>
      /\ \A q \in Places : q # s => disposables'[q] = disposables[q]
  BY <1>1, TypesHeld
<1>6. /\ cache' \in [Places -> [Tokens -> Nat]] /\ \A t \in Tokens : cache'[s][t] = 0
      /\ \A q \in Places : q # s => cache'[q] = cache[q]
  BY <1>1, TypesHeld
<1>7. \A q \in Places, t \in Tokens : cache'[q][t] = cache[q][t] \/ cache'[q][t] = 0
  BY <1>6
<1>8. DisposalOK'
  <2> SUFFICES ASSUME NEW q \in Places PROVE (disposal'[q].step = "open" => ListsValues(q)') /\ LeavesValues(q)'
    BY DEF DisposalOK
  <2>1. CASE q = s
    <3>1. DOMAIN <<>> = {}
      OBVIOUS
    <3>2. QED
      BY <1>4, <2>1, <3>1 DEF LeavesValues, Row, PartsAfter
  <2>2. CASE q # s
    BY <1>1, <1>4, <1>5, <2>2, PlaceStays
  <2>3. QED
    BY <2>1, <2>2
<1>9. CacheOK'
  <2>1. disposal'[Root].step = "open" => disposal[Root].step = "open" /\ Root # s
    BY <1>4 DEF Places
  <2>2. Root # s => cache'[Root] = cache[Root]
    BY <1>6 DEF Places
  <2>3. \A q \in Places, t \in Tokens : cache'[q][t] # 0 => cache'[q][t] = cache[q][t]
    BY <1>7
  <2>4. \A q \in Places, t \in Tokens :
          cache'[q][t] # 0 => cache'[q][t] \in DOMAIN promises' /\ promises'[cache'[q][t]].token = t
    BY <1>1, <2>3 DEF CompositionIInv, CacheOK
  <2>5. QED
    BY <1>1, <2>1, <2>2, <2>4 DEF CompositionIInv, CacheOK, PromisesOf
<1>10. CompositionTypes'
  <2>1. Len(promises) \in Nat
    BY PromiseTypes DEF CompositionIInv
  <2>2. \A q \in Places, t \in Tokens : cache'[q][t] \in 0..Len(promises')
    BY <1>1, <1>7, <2>1, TypesHeld
  <2>3. ASSUME NEW q \in Places PROVE ToSet(disposables'[q]) \subseteq DOMAIN promises'
    <3>1. CASE q = s
      BY <1>5, <3>1 DEF ToSet
    <3>2. CASE q # s
      BY <1>1, <1>5, <3>2, TypesHeld
    <3>3. QED
      BY <3>1, <3>2
  <2>4. QED
    BY <1>1, <1>2, <1>4, <1>5, <1>6, <2>2, <2>3, TypesFollow, TypesHeld DEF Grows
<1>11. QED
  BY <1>2, <1>8, <1>9, <1>10 DEF CompositionIInv

LEMMA CompositionRestKeeps ==
  ASSUME CompositionIInv,
         (\E r \in Resolvers : Resumes(r)) \/ UNCHANGED compositionVars
  PROVE  CompositionIInv'
<1>1. /\ UNCHANGED <<promises, cache, disposables, disposal, disposedValues>>
      /\ resolver' \in [Resolvers -> Nat]
      /\ \A r \in Resolvers : resolver'[r] \in {resolver[r], 0}
  BY TypesHeld DEF Resumes, compositionVars
<1>2. Grows /\ PartsOK' /\ CreatedOnce'
  BY <1>1, PromisesStay
<1>3. DisposalOK'
  BY <1>1, <1>2, DisposalKeeps DEF CompositionIInv
<1>4. CacheOK'
  BY <1>1 DEF CompositionIInv, CacheOK, PromisesOf
<1>5. \A r \in Resolvers : resolver'[r] \in 0..Len(promises')
  <2>1. Len(promises) \in Nat
    BY PromiseTypes DEF CompositionIInv
  <2>2. \A r \in Resolvers : resolver[r] \in 0..Len(promises')
    BY <1>1, TypesHeld
  <2>3. 0 \in 0..Len(promises')
    BY <1>1, <2>1
  <2>4. QED
    BY <1>1, <2>2, <2>3
<1>6. CompositionTypes'
  BY <1>1, <1>2, <1>5, TypesFollow, TypesHeld DEF Grows
<1>7. QED
  BY <1>2, <1>3, <1>4, <1>6 DEF CompositionIInv

LEMMA CompositionStepOK == CompositionIInv /\ [CompositionNext]_compositionVars => CompositionIInv'
<1> SUFFICES ASSUME CompositionIInv, [CompositionNext]_compositionVars PROVE CompositionIInv'
  OBVIOUS
<1>1. CASE \E r \in Resolvers, t \in Tokens, s \in Places : resolve(r, t, s)
  BY <1>1, ResolveKeeps
<1>2. CASE \E p \in DOMAIN promises : FactoryResolves(p)
  BY <1>2, FactoryResolvesKeeps
<1>3. CASE \E p \in DOMAIN promises : Made(p)
  BY <1>3, MadeKeeps
<1>4. CASE \E p \in DOMAIN promises : FactoryFails(p) \/ DependencyFails(p)
  <2>1. PICK p \in DOMAIN promises : FactoryFails(p) \/ DependencyFails(p)
    BY <1>4
  <2>2. promises[p].step = "making" /\ Rejects(p)
    BY <2>1 DEF FactoryFails, DependencyFails, Running
  <2>3. QED
    BY <2>2, RejectsKeeps
<1>5. CASE \E s \in Places : dispose(s)
  BY <1>5, DisposeKeeps
<1>6. CASE \E s \in Places : DisposesNext(s)
  BY <1>6, DisposesNextKeeps
<1>7. CASE \E s \in Places : Disposed(s)
  BY <1>7, DisposedKeeps
<1>8. CASE (\E r \in Resolvers : Resumes(r)) \/ UNCHANGED compositionVars
  BY <1>8, CompositionRestKeeps
<1>9. QED
  BY <1>1, <1>2, <1>3, <1>4, <1>5, <1>6, <1>7, <1>8 DEF CompositionNext

(* Whatever is resolved and disposed at the same time, a singleton whose factory never   *)
(* failed is created once, and a root or scope disposes no value before one that it had     *)
(* made from it when its disposal began (composition-root.ts 160-266).                        *)
THEOREM ContainerHolds == CompositionSpec => []CompositionInv
  BY CompositionInitOK, CompositionStepOK, CompositionIInvImplies, PTL DEF CompositionSpec

-----------------------------------------------------------------------------
(* The host: the inductive invariant. *)

BootSteps == {"assertReady", "memory health", "vector health", "register", "approve", "activate",
              "recoverIncomplete"}
RequestSteps == {"none", "authorizing", "running", "accepted", "finding", "chaining", "saving",
                 "publishing", "piping", "answered"}
AfterRun == {"accepted", "finding", "chaining", "saving", "publishing"}
AuditRecord ==
  [source : {Source(r) : r \in HostRequests}, execution : HostRequests, previous : Nat]

HostTypes ==
  /\ host \in [phase : {"booting", "listening", "stopping", "disposing", "closed", "exited"},
               ready : BOOLEAN, timedOut : BOOLEAN]
  /\ boot \in Seq(BootSteps)
  /\ request \in [HostRequests -> RequestSteps]
  /\ statusCode \in [HostRequests -> Nat]
  /\ records \in Seq(AuditRecord)
  /\ chained \in [HostRequests -> Nat]
  /\ HostTypeOK

Undoes(step) == step \in {"register", "approve"}

\* the boot ends with an active agent, if the configuration has one
Activates ==
  configuration.agent =>
    \/ agentState = "active" /\ (\A n \in DOMAIN boot : ~Undoes(boot[n]))
    \/ \E n \in DOMAIN boot : boot[n] = "activate" /\ \A m \in DOMAIN boot : m > n => ~Undoes(boot[m])

\* no request before the boot is done, nor for an agent that is not there
BootFirst ==
  /\ host.phase \notin {"booting", "exited"} => boot = <<>>
  /\ \A r \in HostRequests : request[r] # "none" => boot = <<>>
  /\ \A r \in HostRequests : request[r] = "authorizing" => configuration.agent
  /\ \A r \in HostRequests : statusCode[r] # 409

\* how far a request without a stream has come
HostRecorded(r) ==
  /\ request[r] # "piping"
  /\ request[r] \in AfterRun \/ statusCode[r] = 200 => r \in ranToEnd
  /\ request[r] = "publishing" \/ statusCode[r] = 200 => AlreadyAudited(r)

HostIInv ==
  /\ HostTypes /\ Activates /\ BootFirst /\ DrainedBeforeClosed
  /\ \A r \in HostRequests \ StreamRequests : HostRecorded(r)

LEMMA HostIInvImplies == HostIInv => HostInv
  BY DEF HostIInv, HostTypes, BootFirst, HostRecorded, HostInv, NeverInactive, AnsweredIsRecorded

LEMMA SeedStepsActivate ==
  ASSUME NEW c
  PROVE  /\ SeedSteps(c) \in Seq(BootSteps)
         /\ c.agent => \E n \in DOMAIN SeedSteps(c) :
                         /\ SeedSteps(c)[n] = "activate"
                         /\ \A m \in DOMAIN SeedSteps(c) : m > n => ~Undoes(SeedSteps(c)[m])
<1> DEFINE Step(when, name) == IF when THEN <<name>> ELSE <<>>
           P == Step(c.persistence = "postgres", "assertReady")
                \o Step(c.memory = "persistent", "memory health")
                \o Step(c.vectorSearch /\ c.vectorStore = "pgvector", "vector health")
                \o Step(c.evaluation = "persistent" /\ c.persistence = "postgres", "assertReady")
                \o Step(c.agent, "register") \o Step(c.agent, "approve")
           A == Step(c.agent, "activate")
           R == Step(c.recovery, "recoverIncomplete")
<1>1. SeedSteps(c) = (P \o A) \o R
  BY DEF SeedSteps
<1>2. ASSUME NEW when, NEW name \in BootSteps
      PROVE  Step(when, name) \in Seq(BootSteps)
  OBVIOUS
<1>3. {"assertReady", "memory health", "vector health", "register", "approve", "activate",
       "recoverIncomplete"} \subseteq BootSteps
  BY DEF BootSteps
<1>4. P \in Seq(BootSteps) /\ A \in Seq(BootSteps)
  <2> HIDE DEF Step
  <2>1. ASSUME NEW a \in Seq(BootSteps), NEW b \in Seq(BootSteps) PROVE a \o b \in Seq(BootSteps)
    OBVIOUS
  <2>2. QED
    BY <1>2, <1>3, <2>1
<1>5. R \in Seq(BootSteps) /\ (\A m \in DOMAIN R : ~Undoes(R[m]))
      /\ (c.agent => A = <<"activate">>)
  <2>1. R = <<>> \/ R = <<"recoverIncomplete">>
    OBVIOUS
  <2>2. CASE R = <<>>
    <3>1. DOMAIN <<>> = {} /\ <<>> \in Seq(BootSteps)
      OBVIOUS
    <3>2. QED
      BY <2>2, <3>1
  <2>3. CASE R = <<"recoverIncomplete">>
    <3> DEFINE one == <<"recoverIncomplete">>
    <3>1. one \in Seq(BootSteps) /\ (\A m \in DOMAIN one : one[m] = "recoverIncomplete")
      <4>1. "recoverIncomplete" \in BootSteps
        BY DEF BootSteps
      <4>2. one \in Seq(BootSteps) /\ Len(one) = 1 /\ one[1] = "recoverIncomplete"
        BY <4>1
      <4>3. \A m \in DOMAIN one : m = 1
        BY <4>2
      <4>4. QED
        BY <4>2, <4>3
    <3> HIDE DEF one
    <3>2. R = one
      BY <2>3 DEF one
    <3> HIDE DEF R
    <3>3. QED
      BY <3>1, <3>2 DEF Undoes
  <2>4. QED
    BY <2>1, <2>2, <2>3
<1> HIDE DEF P, A, R, Step
<1>6. SeedSteps(c) \in Seq(BootSteps)
  BY <1>1, <1>4, <1>5
<1>7. ASSUME c.agent
      PROVE  \E n \in DOMAIN SeedSteps(c) :
               /\ SeedSteps(c)[n] = "activate"
               /\ \A m \in DOMAIN SeedSteps(c) : m > n => ~Undoes(SeedSteps(c)[m])
  <2>1. A = <<"activate">> /\ Len(A) = 1 /\ A[1] = "activate"
    BY <1>5, <1>7
  <2>2. PICK w : w = P \o A
    OBVIOUS
  <2>3. w \in Seq(BootSteps) /\ Len(w) = Len(P) + 1 /\ w[Len(P) + 1] = "activate"
    BY <1>4, <2>1, <2>2
  <2>4. PICK v : v = SeedSteps(c)
    OBVIOUS
  <2>5. /\ Len(w) \in Nat /\ Len(w) >= 1 /\ Len(R) \in Nat
        /\ DOMAIN v = 1..Len(w) + Len(R) /\ DOMAIN R = 1..Len(R)
        /\ v[Len(w)] = "activate"
        /\ \A m \in 1..Len(w) + Len(R) : m > Len(w) => v[m] = R[m - Len(w)]
    <3>1. v = w \o R /\ Len(P) \in Nat
      BY <1>1, <1>4, <2>2, <2>4
    <3>2. Len(w) \in Nat /\ Len(w) >= 1 /\ Len(R) \in Nat /\ DOMAIN R = 1..Len(R) /\ w[Len(w)] = "activate"
      BY <1>5, <2>3, <3>1
    <3>3. /\ DOMAIN v = 1..Len(w) + Len(R)
          /\ \A m \in 1..Len(w) + Len(R) : v[m] = IF m <= Len(w) THEN w[m] ELSE R[m - Len(w)]
      <4> HIDE DEF R, P
      <4>1. PICK u : u = R
        OBVIOUS
      <4>2. u \in Seq(BootSteps) /\ v = w \o u
        BY <1>5, <3>1, <4>1
      <4>3. /\ DOMAIN v = 1..Len(w) + Len(u)
            /\ \A m \in 1..Len(w) + Len(u) : v[m] = IF m <= Len(w) THEN w[m] ELSE u[m - Len(w)]
        BY <2>3, <4>2
      <4>4. QED
        BY <4>1, <4>3
    <3>4. Len(w) \in 1..Len(w) + Len(R)
      BY <3>2
    <3>5. QED
      BY <3>2, <3>3, <3>4
  <2>6. \A m \in DOMAIN v : m > Len(w) => m - Len(w) \in DOMAIN R
    BY <2>5
  <2>7. \A m \in DOMAIN v : m > Len(w) => ~Undoes(v[m])
    BY <1>5, <2>5, <2>6
  <2>8. Len(w) \in DOMAIN v
    BY <2>5
  <2>9. QED
    BY <2>4, <2>5, <2>7, <2>8
<1>8. QED
  BY <1>6, <1>7

LEMMA HostInitOK == HostInit => HostIInv
<1> SUFFICES ASSUME HostInit PROVE HostIInv
  OBVIOUS
<1>1. boot \in Seq(BootSteps) /\ Activates
  BY SeedStepsActivate DEF HostInit, Activates
<1>2. HostTypeOK
  BY DEF HostInit, HostTypeOK
<1>3. HostTypes
  BY <1>1, <1>2 DEF HostInit, HostTypes, RequestSteps
<1>4. BootFirst /\ DrainedBeforeClosed
  BY DEF HostInit, BootFirst, DrainedBeforeClosed
<1>5. \A r \in HostRequests : HostRecorded(r)
  BY DEF HostInit, HostRecorded, AfterRun
<1>6. QED
  BY <1>1, <1>3, <1>4, <1>5 DEF HostIInv

\* a request takes a step and its response a status
Moves(r, to, status) ==
  request' = [request EXCEPT ![r] = to] /\ statusCode' = [statusCode EXCEPT ![r] = status]

\* what a step of one request has to keep
LEMMA RequestKeeps ==
  ASSUME HostIInv, NEW r \in HostRequests, NEW to \in RequestSteps, NEW status \in Nat,
         Moves(r, to, status), UNCHANGED <<configuration, host, boot, agentState>>,
         to = "answered" <=> status # 0, status # 409, boot = <<>>,
         to = "authorizing" => configuration.agent,
         host.phase = "listening" \/ request[r] \notin {"none", "answered"},
         ranToEnd \subseteq ranToEnd', contexts' \cup hostResults' \cup ranToEnd' \subseteq HostRequests,
         records' \in Seq(AuditRecord), Len(records) <= Len(records'),
         \A q \in HostRequests : AlreadyAudited(q) => AlreadyAudited(q)',
         chained' \in [HostRequests -> Nat], \A q \in HostRequests : chained'[q] \in 0..Len(records'),
         r \notin StreamRequests =>
           /\ to # "piping"
           /\ to \in AfterRun \/ status = 200 => r \in ranToEnd'
           /\ to = "publishing" \/ status = 200 => AlreadyAudited(r)'
  PROVE  HostIInv'
<1>1. /\ request \in [HostRequests -> RequestSteps] /\ statusCode \in [HostRequests -> Nat]
      /\ boot \in Seq(BootSteps) /\ HostTypeOK
      /\ host \in [phase : {"booting", "listening", "stopping", "disposing", "closed", "exited"},
                   ready : BOOLEAN, timedOut : BOOLEAN]
  BY DEF HostIInv, HostTypes
<1>2. /\ request' \in [HostRequests -> RequestSteps] /\ statusCode' \in [HostRequests -> Nat]
      /\ request'[r] = to /\ statusCode'[r] = status
      /\ \A q \in HostRequests : q # r => request'[q] = request[q] /\ statusCode'[q] = statusCode[q]
  BY <1>1 DEF Moves
<1>3. HostTypeOK'
  <2>1. ASSUME NEW q \in HostRequests PROVE request'[q] = "answered" <=> statusCode'[q] # 0
    <3>1. request[q] = "answered" <=> statusCode[q] # 0
      BY <1>1 DEF HostTypeOK
    <3>2. CASE q = r
      BY <1>2, <3>2
    <3>3. CASE q # r
      BY <1>2, <3>1, <3>3
    <3>4. QED
      BY <3>2, <3>3
  <2>2. QED
    BY <1>1, <2>1 DEF HostTypeOK
<1>4. HostTypes'
  BY <1>1, <1>2, <1>3 DEF HostTypes
<1>5. Activates'
  BY DEF HostIInv, Activates
<1>6. BootFirst'
  <2>1. boot' = <<>> /\ host' = host /\ configuration' = configuration
    OBVIOUS
  <2>2. ASSUME NEW q \in HostRequests
        PROVE  /\ request'[q] = "authorizing" => configuration.agent
               /\ statusCode'[q] # 409
    <3>1. CASE q = r
      BY <1>2, <3>1
    <3>2. CASE q # r
      BY <1>2, <3>2, SMTT(30) DEF HostIInv, BootFirst
    <3>3. QED
      BY <3>1, <3>2
  <2>3. QED
    BY <2>1, <2>2 DEF BootFirst
<1>7. DrainedBeforeClosed'
  <2>1. \A q \in HostRequests : q \in InFlight' => q \in InFlight \/ host.phase = "listening"
    BY <1>2 DEF InFlight
  <2>2. InFlight' \subseteq HostRequests
    BY DEF InFlight
  <2>3. QED
    BY <2>1, <2>2 DEF HostIInv, DrainedBeforeClosed
<1>8. ASSUME NEW q \in HostRequests \ StreamRequests PROVE HostRecorded(q)'
  <2>1. CASE q = r
    BY <1>2, <2>1 DEF HostRecorded
  <2>2. CASE q # r
    <3>1. HostRecorded(q)
      BY DEF HostIInv
    <3>2. QED
      BY <1>2, <2>2, <3>1 DEF HostRecorded
  <2>3. QED
    BY <2>1, <2>2
<1>9. QED
  BY <1>4, <1>5, <1>6, <1>7, <1>8 DEF HostIInv

\* what a request that is under way says of the host
LEMMA UnderWay ==
  ASSUME HostIInv, NEW r \in HostRequests
  PROVE  /\ request[r] # "none" => boot = <<>>
         /\ request[r] # "answered" => statusCode[r] = 0
         /\ statusCode \in [HostRequests -> Nat] /\ request[r] \in RequestSteps
         /\ contexts \cup hostResults \cup ranToEnd \subseteq HostRequests
         /\ records \in Seq(AuditRecord) /\ chained \in [HostRequests -> Nat]
         /\ \A q \in HostRequests : chained[q] \in 0..Len(records)
         /\ r \notin StreamRequests => HostRecorded(r)
<1>1. HostTypeOK /\ BootFirst
  BY DEF HostIInv, HostTypes
<1>2. QED
  BY <1>1 DEF HostIInv, HostTypes, HostTypeOK, BootFirst

\* a request goes on, or is answered, and nothing else changes
LEMMA RequestMoves ==
  ASSUME HostIInv, NEW r \in HostRequests, request[r] \notin {"none", "answered"},
         NEW to \in RequestSteps \ {"authorizing"}, NEW status \in Nat, Moves(r, to, status),
         to = "answered" <=> status # 0, status # 409,
         UNCHANGED <<configuration, host, boot, agentState, records, chained>>,
         ranToEnd \subseteq ranToEnd', contexts' \cup hostResults' \cup ranToEnd' \subseteq HostRequests,
         r \notin StreamRequests =>
           /\ to # "piping"
           /\ to \in AfterRun \/ status = 200 => r \in ranToEnd'
           /\ to = "publishing" \/ status = 200 => AlreadyAudited(r)
  PROVE  HostIInv'
<1>1. /\ boot = <<>> /\ records' \in Seq(AuditRecord) /\ Len(records) <= Len(records')
      /\ chained' \in [HostRequests -> Nat] /\ \A q \in HostRequests : chained'[q] \in 0..Len(records')
  <2>1. Len(records) \in Nat
    BY UnderWay
  <2>2. QED
    BY <2>1, UnderWay
<1>2. \A q \in HostRequests : AlreadyAudited(q) <=> AlreadyAudited(q)'
  BY DEF AlreadyAudited
<1>3. QED
  BY <1>1, <1>2, RequestKeeps

\* the two ways the code moves a request
LEMMA GoesOrAnswers ==
  ASSUME HostIInv, NEW r \in HostRequests
  PROVE  /\ \A to : RequestGoes(r, to) /\ request[r] # "answered" => Moves(r, to, 0)
         /\ \A status : AnswersWith(r, status) => Moves(r, "answered", status)
<1>1. statusCode \in [HostRequests -> Nat] /\ (request[r] # "answered" => statusCode[r] = 0)
  BY UnderWay
<1>2. request[r] # "answered" => statusCode = [statusCode EXCEPT ![r] = 0]
  BY <1>1
<1>3. QED
  BY <1>2 DEF Moves, RequestGoes, AnswersWith

LEMMA HandleRequestKeeps == ASSUME HostIInv, NEW r \in HostRequests, handleRequest(r) PROVE HostIInv'
<1>1. /\ host.phase = "listening" /\ request[r] = "none"
      /\ UNCHANGED <<configuration, host, boot, agentState, contexts, hostResults, ranToEnd, records, chained>>
      /\ AnswersWith(r, 400) \/ AnswersWith(r, 503) \/ AnswersWith(r, 404)
         \/ (configuration.agent /\ RequestGoes(r, "authorizing"))
  BY DEF handleRequest
<1>2. boot = <<>>
  BY <1>1 DEF HostIInv, BootFirst
<1>3. /\ contexts \cup hostResults \cup ranToEnd \subseteq HostRequests
      /\ records \in Seq(AuditRecord) /\ chained \in [HostRequests -> Nat]
      /\ \A q \in HostRequests : chained[q] \in 0..Len(records)
  BY <1>1, UnderWay
<1>4. Len(records) <= Len(records')
  <2>1. Len(records) \in Nat
    BY <1>3
  <2>2. QED
    BY <1>1, <2>1
<1>5. ASSUME NEW to \in {"authorizing", "answered"}, NEW status \in {0, 400, 503, 404}, Moves(r, to, status),
             to = "authorizing" => configuration.agent, to = "answered" <=> status # 0
      PROVE  HostIInv'
  <2>1. to \in RequestSteps /\ to \notin AfterRun /\ to # "piping" /\ to # "publishing"
    BY DEF RequestSteps, AfterRun
  <2>2. status \in Nat /\ status # 409 /\ status # 200
    OBVIOUS
  <2>3. \A q \in HostRequests : AlreadyAudited(q) <=> AlreadyAudited(q)'
    BY <1>1 DEF AlreadyAudited
  <2>4. QED
    BY <1>1, <1>2, <1>3, <1>4, <1>5, <2>1, <2>2, <2>3, RequestKeeps
<1>6. ASSUME NEW status \in {400, 503, 404}, AnswersWith(r, status) PROVE HostIInv'
  <2>1. Moves(r, "answered", status)
    BY <1>6, GoesOrAnswers
  <2>2. QED
    BY <1>5, <2>1
<1>7. ASSUME configuration.agent, RequestGoes(r, "authorizing") PROVE HostIInv'
  <2>1. Moves(r, "authorizing", 0)
    BY <1>1, <1>7, GoesOrAnswers
  <2>2. QED
    BY <1>5, <1>7, <2>1
<1>8. QED
  BY <1>1, <1>6, <1>7

\* a request that is under way goes on, or is answered
LEMMA GoesKeeps ==
  ASSUME HostIInv, NEW r \in HostRequests, request[r] \notin {"none", "answered"},
         NEW to \in RequestSteps \ {"authorizing", "answered"}, RequestGoes(r, to),
         UNCHANGED <<configuration, host, boot, agentState, records, chained>>,
         ranToEnd \subseteq ranToEnd', contexts' \cup hostResults' \cup ranToEnd' \subseteq HostRequests,
         r \notin StreamRequests =>
           /\ to # "piping"
           /\ to \in AfterRun => request[r] \in AfterRun \/ r \in ranToEnd'
           /\ to = "publishing" => AlreadyAudited(r)
  PROVE  HostIInv'
<1>1. r \notin StreamRequests /\ to \in AfterRun => r \in ranToEnd'
  BY UnderWay DEF HostRecorded
<1>2. Moves(r, to, 0)
  BY GoesOrAnswers
<1>3. QED
  BY <1>1, <1>2, RequestMoves

LEMMA AnsweredKeeps ==
  ASSUME HostIInv, NEW r \in HostRequests, request[r] \notin {"none", "answered"},
         NEW status \in {200, 500}, AnswersWith(r, status),
         status = 200 => r \in StreamRequests \/ request[r] = "publishing",
         UNCHANGED <<configuration, host, boot, agentState, records, chained>>,
         ranToEnd \subseteq ranToEnd', contexts' \cup hostResults' \cup ranToEnd' \subseteq HostRequests
  PROVE  HostIInv'
<1>1. status = 200 /\ r \notin StreamRequests => r \in ranToEnd' /\ AlreadyAudited(r)
  BY UnderWay DEF HostRecorded, AfterRun
<1>2. Moves(r, "answered", status)
  BY GoesOrAnswers
<1>3. "answered" \in RequestSteps \ {"authorizing"} /\ "answered" \notin AfterRun
  BY DEF RequestSteps, AfterRun
<1>4. QED
  BY <1>1, <1>2, <1>3, RequestMoves

LEMMA AcceptsKeeps == ASSUME HostIInv, NEW r \in HostRequests, Accepts(r) PROVE HostIInv'
<1>1. /\ request[r] = "authorizing"
      /\ UNCHANGED <<configuration, host, boot, agentState, hostResults, ranToEnd, records, chained>>
  BY DEF Accepts
<1>2. agentState = "active"
  <2>1. configuration.agent /\ boot = <<>> /\ DOMAIN boot = {}
    BY <1>1 DEF HostIInv, BootFirst
  <2>2. QED
    BY <2>1 DEF HostIInv, Activates
<1>3. contexts' \cup hostResults' \cup ranToEnd' \subseteq HostRequests
  <2>1. contexts' = contexts \cup {r}
    BY <1>2 DEF Accepts
  <2>2. QED
    BY <1>1, <2>1, UnderWay
<1>4. PICK to : to = IF WantsStream(r) THEN "accepted" ELSE "running"
  OBVIOUS
<1>5. RequestGoes(r, to)
  BY <1>2, <1>4 DEF Accepts
<1>6. /\ to \in RequestSteps \ {"authorizing", "answered"} /\ to # "piping" /\ to # "publishing"
      /\ r \notin StreamRequests => to \notin AfterRun
  BY <1>4 DEF RequestSteps, AfterRun, WantsStream
<1>7. QED
  BY <1>1, <1>3, <1>5, <1>6, GoesKeeps

LEMMA RunCompletesKeeps == ASSUME HostIInv, NEW r \in HostRequests, RunCompletes(r) PROVE HostIInv'
<1>1. /\ request[r] \in {"running", "piping"}
      /\ ranToEnd' = ranToEnd \cup {r} /\ hostResults' = hostResults \cup {r}
      /\ UNCHANGED <<configuration, host, boot, agentState, contexts, records, chained>>
      /\ IF r \in StreamRequests THEN AnswersWith(r, 200) ELSE RequestGoes(r, "accepted")
  BY DEF RunCompletes, WantsStream
<1>2. contexts' \cup hostResults' \cup ranToEnd' \subseteq HostRequests
  BY <1>1, UnderWay
<1>3. "accepted" \in RequestSteps \ {"authorizing", "answered"}
  BY DEF RequestSteps
<1>4. CASE r \in StreamRequests
  BY <1>1, <1>2, <1>4, AnsweredKeeps
<1>5. CASE r \notin StreamRequests
  BY <1>1, <1>2, <1>3, <1>5, GoesKeeps
<1>6. QED
  BY <1>4, <1>5

LEMMA EndsKeeps ==
  ASSUME HostIInv, NEW r \in HostRequests, ExecutionFails(r) \/ AnswersRequest(r) \/ AfterRunFails(r)
  PROVE  HostIInv'
<1>1. /\ contexts \cup hostResults \cup ranToEnd \subseteq HostRequests
      /\ UNCHANGED <<configuration, host, boot, agentState, contexts, hostResults, ranToEnd, records, chained>>
  BY UnderWay DEF ExecutionFails, AnswersRequest, AfterRunFails
<1>2. request[r] \notin {"none", "answered"}
  BY DEF ExecutionFails, AnswersRequest, AfterRunFails
<1>3. PICK status \in {200, 500} :
        AnswersWith(r, status) /\ (status = 200 => r \in StreamRequests \/ request[r] = "publishing")
  BY DEF ExecutionFails, AnswersRequest, AfterRunFails, WantsStream
<1>4. QED
  BY <1>1, <1>2, <1>3, AnsweredKeeps

LEMMA CollectsKeeps == ASSUME HostIInv, NEW r \in HostRequests, Collects(r) PROVE HostIInv'
<1>1. /\ request[r] = "accepted" /\ contexts \cup hostResults \cup ranToEnd \subseteq HostRequests
      /\ UNCHANGED <<configuration, host, boot, agentState, contexts, hostResults, ranToEnd, records, chained>>
      /\ RequestGoes(r, "finding") \/ AnswersWith(r, 500)
  BY UnderWay DEF Collects
<1>2. "finding" \in RequestSteps \ {"authorizing", "answered"} /\ "accepted" \in AfterRun
  BY DEF RequestSteps, AfterRun
<1>3. CASE RequestGoes(r, "finding")
  BY <1>1, <1>2, <1>3, GoesKeeps
<1>4. CASE AnswersWith(r, 500)
  BY <1>1, <1>4, AnsweredKeeps
<1>5. QED
  BY <1>1, <1>3, <1>4

LEMMA FindsRecordKeeps == ASSUME HostIInv, NEW r \in HostRequests, FindsRecord(r) PROVE HostIInv'
<1>1. /\ request[r] = "finding" /\ contexts \cup hostResults \cup ranToEnd \subseteq HostRequests
      /\ UNCHANGED <<configuration, host, boot, agentState, contexts, hostResults, ranToEnd, records, chained>>
  BY UnderWay DEF FindsRecord
<1>2. PICK to \in {"piping", "publishing", "chaining"} :
        /\ RequestGoes(r, to)
        /\ to = "piping" => r \in StreamRequests
        /\ to = "publishing" => AlreadyAudited(r)
  BY DEF FindsRecord, Ingested, WantsStream
<1>3. to \in RequestSteps \ {"authorizing", "answered"} /\ request[r] \in AfterRun
  BY <1>1 DEF RequestSteps, AfterRun
<1>4. QED
  BY <1>1, <1>2, <1>3, GoesKeeps

LEMMA ChainsRecordKeeps == ASSUME HostIInv, NEW r \in HostRequests, ChainsRecord(r) PROVE HostIInv'
<1>1. /\ request[r] = "chaining" /\ chained' = [chained EXCEPT ![r] = Len(records)]
      /\ UNCHANGED <<configuration, host, boot, agentState, contexts, hostResults, ranToEnd, records>>
      /\ RequestGoes(r, "saving")
  BY DEF ChainsRecord
<1>2. /\ chained \in [HostRequests -> Nat] /\ \A q \in HostRequests : chained[q] \in 0..Len(records)
      /\ records \in Seq(AuditRecord) /\ boot = <<>> /\ Len(records) \in Nat
      /\ contexts \cup hostResults \cup ranToEnd \subseteq HostRequests
  BY <1>1, UnderWay
<1>3. chained' \in [HostRequests -> Nat] /\ \A q \in HostRequests : chained'[q] \in 0..Len(records)
  BY <1>1, <1>2
<1>4. Moves(r, "saving", 0)
  BY <1>1, GoesOrAnswers
<1>5. /\ "saving" \in RequestSteps
      /\ r \notin StreamRequests => r \in ranToEnd
      /\ Len(records) <= Len(records') /\ records' \in Seq(AuditRecord)
  BY <1>1, <1>2, UnderWay DEF RequestSteps, HostRecorded, AfterRun
<1>6. \A q \in HostRequests : AlreadyAudited(q) <=> AlreadyAudited(q)'
  BY <1>1 DEF AlreadyAudited
<1>7. QED
  BY <1>1, <1>2, <1>3, <1>4, <1>5, <1>6, RequestKeeps

LEMMA SavesRecordKeeps == ASSUME HostIInv, NEW r \in HostRequests, SavesRecord(r) PROVE HostIInv'
<1>1. PICK record : record = [source |-> Source(r), execution |-> r, previous |-> chained[r]]
  OBVIOUS
<1>2. /\ request[r] = "saving"
      /\ records' = IF AlreadyAudited(r)
                    THEN [n \in DOMAIN records |-> IF records[n].source = Source(r) THEN record ELSE records[n]]
                    ELSE Append(records, record)
      /\ UNCHANGED <<configuration, host, boot, agentState, contexts, hostResults, ranToEnd, chained>>
      /\ Ingested(r)
  BY <1>1 DEF SavesRecord
<1>3. /\ chained \in [HostRequests -> Nat] /\ \A q \in HostRequests : chained[q] \in 0..Len(records)
      /\ records \in Seq(AuditRecord) /\ boot = <<>> /\ Len(records) \in Nat
      /\ DOMAIN records = 1..Len(records)
      /\ contexts \cup hostResults \cup ranToEnd \subseteq HostRequests
      /\ r \notin StreamRequests => r \in ranToEnd
  BY <1>2, UnderWay DEF HostRecorded, AfterRun
<1>4. record \in AuditRecord /\ record.source = Source(r)
  BY <1>1, <1>3 DEF AuditRecord
<1>5. /\ records' \in Seq(AuditRecord) /\ Len(records) <= Len(records') /\ Len(records') \in Nat
      /\ DOMAIN records \subseteq DOMAIN records'
      /\ \A n \in DOMAIN records : records'[n].source = records[n].source
      /\ AlreadyAudited(r)'
  <2>1. CASE AlreadyAudited(r)
    <3>1. records' = [n \in 1..Len(records) |-> IF records[n].source = Source(r) THEN record ELSE records[n]]
      BY <1>2, <1>3, <2>1
    <3>2. \A n \in 1..Len(records) : records[n] \in AuditRecord
      BY <1>3
    <3>3. /\ records' \in Seq(AuditRecord) /\ Len(records') = Len(records) /\ DOMAIN records' = DOMAIN records
          /\ \A n \in DOMAIN records : records'[n].source = records[n].source
      BY <1>3, <1>4, <3>1, <3>2
    <3>4. AlreadyAudited(r)'
      BY <2>1, <3>3 DEF AlreadyAudited, Source
    <3>5. QED
      BY <1>3, <3>3, <3>4
  <2>2. CASE ~AlreadyAudited(r)
    <3>1. records' = Append(records, record)
      BY <1>2, <2>2
    <3>2. /\ records' \in Seq(AuditRecord) /\ Len(records') = Len(records) + 1
          /\ DOMAIN records' = 1..Len(records) + 1 /\ records'[Len(records) + 1] = record
          /\ \A n \in 1..Len(records) : records'[n] = records[n]
      BY <1>3, <1>4, <3>1
    <3>3. AlreadyAudited(r)'
      BY <1>3, <1>4, <3>2 DEF AlreadyAudited, Source
    <3>4. QED
      BY <1>3, <3>2, <3>3
  <2>3. QED
    BY <2>1, <2>2
<1>6. \A q \in HostRequests : AlreadyAudited(q) => AlreadyAudited(q)'
  BY <1>5 DEF AlreadyAudited, Source
<1>7. \A q \in HostRequests : chained'[q] \in 0..Len(records')
  BY <1>2, <1>3, <1>5
<1>8. PICK to \in {"piping", "publishing"} : RequestGoes(r, to) /\ (to = "piping" => r \in StreamRequests)
  BY <1>2 DEF Ingested, WantsStream
<1>9. Moves(r, to, 0) /\ to \in RequestSteps
  BY <1>2, <1>8, GoesOrAnswers DEF RequestSteps
<1>10. QED
  BY <1>2, <1>3, <1>5, <1>6, <1>7, <1>8, <1>9, RequestKeeps

\* boot, outages and stop leave the requests alone
LEMMA SeedStepKeeps == ASSUME HostIInv, SeedStep PROVE HostIInv'
<1>1. /\ boot # <<>> /\ host.phase = "booting" /\ boot' = Tail(boot)
      /\ UNCHANGED <<configuration, host, request, statusCode, contexts, hostResults, ranToEnd, records, chained>>
  BY DEF SeedStep
<1>2. boot \in Seq(BootSteps)
  BY DEF HostIInv, HostTypes
<1>3. /\ boot' \in Seq(BootSteps) /\ Len(boot) \in Nat /\ Len(boot) > 0 /\ Head(boot) = boot[1]
      /\ DOMAIN boot' = 1..Len(boot) - 1 /\ DOMAIN boot = 1..Len(boot)
      /\ \A n \in DOMAIN boot' : n + 1 \in DOMAIN boot /\ boot'[n] = boot[n + 1]
  BY <1>1, <1>2
<1>4. Activates'
  <2> SUFFICES ASSUME configuration.agent
               PROVE  \/ agentState' = "active" /\ (\A n \in DOMAIN boot' : ~Undoes(boot'[n]))
                      \/ \E n \in DOMAIN boot' :
                           boot'[n] = "activate" /\ \A m \in DOMAIN boot' : m > n => ~Undoes(boot'[m])
    BY <1>1 DEF Activates
  <2>1. CASE agentState = "active" /\ (\A n \in DOMAIN boot : ~Undoes(boot[n]))
    <3>1. ~Undoes(Head(boot)) /\ \A n \in DOMAIN boot' : ~Undoes(boot'[n])
      <4>1. 1 \in DOMAIN boot
        BY <1>3
      <4>2. QED
        BY <1>3, <2>1, <4>1
    <3>2. agentState' = "active"
      BY <2>1, <3>1 DEF SeedStep, Undoes
    <3>3. QED
      BY <3>1, <3>2
  <2>2. CASE \E n \in DOMAIN boot : boot[n] = "activate" /\ \A m \in DOMAIN boot : m > n => ~Undoes(boot[m])
    <3>1. PICK n \in DOMAIN boot : boot[n] = "activate" /\ \A m \in DOMAIN boot : m > n => ~Undoes(boot[m])
      BY <2>2
    <3>2. CASE n = 1
      <4>1. agentState' = "active"
        BY <1>3, <3>1, <3>2 DEF SeedStep
      <4>2. \A m \in DOMAIN boot' : m + 1 > n
        BY <1>3, <3>2
      <4>3. \A m \in DOMAIN boot' : ~Undoes(boot'[m])
        BY <1>3, <3>1, <4>2
      <4>4. QED
        BY <4>1, <4>3
    <3>3. CASE n # 1
      <4>1. n - 1 \in DOMAIN boot' /\ boot'[n - 1] = boot[n]
        BY <1>3, <3>3
      <4>2. \A m \in DOMAIN boot' : m > n - 1 => m + 1 > n
        BY <1>3
      <4>3. \A m \in DOMAIN boot' : m > n - 1 => ~Undoes(boot'[m])
        BY <1>3, <3>1, <4>2
      <4>4. QED
        BY <3>1, <4>1, <4>3
    <3>4. QED
      BY <3>2, <3>3
  <2>3. QED
    BY <2>1, <2>2 DEF HostIInv, Activates
<1>5. BootFirst'
  BY <1>1 DEF HostIInv, BootFirst
<1>6. HostTypes'
  BY <1>1, <1>3 DEF HostIInv, HostTypes, HostTypeOK
<1>7. DrainedBeforeClosed' /\ \A r \in HostRequests \ StreamRequests : HostRecorded(r)'
  BY <1>1 DEF HostIInv, DrainedBeforeClosed, InFlight, HostRecorded, AlreadyAudited
<1>8. QED
  BY <1>4, <1>5, <1>6, <1>7 DEF HostIInv

LEMMA PhaseKeeps ==
  ASSUME HostIInv,
         UNCHANGED <<configuration, boot, agentState, request, statusCode, ranToEnd, records, chained>>,
         contexts' \cup hostResults' \subseteq HostRequests,
         host' \in [phase : {"booting", "listening", "stopping", "disposing", "closed", "exited"},
                    ready : BOOLEAN, timedOut : BOOLEAN],
         host'.ready => host'.phase \in {"listening", "stopping"},
         host'.phase \notin {"booting", "exited"} => boot = <<>>,
         DrainedBeforeClosed'
  PROVE  HostIInv'
<1>1. HostTypes'
  BY DEF HostIInv, HostTypes, HostTypeOK
<1>2. Activates' /\ BootFirst'
  BY DEF HostIInv, Activates, BootFirst
<1>3. \A r \in HostRequests \ StreamRequests : HostRecorded(r)'
  BY DEF HostIInv, HostRecorded, AlreadyAudited
<1>4. QED
  BY <1>1, <1>2, <1>3 DEF HostIInv

LEMMA HostStepOK == HostIInv /\ [HostNext]_hostVars => HostIInv'
<1> SUFFICES ASSUME HostIInv, [HostNext]_hostVars PROVE HostIInv'
  OBVIOUS
<1> DEFINE HostRecord == [phase : {"booting", "listening", "stopping", "disposing", "closed", "exited"},
                          ready : BOOLEAN, timedOut : BOOLEAN]
<1>1. /\ host \in HostRecord /\ (host.ready => host.phase \in {"listening", "stopping"})
      /\ contexts \cup hostResults \subseteq HostRequests
      /\ host.phase \notin {"booting", "exited"} => boot = <<>>
      /\ DrainedBeforeClosed
  BY DEF HostIInv, HostTypes, HostTypeOK, BootFirst
<1>2. ASSUME NEW phase \in {"listening", "stopping", "disposing", "closed", "exited"}, NEW ready \in BOOLEAN,
             NEW timedOut \in BOOLEAN,
             host' = [phase |-> phase, ready |-> ready, timedOut |-> timedOut],
             UNCHANGED <<configuration, boot, agentState, request, statusCode, ranToEnd, records, chained>>,
             contexts' \cup hostResults' \subseteq HostRequests,
             phase # "exited" => boot = <<>>, ready => phase \in {"listening", "stopping"},
             phase \in {"disposing", "closed"} /\ InFlight # {} => timedOut
      PROVE  HostIInv'
  <2>1. host' \in HostRecord /\ host'.phase = phase /\ host'.ready = ready /\ host'.timedOut = timedOut
    BY <1>2
  <2>2. InFlight' = InFlight
    BY <1>2 DEF InFlight
  <2>3. DrainedBeforeClosed'
    BY <1>2, <2>1, <2>2 DEF DrainedBeforeClosed
  <2>4. QED
    BY <1>2, <2>1, <2>3, PhaseKeeps
<1>3. CASE SeedStep
  BY <1>3, SeedStepKeeps
<1>4. CASE DatabaseChanges \/ UNCHANGED hostVars
  <2>1. UNCHANGED <<configuration, host, boot, agentState, request, statusCode, contexts, hostResults, ranToEnd,
                    records, chained>>
    BY <1>4 DEF DatabaseChanges, hostVars
  <2>2. DrainedBeforeClosed'
    BY <1>1, <2>1 DEF DrainedBeforeClosed, InFlight
  <2>3. QED
    BY <1>1, <2>1, <2>2, PhaseKeeps
<1>5. CASE BootFails \/ Listens \/ stop \/ ClosesPersistence \/ Exits
  <2>1. /\ UNCHANGED <<configuration, boot, agentState, request, statusCode, contexts, hostResults, ranToEnd,
                       records, chained>>
        /\ \/ host' = [host EXCEPT !.phase = "exited"] /\ ~host.ready
           \/ host' = [host EXCEPT !.phase = "listening", !.ready = TRUE] /\ boot = <<>>
           \/ host' = [host EXCEPT !.phase = "stopping"] /\ boot = <<>>
           \/ host' = [host EXCEPT !.phase = "closed"] /\ boot = <<>> /\ host.phase = "disposing"
    BY <1>1, <1>5 DEF BootFails, Listens, stop, ClosesPersistence, Exits, Seeded
  <2>2. /\ host \in [phase : {"booting", "listening", "stopping", "disposing", "closed", "exited"},
                     ready : BOOLEAN, timedOut : BOOLEAN]
        /\ host.ready \in BOOLEAN /\ host.timedOut \in BOOLEAN
    BY <1>1
  <2>3. CASE host' = [host EXCEPT !.phase = "exited"] /\ ~host.ready
    <3>1. host' = [phase |-> "exited", ready |-> FALSE, timedOut |-> host.timedOut]
      BY <2>2, <2>3
    <3>2. QED
      BY <1>1, <1>2, <2>1, <2>2, <3>1
  <2>4. CASE host' = [host EXCEPT !.phase = "listening", !.ready = TRUE] /\ boot = <<>>
    <3>1. host' = [phase |-> "listening", ready |-> TRUE, timedOut |-> host.timedOut]
      BY <2>2, <2>4
    <3>2. QED
      BY <1>1, <1>2, <2>1, <2>2, <2>4, <3>1
  <2>5. CASE host' = [host EXCEPT !.phase = "stopping"] /\ boot = <<>>
    <3>1. host' = [phase |-> "stopping", ready |-> host.ready, timedOut |-> host.timedOut]
      BY <2>2, <2>5
    <3>2. QED
      BY <1>1, <1>2, <2>1, <2>2, <2>5, <3>1
  <2>6. CASE host' = [host EXCEPT !.phase = "closed"] /\ boot = <<>> /\ host.phase = "disposing"
    <3>1. host' = [phase |-> "closed", ready |-> FALSE, timedOut |-> host.timedOut]
      BY <1>1, <2>2, <2>6
    <3>2. QED
      BY <1>1, <1>2, <2>1, <2>2, <2>6, <3>1 DEF DrainedBeforeClosed
  <2>7. QED
    BY <2>1, <2>3, <2>4, <2>5, <2>6
<1>6. CASE Disposes
  <2>1. /\ boot = <<>> /\ contexts' = {} /\ hostResults' = {}
        /\ UNCHANGED <<configuration, boot, agentState, request, statusCode, ranToEnd, records, chained>>
    BY <1>1, <1>6 DEF Disposes
  <2>2. PICK timedOut \in BOOLEAN :
          /\ host' = [phase |-> "disposing", ready |-> FALSE, timedOut |-> timedOut]
          /\ InFlight # {} => timedOut
    <3>1. CASE ServerClosed /\ host' = [host EXCEPT !.phase = "disposing", !.ready = FALSE]
      <4>1. host' = [phase |-> "disposing", ready |-> FALSE, timedOut |-> host.timedOut] /\ host.timedOut \in BOOLEAN
        BY <1>1, <3>1
      <4>2. QED
        BY <3>1, <4>1 DEF ServerClosed
    <3>2. CASE host' = [phase |-> "disposing", ready |-> FALSE, timedOut |-> TRUE]
      BY <3>2
    <3>3. QED
      BY <1>6, <3>1, <3>2 DEF Disposes
  <2>3. QED
    BY <1>2, <2>1, <2>2
<1>7. ASSUME NEW r \in HostRequests,
             handleRequest(r) \/ Accepts(r) \/ RunCompletes(r) \/ ExecutionFails(r) \/ Collects(r)
               \/ FindsRecord(r) \/ ChainsRecord(r) \/ SavesRecord(r) \/ AnswersRequest(r) \/ AfterRunFails(r)
      PROVE  HostIInv'
  BY <1>7, HandleRequestKeeps, AcceptsKeeps, RunCompletesKeeps, EndsKeeps, CollectsKeeps,
     FindsRecordKeeps, ChainsRecordKeeps, SavesRecordKeeps
<1>8. QED
  BY <1>3, <1>4, <1>5, <1>6, <1>7 DEF HostNext

(* From boot to exit, with any requests, faults and outages in between: ready when it   *)
(* listens, drained or timed out when it closes, no agent inactive, and no answer          *)
(* without its execution and its record (bootstrap-local.ts,                                 *)
(* local-reference-composition.ts).                                                            *)
THEOREM HostKeeps == HostSpec => []HostInv
  BY HostInitOK, HostStepOK, HostIInvImplies, PTL DEF HostSpec


=============================================================================
