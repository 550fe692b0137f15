-------------------------------- MODULE Streaming --------------------------------
(***************************************************************************)
(* One streamed execution, from the provider's adapter to the client.  The  *)
(* layers are generators that pull from each other: AiProviderFramework      *)
(* .stream normalizes, streamAiWithRouting falls back to another provider,   *)
(* the capability turns events into deltas, RuntimeOrchestrator.executeStream *)
(* keeps the checkpoint and ends with one terminal event, the runtime port    *)
(* logs and stores the result, and the reader (the host's SSE pipe, or the    *)
(* iteration of an embedded agent) writes to its client.  One pull runs all   *)
(* of them; an abort, the deadline or a crash comes between two pulls.         *)
(***************************************************************************)
EXTENDS Naturals, Sequences, SequencesExt

CONSTANTS
  Providers,       \* implementations the resolver can bind
  Fallback,        \* BOOLEAN: routing mode 'fallback'
  Readers,         \* subset of {"host", "embedded"}
  FailureKinds,    \* how an adapter may fail: subset of ProviderErrorKinds
  StreamFaults,    \* BOOLEAN: failing stores and logs, denials, crashes
  MaxPulls         \* bound: adapter events of an execution

ProviderErrorKinds ==
  {"authentication", "rate-limit", "context-limit", "invalid-request", "unavailable",
   "timeout", "unknown"}

ASSUME StreamingAssumption ==
  /\ {Fallback, StreamFaults} \subseteq BOOLEAN /\ Readers \subseteq {"host", "embedded"}
  /\ FailureKinds \subseteq ProviderErrorKinds /\ MaxPulls \in Nat

VARIABLES
  reader,          \* who reads: "host" or "embedded"
  routing,         \* binding, excluded and clientVisible of streamAiWithRouting
  execution,       \* where executeStream is
  checkpoint,      \* the execution's state in the checkpoint store
  signal,          \* aborted, expired: the controller's signal and the deadline
  transit,         \* the event executeStream yielded last, on its way to the client
  log,             \* StreamEventLog of the execution
  result,          \* getResult(): the runtime port holds the result
  registered,      \* the port holds the execution's controller (and stream)
  pipe,            \* the reader's side
  seen,            \* what the client got after 'start'
  pulls

streamVars == <<reader, routing, execution, checkpoint, signal, transit, log, result,
                registered, pipe, seen, pulls>>

None == [type |-> "none", from |-> "none"]
Event(type, from) == [type |-> type, from |-> from]
Terminals == {"completed", "failed", "cancelled"}
StreamEvents ==
  {None} \cup {Event(type, from) : type \in {"delta", "usage"}, from \in Providers}
         \cup {Event(type, "runtime") : type \in Terminals}

StreamingInit ==
  /\ reader \in Readers
  /\ \E p \in Providers : routing = [binding |-> p, excluded |-> {}, visible |-> FALSE]
  /\ execution = "unstarted" /\ checkpoint = "none"
  /\ signal = [aborted |-> FALSE, expired |-> FALSE]
  /\ transit = None /\ log = <<>> /\ result = FALSE
  /\ registered = TRUE /\ pipe = "starting" /\ seen = <<>> /\ pulls = 0

readerVars == <<log, result, registered, pipe, seen>>

----------------------------------------------------------------------------
(* executeStream *)

\* a host whose client is gone goes on pulling until an event arrives
Pulling == pipe \in {"reading", "gone"} /\ transit = None

\* the catch clause: an error that is not RUNTIME_CANCELLED is a failure, and a
\* store that fails here leaves the checkpoint where it is
Throws(cancelled) ==
  LET terminal == IF cancelled THEN "cancelled" ELSE "failed" IN
  /\ execution' = "ended"
  /\ transit' = Event(terminal, "runtime")
  /\ \/ checkpoint' = terminal
     \/ StreamFaults /\ UNCHANGED checkpoint
     \/ StreamFaults /\ cancelled /\ checkpoint' = "cancelling"

\* authorization, policy and the stages before the capability, under the timer
Prepare ==
  /\ Pulling /\ execution = "unstarted"
  /\ \/ /\ ~signal.aborted
        /\ execution' = "streaming" /\ checkpoint' = "running" /\ UNCHANGED transit
     \/ signal.aborted /\ Throws(TRUE)
     \/ StreamFaults /\ Throws(FALSE)
  /\ UNCHANGED <<reader, routing, signal, readerVars, pulls>>

Streams ==
  /\ Pulling /\ execution = "streaming" /\ pulls < MaxPulls
  /\ pulls' = pulls + 1

\* the checks executeStream makes when an event arrives, and only then
Interrupted == signal.expired \/ signal.aborted
Arrives(event) ==
  IF Interrupted THEN Throws(~signal.expired)
  ELSE transit' = event /\ UNCHANGED <<execution, checkpoint>>

\* Seeded bug: only a tool call counts as visible to the client.
MarksVisible_NotContent == routing

MarksVisible == [routing EXCEPT !.visible = TRUE]

AdapterContent ==
  /\ Streams
  /\ routing' = MarksVisible
  /\ Arrives(Event("delta", routing.binding))
  /\ UNCHANGED <<reader, signal, readerVars>>

\* usage goes to the client and does not count as visible
AdapterUsage ==
  /\ Streams
  /\ Arrives(Event("usage", routing.binding))
  /\ UNCHANGED <<reader, routing, signal, readerVars>>

\* post-invoke, completing, completed; a store or a publication that fails is thrown
Completes ==
  /\ execution' = "ended"
  /\ \/ checkpoint' = "completed" /\ transit' = Event("completed", "runtime")
     \/ /\ StreamFaults /\ checkpoint' \in {checkpoint, "completing", "completed", "failed"}
        /\ transit' = Event("failed", "runtime")

AdapterCompletes ==
  /\ Streams
  /\ IF Interrupted THEN Throws(~signal.expired) ELSE Completes
  /\ UNCHANGED <<reader, routing, signal, readerVars>>

\* the adapter saw the signal: the capability throws a TypeError, not RUNTIME_CANCELLED
AdapterCancelled ==
  /\ Streams /\ signal.aborted
  /\ Throws(FALSE)
  /\ UNCHANGED <<reader, routing, signal, readerVars>>

\* isFallbackEligibleAiError over errorCode
FallbackEligible(kind, retryable) == retryable /\ kind \in {"rate-limit", "unavailable", "timeout"}
FallsBack(kind, retryable) ==
  ~routing.visible /\ Fallback /\ FallbackEligible(kind, retryable)

\* a failed event, an exception, a gap in the sequence or an end without a terminal event
AdapterFails(kind, retryable) ==
  /\ Streams
  /\ ~FallsBack(kind, retryable)
  /\ Throws(FALSE)
  /\ UNCHANGED <<reader, routing, signal, readerVars>>

FallBackTo(kind, retryable, next) ==
  /\ Streams
  /\ FallsBack(kind, retryable) /\ next \notin routing.excluded \cup {routing.binding}
  /\ routing' = [routing EXCEPT !.excluded = @ \cup {routing.binding}, !.binding = next]
  /\ UNCHANGED <<reader, execution, checkpoint, signal, transit, readerVars>>

FallbackExhausted(kind, retryable) ==
  /\ Streams
  /\ FallsBack(kind, retryable) /\ Providers = routing.excluded \cup {routing.binding}
  /\ Throws(FALSE)
  /\ UNCHANGED <<reader, routing, signal, readerVars>>

\* a timer fires while the provider is silent: noticed with the next event
Expire ==
  /\ execution = "streaming" /\ ~signal.expired
  /\ signal' = [signal EXCEPT !.expired = TRUE]
  /\ UNCHANGED <<reader, routing, execution, checkpoint, transit, readerVars, pulls>>

----------------------------------------------------------------------------
(* The runtime port and the reader *)

Aborts == signal' = [signal EXCEPT !.aborted = TRUE]

\* return() of the generators: finally clauses run, catch clauses do not.
\* A stream nobody began to read keeps its registration.
Abandons ==
  /\ pipe' = "left" /\ transit' = None
  /\ execution' = "ended"
  /\ registered' = (execution = "unstarted")

\* writeFrame: the socket takes the frame, or asks to wait for 'drain'
Writes == pipe' \in (IF reader = "host" THEN {"reading", "draining"} ELSE {"reading"})

StartFrame ==
  /\ pipe = "starting" /\ Writes
  /\ UNCHANGED <<reader, routing, execution, checkpoint, signal, transit, log, result,
                 registered, seen, pulls>>

Drained ==
  /\ pipe = "draining" /\ pipe' = "reading"
  /\ UNCHANGED <<reader, routing, execution, checkpoint, signal, transit, log, result,
                 registered, seen, pulls>>

\* the embedded port appends to the log before it yields
Recorded == reader = "host" \/ (log # <<>> /\ Last(log) = transit /\ Len(log) = Len(seen) + 1)

Record ==
  /\ transit # None /\ ~Recorded
  /\ log' = Append(log, transit)
  /\ UNCHANGED <<reader, routing, execution, checkpoint, signal, transit, result, registered,
                 pipe, seen, pulls>>

RecordFails ==
  /\ StreamFaults /\ transit # None /\ ~Recorded
  /\ Abandons
  /\ UNCHANGED <<reader, routing, checkpoint, signal, log, result, seen, pulls>>

Ends == transit.type \in Terminals

Deliverable == transit # None /\ pipe = "reading" /\ Recorded

Deliver ==
  /\ Deliverable
  /\ seen' = Append(seen, transit)
  /\ result' = (result \/ transit.type = "completed")
  /\ transit' = None
  /\ IF Ends THEN pipe' = "ended" /\ registered' = FALSE ELSE Writes /\ UNCHANGED registered
  /\ UNCHANGED <<reader, routing, execution, checkpoint, signal, log, pulls>>

\* the next event of a client that is gone is dropped (SSE: break)
DropAfterDisconnect ==
  /\ reader = "host" /\ transit # None /\ pipe = "gone"
  /\ result' = (result \/ transit.type = "completed")
  /\ Abandons
  /\ UNCHANGED <<reader, routing, checkpoint, signal, log, seen, pulls>>

----------------------------------------------------------------------------
(* What interrupts a stream *)

\* request 'close': cancelOnce
Disconnect ==
  /\ reader = "host" /\ pipe = "reading" /\ transit = None
  /\ pipe' = "gone" /\ Aborts
  /\ UNCHANGED <<reader, routing, execution, checkpoint, transit, log, result, registered,
                 seen, pulls>>

DrainTimeout ==
  /\ pipe = "draining"
  /\ Aborts /\ Abandons
  /\ UNCHANGED <<reader, routing, checkpoint, log, result, seen, pulls>>

\* the program that iterates an embedded agent's stream breaks out of its loop
ReaderBreaks ==
  /\ reader = "embedded" /\ pipe = "reading" /\ transit = None
  /\ Abandons
  /\ UNCHANGED <<reader, routing, checkpoint, signal, log, result, seen, pulls>>

\* EmbeddedRuntimePort.dispose
Dispose ==
  /\ reader = "embedded" /\ registered /\ pipe \in {"starting", "reading"}
  /\ Aborts /\ registered' = FALSE
  /\ UNCHANGED <<reader, routing, execution, checkpoint, transit, log, result, pipe, seen, pulls>>

\* writeFile of the log may be cut short: list() then finds nothing
StreamCrash ==
  /\ StreamFaults /\ pipe \notin {"left", "ended"}
  /\ execution' = "ended" /\ transit' = None /\ pipe' = "left"
  /\ registered' = FALSE /\ result' = FALSE
  /\ log' \in {log} \cup (IF transit # None THEN {<<>>} ELSE {})
  /\ UNCHANGED <<reader, routing, checkpoint, signal, seen, pulls>>

StreamingNext ==
  \/ Prepare \/ AdapterContent \/ AdapterUsage \/ AdapterCompletes \/ AdapterCancelled
  \/ \E kind \in FailureKinds, retryable \in BOOLEAN :
       \/ AdapterFails(kind, retryable) \/ FallbackExhausted(kind, retryable)
       \/ \E next \in Providers : FallBackTo(kind, retryable, next)
  \/ Expire \/ StartFrame \/ Drained \/ Record \/ RecordFails \/ Deliver
  \/ DropAfterDisconnect \/ Disconnect \/ DrainTimeout \/ ReaderBreaks \/ Dispose
  \/ StreamCrash

StreamingSpec == StreamingInit /\ [][StreamingNext]_streamVars

----------------------------------------------------------------------------
(* Properties *)

StreamingTypeOK ==
  /\ reader \in Readers
  /\ routing \in [binding : Providers, excluded : SUBSET Providers, visible : BOOLEAN]
  /\ routing.binding \notin routing.excluded
  /\ execution \in {"unstarted", "streaming", "ended"}
  /\ checkpoint \in {"none", "running", "completing", "cancelling"} \cup Terminals
  /\ signal \in [aborted : BOOLEAN, expired : BOOLEAN]
  /\ transit \in StreamEvents /\ {log, seen} \subseteq Seq(StreamEvents \ {None})
  /\ result \in BOOLEAN /\ registered \in BOOLEAN /\ pulls \in 0..MaxPulls
  /\ pipe \in {"starting", "reading", "draining", "gone", "left", "ended"}

(* However often a stream falls back to another provider, the text its client    *)
(* received is of one of them.                                                    *)
OneProviderSpoke ==
  \A i, j \in DOMAIN seen :
    seen[i].type = "delta" /\ seen[j].type = "delta" => seen[i].from = seen[j].from

(* A client that was told 'completed' was told so after every other event, when    *)
(* the checkpoint said the same and the result could be fetched.                   *)
CompletedIsKept ==
  \A i \in DOMAIN seen :
    seen[i].type = "completed" => i = Len(seen) /\ checkpoint = "completed" /\ result

(* What a reconnecting client replays from the log begins with all it had been      *)
(* sent, in that order, unless a crash cut the log's last write short.              *)
ReplayCoversClient == reader = "embedded" => log = <<>> \/ IsPrefix(seen, log)

(* An execution whose client gave it up ends cancelled, unless it had completed     *)
(* (runtime.ts 484-505).  Refuted: a store that fails in the catch is swallowed, and   *)
(* the client is told of a cancellation all the same.                               *)
CancelEndsCancelled ==
  signal.aborted /\ ~signal.expired /\ execution = "ended" =>
    checkpoint \in {"none", "completed", "cancelled"}

(* What the client of a stream may rely on, across fallbacks, reconnections and      *)
(* failures of the store and the log (runtime.ts 318-545, sse-stream.ts).             *)
StreamingInv == StreamingTypeOK /\ OneProviderSpoke /\ CompletedIsKept /\ ReplayCoversClient

=============================================================================
