--------------------------------- MODULE ApiAccess ---------------------------------
(***************************************************************************)
(* A command of the CLI, through the SDK client and a transport, to the API     *)
(* framework and back: retries on one side, requests that are handled after their *)
(* answer is given up on the other.                                                 *)
(***************************************************************************)
EXTENDS Naturals, FiniteSets

CONSTANTS
  Commands,          \* names of the commands that are run
  Kind,              \* [Commands -> {"read", "create", "stream"}]: its route
  Principal,         \* [Commands -> who runs it]
  MaxAttempts,       \* configuration.retry.maxAttempts
  RateLimit,         \* requests a principal may make to a route
  StreamLength,      \* frames of a stream
  MaxTransportFaults, MaxApiFaults   \* bounds

ASSUME ApiAssumption ==
  /\ IsFiniteSet(Commands) /\ Kind \in [Commands -> {"read", "create", "stream"}]
  /\ MaxAttempts \in Nat \ {0} /\ RateLimit \in Nat /\ StreamLength \in Nat

Attempts == 1..MaxAttempts
NoExit == 999

VARIABLES
  command,           \* per command: [step, attempt]
  exitCode,          \* per command
  cancellation,      \* commands whose cancellation signal is set
  apiRequest,        \* per command and attempt: step of ApiFramework.handle
  response,          \* per command and attempt: "none", "success" or "failed"
  consumed,          \* InMemoryRateLimiter: per principal and route, requests counted
  handled,           \* history: the requests whose handler has run, as <<command, attempt>>
  streamed,          \* per command: frames yielded to the CLI
  transportFaults, apiFaults

apiVars == <<command, exitCode, cancellation, apiRequest, response, consumed, handled,
             streamed, transportFaults, apiFaults>>

ApiInit ==
  /\ command = [c \in Commands |-> [step |-> "idle", attempt |-> 0]]
  /\ exitCode = [c \in Commands |-> NoExit] /\ cancellation = {}
  /\ apiRequest = [c \in Commands |-> [a \in Attempts |-> "none"]]
  /\ response = [c \in Commands |-> [a \in Attempts |-> "none"]]
  /\ consumed = [p \in {Principal[c] : c \in Commands} |-> [k \in {Kind[c] : c \in Commands} |-> 0]]
  /\ handled = {} /\ streamed = [c \in Commands |-> 0]
  /\ transportFaults = 0 /\ apiFaults = 0

----------------------------------------------------------------------------
(* CLI and SDK *)

\* normalizeCliError
ExitOf(code) ==
  CASE code = "AUTHENTICATION_FAILED" -> 4
    [] code \in {"CONNECTION_FAILED", "TIMEOUT"} -> 6
    [] code \in {"API_ERROR", "UNSUPPORTED_VERSION"} -> 7
    [] code = "CANCELLED" -> 130
    [] OTHER -> 8

Exits(c, code) ==
  /\ exitCode' = [exitCode EXCEPT ![c] = code]
  /\ command' = [command EXCEPT ![c].step = "exited"]
Fails(c, code) == Exits(c, ExitOf(code))

\* unknown command or option, wrong arguments (2), invalid configuration (3)
RefusesCommand(c) ==
  /\ command[c].step = "idle" /\ \E code \in {2, 3} : Exits(c, code)
  /\ UNCHANGED <<cancellation, apiRequest, response, consumed, handled, streamed,
                 transportFaults, apiFaults>>

\* TypeScriptSdkClient.prepare: configuration, credentials, then the request is sent
prepare(c) ==
  /\ command[c].step = "idle"
  /\ \/ \E code \in {"CONFIGURATION_INVALID", "AUTHENTICATION_FAILED"} : Fails(c, code)
     \/ /\ command' = [command EXCEPT ![c] = IF Kind[c] = "stream" THEN [@ EXCEPT !.step = "streaming"]
                                                ELSE [step |-> "sent", attempt |-> 1]]
        /\ UNCHANGED exitCode
  /\ UNCHANGED <<cancellation, apiRequest, response, consumed, handled, streamed,
                 transportFaults, apiFaults>>

\* parse
Receives(c) ==
  LET a == command[c].attempt IN
  /\ command[c].step = "sent" /\ response[c][a] # "none"
  /\ IF response[c][a] = "success" THEN Exits(c, 0) ELSE Fails(c, "API_ERROR")
  /\ UNCHANGED <<cancellation, apiRequest, response, consumed, handled, streamed,
                 transportFaults, apiFaults>>

Idempotent(c) == Kind[c] # "create"
\* Seeded bug: whatever the transport calls retryable is sent again.
Retries_Any(c, retryable) == retryable /\ command[c].attempt < MaxAttempts
Retries(c, retryable) == Idempotent(c) /\ retryable /\ command[c].attempt < MaxAttempts

\* the transport rejects: the request may have reached the API, or may still reach it
TransportFails(c) ==
  /\ command[c].step = "sent"
  /\ transportFaults < MaxTransportFaults /\ transportFaults' = transportFaults + 1
  /\ \E retryable \in BOOLEAN :
       IF Retries(c, retryable)
       THEN command' = [command EXCEPT ![c].attempt = @ + 1] /\ UNCHANGED exitCode
       ELSE Fails(c, "CONNECTION_FAILED")
  /\ UNCHANGED <<cancellation, apiRequest, response, consumed, handled, streamed, apiFaults>>

Cancels(c) ==
  /\ command[c].step = "streaming" /\ c \notin cancellation
  /\ cancellation' = cancellation \cup {c}
  /\ UNCHANGED <<command, exitCode, apiRequest, response, consumed, handled, streamed,
                 transportFaults, apiFaults>>

----------------------------------------------------------------------------
(* streamOperation over a transport that looks at the signal before each frame *)

NextFrame(c) ==
  /\ command[c].step = "streaming" /\ c \notin cancellation /\ streamed[c] < StreamLength
  /\ command' = [command EXCEPT ![c].step = "frame"]
  /\ UNCHANGED <<exitCode, cancellation, apiRequest, response, consumed, handled, streamed,
                 transportFaults, apiFaults>>

\* the signal may be set between the frame leaving the transport and the client
CancelsFrame(c) ==
  /\ command[c].step = "frame" /\ c \notin cancellation
  /\ cancellation' = cancellation \cup {c}
  /\ UNCHANGED <<command, exitCode, apiRequest, response, consumed, handled, streamed,
                 transportFaults, apiFaults>>

Cancelled(c) == c \in cancellation

YieldsFrame(c) ==
  /\ command[c].step = "frame"
  /\ IF Cancelled(c) THEN Fails(c, "CANCELLED") /\ UNCHANGED streamed
     ELSE /\ streamed' = [streamed EXCEPT ![c] = @ + 1]
          /\ command' = [command EXCEPT ![c].step = "streaming"] /\ UNCHANGED exitCode
  /\ UNCHANGED <<cancellation, apiRequest, response, consumed, handled, transportFaults, apiFaults>>

\* no frame left, or the transport saw the signal and returned
StreamEnds(c) ==
  /\ command[c].step = "streaming" /\ (c \in cancellation \/ streamed[c] = StreamLength)
  /\ Exits(c, 0)
  /\ UNCHANGED <<cancellation, apiRequest, response, consumed, handled, streamed,
                 transportFaults, apiFaults>>

StreamFails(c) ==
  /\ command[c].step = "streaming"
  /\ transportFaults < MaxTransportFaults /\ transportFaults' = transportFaults + 1
  /\ Fails(c, "STREAMING_ERROR")
  /\ UNCHANGED <<cancellation, apiRequest, response, consumed, handled, streamed, apiFaults>>

----------------------------------------------------------------------------
(* ApiFramework.handle of one request, with an await at every port *)

Sent(c, a) == a <= command[c].attempt
ApiGoes(c, a, step) == apiRequest' = [apiRequest EXCEPT ![c][a] = step]
Responds(c, a, outcome) == ApiGoes(c, a, "answered") /\ response' = [response EXCEPT ![c][a] = outcome]

\* no route has the method and path, or no version is compatible
Unroutable(c, a) == Responds(c, a, "failed")
\* too large, a required field or the tenant missing
Invalid(c, a) == Responds(c, a, "failed")

\* the route and version are found, authentication is awaited
Authenticating(c, a) ==
  /\ Sent(c, a) /\ apiRequest[c][a] = "none"
  /\ \/ Unroutable(c, a)
     \/ ApiGoes(c, a, "authenticating") /\ UNCHANGED response
  /\ UNCHANGED <<command, exitCode, cancellation, consumed, handled, streamed,
                 transportFaults, apiFaults>>

\* not authenticated, not valid, or authorization is awaited
Authenticated(c, a) ==
  /\ apiRequest[c][a] = "authenticating"
  /\ \/ Responds(c, a, "failed")
     \/ Invalid(c, a)
     \/ ApiGoes(c, a, "authorizing") /\ UNCHANGED response
  /\ UNCHANGED <<command, exitCode, cancellation, consumed, handled, streamed,
                 transportFaults, apiFaults>>

Counted(c) == consumed[Principal[c]][Kind[c]]
consume(c) == consumed' = [consumed EXCEPT ![Principal[c]][Kind[c]] = @ + 1]
\* Seeded bug: the request that is being counted is left out.
Allowed_Before(c) == Counted(c) <= RateLimit
Allowed(c) == Counted(c) + 1 <= RateLimit

\* denied, over the limit, or the fact "received" is published
Authorized(c, a) ==
  /\ apiRequest[c][a] = "authorizing"
  /\ \/ Responds(c, a, "failed") /\ UNCHANGED consumed
     \/ /\ consume(c)
        /\ IF Allowed(c) THEN ApiGoes(c, a, "receiving") /\ UNCHANGED response
           ELSE Responds(c, a, "failed")
  /\ UNCHANGED <<command, exitCode, cancellation, handled, streamed, transportFaults, apiFaults>>

\* the fact is out and the handler runs
Handles(c, a) ==
  /\ apiRequest[c][a] = "receiving"
  /\ handled' = handled \cup {<<c, a>>} /\ ApiGoes(c, a, "completing")
  /\ UNCHANGED <<command, exitCode, cancellation, response, consumed, streamed, transportFaults, apiFaults>>

\* the fact "completed" is out; no route of the catalog is audited
Completed(c, a) ==
  /\ apiRequest[c][a] = "completing" /\ Responds(c, a, "success")
  /\ UNCHANGED <<command, exitCode, cancellation, consumed, handled, streamed,
                 transportFaults, apiFaults>>

\* a port rejects, before the handler or after it: INTERNAL_ERROR
ApiFails(c, a) ==
  /\ apiRequest[c][a] \notin {"none", "answered"}
  /\ apiFaults < MaxApiFaults /\ apiFaults' = apiFaults + 1
  /\ Responds(c, a, "failed")
  /\ UNCHANGED <<command, exitCode, cancellation, consumed, handled, streamed, transportFaults>>

ApiNext ==
  \E c \in Commands :
    \/ RefusesCommand(c) \/ prepare(c) \/ Receives(c) \/ TransportFails(c) \/ Cancels(c)
    \/ NextFrame(c) \/ CancelsFrame(c) \/ YieldsFrame(c) \/ StreamEnds(c) \/ StreamFails(c)
    \/ \E a \in Attempts :
         \/ Authenticating(c, a) \/ Authenticated(c, a) \/ Authorized(c, a)
         \/ Handles(c, a) \/ Completed(c, a) \/ ApiFails(c, a)

ApiSpec == ApiInit /\ [][ApiNext]_apiVars

----------------------------------------------------------------------------
(* Properties *)

ApiTypeOK ==
  /\ \A c \in Commands :
       /\ command[c].attempt \in 0..MaxAttempts /\ streamed[c] \in 0..StreamLength
       /\ command[c].step = "exited" <=> exitCode[c] # NoExit
  /\ \A c \in Commands : \A a \in Attempts : apiRequest[c][a] # "none" => a <= command[c].attempt

(* A job is created at most once by a command, whatever the transport loses, times   *)
(* out on or delivers late (sdk-framework index.ts 229-257).                            *)
CreatedAtMostOnce ==
  \A c \in Commands : \A a, b \in Attempts :
    Kind[c] = "create" /\ {<<c, a>>, <<c, b>>} \subseteq handled => a = b

(* Concurrent requests, retries included, run handlers no more often than the limit    *)
(* of their principal allows (api-framework index.ts 252-258).                            *)
WithinRateLimit ==
  \A p \in DOMAIN consumed : \A k \in DOMAIN consumed[p] :
    Cardinality({r \in handled : Principal[r[1]] = p /\ Kind[r[1]] = k}) <= RateLimit

(* "Cancellation ... produces normalized code CANCELLED": a stream that was cancelled   *)
(* before its last frame does not end as complete.  Refuted.                               *)
CancelIsReported ==
  \A c \in cancellation : exitCode[c] = 0 => streamed[c] = StreamLength

(* What retries cost at the other end of the transport (sdk-framework, api-framework). *)
ApiInv == ApiTypeOK /\ CreatedAtMostOnce /\ WithinRateLimit

=============================================================================
