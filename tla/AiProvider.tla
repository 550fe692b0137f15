-------------------------------- MODULE AiProvider --------------------------------
(***************************************************************************)
(* AiProviderFramework (packages/ai-provider): execute() and stream() between  *)
(* an adapter and the capability that consumes it.  stream() is a generator:    *)
(* what follows a yield runs when the consumer comes back for more, and never    *)
(* when it does not.  A request may be refused before an adapter is tried; an      *)
(* adapter may misnumber, stop short, throw, or say that it failed; publishing a   *)
(* fact may fail.                                                                  *)
(***************************************************************************)
EXTENDS Naturals, Sequences, SequencesExt

CONSTANTS
  AiCalls,                    \* calls, each with a request id of its own
  MaxEvents, MaxAiFaults      \* bounds: events of an adapter; what may go wrong

ASSUME AiAssumption == MaxEvents \in Nat /\ MaxAiFaults \in Nat

VARIABLES
  aiCall,                     \* [AiCalls -> where the call is, and its terminal event]
  given,                      \* [AiCalls -> types of the events the consumer got]
  onRecord,                 \* [AiCalls -> outcome on record, or "none"]
  aiFacts,                    \* published: <<type, call>>
  told,                       \* [AiCalls -> "none", "result", "error", or how a stream ended]
  aiFaults

aiVars == <<aiCall, given, onRecord, aiFacts, told, aiFaults>>

TERMINAL_TYPES == {"completed", "failed", "cancelled"}

AiInit ==
  /\ aiCall = [c \in AiCalls |-> [at |-> "unused", terminal |-> "none"]]
  /\ given = [c \in AiCalls |-> <<>>]
  /\ onRecord = [c \in AiCalls |-> "none"]
  /\ aiFacts = {} /\ told = [c \in AiCalls |-> "none"] /\ aiFaults = 0

IsAt(c, place) == aiCall[c].at = place
GoesTo(c, place) == aiCall' = [aiCall EXCEPT ![c].at = place]
AiFault == aiFaults < MaxAiFaults /\ aiFaults' = aiFaults + 1
Diagnoses(c, outcome) == onRecord' = [onRecord EXCEPT ![c] = outcome]
Tells(c, what) == told' = [told EXCEPT ![c] = what]
PublishesAi(c, type) == aiFacts' = aiFacts \cup {<<type, c>>}

----------------------------------------------------------------------------
(* execute() *)

\* validateRequest or adapters.resolve throws, before the try
RefusedUntried(c) == AiFault /\ Tells(c, "error") /\ GoesTo(c, "refused")
TriesAdapter(c, place) == GoesTo(c, place) /\ UNCHANGED <<told, aiFaults>>

execute(c) ==
  /\ IsAt(c, "unused") /\ (TriesAdapter(c, "executing") \/ RefusedUntried(c))
  /\ UNCHANGED <<given, onRecord, aiFacts>>

\* a result that validateResult accepts
AdapterAnswers(c) ==
  /\ IsAt(c, "executing")
  /\ Diagnoses(c, "completed") /\ GoesTo(c, "answered")
  /\ UNCHANGED <<given, aiFacts, told, aiFaults>>

CompletedPublished(c) ==
  /\ IsAt(c, "answered")
  /\ PublishesAi(c, "ai.completed") /\ Tells(c, "result") /\ GoesTo(c, "ended")
  /\ UNCHANGED <<given, onRecord, aiFaults>>

\* the adapter throws, its result is refused, or ai.completed cannot be published:
\* #normalizeFailure
NormalizesFailure(c) ==
  /\ aiCall[c].at \in {"executing", "answered"} /\ AiFault
  /\ Diagnoses(c, "failed") /\ GoesTo(c, "failing")
  /\ UNCHANGED <<given, aiFacts, told>>

\* a publication that fails here replaces the error
FailureTold(c) ==
  /\ IsAt(c, "failing")
  /\ \/ PublishesAi(c, "ai.failed") /\ UNCHANGED aiFaults
     \/ AiFault /\ UNCHANGED aiFacts
  /\ Tells(c, "error") /\ GoesTo(c, "ended")
  /\ UNCHANGED <<given, onRecord>>

----------------------------------------------------------------------------
(* stream() *)

\* its first pull
stream(c) ==
  /\ IsAt(c, "unused") /\ (TriesAdapter(c, "streaming") \/ RefusedUntried(c))
  /\ UNCHANGED <<given, onRecord, aiFacts>>

Yields(c, type, place) ==
  /\ given' = [given EXCEPT ![c] = Append(@, type)]
  /\ aiCall' = [aiCall EXCEPT ![c] =
       [at |-> place, terminal |-> IF type \in TERMINAL_TYPES THEN type ELSE "none"]]

\* after these the adapter is not pulled again
Ends(type) == type \in TERMINAL_TYPES

AdapterYields(c, type) ==
  /\ IsAt(c, "streaming") /\ Len(given[c]) < MaxEvents
  /\ Yields(c, type, IF Ends(type) THEN "terminal" ELSE "streaming")
  /\ UNCHANGED <<onRecord, aiFacts, told, aiFaults>>

\* the catch: a misnumbered event, an end without a terminal event, an exception
AdapterBreaks(c) ==
  /\ IsAt(c, "streaming") /\ AiFault
  /\ Diagnoses(c, "failed") /\ Yields(c, "failed", "caught")
  /\ UNCHANGED <<aiFacts, told>>

OutcomeOf(type) == IF type = "completed" THEN "completed" ELSE "failed"
FactOf(type) == "ai.stream." \o type

\* the consumer comes back after the adapter's terminal event; what fails now is swallowed
TerminalRecorded(c) ==
  /\ IsAt(c, "terminal")
  /\ Diagnoses(c, OutcomeOf(aiCall[c].terminal))
  /\ \/ PublishesAi(c, FactOf(aiCall[c].terminal)) /\ UNCHANGED aiFaults
     \/ AiFault /\ UNCHANGED aiFacts
  /\ Tells(c, "drained") /\ GoesTo(c, "ended")
  /\ UNCHANGED given

\* and after the one of the catch: a publication that fails is thrown
CaughtPublished(c) ==
  /\ IsAt(c, "caught")
  /\ \/ PublishesAi(c, "ai.stream.failed") /\ Tells(c, "drained") /\ UNCHANGED aiFaults
     \/ AiFault /\ Tells(c, "error") /\ UNCHANGED aiFacts
  /\ GoesTo(c, "ended")
  /\ UNCHANGED <<given, onRecord>>

\* the consumer leaves its loop: nothing after the yield runs
ConsumerStops(c) ==
  /\ aiCall[c].at \in {"streaming", "terminal", "caught"} /\ given[c] # <<>>
  /\ Tells(c, "stopped") /\ GoesTo(c, "ended")
  /\ UNCHANGED <<given, onRecord, aiFacts, aiFaults>>

AiNext ==
  \E c \in AiCalls :
    \/ execute(c) \/ AdapterAnswers(c) \/ CompletedPublished(c)
    \/ NormalizesFailure(c) \/ FailureTold(c)
    \/ stream(c) \/ AdapterBreaks(c) \/ TerminalRecorded(c) \/ CaughtPublished(c) \/ ConsumerStops(c)
    \/ \E type \in {"content"} \cup TERMINAL_TYPES : AdapterYields(c, type)

AiSpec == AiInit /\ [][AiNext]_aiVars

----------------------------------------------------------------------------
(* Properties *)

AiTypeOK ==
  /\ \A c \in AiCalls : /\ aiCall[c].terminal \in TERMINAL_TYPES \cup {"none"}
                        /\ Len(given[c]) <= MaxEvents + 1
  /\ onRecord \in [AiCalls -> {"none", "completed", "failed"}]
  /\ told \in [AiCalls -> {"none", "result", "error", "drained", "stopped"}]

(* Whatever the adapter does and whatever fails, the consumer gets one terminal event    *)
(* at most and nothing after it ("single-terminal rule",                                  *)
(* ai-provider-framework.ts 110-114).                                                       *)
SingleTerminal ==
  \A c \in AiCalls : \A i \in DOMAIN given[c] :
    given[c][i] \in TERMINAL_TYPES => i = Len(given[c])

(* What the consumer was told of a call it did not break off is what the record says,      *)
(* publications that failed included (ai-provider-framework.ts 33-53, 66-108); a call         *)
(* refused before an adapter was tried gives an error, no event and no record (28-30, 52-54).  *)
ToldIsOnRecord ==
  \A c \in AiCalls :
    /\ told[c] = "result" => onRecord[c] = "completed"
    /\ told[c] = "error" => IF IsAt(c, "refused") THEN onRecord[c] = "none" /\ given[c] = <<>>
                            ELSE onRecord[c] = "failed"
    /\ told[c] = "drained" => onRecord[c] = OutcomeOf(Last(given[c]))

(* "Never throw after emitting a terminal event" (ai-provider-framework.ts 112): refuted.     *)
(* The publication after the catch's own failed event is not guarded.                          *)
NeverThrowsAfterTerminal ==
  \A c \in AiCalls : given[c] # <<>> /\ Last(given[c]) \in TERMINAL_TYPES => told[c] # "error"

(* A stream whose terminal event was consumed is on record: refuted.  The capabilities of        *)
(* the host and of the agent framework throw when they get 'failed' or 'cancelled', and the        *)
(* record is made after the yield.                                                                   *)
ConsumedIsOnRecord ==
  \A c \in AiCalls :
    IsAt(c, "ended") /\ given[c] # <<>> /\ Last(given[c]) \in TERMINAL_TYPES =>
      onRecord[c] # "none"

(* What the framework promises to consumers of providers (ai-provider-framework.ts).                *)
AiInv == AiTypeOK /\ SingleTerminal /\ ToldIsOnRecord

=============================================================================
