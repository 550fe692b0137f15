---------------------------- MODULE StreamTranslation ----------------------------
(***************************************************************************)
(* The provider adapters' stream(): the chunks of a vendor's stream, which carries  *)
(* tool calls in fragments (OpenAI, Anthropic) or in parts of a chunk (Gemini), become *)
(* the normalized events of one AI turn. Only a complete call crosses the boundary.       *)
(***************************************************************************)
EXTENDS Naturals, FiniteSets

CONSTANTS
  Vendors,           \* of "openai", "anthropic", "gemini"
  Calls,             \* the tool calls the vendor makes, each with an index and an id of its own
  Named,             \* Gemini has no ids: the name each call is made with
  Positions,         \* and the places a call may have among the parts of its chunk
  Failures,          \* of the requests: see FailureKind
  MaxChunks          \* bound: chunks of one stream

ASSUME TranslationAssumption ==
  /\ Positions \subseteq Nat /\ DOMAIN Named = Calls
  /\ "nothing" \notin Calls /\ MaxChunks \in Nat

VARIABLES
  vendor, chunks, aborted,
  sent,              \* per call, what the vendor has sent: nothing, its name, a part, all of it
  placed,            \* Gemini: per call, its position
  assemblies,        \* Gemini: per position, the call whose text waits there
  emitted,           \* the ids of the calls given
  given,             \* history: per call, how often it was given
  finishReason,
  ending             \* [terminal, kind, retryable]

translationVars ==
  <<vendor, chunks, aborted, sent, placed, assemblies, emitted, given, finishReason, ending>>

Nothing == "nothing"
Open == [terminal |-> "open", kind |-> Nothing, retryable |-> FALSE]

TranslationInit ==
  /\ vendor \in Vendors /\ chunks = 0 /\ aborted = FALSE
  /\ sent = [c \in Calls |-> Nothing] /\ placed = [c \in Calls |-> 0]
  /\ assemblies = [p \in Positions |-> Nothing]
  /\ emitted = {} /\ given = [c \in Calls |-> 0]
  /\ finishReason = "unknown" /\ ending = Open

----------------------------------------------------------------------------
IsOpen == ending.terminal = "open"

\* a chunk arrives; after an abort it is the last one
ChunkArrives ==
  /\ IsOpen /\ chunks < MaxChunks /\ chunks' = chunks + 1 /\ UNCHANGED <<vendor, aborted>>

Terminates(terminal) == ending' = [Open EXCEPT !.terminal = terminal]
NoCall == UNCHANGED <<sent, placed, assemblies, emitted, given>>

\* the caller's signal
CallerAborts ==
  /\ IsOpen /\ ~aborted /\ aborted' = TRUE
  /\ NoCall /\ UNCHANGED <<vendor, chunks, finishReason, ending>>

SeesAbort ==
  /\ ChunkArrives /\ aborted /\ Terminates("cancelled") /\ NoCall /\ UNCHANGED finishReason

\* text and usage, which name no call
Content == ChunkArrives /\ ~aborted /\ NoCall /\ UNCHANGED <<finishReason, ending>>

\* a Gemini call is known by its name and its position in its chunk
IdOf(call, position) == IF vendor = "gemini" THEN <<Named[call], position>> ELSE <<call, 0>>

Unsent(call, position) == IdOf(call, position) \notin emitted

Gives(call, position) ==
  IF Unsent(call, position)
  THEN /\ emitted' = emitted \cup {IdOf(call, position)}
       /\ given' = [given EXCEPT ![call] = @ + 1]
  ELSE UNCHANGED <<emitted, given>>

----------------------------------------------------------------------------
(* OpenAI: a call is given at the fragment its arguments parse at *)

\* what the next fragment of a call leaves; white space may follow the whole
AfterFragment == [x \in {Nothing, "name", "part", "whole"} |->
                    CASE x = Nothing -> {"name", "part", "whole"} [] x = "name" -> {"part", "whole"}
                      [] x = "part" -> {"part", "whole"} [] OTHER -> {"whole"}]

OpenAiFragment(c) ==
  /\ vendor = "openai" /\ ChunkArrives /\ ~aborted
  /\ \E now \in AfterFragment[sent[c]] :
       /\ sent' = [sent EXCEPT ![c] = now]
       /\ IF now = "whole" THEN Gives(c, 0) ELSE UNCHANGED <<emitted, given>>
  /\ UNCHANGED <<placed, assemblies, finishReason, ending>>

----------------------------------------------------------------------------
(* Anthropic: a call is given when its block stops *)

AnthropicFragment(c) ==
  /\ vendor = "anthropic" /\ ChunkArrives /\ ~aborted /\ sent[c] # "stopped"
  /\ \E now \in AfterFragment[sent[c]] : sent' = [sent EXCEPT ![c] = now]
  /\ UNCHANGED <<placed, assemblies, emitted, given, finishReason, ending>>

AnthropicStop(c) ==
  /\ vendor = "anthropic" /\ ChunkArrives /\ ~aborted /\ sent[c] \in {"name", "part", "whole"}
  /\ sent' = [sent EXCEPT ![c] = "stopped"]
  /\ IF sent[c] # "part" THEN Gives(c, 0) ELSE UNCHANGED <<emitted, given>>
  /\ UNCHANGED <<placed, assemblies, finishReason, ending>>

----------------------------------------------------------------------------
(* Gemini: a call with an object of arguments is given at once, one with text at the end *)

GeminiCall(c) ==
  /\ vendor = "gemini" /\ ChunkArrives /\ ~aborted /\ sent[c] = Nothing
  /\ sent' = [sent EXCEPT ![c] = "whole"]
  /\ \E p \in Positions :
       /\ placed' = [placed EXCEPT ![c] = p]
       /\ \/ Gives(c, p) /\ UNCHANGED assemblies
          \/ assemblies' = [assemblies EXCEPT ![p] = c] /\ UNCHANGED <<emitted, given>>
  /\ UNCHANGED <<finishReason, ending>>

Waiting == {c \in Calls : \E p \in Positions : assemblies[p] = c /\ Unsent(c, p)}

----------------------------------------------------------------------------
(* The end of the turn *)

\* the vendor says why it stops; Gemini's STOP means calls once one was given
Reason(said) ==
  IF vendor = "gemini" /\ said = "completed" /\ emitted # {} THEN "tool-calls" ELSE said

Stops ==
  /\ ChunkArrives /\ ~aborted
  /\ \E said \in {"completed", "tool-calls", "length"} : finishReason' = Reason(said)
  /\ NoCall /\ UNCHANGED ending

\* OpenAI: what tool-calls finds incomplete at the end fails the turn; a name alone has no arguments
Begun == {c \in Calls : sent[c] # Nothing}
Incomplete == {c \in Begun : sent[c] = "part"}

\* Seeded bug: the calls that wait for the end are left out.
Flushed_None == {}
Flushed == {c \in Begun : Unsent(c, 0)}

\* those of a lower index than the incomplete one are given before it is met
GivesAll(calls) ==
  /\ emitted' = emitted \cup {IdOf(c, 0) : c \in calls}
  /\ given' = [c \in Calls |-> given[c] + IF c \in calls THEN 1 ELSE 0]
  /\ UNCHANGED <<sent, placed, assemblies>>

OpenAiEnds ==
  /\ vendor = "openai" /\ IsOpen
  /\ IF aborted THEN Terminates("cancelled") /\ NoCall
     ELSE IF finishReason # "tool-calls" THEN Terminates("completed") /\ NoCall
     ELSE IF Incomplete # {} \/ Begun = {}
          THEN /\ ending' = [terminal |-> "failed", kind |-> "invalid-request", retryable |-> FALSE]
               /\ \E before \in SUBSET (Flushed \ Incomplete) : GivesAll(before)
     ELSE Terminates("completed") /\ GivesAll(Flushed)
  /\ UNCHANGED <<vendor, chunks, aborted, finishReason>>

\* message_stop, or the end of the stream without it: no call is looked at again
AnthropicEnds ==
  /\ vendor = "anthropic" /\ IsOpen /\ Terminates("completed") /\ NoCall
  /\ UNCHANGED <<vendor, chunks, aborted, finishReason>>

GeminiEnds ==
  /\ vendor = "gemini" /\ IsOpen /\ Terminates("completed")
  /\ emitted' = emitted \cup {IdOf(assemblies[p], p) : p \in {q \in Positions : assemblies[q] # Nothing}}
  /\ given' = [c \in Calls |-> given[c] + IF c \in Waiting THEN 1 ELSE 0]
  /\ finishReason' = IF emitted' # {} /\ finishReason = "unknown" THEN "tool-calls" ELSE finishReason
  /\ UNCHANGED <<vendor, chunks, aborted, sent, placed, assemblies>>

\* the request or the stream fails: what the error says decides whether another attempt may help
FailureKind == [denied |-> <<"authentication", FALSE>>, limited |-> <<"rate-limit", TRUE>>,
                exhausted |-> <<"rate-limit", FALSE>>, long |-> <<"context-limit", FALSE>>,
                late |-> <<"timeout", TRUE>>, refused |-> <<"invalid-request", FALSE>>,
                down |-> <<"unavailable", TRUE>>, other |-> <<"unknown", FALSE>>]

\* an error already of the adapter's own kind, as Anthropic's error event becomes one, ends a stream
\* that is read with an event; any other is thrown
VendorFails ==
  /\ IsOpen
  /\ \E f \in Failures, terminal \in {"failed", "thrown"} :
       ending' = [terminal |-> terminal, kind |-> FailureKind[f][1], retryable |-> FailureKind[f][2]]
  /\ NoCall /\ UNCHANGED <<vendor, chunks, aborted, finishReason>>

TranslationNext ==
  \/ CallerAborts \/ SeesAbort \/ Content \/ Stops \/ VendorFails
  \/ \E c \in Calls : OpenAiFragment(c) \/ AnthropicFragment(c) \/ AnthropicStop(c) \/ GeminiCall(c)
  \/ OpenAiEnds \/ AnthropicEnds \/ GeminiEnds

TranslationSpec == TranslationInit /\ [][TranslationNext]_translationVars

----------------------------------------------------------------------------
(* Properties *)

TranslationTypeOK ==
  /\ vendor \in Vendors /\ chunks \in 0..MaxChunks
  /\ \A c \in Calls : sent[c] \in {Nothing, "name", "part", "whole", "stopped"}
  /\ ending.terminal \in {"open", "completed", "failed", "cancelled", "thrown"}

(* No call reaches the tool loop twice, however its fragments were cut: it would run the *)
(* tool again (translate-stream.ts, emitted).                                              *)
GivenOnce == \A c \in Calls : given[c] <= 1

EndsWithCalls == ending.terminal = "completed" /\ finishReason = "tool-calls"

(* An OpenAI turn that ends with its tool calls has given every call the vendor began.     *)
CallsGiven == vendor = "openai" /\ EndsWithCalls => \A c \in Begun : given[c] = 1

(* The same of every vendor: fails for Gemini, whose calls of one name at one position in   *)
(* two chunks are taken for the same, and for Anthropic, which drops an incomplete call.      *)
EveryCallGiven == EndsWithCalls => \A c \in Begun : given[c] = 1

(* What the tool loop may rely on, whichever vendor streams (translate-stream.ts of the   *)
(* three providers).                                                                         *)
TranslationInv == TranslationTypeOK /\ GivenOnce /\ CallsGiven

=============================================================================
