----------------------------- MODULE ErrorEvent -----------------------------
(***************************************************************************)
(* What a client of the SSE path is told when the upstream fails: from the *)
(* upstream's error body, through handle_error of src/src/sse.rs, to the   *)
(* event that build of src/src/error_event.rs writes for the client's API. *)
(*                                                                         *)
(* Text is abstracted to its length in bytes and the offsets at which a    *)
(* UTF-8 character starts or the text ends; JSON to what the three parsers *)
(* look for.  An event is where its words come from and the label (type,   *)
(* code or status) that it carries.                                        *)
(***************************************************************************)
EXTENDS Integers, FiniteSets

CONSTANTS
    Status,     \* the statuses of upstreams, none of them 2xx
    MaxMsg,     \* MAX_MSG: 4096 bytes in the code
    MaxText     \* bound: bytes of a text

ASSUME ErrorEventAssumption ==
    /\ Status \subseteq (100 .. 999) \ (200 .. 299)
    /\ MaxMsg \in Nat /\ MaxMsg >= 4
    /\ MaxText \in Nat

VARIABLES
    call,   \* the failure to be reported
    body,   \* the error body as far as handle_error has it
    stage,  \* how far it has come
    end,    \* where message cuts the text
    event   \* the event, NoEvent before it is built

vars == <<call, body, stage, end, event>>

Kinds == {"chat", "responses", "anthropic", "gemini"}

\* A text: no character is longer than four bytes.
Text == {t \in [len : 1 .. MaxText, cuts : SUBSET (0 .. MaxText)] :
            /\ {0, t.len} \subseteq t.cuts /\ t.cuts \subseteq 0 .. t.len
            /\ \A c \in t.cuts \ {t.len} :
                 \E d \in t.cuts : c < d /\ d <= c + 4}

NoText == [len |-> 0, cuts |-> {0}]

\* What a body can be: nothing, no UTF-8, white space, text that is no JSON
\* with a member "error" ("text"), or JSON with one ("error"), whose code and
\* message are strings (coded), next to "type": "error" (typed).
Body == [form  : {"empty", "binary", "blank"}, coded : {FALSE}, typed : {FALSE},
         text  : {NoText}]
   \cup [form  : {"text"}, coded : {FALSE}, typed : {FALSE}, text : Text]
   \cup [form  : {"error"}, coded : BOOLEAN, typed : BOOLEAN, text : Text]

BodyOf(f) == [form |-> f, coded |-> FALSE, typed |-> FALSE, text |-> NoText]

\* A failure with a status and a body, or one of the connection or the stream,
\* for which build is called with a reason and neither.
Call == [kind : Kinds, status : Status, compressed : BOOLEAN, sent : Body]
   \cup [kind : Kinds, status : {502}, compressed : {FALSE},
         sent : {BodyOf("none")}]

Failure(c) == c.sent.form = "none"

Labels == {"rate_limit_error", "invalid_request_error", "server_error",
           "rate_limit_exceeded", "authentication_error", "permission_error",
           "not_found_error", "request_too_large", "overloaded_error",
           "api_error", "INVALID_ARGUMENT", "UNAUTHENTICATED",
           "PERMISSION_DENIED", "NOT_FOUND", "RESOURCE_EXHAUSTED", "INTERNAL",
           "UNAVAILABLE", "DEADLINE_EXCEEDED", "UNKNOWN",
           "upstream"}  \* the upstream's own

NoEvent == [words |-> "none", len |-> 0, label |-> "none"]

Event == [words : {"reason", "status", "text", "upstream"}, len : 0 .. MaxMsg,
          label : Labels]

-----------------------------------------------------------------------------
(* Labels *)

ClientError(s) == s \in 400 .. 499
ServerError(s) == s \in 500 .. 599

ChatErrorType(s) ==
    IF s = 429 THEN "rate_limit_error"
    ELSE IF ClientError(s) THEN "invalid_request_error" ELSE "server_error"

ResponsesCodeOf500(s) ==    \* mutant: one server error only
    IF s = 429 THEN "rate_limit_exceeded"
    ELSE IF s = 500 THEN "server_error" ELSE "invalid_request_error"

ResponsesCode(s) ==
    IF s = 429 THEN "rate_limit_exceeded"
    ELSE IF ServerError(s) THEN "server_error" ELSE "invalid_request_error"

AnthropicErrorType(s) ==
    CASE s = 400 -> "invalid_request_error"
      [] s = 401 -> "authentication_error"
      [] s = 403 -> "permission_error"
      [] s = 404 -> "not_found_error"
      [] s = 413 -> "request_too_large"
      [] s = 429 -> "rate_limit_error"
      [] s = 529 -> "overloaded_error"
      [] OTHER   -> "api_error"

GeminiStatus(s) ==
    CASE s = 400 -> "INVALID_ARGUMENT"
      [] s = 401 -> "UNAUTHENTICATED"
      [] s = 403 -> "PERMISSION_DENIED"
      [] s = 404 -> "NOT_FOUND"
      [] s = 429 -> "RESOURCE_EXHAUSTED"
      [] s = 500 -> "INTERNAL"
      [] s = 503 -> "UNAVAILABLE"
      [] s = 504 -> "DEADLINE_EXCEEDED"
      [] OTHER   -> "UNKNOWN"

Label(c) ==
    CASE c.kind = "chat"      -> ChatErrorType(c.status)
      [] c.kind = "responses" -> ResponsesCode(c.status)
      [] c.kind = "anthropic" -> AnthropicErrorType(c.status)
      [] c.kind = "gemini"    -> GeminiStatus(c.status)

-----------------------------------------------------------------------------
(* handle_error: the body *)

Init ==
    /\ call \in Call
    /\ body = call.sent
    /\ stage = IF Failure(call) THEN "building" ELSE "collecting"
    /\ end = 0
    /\ event = NoEvent

\* The body has been read.
Collect ==
    /\ stage = "collecting"
    /\ stage' = "decoding"
    /\ UNCHANGED <<call, body, end, event>>

\* The body breaks, or is longer than MAX_ERROR_BODY.
CollectFails ==
    /\ stage = "collecting"
    /\ stage' = "decoding"
    /\ body' = BodyOf("empty")
    /\ UNCHANGED <<call, end, event>>

\* Bytes that need no decoding, or can be decoded.
Decode ==
    /\ stage = "decoding"
    /\ stage' = "building"
    /\ UNCHANGED <<call, body, end, event>>

\* Bytes that cannot be decoded, or not within MAX_ERROR_BODY, are taken as
\* they are.
DecodeFails ==
    /\ stage = "decoding" /\ call.compressed /\ body.form # "empty"
    /\ stage' = "building"
    /\ body' = BodyOf("binary")
    /\ UNCHANGED <<call, end, event>>

-----------------------------------------------------------------------------
(* build *)

Finish(words, len, label) ==
    /\ stage' = "built"
    /\ event' = [words |-> words, len |-> len, label |-> label]
    /\ UNCHANGED <<call, body>>

\* The error of the client's API: parse_top_level_error (chat and gemini),
\* parse_responses_error, parse_anthropic_error.
Standard ==
    /\ body.form = "error"
    /\ call.kind = "responses" => body.coded
    /\ call.kind = "anthropic" => body.typed

\* The upstream's own error is passed on.
Embed ==
    /\ stage = "building" /\ Standard
    /\ Finish("upstream", 0, "upstream")
    /\ UNCHANGED end

\* message: a failure tells its reason.
Reason ==
    /\ stage = "building" /\ Failure(call)
    /\ Finish("reason", 0, Label(call))
    /\ UNCHANGED end

\* message: without words to quote, the status line has to do.
NoPlainText == body.form # "text"   \* mutant: JSON is not quoted
Wordless == body.form \in {"empty", "binary", "blank"}

FallBack ==
    /\ stage = "building" /\ ~ Standard /\ ~ Failure(call) /\ Wordless
    /\ Finish("status", 0, Label(call))
    /\ UNCHANGED end

\* message: a body with words is quoted.
FitsByOne == body.text.len <= MaxMsg + 1    \* mutant: off by one
Fits == body.text.len <= MaxMsg

Quote ==
    /\ stage = "building" /\ ~ Standard /\ ~ Failure(call) /\ ~ Wordless
    /\ Fits
    /\ Finish("text", body.text.len, Label(call))
    /\ UNCHANGED end

StartCut ==
    /\ stage = "building" /\ ~ Standard /\ ~ Failure(call) /\ ~ Wordless
    /\ ~ Fits
    /\ stage' = "cutting" /\ end' = MaxMsg
    /\ UNCHANGED <<call, body, event>>

\* is_char_boundary(end)
AnyByte == end \in 0 .. body.text.len   \* mutant: bytes are characters
CharBoundary == end \in body.text.cuts

StepBack ==
    /\ stage = "cutting" /\ end > 0 /\ ~ CharBoundary
    /\ end' = end - 1
    /\ UNCHANGED <<call, body, stage, event>>

Cut ==
    /\ stage = "cutting" /\ (end = 0 \/ CharBoundary)
    /\ Finish("text", end, Label(call))
    /\ UNCHANGED end

Built == stage = "built" /\ UNCHANGED vars

Next ==
    \/ Collect \/ CollectFails \/ Decode \/ DecodeFails
    \/ Embed \/ Reason \/ FallBack \/ Quote
    \/ StartCut \/ StepBack \/ Cut
    \/ Built

Spec == Init /\ [][Next]_vars

-----------------------------------------------------------------------------
(* Properties *)

\* Type invariant.
TypeOK ==
    /\ call \in Call
    /\ body \in {call.sent, BodyOf("empty"), BodyOf("binary")}
    /\ stage \in {"collecting", "decoding", "building", "cutting", "built"}
    /\ end \in 0 .. MaxMsg
    /\ event \in Event \cup {NoEvent}

\* A long text is cut by message at the end of a character, and as late as
\* MAX_MSG allows: never inside a character, where the slice would panic, and
\* never a character too early.
LongestPrefix ==
    event.words = "text" =>
        /\ event.len \in body.text.cuts /\ event.len <= MaxMsg
        /\ \A c \in body.text.cuts : c <= event.len \/ c > MaxMsg

\* An error body that arrives and can be read reaches the client in the
\* upstream's own words, even where it is not the error that its API defines;
\* otherwise the client is told the status, or the reason of the failure, and
\* never an empty message.
WordsKept ==
    stage = "built" =>
        IF body.form \in {"text", "error"}
        THEN event.words = "upstream" \/ (event.words = "text" /\ event.len > 0)
        ELSE event.words = IF Failure(call) THEN "reason" ELSE "status"

RateLabels == {"rate_limit_error", "rate_limit_exceeded", "RESOURCE_EXHAUSTED"}

ClientLabels == {"invalid_request_error", "authentication_error",
                 "permission_error", "not_found_error", "request_too_large",
                 "INVALID_ARGUMENT", "UNAUTHENTICATED", "PERMISSION_DENIED",
                 "NOT_FOUND"}

\* Whom a label blames: the client's rate, its request, or the upstream
\* (UNKNOWN, which blames nobody, is counted here).
Blame(label) ==
    IF label \in RateLabels THEN "rate"
    ELSE IF label \in ClientLabels THEN "client" ELSE "upstream"

\* The statuses that no table leaves to its default on which they differ.
AgreedClient == {400, 401, 403, 404}
Agreed(s) == s \in AgreedClient \cup {429} \/ ServerError(s)

\* Where they differ: responses_code blames the client for whatever is left,
\* chat_error_type for the rest of 4xx, anthropic_error_type for 413 and
\* gemini_status for nothing.
BlamesForRest(kind, s) ==
    \/ kind = "responses"
    \/ kind = "chat" /\ ClientError(s)
    \/ kind = "anthropic" /\ s = 413

\* Whether a failure is put down to the client's rate, to its request or to the
\* upstream follows from the status alone for 400, 401, 403, 404, 429, 5xx and
\* failures of the connection, whichever of chat_error_type, responses_code,
\* anthropic_error_type and gemini_status labels it.  For no other status do
\* the four agree, and each falls back as BlamesForRest says: a 304 is the
\* client's fault for a client of the Responses API only, a 418 for one of the
\* Chat API too.
BlameByStatus ==
    event.label \notin {"none", "upstream"} =>
        LET s == call.status
        IN  Blame(event.label) =
              IF s = 429 THEN "rate"
              ELSE IF s \in AgreedClient \/ (~ Agreed(s) /\ BlamesForRest(call.kind, s))
              THEN "client" ELSE "upstream"

\* api.md (2026-07-03-llm-sse-gateway) says that a body with a top-level error
\* has its code, message and param filled into the event of the Responses API.
ErrorFilledIn ==
    event.words # "none" /\ call.kind = "responses" /\ body.form = "error" =>
        event.words = "upstream"
=============================================================================
