-------------------------- MODULE ErrorEventProofs --------------------------
(***************************************************************************)
(* Proofs about ErrorEvent, for every limit of a message and every text.   *)
(***************************************************************************)
EXTENDS ErrorEvent, TLAPS

\* What Body and Call say about a call: its body is a text with words in it,
\* or has none.
LEMMA CallFacts ==
    ASSUME NEW c \in Call
    PROVE  /\ c.kind \in Kinds /\ c.status \in Nat
           /\ c.sent.form \in {"empty", "binary", "blank", "text", "error", "none"}
           /\ c.sent.form \in {"text", "error"} => c.sent.text \in Text
           /\ Failure(c) => c.status = 502
<1>1. CASE c \in [kind : Kinds, status : Status, compressed : BOOLEAN, sent : Body]
  <2>0. c.kind \in Kinds /\ c.status \in Status /\ c.sent \in Body
    BY <1>1
  <2>1. c.status \in Nat
    <3> DEFINE s == c.status
    <3>0. Status \subseteq 100 .. 999
      BY ErrorEventAssumption
    <3>1. s \in 100 .. 999
      BY <2>0, <3>0, Zenon
    <3> HIDE DEF s
    <3>2. s \in Nat
      BY <3>1
    <3> QED
      BY <3>2 DEF s
  <2>2. /\ c.sent.form \in {"empty", "binary", "blank", "text", "error"}
        /\ c.sent.form \in {"text", "error"} => c.sent.text \in Text
    BY <2>0 DEF Body
  <2> QED
    BY <2>0, <2>1, <2>2 DEF Failure
<1>2. CASE c \in [kind : Kinds, status : {502}, compressed : {FALSE},
                  sent : {BodyOf("none")}]
  BY <1>2 DEF BodyOf, Failure
<1> QED
  BY <1>1, <1>2 DEF Call

\* A text of words has a boundary at both ends and one at most four bytes on
\* from every other.
LEMMA TextFacts ==
    ASSUME NEW t \in Text
    PROVE  /\ t.len \in Nat /\ t.len > 0 /\ t.len <= MaxText
           /\ 0 \in t.cuts /\ t.len \in t.cuts
           /\ \A c \in t.cuts : c \in Nat /\ c <= t.len
           /\ \A c \in t.cuts : c # t.len =>
                \E d \in t.cuts : c < d /\ d <= c + 4
BY ErrorEventAssumption DEF Text

\* Every label is one of Labels, and none is the upstream's own.
LEMMA LabelType ==
    ASSUME NEW c \in Call
    PROVE  Label(c) \in Labels \ {"upstream"}
BY CallFacts DEF Label, Labels, Kinds, ChatErrorType, ResponsesCode,
   AnthropicErrorType, GeminiStatus

\* Whom the label of a status blames.
BlameOf(c) ==
    IF c.status = 429 THEN "rate"
    ELSE IF \/ c.status \in AgreedClient
            \/ ~ Agreed(c.status) /\ BlamesForRest(c.kind, c.status)
    THEN "client" ELSE "upstream"

LEMMA LabelBlame ==
    ASSUME NEW c \in Call
    PROVE  Blame(Label(c)) = BlameOf(c)
<1>k. c.kind \in Kinds /\ c.status \in Nat
  BY CallFacts
<1> USE <1>k DEF Blame, BlameOf, RateLabels, ClientLabels, ClientError,
                 ServerError, Agreed, AgreedClient, BlamesForRest
<1>1. CASE c.kind = "chat"
  BY <1>1 DEF Label, ChatErrorType
<1>2. CASE c.kind = "responses"
  BY <1>2 DEF Label, ResponsesCode
<1>3. CASE c.kind = "anthropic"
  BY <1>3 DEF Label, AnthropicErrorType
<1>4. CASE c.kind = "gemini"
  BY <1>4 DEF Label, GeminiStatus
<1> QED
  BY <1>1, <1>2, <1>3, <1>4 DEF Kinds

-----------------------------------------------------------------------------
(* The inductive invariant: while message looks for the end of a character, *)
(* no character ends between the place it has come to and MAX_MSG.          *)

NoCutAhead == \A c \in body.text.cuts : c <= end \/ c > MaxMsg

IInv ==
    /\ TypeOK
    /\ stage # "built" => event = NoEvent
    /\ stage = "built" => event.label \in {"upstream", Label(call)}
    /\ stage \in {"collecting", "decoding"} => ~ Failure(call)
    /\ Failure(call) => body.form = "none"
    /\ stage = "cutting" =>
         /\ body.form \in {"text", "error"} /\ body.text.len > MaxMsg
         /\ NoCutAhead
    /\ LongestPrefix
    /\ WordsKept

\* The body is what was sent or nothing that can be quoted.
LEMMA BodyFacts ==
    ASSUME TypeOK
    PROVE  /\ body.form \in {"empty", "binary", "blank", "text", "error", "none"}
           /\ body.form \in {"text", "error"} => body.text \in Text
BY CallFacts DEF TypeOK, BodyOf

\* A label as every synthesized event has it.
LEMMA EventType ==
    ASSUME NEW c \in Call, NEW n \in 0 .. MaxMsg,
           NEW w \in {"reason", "status", "text", "upstream"}
    PROVE  /\ [words |-> w, len |-> n, label |-> Label(c)] \in Event
           /\ [words |-> w, len |-> n, label |-> "upstream"] \in Event
BY LabelType DEF Event, Labels

\* It holds in the initial states.
LEMMA InitIInv == Init => IInv
<1> SUFFICES ASSUME Init PROVE IInv
  OBVIOUS
<1>1. TypeOK
  BY ErrorEventAssumption DEF Init, TypeOK
<1>2. event.words = "none"
  BY DEF Init, NoEvent
<1> QED
  BY <1>1, <1>2 DEF Init, IInv, LongestPrefix, WordsKept, Failure

\* Every step keeps the invariant.
LEMMA NextIInv == IInv /\ [Next]_vars => IInv'
<1> SUFFICES ASSUME IInv, [Next]_vars PROVE IInv'
  OBVIOUS
<1>t. /\ call \in Call /\ end \in Nat /\ MaxMsg \in Nat /\ MaxMsg >= 4
      /\ body.form \in {"empty", "binary", "blank", "text", "error", "none"}
      /\ body.form \in {"text", "error"} =>
           /\ body.text.len \in Nat /\ body.text.len > 0
           /\ body.text.len <= MaxText
           /\ 0 \in body.text.cuts /\ body.text.len \in body.text.cuts
           /\ \A c \in body.text.cuts : c \in Nat /\ c <= body.text.len
  BY BodyFacts, TextFacts, ErrorEventAssumption DEF IInv, TypeOK
<1>m. MaxText \in Nat /\ 0 \in 0 .. MaxMsg
  BY ErrorEventAssumption
<1>1. CASE Collect
  BY <1>1, <1>t DEF Collect, IInv, TypeOK, NoCutAhead, LongestPrefix, WordsKept,
     NoEvent
<1>2. CASE CollectFails
  BY <1>2, <1>t DEF CollectFails, IInv, TypeOK, LongestPrefix, WordsKept,
     NoEvent
<1>3. CASE Decode
  BY <1>3, <1>t DEF Decode, IInv, TypeOK, NoCutAhead, LongestPrefix, WordsKept,
     NoEvent
<1>4. CASE DecodeFails
  BY <1>4, <1>t DEF DecodeFails, IInv, TypeOK, LongestPrefix, WordsKept,
     NoEvent
<1>5. CASE Embed
  <2>1. event' \in Event /\ event'.words = "upstream" /\ event'.label = "upstream"
    BY <1>5, <1>t, <1>m, EventType DEF Embed, Finish
  <2>2. body.form = "error" /\ ~ Failure(call)
    BY <1>5 DEF Embed, Standard, IInv
  <2> QED
    BY <1>5, <2>1, <2>2, <1>t
       DEF Embed, Finish, IInv, TypeOK, LongestPrefix, WordsKept
<1>6. CASE Reason
  <2>1. event' \in Event /\ event'.words = "reason" /\ event'.label = Label(call)
    BY <1>6, <1>t, <1>m, EventType DEF Reason, Finish
  <2>2. body.form = "none" /\ Failure(call)
    BY <1>6 DEF Reason, IInv
  <2> QED
    BY <1>6, <2>1, <2>2, <1>t
       DEF Reason, Finish, IInv, TypeOK, LongestPrefix, WordsKept
<1>7. CASE FallBack
  <2>1. event' \in Event /\ event'.words = "status" /\ event'.label = Label(call)
    BY <1>7, <1>t, <1>m, EventType DEF FallBack, Finish
  <2>2. body.form \notin {"text", "error"} /\ ~ Failure(call)
    BY <1>7 DEF FallBack, Wordless
  <2> QED
    BY <1>7, <2>1, <2>2, <1>t
       DEF FallBack, Finish, IInv, TypeOK, LongestPrefix, WordsKept
<1>8. CASE Quote
  <2>2. body.form \in {"text", "error"}
    BY <1>8, <1>t DEF Quote, Wordless, IInv, TypeOK, BodyOf, Failure
  <2>1. /\ event' \in Event /\ event'.words = "text"
        /\ event'.len = body.text.len /\ event'.label = Label(call)
    <3>1. body.text.len \in 0 .. MaxMsg
      BY <1>8, <2>2, <1>t DEF Quote, Fits
    <3> QED
      BY <1>8, <3>1, <1>t, EventType DEF Quote, Finish
  <2> QED
    BY <1>8, <2>1, <2>2, <1>t
       DEF Quote, Fits, Finish, IInv, TypeOK, LongestPrefix, WordsKept
<1>9. CASE StartCut
  <2>2. body.form \in {"text", "error"}
    BY <1>9, <1>t DEF StartCut, Wordless, IInv, TypeOK, BodyOf, Failure
  <2> QED
    BY <1>9, <2>2, <1>t
       DEF StartCut, Fits, IInv, TypeOK, NoCutAhead, LongestPrefix, WordsKept, NoEvent
<1>10. CASE StepBack
  <2>1. NoCutAhead'
    BY <1>10, <1>t DEF StepBack, CharBoundary, IInv, NoCutAhead
  <2> QED
    BY <1>10, <2>1, <1>t
       DEF StepBack, IInv, TypeOK, LongestPrefix, WordsKept, NoEvent
<1>11. CASE Cut
  <2>1. body.form \in {"text", "error"} /\ body.text.len > MaxMsg /\ NoCutAhead
    BY <1>11 DEF Cut, IInv
  <2>2. end \in body.text.cuts /\ end <= MaxMsg
    BY <1>11, <2>1, <1>t DEF Cut, CharBoundary, IInv, TypeOK
  <2>3. end > 0
    <3> SUFFICES ASSUME end = 0 PROVE FALSE
      BY <1>t
    <3>1. PICK d \in body.text.cuts : 0 < d /\ d <= 4
      BY <2>1, <1>t, BodyFacts, TextFacts DEF IInv
    <3> QED
      BY <3>1, <2>1, <1>t DEF NoCutAhead
  <2>4. /\ event' \in Event /\ event'.words = "text"
        /\ event'.len = end /\ event'.label = Label(call)
    <3>1. end \in 0 .. MaxMsg
      BY <2>2, <1>t
    <3> QED
      BY <1>11, <3>1, <1>t, EventType DEF Cut, Finish
  <2> QED
    BY <1>11, <2>1, <2>2, <2>3, <2>4, <1>t
       DEF Cut, Finish, IInv, TypeOK, NoCutAhead, LongestPrefix, WordsKept
<1>12. CASE UNCHANGED vars
  BY <1>12 DEF vars, IInv, TypeOK, NoCutAhead, LongestPrefix, WordsKept
<1> QED
  BY <1>1, <1>2, <1>3, <1>4, <1>5, <1>6, <1>7, <1>8, <1>9, <1>10, <1>11, <1>12
     DEF Next, Built

\* It holds throughout.
LEMMA Invariance == Spec => []IInv
<1>1. Init => IInv
  BY InitIInv
<1>2. IInv /\ [Next]_vars => IInv'
  BY NextIInv
<1> QED
  BY <1>1, <1>2, PTL DEF Spec

-----------------------------------------------------------------------------

\* handle_error and build keep their types for every limit: no message is
\* longer than MAX_MSG, and every event carries one of the labels.
THEOREM TypeCorrect == Spec => []TypeOK
<1>1. IInv => TypeOK
  BY DEF IInv
<1> QED
  BY <1>1, Invariance, PTL

\* message cuts a text behind a whole character and as late as MAX_MSG allows.
THEOREM CutsAtCharacters == Spec => []LongestPrefix
<1>1. IInv => LongestPrefix
  BY DEF IInv
<1> QED
  BY <1>1, Invariance, PTL

\* An error body that arrives and can be read is passed on in its own words,
\* and a message is never empty: four bytes hold every character.
THEOREM UpstreamIsQuoted == Spec => []WordsKept
<1>1. IInv => WordsKept
  BY DEF IInv
<1> QED
  BY <1>1, Invariance, PTL

\* Whom an event blames, for every API and status: the four tables of labels
\* give the same answer for 400, 401, 403, 404, 429, 5xx and failures, and for
\* the rest each gives that of its default.
THEOREM BlameFollows == Spec => []BlameByStatus
<1>1. IInv => BlameByStatus
  <2> SUFFICES ASSUME IInv, event.label \notin {"none", "upstream"}
               PROVE  BlameByStatus
    BY DEF BlameByStatus
  <2>1. event.label = Label(call) /\ call \in Call
    BY DEF IInv, TypeOK, NoEvent
  <2>2. Blame(event.label) = BlameOf(call)
    BY <2>1, LabelBlame
  <2> QED
    BY <2>2 DEF BlameByStatus, BlameOf
<1> QED
  BY <1>1, Invariance, PTL

\* build passes the upstream's own error on if and only if the body is the
\* standard error of the client's API.
OwnInv ==
    /\ stage = "cutting" => ~ Standard
    /\ stage = "built" => (event.words = "upstream" <=> Standard)

LEMMA NextOwn == IInv /\ OwnInv /\ [Next]_vars => OwnInv'
<1> SUFFICES ASSUME IInv, OwnInv, [Next]_vars PROVE OwnInv'
  OBVIOUS
<1>1. ASSUME UNCHANGED <<body, call>> PROVE Standard' = Standard
  BY <1>1 DEF Standard
<1>2. CASE Collect \/ CollectFails \/ Decode \/ DecodeFails
  BY <1>2 DEF Collect, CollectFails, Decode, DecodeFails, OwnInv
<1>3. CASE Embed
  BY <1>1, <1>3 DEF Embed, Finish, OwnInv
<1>4. CASE Reason
  <2>1. ~ Standard
    BY <1>4 DEF Reason, Standard, IInv
  <2> QED
    BY <1>1, <1>4, <2>1 DEF Reason, Finish, OwnInv
<1>5. CASE FallBack \/ Quote
  BY <1>1, <1>5 DEF FallBack, Quote, Finish, OwnInv
<1>6. CASE StartCut \/ StepBack
  BY <1>1, <1>6 DEF StartCut, StepBack, OwnInv
<1>7. CASE Cut
  BY <1>1, <1>7 DEF Cut, Finish, OwnInv
<1>8. CASE UNCHANGED vars
  BY <1>1, <1>8 DEF vars, OwnInv
<1> QED
  BY <1>2, <1>3, <1>4, <1>5, <1>6, <1>7, <1>8 DEF Next, Built

\* So the extent of what ErrorResponses.cfg shows is this: the one error that is
\* not filled into an event of the Responses API is one whose code or message
\* is no string, and it is quoted instead.
THEOREM OnlyUncodedAreQuoted ==
    Spec => [](/\ stage = "built" => (event.words = "upstream" <=> Standard)
               /\ ~ ErrorFilledIn => ~ body.coded /\ event.words = "text")
<1>1. Init => OwnInv
  BY DEF Init, OwnInv
<1>2. ASSUME IInv, OwnInv
      PROVE  /\ stage = "built" => (event.words = "upstream" <=> Standard)
             /\ ~ ErrorFilledIn => ~ body.coded /\ event.words = "text"
  <2>1. stage # "built" => event.words = "none"
    BY <1>2 DEF IInv, NoEvent
  <2>2. stage = "built" /\ body.form = "error" => event.words \in {"upstream", "text"}
    BY <1>2 DEF IInv, WordsKept
  <2> QED
    BY <1>2, <2>1, <2>2 DEF OwnInv, ErrorFilledIn, Standard
<1> QED
  BY <1>1, <1>2, NextOwn, Invariance, PTL DEF Spec
=============================================================================
