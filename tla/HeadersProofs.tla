--------------------------- MODULE HeadersProofs ---------------------------
(***************************************************************************)
(* Proofs about module Headers, for every set of names and every set of    *)
(* options that a Connection header may list.                              *)
(***************************************************************************)
EXTENDS Headers, TLAPS

\* What the client has been given, by the body that it comes with.
Given ==
    \/ /\ body = "raw"
       /\ answer \in Answers
       /\ returned = strip_hop_by_hop(answer.headers, answer.options)
    \/ /\ body = "stream"
       /\ answer \in Answers /\ Streamed(answer)
       /\ returned = Insert(Undeclared(strip_hop_by_hop(answer.headers,
                                                        answer.options)),
                            "x-accel-buffering", "gateway")
       /\ decoded = parse_content_encoding(answer.codings)
    \/ /\ body = "stream"
       /\ answer \in Answers /\ Decodable(answer)
       /\ returned = OwnHeaders
       /\ decoded = parse_content_encoding(answer.codings)
    \/ body = "error" /\ returned = OwnHeaders
    \/ body = "report" /\ returned = [n \in {"content-type"} |-> "gateway"]

ExchangeInv ==
    /\ config \in Upstreams /\ Accepted(config)
    /\ stage \in Stages
    /\ stage \in {"received", "forwarded"} => request \in Requests
    /\ stage = "forwarded" =>
         /\ uri = upstream_uri(config, request.target)
         /\ forwarded = strip_hop_by_hop(HostRewritten(request.headers),
                                         request.options)
    /\ stage \in {"received", "forwarded", "sent"} => answer = NoAnswer
    /\ stage = "answered" => answer \in Answers
    /\ stage \in {"received", "forwarded", "sent", "answered"} =>
         returned = NoHeaders /\ body = "none"
    /\ stage = "waiting" =>
         returned = OwnHeaders /\ body = "stream" /\ answer = NoAnswer
    /\ stage = "returned" => Given

LEMMA InitExchange == Init => ExchangeInv
  BY DEF Init, ExchangeInv, Stages

LEMMA NextExchange == ExchangeInv /\ [Next]_vars => ExchangeInv'
<1> SUFFICES ASSUME ExchangeInv, [Next]_vars
             PROVE  ExchangeInv'
  OBVIOUS
<1> USE DEF Stages
<1>1. CASE Forward
  BY <1>1 DEF Forward, ExchangeInv
<1>2. CASE Send
  BY <1>2 DEF Send, ExchangeInv
<1>3. CASE Answer
  BY <1>3 DEF Answer, KeepsRequest, ExchangeInv
<1>4. CASE Relay
  BY <1>4 DEF Relay, Return, KeepsRequest, ExchangeInv, Given
<1>5. CASE ReturnStream
  BY <1>5 DEF ReturnStream, Return, KeepsRequest, ExchangeInv, Given
<1>6. CASE ReturnOwn
  BY <1>6 DEF ReturnOwn, KeepsRequest, ExchangeInv
<1>7. CASE LateAnswer
  BY <1>7 DEF LateAnswer, KeepsRequest, ExchangeInv, Given
<1>8. CASE LateFailure
  BY <1>8 DEF LateFailure, Return, KeepsRequest, ExchangeInv, Given
<1>9. CASE ReturnReport
  BY <1>9 DEF ReturnReport, Return, KeepsRequest, ExchangeInv, Given
<1>10. CASE Returned \/ UNCHANGED vars
  BY <1>10 DEF Returned, vars, ExchangeInv, Given
<1> QED
  BY <1>1, <1>2, <1>3, <1>4, <1>5, <1>6, <1>7, <1>8, <1>9, <1>10 DEF Next

LEMMA ExchangeInvariant == Spec => []ExchangeInv
  BY InitExchange, NextExchange, PTL DEF Spec

-----------------------------------------------------------------------------

\* The messages of a peer: every value is its own.
LEMMA Heads ==
  /\ \A m \in Requests :
        /\ DOMAIN m.headers \subseteq ClientNames
        /\ m.headers = [n \in DOMAIN m.headers |-> "client"]
  /\ \A m \in Answers :
        /\ DOMAIN m.headers \subseteq UpstreamNames
        /\ m.headers = [n \in DOMAIN m.headers |-> "upstream"]
        /\ (m.codings = <<>>) <=> ("content-encoding" \notin DOMAIN m.headers)
        /\ (m.media = "none") <=> ("content-type" \notin DOMAIN m.headers)
<1>1. ASSUME NEW names, NEW who, NEW h \in Map(names, who)
      PROVE  DOMAIN h \subseteq names /\ h = [n \in DOMAIN h |-> who]
  BY <1>1 DEF Map
<1>2. \A m \in Requests : m.headers \in Map(ClientNames, "client")
  BY DEF Requests
<1>3. \A m \in Answers :
        /\ m.headers \in Map(UpstreamNames, "upstream")
        /\ (m.codings = <<>>) <=> ("content-encoding" \notin DOMAIN m.headers)
        /\ (m.media = "none") <=> ("content-type" \notin DOMAIN m.headers)
  BY DEF Answers
<1> QED
  BY <1>1, <1>2, <1>3

\* What strip_hop_by_hop leaves of a message is what is meant for the other end.
LEMMA Stripped ==
  ASSUME NEW m
  PROVE  /\ DOMAIN strip_hop_by_hop(m.headers, m.options) = EndToEnd(m)
         /\ \A n \in EndToEnd(m) :
              strip_hop_by_hop(m.headers, m.options)[n] = m.headers[n]
  BY DEF strip_hop_by_hop, Without, EndToEnd

\* The request arrives with the client's end-to-end headers and the gateway's
\* Host, whatever the client sends and lists: of what is stripped behind the
\* rewriting only the client's own list can name Host, and then none arrives.
THEOREM RequestsCross == Spec => []RequestCrosses
<1>1. ExchangeInv => RequestCrosses
  <2> SUFFICES ASSUME ExchangeInv, stage = "forwarded"
               PROVE  forwarded = [n \in EndToEnd(request)
                                            \cup ({"host"} \ request.options) |->
                                     IF n = "host" THEN "gateway" ELSE "client"]
    BY DEF RequestCrosses
  <2> DEFINE h == request.headers
             Arriving == EndToEnd(request) \cup ({"host"} \ request.options)
  <2>1. /\ request \in Requests
        /\ forwarded = strip_hop_by_hop(HostRewritten(h), request.options)
    BY DEF ExchangeInv
  <2>2. h = [n \in DOMAIN h |-> "client"]
    BY <2>1, Heads
  <2>3. HostRewritten(h) = [n \in DOMAIN h \cup {"host"} |->
                              IF n = "host" THEN "gateway" ELSE "client"]
    BY <2>2 DEF HostRewritten, Insert, Without
  <2>4. "host" \notin HOP_BY_HOP \cup {"connection"}
    BY DEF HOP_BY_HOP
  <2>5. (DOMAIN h \cup {"host"}) \ ({"connection"} \cup request.options \cup HOP_BY_HOP)
          = Arriving
    BY <2>4 DEF EndToEnd
  <2> QED
    BY <2>1, <2>3, <2>5 DEF strip_hop_by_hop, Without
<1> QED
  BY <1>1, ExchangeInvariant, PTL

\* Every request goes to the configured upstream and asks there for what the
\* client has asked for: parse accepts no base path that upstream_uri would
\* replace, and a query of the base, which it does accept, is replaced.
THEOREM UpstreamReached == Spec => []UpstreamHonoured
<1>1. ExchangeInv => UpstreamHonoured
  <2> SUFFICES ASSUME ExchangeInv, stage = "forwarded"
               PROVE  uri = [config EXCEPT !.path = config.path \o request.target.path,
                                           !.query = request.target.query]
    BY DEF UpstreamHonoured
  <2>1. /\ uri = upstream_uri(config, request.target)
        /\ request \in Requests /\ config.path = <<>>
    BY DEF ExchangeInv, Accepted
  <2>2. request.target.path \in {<<>>, <<"chat">>}
    BY <2>1 DEF Requests, Targets
  <2>3. <<>> \o request.target.path = request.target.path
    BY <2>2
  <2> QED
    BY <2>1, <2>3 DEF upstream_uri
<1> QED
  BY <1>1, ExchangeInvariant, PTL

\* Heartbeats are only written into what is an event stream: is_event_stream
\* has read the upstream's declaration before it could be stripped.
THEOREM OthersUntouched == Spec => []OnlyStreamsAreTouched
<1>1. ExchangeInv => OnlyStreamsAreTouched
  <2> SUFFICES ASSUME ExchangeInv, body \in {"stream", "error"}
               PROVE  OnlyStreamsAreTouched
    BY DEF OnlyStreamsAreTouched
  <2>1. CASE returned = OwnHeaders
    BY <2>1 DEF OwnHeaders, OnlyStreamsAreTouched
  <2>2. CASE /\ answer \in Answers /\ Streamed(answer)
             /\ returned = Insert(Undeclared(strip_hop_by_hop(answer.headers,
                                                              answer.options)),
                                  "x-accel-buffering", "gateway")
    <3>1. answer.media = "event-stream" /\ answer.success
      BY <2>2 DEF Streamed, is_event_stream
    <3>2. "content-type" \in DOMAIN answer.headers
      BY <2>2, <3>1, Heads
    <3>3. "content-type" \in EndToEnd(answer) \/ "content-type" \in answer.options
      BY <3>2 DEF EndToEnd, HOP_BY_HOP
    <3>4. "content-type" \in DOMAIN returned \/ "content-type" \in answer.options
      BY <2>2, <3>3, Stripped DEF Insert, Undeclared, Without
    <3> QED
      BY <3>1, <3>4 DEF OnlyStreamsAreTouched
  <2> QED
    BY <2>1, <2>2 DEF ExchangeInv, Given, Stages
<1> QED
  BY <1>1, ExchangeInvariant, PTL

\* What the upstream says to the client arrives and what it says to the gateway
\* does not.
THEOREM ResponsesCross == Spec => []ResponseCrosses
<1>1. ExchangeInv => ResponseCrosses
  <2> SUFFICES ASSUME ExchangeInv PROVE ResponseCrosses
    OBVIOUS
  <2> DEFINE theirs == {n \in DOMAIN returned : returned[n] = "upstream"}
  <2>1. CASE /\ body = "raw" /\ answer \in Answers
             /\ returned = strip_hop_by_hop(answer.headers, answer.options)
    <3>1. answer.headers = [n \in DOMAIN answer.headers |-> "upstream"]
      BY <2>1, Heads
    <3>2. EndToEnd(answer) \subseteq DOMAIN answer.headers
      BY DEF EndToEnd
    <3>3. theirs = EndToEnd(answer)
      BY <2>1, <3>1, <3>2, Stripped
    <3> QED
      BY <3>3 DEF ResponseCrosses
  <2>2. CASE /\ body = "stream" /\ answer \in Answers
             /\ returned = Insert(Undeclared(strip_hop_by_hop(answer.headers,
                                                              answer.options)),
                                  "x-accel-buffering", "gateway")
    <3>1. answer.headers = [n \in DOMAIN answer.headers |-> "upstream"]
      BY <2>2, Heads
    <3>2. EndToEnd(answer) \subseteq DOMAIN answer.headers
      BY DEF EndToEnd
    <3>3. theirs = EndToEnd(answer) \ {"content-length", "content-encoding",
                                       "x-accel-buffering"}
      BY <2>2, <3>1, <3>2, Stripped DEF Insert, Undeclared, Without
    <3> QED
      BY <2>2, <3>3 DEF ResponseCrosses
  <2>3. CASE returned \in {NoHeaders, OwnHeaders, [n \in {"content-type"} |-> "gateway"]}
             /\ body # "raw"
    <3>1. \A n \in DOMAIN returned : returned[n] # "upstream"
      BY <2>3 DEF NoHeaders, OwnHeaders
    <3> QED
      BY <2>3, <3>1 DEF ResponseCrosses
  <2> QED
    BY <2>1, <2>2, <2>3 DEF ExchangeInv, Given, Stages
<1> QED
  BY <1>1, ExchangeInvariant, PTL

-----------------------------------------------------------------------------
(* Codings *)

\* A message without a Content-Encoding carries no coding.
LEMMA NothingApplied ==
    ASSUME NEW m, m.codings = <<>>
    PROVE  Applied(m) = Plain
<1>1. FlattenSeq(m.codings) = <<>>
  BY DEF FlattenSeq
<1> QED
  BY <1>1 DEF Applied, Plain

\* A list of one coding is that coding.
LEMMA OneApplied ==
    ASSUME NEW m, NEW a, m.codings = <<<<a>>>>
    PROVE  Applied(m) = [i \in (IF a = "identity" THEN {} ELSE {1}) |-> a]
<1> DEFINE f == [i \in 1 .. 1 |-> <<a>>]
<1>1. f = [i \in 1 .. Len(<<<<a>>>>) |->
             IF i = 1 THEN <<<<a>>>>[i] ELSE f[i - 1] \o <<<<a>>>>[i]]
  OBVIOUS
<1>2. FlattenSeq(m.codings) = <<a>>
  BY <1>1 DEF FlattenSeq
<1>3. DOMAIN <<a>> = {1} /\ <<a>>[1] = a
  OBVIOUS
<1> QED
  BY <1>2, <1>3 DEF Applied

\* parse_content_encoding names a coding only if it is the only one.
LEMMA OnlyOneCoding ==
    ASSUME NEW m \in Answers, Decodable(m)
    PROVE  \/ m.codings = <<>>
           \/ m.codings = <<<<parse_content_encoding(m.codings)>>>>
<1>1. m.codings = <<>> \/ m.codings \in Lines
  BY DEF Answers
<1>2. CASE m.codings \in Lines
  <2>1. /\ Len(m.codings) = 1 /\ Len(m.codings[1]) = 1
        /\ parse_content_encoding(m.codings) = m.codings[1][1]
    BY <1>2 DEF Decodable, parse_content_encoding, Lines
  <2>2. PICK l \in {<<>>} \cup {<<a>> : a \in Tokens} \cup Tokens \X Tokens :
           m.codings = <<l>>
    BY <1>2, <2>1 DEF Lines
  <2>3. PICK a \in Tokens : l = <<a>>
    BY <2>1, <2>2
  <2> QED
    BY <2>1, <2>2, <2>3
<1> QED
  BY <1>1, <1>2

\* So decoding it leaves none.
LEMMA DecodingLeavesNone ==
    ASSUME NEW m \in Answers, Decodable(m)
    PROVE  Undone(Applied(m), parse_content_encoding(m.codings)) = Plain
<1>1. CASE m.codings = <<>>
  <2>1. Applied(m) = Plain
    BY <1>1, NothingApplied
  <2> QED
    BY <2>1 DEF Undone, Without, Plain
<1>2. CASE m.codings = <<<<parse_content_encoding(m.codings)>>>>
  <2> DEFINE a == parse_content_encoding(m.codings)
  <2>1. Applied(m) = [i \in (IF a = "identity" THEN {} ELSE {1}) |-> a]
    BY <1>2, OneApplied
  <2> QED
    BY <2>1 DEF Undone, Without, Plain
<1> QED
  BY <1>1, <1>2, OnlyOneCoding

\* The client is told exactly the codings that are still on its bytes, and a
\* length only of bytes that have not been touched: decoder_stream removes what
\* passthrough_sse_response no longer declares, and nothing else is decoded.
THEOREM BodiesAreDescribed == Spec => []ResponseDescribesBody
<1>1. ExchangeInv => ResponseDescribesBody
  <2> SUFFICES ASSUME ExchangeInv PROVE ResponseDescribesBody
    OBVIOUS
  <2> USE DEF ResponseDescribesBody, Carried, Told
  <2>1. CASE /\ body = "raw" /\ answer \in Answers
             /\ returned = strip_hop_by_hop(answer.headers, answer.options)
    <3>1. answer.codings = <<>> <=> "content-encoding" \notin DOMAIN answer.headers
      BY <2>1, Heads
    <3>2. "content-encoding" \in DOMAIN returned
            <=> /\ "content-encoding" \in DOMAIN answer.headers
                /\ "content-encoding" \notin answer.options
      BY <2>1, Stripped DEF EndToEnd, HOP_BY_HOP
    <3>3. "content-length" \in DOMAIN returned
            => "content-length" \in DOMAIN answer.headers
      BY <2>1, Stripped DEF EndToEnd
    <3>4. \/ "content-encoding" \in DOMAIN returned
          \/ Applied(answer) = Plain
          \/ "content-encoding" \in answer.options
      BY <3>1, <3>2, NothingApplied
    <3> QED
      BY <2>1, <3>3, <3>4
  <2>2. CASE /\ body = "stream" /\ answer \in Answers /\ Decodable(answer)
             /\ \/ returned = OwnHeaders
                \/ returned = Insert(Undeclared(strip_hop_by_hop(answer.headers,
                                                                answer.options)),
                                     "x-accel-buffering", "gateway")
             /\ decoded = parse_content_encoding(answer.codings)
    <3>1. /\ "content-encoding" \notin DOMAIN returned
          /\ "content-length" \notin DOMAIN returned
      BY <2>2 DEF OwnHeaders, Insert, Undeclared, Without
    <3>2. Carried = Plain
      BY <2>2, DecodingLeavesNone
    <3> QED
      BY <3>1, <3>2
  <2>3. CASE stage = "waiting"
    <3>1. body = "stream" /\ answer = NoAnswer /\ returned = OwnHeaders
      BY <2>3 DEF ExchangeInv
    <3>2. Applied(answer) = Plain
      BY <3>1, NothingApplied DEF NoAnswer
    <3>3. Carried = Plain
      BY <3>1, <3>2 DEF Undone, Without, Plain
    <3> QED
      BY <3>1, <3>3 DEF OwnHeaders
  <2>4. CASE /\ body \in {"none", "error", "report"}
             /\ returned \in {NoHeaders, OwnHeaders, [n \in {"content-type"} |-> "gateway"]}
    BY <2>4 DEF NoHeaders, OwnHeaders
  <2> QED
    BY <2>1, <2>2, <2>3, <2>4 DEF ExchangeInv, Given, Stages, Streamed
<1> QED
  BY <1>1, ExchangeInvariant, PTL
=============================================================================
