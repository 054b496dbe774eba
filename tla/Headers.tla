------------------------------ MODULE Headers ------------------------------
(***************************************************************************)
(* One exchange through the gateway, as far as the heads of its messages   *)
(* go: where proxy_req and build_upstream_request send the request and     *)
(* with which headers, which way handle_stream takes from the answer, and  *)
(* what each way returns to the client, next to the body it returns.       *)
(*                                                                         *)
(* A header map is a function from the names that are present to whoever   *)
(* has written the value.  A message lists options in Connection headers.  *)
(* Of values, the answer's Content-Encoding and Content-Type matter: the   *)
(* first is the sequence of its lines, each the sequence of its codings,   *)
(* in the order in which they were applied.                                *)
(***************************************************************************)
EXTENDS Naturals, Sequences, SequencesExt

CONSTANTS
    ClientNames,    \* names that clients use
    UpstreamNames,  \* names that upstreams use
    Listable        \* those that they list in a Connection header

VARIABLES
    config,     \* --upstream
    stage,      \* see Stages
    way,        \* "transparent" or "sse": see module Dispatch
    request,    \* the client's message, while the gateway has it
    uri,        \* where the request goes, until it is sent
    forwarded,  \* the headers that the upstream receives, until then
    answer,     \* the upstream's message
    returned,   \* the headers that the client receives
    body,       \* what it receives with them: see Bodies
    decoded     \* the coding that decoder_stream is told to undo

vars == <<config, stage, way, request, uri, forwarded, answer, returned, body,
          decoded>>

Stages == {"received", "forwarded", "sent", "answered", "waiting", "returned"}

Bodies == {"none",
           "raw",       \* the upstream's bytes
           "stream",    \* decoded, with heartbeats and error events
           "error",     \* heartbeats and an error event
           "report"}    \* the JSON of bad_gateway

Map(names, who) == UNION {[present -> {who}] : present \in SUBSET names}

Possible(m) == m.options # {} => "connection" \in DOMAIN m.headers

\* Paths are sequences of segments.  An absolute-form names an authority of its
\* own, an authority-form (CONNECT) has nothing else.
Targets ==
    {t \in [form : {"origin", "absolute", "authority"}, path : {<<>>, <<"chat">>},
            query : {"none", "client"}] :
        t.form = "authority" => t.path = <<>> /\ t.query = "none"}

Requests ==
    {m \in [headers : Map(ClientNames, "client"), options : SUBSET Listable,
            target : Targets] : Possible(m)}

Tokens == {"identity", "gzip", "snappy"}

Lines ==
    {<<l>> : l \in {<<>>} \cup {<<a>> : a \in Tokens} \cup Tokens \X Tokens}
      \cup {<<<<a>>, <<b>>>> : a, b \in Tokens}

Answers ==
    {m \in [headers : Map(UpstreamNames, "upstream"), options : SUBSET Listable,
            success : BOOLEAN, media : {"none", "event-stream", "other"},
            codings : {<<>>} \cup Lines] :
        /\ Possible(m)
        /\ m.codings = <<>> <=> "content-encoding" \notin DOMAIN m.headers
        /\ m.media = "none" <=> "content-type" \notin DOMAIN m.headers}

NoHeaders == [n \in {} |-> "nobody"]
NoRequest == [headers |-> NoHeaders, options |-> {},
              target |-> [form |-> "origin", path |-> <<>>, query |-> "none"]]
NoAnswer == [headers |-> NoHeaders, options |-> {}, success |-> FALSE,
             media |-> "none", codings |-> <<>>]
NoUri == [scheme |-> "none", authority |-> "none", path |-> <<>>, query |-> "none"]

-----------------------------------------------------------------------------
(* config.rs *)

\* What --upstream may be parsed to: any Uri.
Upstreams == [scheme : {"http", "https", "none"}, authority : {"none", "upstream"},
              path : {<<>>, <<"base">>}, query : {"none", "upstream"}]

\* ResolvedConfig::parse: otherwise the program does not start.  A query is
\* not looked at.
PathIgnored(c) == c.scheme = "http" /\ c.authority # "none"     \* mutant
Accepted(c) ==
    /\ c.scheme = "http"
    /\ c.authority # "none"
    /\ c.path = <<>>

-----------------------------------------------------------------------------
(* proxy.rs *)

HOP_BY_HOP == {"keep-alive", "transfer-encoding", "te", "trailer", "upgrade",
               "proxy-authorization", "proxy-authenticate"}

Without(h, names) == [n \in DOMAIN h \ names |-> h[n]]

Insert(h, name, who) ==
    [n \in DOMAIN h \cup {name} |-> IF n = name THEN who ELSE h[n]]

StripListUnread(h, options) ==  \* mutant: Connection goes before it is read
    Without(h, {"connection"} \cup HOP_BY_HOP)

strip_hop_by_hop(h, options) ==
    Without(h, {"connection"} \cup options \cup HOP_BY_HOP)

\* path_and_query is one part of a Uri: the client's replaces both.
upstream_uri(c, t) == [c EXCEPT !.path = t.path, !.query = t.query]

-----------------------------------------------------------------------------
(* encoding.rs and sse.rs *)

Coding == {"identity", "gzip", "deflate", "br", "zstd"}

\* parse_content_encoding
FirstCoding(lines) ==   \* mutant: further lines and codings are not looked at
    IF lines = <<>> THEN "identity"
    ELSE IF lines[1] # <<>> /\ lines[1][1] \in Coding THEN lines[1][1] ELSE "none"

parse_content_encoding(lines) ==
    IF lines = <<>> THEN "identity"
    ELSE IF /\ Len(lines) = 1 /\ Len(lines[1]) = 1
            /\ lines[1][1] \in Coding
         THEN lines[1][1] ELSE "none"

AnyMedia(m) == TRUE     \* mutant
is_event_stream(m) == m.media = "event-stream"

Decodable(m) == parse_content_encoding(m.codings) # "none"

\* What handle_stream makes a stream of when it comes within the window.
Streamed(m) == m.success /\ is_event_stream(m) /\ Decodable(m)

-----------------------------------------------------------------------------

Init ==
    /\ config \in {c \in Upstreams : Accepted(c)}
    /\ stage = "received"
    /\ way \in {"transparent", "sse"}
    /\ request \in Requests
    /\ uri = NoUri /\ forwarded = NoHeaders
    /\ answer = NoAnswer
    /\ returned = NoHeaders /\ body = "none" /\ decoded = "none"

\* proxy_req, build_upstream_request
HostKept(h) == h                        \* mutant
HostRewritten(h) == Insert(Without(h, {"host"}), "host", "gateway")

Forward ==
    /\ stage = "received"
    /\ stage' = "forwarded"
    /\ uri' = upstream_uri(config, request.target)
    /\ forwarded' = strip_hop_by_hop(HostRewritten(request.headers),
                                     request.options)
    /\ UNCHANGED <<config, way, request, answer, returned, body, decoded>>

\* client.request takes the request.
Send ==
    /\ stage = "forwarded"
    /\ stage' = "sent"
    /\ request' = NoRequest
    /\ uri' = NoUri /\ forwarded' = NoHeaders
    /\ UNCHANGED <<config, way, answer, returned, body, decoded>>

KeepsRequest == UNCHANGED <<config, way, request, uri, forwarded>>

\* The upstream (external) answers, on the SSE path within the window.
Answer ==
    /\ stage = "sent"
    /\ stage' = "answered"
    /\ answer' \in Answers
    /\ KeepsRequest /\ UNCHANGED <<returned, body, decoded>>

Return(h, b, coding) ==
    /\ stage' = "returned"
    /\ returned' = h /\ body' = b /\ decoded' = coding
    /\ KeepsRequest /\ UNCHANGED answer

\* passthrough_response
Relay ==
    /\ stage = "answered"
    /\ way = "sse" => ~ Streamed(answer)
    /\ Return(strip_hop_by_hop(answer.headers, answer.options), "raw", "none")

\* passthrough_sse_response: the stream is decoded on its way.
LengthKept(h) == Without(h, {"content-encoding"})    \* mutant
Undeclared(h) == Without(h, {"content-length", "content-encoding"})

ReturnStream ==
    /\ stage = "answered" /\ way = "sse"
    /\ Streamed(answer)
    /\ Return(Insert(Undeclared(strip_hop_by_hop(answer.headers, answer.options)),
                     "x-accel-buffering", "gateway"),
              "stream", parse_content_encoding(answer.codings))

\* handle_stream at the end of its window: headers of its own.
OwnHeaders ==
    [n \in {"content-type", "cache-control", "x-accel-buffering"} |-> "gateway"]

ReturnOwn ==
    /\ stage = "sent" /\ way = "sse"
    /\ stage' = "waiting"
    /\ returned' = OwnHeaders /\ body' = "stream"
    /\ KeepsRequest /\ UNCHANGED <<answer, decoded>>

\* bridge goes on with what comes later: handle_success or handle_error.
LateAnswer ==
    /\ stage = "waiting"
    /\ \E m \in Answers :
         /\ answer' = m
         /\ IF m.success /\ Decodable(m)
            THEN body' = "stream" /\ decoded' = parse_content_encoding(m.codings)
            ELSE body' = "error" /\ UNCHANGED decoded
    /\ stage' = "returned"
    /\ KeepsRequest /\ UNCHANGED returned

LateFailure ==
    /\ stage = "waiting"
    /\ Return(returned, "error", "none")

\* bad_gateway: the request fails.
ReturnReport ==
    /\ stage = "sent"
    /\ Return([n \in {"content-type"} |-> "gateway"], "report", "none")

Returned == stage = "returned" /\ UNCHANGED vars

Next ==
    \/ Forward \/ Send \/ Answer
    \/ Relay \/ ReturnStream
    \/ ReturnOwn \/ LateAnswer \/ LateFailure
    \/ ReturnReport
    \/ Returned

Spec == Init /\ [][Next]_vars

-----------------------------------------------------------------------------
(* Properties *)

EndToEnd(m) == {n \in DOMAIN m.headers :
                    n \notin HOP_BY_HOP \cup m.options \cup {"connection"}}

\* strip_hop_by_hop runs behind the rewriting of Host: the request reaches the
\* upstream with every header that is meant for it and with nothing that is
\* between the client and the gateway.  Only Host is the gateway's, even when
\* the client has sent none; a client that lists it in Connection takes it away
\* again, and set_host(false) leaves it away.
RequestCrosses ==
    stage = "forwarded" =>
        forwarded = [n \in EndToEnd(request) \cup ({"host"} \ request.options) |->
                        IF n = "host" THEN "gateway" ELSE "client"]

\* Every request goes to the upstream that is configured, whatever authority
\* the client names, and asks there for what the client has asked for behind
\* the path of --upstream.  Of an accepted --upstream upstream_uri therefore
\* loses its query, which parse has not refused, and nothing else.
UpstreamHonoured ==
    stage = "forwarded" =>
        uri = [config EXCEPT !.path = config.path \o request.target.path,
                             !.query = request.target.query]

\* The codings of a message by their places in its list: those that do nothing
\* are left out.
Applied(m) ==
    LET all == FlattenSeq(m.codings)
    IN  [i \in {j \in DOMAIN all : all[j] # "identity"} |-> all[i]]

Plain == [i \in {} |-> "identity"]

\* What is left of them when the outermost one is undone.
Undone(codings, coding) ==
    LET outermost == {i \in DOMAIN codings : \A j \in DOMAIN codings : j <= i}
    IN  Without(codings, {i \in outermost : codings[i] = coding})

\* The codings that are still on the bytes which the client receives.
Carried ==
    CASE body \in {"none", "report", "error"} -> Plain
      [] body = "raw"                         -> Applied(answer)
      [] body = "stream"                      -> Undone(Applied(answer), decoded)

Told(h) == IF "content-encoding" \in DOMAIN h THEN Applied(answer) ELSE Plain

\* The client can read what it receives: the codings that it is told of are
\* the ones its bytes still have, on every way (decoder_stream undoes the one
\* that Content-Encoding named before anything was stripped), and it is never
\* told a length that heartbeats and decoding have changed.  Only an upstream
\* that lists Content-Encoding in Connection has it taken off bytes that are
\* relayed as they are.
ResponseDescribesBody ==
    /\ \/ Carried = Told(returned)
       \/ body = "raw" /\ "content-encoding" \in answer.options
    /\ "content-length" \in DOMAIN returned =>
         body = "raw" /\ "content-length" \in DOMAIN answer.headers

\* Heartbeats and error events are only written into what is an event stream,
\* the gateway's own or one that the upstream has declared: whatever else the
\* upstream answers within the window, a failure included, is left alone.  The
\* client is told so, unless the upstream lists Content-Type in Connection.
OnlyStreamsAreTouched ==
    body \in {"stream", "error"} =>
        \/ "content-type" \in DOMAIN returned /\ returned["content-type"] = "gateway"
        \/ /\ answer.media = "event-stream" /\ answer.success
           /\ "content-type" \in DOMAIN returned \/ "content-type" \in answer.options

\* What the upstream says to the client arrives, and what it says to the
\* gateway does not.
ResponseCrosses ==
    LET theirs == {n \in DOMAIN returned : returned[n] = "upstream"}
    IN  /\ theirs \subseteq EndToEnd(answer)
        /\ body = "raw" => theirs = EndToEnd(answer)
        /\ "upstream" \in {returned[n] : n \in DOMAIN returned} =>
             EndToEnd(answer) \ theirs \subseteq
                {"content-length", "content-encoding", "x-accel-buffering"}
=============================================================================
