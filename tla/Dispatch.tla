------------------------------ MODULE Dispatch ------------------------------
(***************************************************************************)
(* handle of src/src/lib.rs: which way a request takes.  A request to one  *)
(* of the LLM endpoints is buffered up to max_probe_body and looked into;  *)
(* one that asks for a stream takes the SSE path (module Bridge), every    *)
(* other one is proxied as it is.                                          *)
(*                                                                         *)
(* Bodies are abstracted to their lengths and to what their JSON asks for; *)
(* bytes arrive one by one, which covers every way to cut a body into      *)
(* frames.  A body that does not decode is one that does not ask.          *)
(***************************************************************************)
EXTENDS Naturals

CONSTANTS
    MaxProbe,   \* --max-probe-body, a usize
    Width,      \* 2^64: the values of a u64
    MaxBody     \* bound: bytes of a body, encoded or decoded

ASSUME DispatchAssumption ==
    /\ Width \in Nat
    /\ MaxProbe \in Nat /\ MaxProbe < Width
    /\ MaxBody \in Nat

VARIABLES
    req,    \* the request
    stage,  \* how far handle has come
    read,   \* bytes of the body taken from the client
    out     \* bytes sent to the upstream

vars == <<req, stage, read, out>>

Suffixes == {"/chat/completions", "/responses", "/messages"}

Request ==
    [post     : BOOLEAN,
     path     : Suffixes \cup {":streamGenerateContent", "other"},
     altSse   : BOOLEAN,                            \* the query has alt=sse
     declared : BOOLEAN,                            \* it has a Content-Length
     size     : 0 .. MaxBody,                       \* of the body
     accept   : BOOLEAN,                            \* Accept: text/event-stream
     coding   : {"identity", "coded", "unknown"},   \* Content-Encoding
     text     : 0 .. MaxBody,                       \* size once decoded
     asks     : BOOLEAN]                            \* its JSON has stream: true

\* Requests that a client can send.
Possible(r) ==
    /\ r.coding # "coded" => r.text = r.size
    /\ r.asks => r.size > 0 /\ r.text > 0

Stages == {"received", "collecting",
           "sse", "buffered",               \* whole body sent upstream
           "transparent", "passed", "cut",  \* passed on as it comes
           "413", "400"}

-----------------------------------------------------------------------------
(* detect.rs and encoding.rs *)

\* match_endpoint
AnyMethod(r) ==     \* mutant: without the method
    \/ r.path \in Suffixes
    \/ r.path = ":streamGenerateContent" /\ r.altSse

Candidate(r) ==
    /\ r.post
    /\ \/ r.path \in Suffixes
       \/ r.path = ":streamGenerateContent" /\ r.altSse

DeclaredTooLong(r) == r.declared /\ r.size > MaxProbe

\* What decode_async reads: take(max_out as u64 + 1) of the decoded bytes.
Take(max) == (max + 1) % Width

Taken(r) == IF r.text <= Take(MaxProbe) THEN r.text ELSE Take(MaxProbe)

\* decode_bytes: the whole text, or nothing that parses.
Decoded(r) == r.coding = "coded" => Taken(r) <= MaxProbe /\ Taken(r) = r.text

\* The rules of handle for a body that has been collected.
Streams(r) ==
    \/ r.path = ":streamGenerateContent"
    \/ r.accept
    \/ r.asks /\ Decoded(r)

-----------------------------------------------------------------------------
(* handle *)

Init ==
    /\ req \in {r \in Request : Possible(r)}
    /\ stage = "received"
    /\ read = 0 /\ out = 0

\* No endpoint of an LLM, or a body that is known to be too long.
GoTransparent ==
    /\ stage = "received"
    /\ ~ Candidate(req) \/ DeclaredTooLong(req)
    /\ stage' = "transparent"
    /\ UNCHANGED <<req, read, out>>

StartCollecting ==
    /\ stage = "received"
    /\ Candidate(req) /\ ~ DeclaredTooLong(req)
    /\ stage' = "collecting"
    /\ UNCHANGED <<req, read, out>>

\* Another byte of the body is there.
More == read < req.size

\* Limited: the limit is exceeded by the byte that does not fit any more.
LimitTooEarly == read + 1 >= MaxProbe   \* mutant
LimitTooLate == read > MaxProbe         \* mutant
LimitReached == read >= MaxProbe

Collect ==
    /\ stage = "collecting" /\ More
    /\ ~ LimitReached
    /\ read' = read + 1
    /\ UNCHANGED <<req, stage, out>>

ExceedLimit ==
    /\ stage = "collecting" /\ More
    /\ LimitReached
    /\ stage' = "413"
    /\ UNCHANGED <<req, read, out>>

\* The client breaks off in the middle of the body.
CollectBreaks ==
    /\ stage = "collecting" /\ More
    /\ stage' = "400"
    /\ UNCHANGED <<req, read, out>>

\* The body that handle_stream and proxy_buffered send: the bytes collected.
ProbedBody == IF req.coding = "coded" THEN Taken(req) ELSE read \* mutant
Collected == read

Classify ==
    /\ stage = "collecting" /\ read = req.size
    /\ stage' = IF Streams(req) THEN "sse" ELSE "buffered"
    /\ out' = Collected
    /\ UNCHANGED <<req, read>>

\* proxy: every byte is passed on as it comes.
Pass ==
    /\ stage = "transparent" /\ More
    /\ read' = read + 1 /\ out' = out + 1
    /\ UNCHANGED <<req, stage>>

PassEnds ==
    /\ stage = "transparent" /\ read = req.size
    /\ stage' = "passed"
    /\ UNCHANGED <<req, read, out>>

PassBreaks ==
    /\ stage = "transparent" /\ More
    /\ stage' = "cut"
    /\ UNCHANGED <<req, read, out>>

Dispatched ==
    /\ stage \in {"sse", "buffered", "passed", "cut", "413", "400"}
    /\ UNCHANGED vars

Next ==
    \/ GoTransparent \/ StartCollecting
    \/ Collect \/ ExceedLimit \/ CollectBreaks \/ Classify
    \/ Pass \/ PassEnds \/ PassBreaks
    \/ Dispatched

Spec == Init /\ [][Next]_vars

-----------------------------------------------------------------------------
(* Properties *)

\* Type invariant, with what bounds the two counters: the upstream is never sent
\* a byte for which the client has not sent one.
TypeOK ==
    /\ req \in Request
    /\ stage \in Stages
    /\ read \in 0 .. req.size
    /\ out \in 0 .. read

\* The gateway never holds more than max_probe_body bytes of a request, nor
\* decodes more than one byte beyond that to look into it.
BufferBounded ==
    /\ stage \in {"collecting", "sse", "buffered"} => read <= MaxProbe
    /\ Taken(req) <= MaxProbe + 1

\* The upstream receives the client's own bytes, all of them before anything
\* is called complete, and not one of a request that is refused: looking into
\* a compressed body never changes what is forwarded.
RawOrNothing ==
    /\ stage \in {"sse", "buffered", "passed"} => out = req.size
    /\ stage \in {"transparent", "cut"} => out = read
    /\ stage \in {"received", "collecting", "413", "400"} => out = 0

\* A request that is forwarded takes the SSE path if and only if it is a POST
\* to an LLM endpoint whose body fits into max_probe_body and that asks for a
\* stream: by its path (Gemini), by its Accept header, or by a body that fits
\* once it is decoded.
ToEndpoint(r) ==
    /\ r.post
    /\ \/ r.path \in Suffixes
       \/ r.path = ":streamGenerateContent" /\ r.altSse

AsksForStream(r) ==
    \/ r.path = ":streamGenerateContent"
    \/ r.accept
    \/ r.asks /\ r.text <= MaxProbe

WrappedIffAsked ==
    stage \in {"sse", "buffered", "transparent", "passed", "cut"} =>
        (stage = "sse" <=> /\ ToEndpoint(req) /\ AsksForStream(req)
                           /\ req.size <= MaxProbe)

\* A request is only refused for its body: 413 for one that turns out to be
\* too long without having said so, 400 for one that the client breaks off.
\* Whatever is no LLM request is never refused.
RefusedForCause ==
    /\ stage = "413" => ~ req.declared /\ req.size > MaxProbe
    /\ stage = "400" => read < req.size
    /\ stage \in {"413", "400"} => req.post /\ req.path # "other"
=============================================================================
