---------------------------- MODULE EventBoundary ----------------------------
(***************************************************************************)
(* The byte stream that handle_success (src/src/sse.rs) writes to a client *)
(* and the EventBoundaryTracker that decides whether a heartbeat may be    *)
(* put into it.                                                            *)
(*                                                                         *)
(* Three machines read bytes here:                                         *)
(*   tracker   the three flags of the code, fed with the upstream's bytes; *)
(*   upstream  an SSE parser that reads what the upstream sent: it says    *)
(*             what the stream means when nothing is inserted;             *)
(*   client    the same SSE parser reading what the client receives, the   *)
(*             upstream's bytes with the gateway's own bytes in between.   *)
(*                                                                         *)
(* The parser is external (every SSE client has one): it ends a line at    *)
(* LF, CR or CR LF, skips comment lines and dispatches at an empty line.   *)
(*                                                                         *)
(* The actions take one byte at a time.  A chunk of the code is a run of   *)
(* them with no heartbeat in between, so every way to cut the stream into  *)
(* chunks is a behaviour here (TrackerFeed shows that feed of a chunk is   *)
(* the composition of these steps).                                        *)
(***************************************************************************)
EXTENDS BoundaryTracker, Naturals, Sequences

CONSTANTS
    Content,    \* the bytes that are neither LF nor CR
    Colon,      \* the byte that starts a comment line
    Report,     \* the byte that stands for the text of the error event
    MaxBytes    \* bound: upstream bytes in one behaviour

ASSUME ContentAssumption ==
    /\ Colon \in Content
    /\ Report \in Content
    /\ Report # Colon
    /\ MaxBytes \in Nat

VARIABLES
    tracker,    \* EventBoundaryTracker
    upstream,   \* parser over the upstream's bytes
    client,     \* parser over the bytes the client receives
    status,     \* "streaming", "ended" or "failed"
    fed         \* upstream bytes so far

vars == <<tracker, upstream, client, status, fed>>

-----------------------------------------------------------------------------
(* The SSE parser of a client *)

Line == Seq(Content)
Event == Seq(Line)

Parser == [line   : Line,       \* the line being read
           event  : Event,      \* the lines of the event being read
           fresh  : BOOLEAN,    \* no line since the last empty one
           events : Seq(Event), \* what the application has been given
           cr     : BOOLEAN]    \* the last byte was CR

NewParser == [line |-> <<>>, event |-> <<>>, fresh |-> TRUE,
              events |-> <<>>, cr |-> FALSE]

ReadContent(p, b) == [p EXCEPT !.line = Append(@, b), !.cr = FALSE]

\* An empty line: hand over the event, unless nothing but comments was read.
Dispatch(p) ==
    [p EXCEPT !.events = IF p.event = <<>> THEN @ ELSE Append(@, p.event),
              !.event = <<>>, !.fresh = TRUE]

\* A line with text: a comment is dropped, a field joins the event.
KeepLine(p) ==
    [p EXCEPT !.event = IF Head(p.line) = Colon THEN @ ELSE Append(@, p.line),
              !.line = <<>>, !.fresh = FALSE]

ReadEol(p) == IF p.line = <<>> THEN Dispatch(p) ELSE KeepLine(p)

ReadLf(p) == IF p.cr THEN [p EXCEPT !.cr = FALSE] ELSE ReadEol(p)

ReadCr(p) == [ReadEol(p) EXCEPT !.cr = TRUE]

\* ":\n\n"
ReadHeartbeat(p) == ReadLf(ReadLf(ReadContent(p, Colon)))

\* "\n\n", the separator before an error event
ReadSeparator(p) == ReadLf(ReadLf(p))

\* "data: ...\n\n", the error event with its text as one byte
ReadReport(p) == ReadLf(ReadLf(ReadContent(p, Report)))

ReportEvent == <<<<Report>>>>

-----------------------------------------------------------------------------
(* The stream *)

Init ==
    /\ tracker = NewTracker
    /\ upstream = NewParser
    /\ client = NewParser
    /\ status = "streaming"
    /\ fed = 0

\* The upstream's stream yields a byte: it is fed to the tracker and written.
Forward ==
    /\ status = "streaming"
    /\ fed < MaxBytes
    /\ fed' = fed + 1
    /\ UNCHANGED status

ForwardContent ==
    /\ Forward
    /\ \E b \in Content :
         /\ upstream' = ReadContent(upstream, b)
         /\ client' = ReadContent(client, b)
    /\ tracker' = FeedContent(tracker)

ForwardLf ==
    /\ Forward
    /\ tracker' = FeedLf(tracker)
    /\ upstream' = ReadLf(upstream)
    /\ client' = ReadLf(client)

ForwardCr ==
    /\ Forward
    /\ tracker' = FeedCr(tracker)
    /\ upstream' = ReadCr(upstream)
    /\ client' = ReadCr(client)

\* The heartbeat timer fires: nothing is written in the middle of an event,
\* and the heartbeat itself is not fed to the tracker.
AtLineStart == tracker.line_empty   \* mutant: between lines is enough
HeartbeatAllowed == tracker.at_boundary

Heartbeat ==
    /\ status = "streaming"
    /\ HeartbeatAllowed
    /\ client' = ReadHeartbeat(client)
    /\ UNCHANGED <<tracker, upstream, status, fed>>

\* The upstream's stream ends.
UpstreamEnd ==
    /\ status = "streaming"
    /\ status' = "ended"
    /\ UNCHANGED <<tracker, upstream, client, fed>>

\* The upstream's stream breaks: close the open event, then report the error.
NotSeparated(p) == p    \* mutant: report it at once
Separated(p) == IF tracker.at_boundary THEN p ELSE ReadSeparator(p)

UpstreamError ==
    /\ status = "streaming"
    /\ status' = "failed"
    /\ client' = ReadReport(Separated(client))
    /\ UNCHANGED <<tracker, upstream, fed>>

Stopped ==
    /\ status # "streaming"
    /\ UNCHANGED vars

Next ==
    \/ ForwardContent
    \/ ForwardLf
    \/ ForwardCr
    \/ Heartbeat
    \/ UpstreamEnd
    \/ UpstreamError
    \/ Stopped

Spec == Init /\ [][Next]_vars

-----------------------------------------------------------------------------
(* Properties *)

\* Type invariant of the parsers and of the tracker's flags, of which only five
\* of the eight combinations occur: the code between two events and a CR that
\* may be half of a CR LF are both where a line has ended.
TypeOK ==
    /\ tracker \in Tracker
    /\ tracker.at_boundary \/ tracker.prev_cr => tracker.line_empty
    /\ upstream \in Parser
    /\ client \in Parser
    /\ status \in {"streaming", "ended", "failed"}
    /\ fed \in 0 .. MaxBytes

\* at_boundary of EventBoundaryTracker is TRUE exactly when the upstream's
\* stream stands at its start or behind an empty line, however LF, CR and
\* CR LF are mixed and wherever feed's chunks are cut: never inside an event,
\* where a heartbeat would tear it, and never FALSE between two events, where
\* keeping the connection alive depends on it.
BoundaryExact ==
    tracker.at_boundary <=> upstream.line = <<>> /\ upstream.fresh

\* Heartbeats written by handle_success are invisible to the application:
\* while the stream runs, and when it ends, the client has been given exactly
\* the events that the upstream sent, and holds the same unfinished event.
HeartbeatsInvisible ==
    status # "failed" =>
        /\ client.events = upstream.events
        /\ client.event = upstream.event
        /\ client.line = upstream.line

\* The event that the application is given when the stream read by p is closed
\* by empty lines: none if no field has been read since the last event.
CutShort(p) ==
    LET q == IF p.line = <<>> THEN p ELSE KeepLine(p)
    IN  IF q.event = <<>> THEN <<>> ELSE <<q.event>>

\* When the upstream breaks, the error event of handle_success reaches the
\* application as an event of its own, after every complete event and after
\* the one that the break cut short, if any; it never becomes a line of it.
ErrorEventSeparate ==
    status = "failed" =>
        client.events = upstream.events \o CutShort(upstream) \o <<ReportEvent>>
=============================================================================
