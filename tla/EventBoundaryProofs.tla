------------------------- MODULE EventBoundaryProofs -------------------------
(***************************************************************************)
(* Proofs about EventBoundary, for every set of bytes and every length of  *)
(* the upstream's stream: the tracker is exact, heartbeats are invisible   *)
(* to the application and an error event stands alone.                     *)
(***************************************************************************)
EXTENDS EventBoundary, SequenceTheorems, TLAPS

-----------------------------------------------------------------------------
(* What the parser does with the bytes of the gateway *)

\* Concatenation with an empty and with a one-element sequence.
LEMMA ConcatFacts ==
    ASSUME NEW S, NEW s \in Seq(S), NEW e \in S
    PROVE  s \o <<>> = s /\ s \o <<e>> = Append(s, e)
BY SMT

\* The parser's operators return parsers.
LEMMA ParserClosed ==
    ASSUME NEW p \in Parser, NEW b \in Content
    PROVE  /\ ReadContent(p, b) \in Parser
           /\ ReadEol(p) \in Parser
           /\ ReadLf(p) \in Parser
           /\ ReadCr(p) \in Parser
<1>0. /\ p.line \in Line /\ p.event \in Event /\ p.events \in Seq(Event)
      /\ <<>> \in Line /\ <<>> \in Event
      /\ Append(p.line, b) \in Line
      /\ Append(p.event, p.line) \in Event
      /\ Append(p.events, p.event) \in Seq(Event)
  BY DEF Parser, Line, Event
<1>1. Dispatch(p) \in Parser

  <2> QED
    BY <1>0 DEF Dispatch, Parser
<1>2. KeepLine(p) \in Parser
  BY <1>0 DEF KeepLine, Parser
<1>3. ReadContent(p, b) \in Parser
  BY <1>0 DEF ReadContent, Parser
<1>4. ReadEol(p) \in Parser
  BY <1>1, <1>2 DEF ReadEol
<1>5. ReadLf(p) \in Parser
  BY <1>4 DEF ReadLf, Parser
<1>6. ReadCr(p) \in Parser
  BY <1>4 DEF ReadCr, Parser
<1> QED
  BY <1>3, <1>4, <1>5, <1>6

\* A heartbeat read between two events leaves no trace but the forgotten CR.
LEMMA HeartbeatRead ==
    ASSUME NEW p \in Parser, p.line = <<>>, p.event = <<>>, p.fresh
    PROVE  ReadHeartbeat(p) = [p EXCEPT !.cr = FALSE]
<1> DEFINE q == ReadContent(p, Colon)
           r == ReadLf(q)
<1>1. q = [p EXCEPT !.line = <<Colon>>, !.cr = FALSE]
  BY ContentAssumption DEF ReadContent, Parser, Line
<1>2. r = [p EXCEPT !.line = <<>>, !.fresh = FALSE, !.cr = FALSE]
  <2>1. q.line = <<Colon>> /\ ~ q.cr /\ Head(q.line) = Colon /\ q.line # <<>>
    BY <1>1 DEF Parser
  <2>2. r = KeepLine(q)
    BY <2>1 DEF ReadLf, ReadEol
  <2> QED
    BY <1>1, <2>1, <2>2 DEF KeepLine, Parser
<1>3. ReadLf(r) = [p EXCEPT !.cr = FALSE]
  <2>1. r.line = <<>> /\ ~ r.cr /\ r.event = <<>>
    BY <1>2 DEF Parser
  <2>2. ReadLf(r) = Dispatch(r)
    BY <2>1 DEF ReadLf, ReadEol
  <2> QED
    BY <1>2, <2>1, <2>2 DEF Dispatch, Parser
<1> QED
  BY <1>3 DEF ReadHeartbeat

\* The separator closes whatever line and event are open.
LEMMA SeparatorRead ==
    ASSUME NEW p \in Parser, p.cr => p.line = <<>>
    PROVE  /\ ReadSeparator(p) \in Parser
           /\ ReadSeparator(p).line = <<>>
           /\ ReadSeparator(p).event = <<>>
           /\ ReadSeparator(p).events = p.events \o CutShort(p)
<1> DEFINE q == ReadLf(p)
           k == KeepLine(p)
<1>0. ReadSeparator(p) \in Parser /\ q \in Parser
  BY ParserClosed, ContentAssumption DEF ReadSeparator
<1>e. /\ p.events \in Seq(Event) /\ p.event \in Event
      /\ \A e \in Event : p.events \o <<e>> = Append(p.events, e)
      /\ p.events \o <<>> = p.events
  BY ConcatFacts DEF Parser
<1>1. CASE p.cr
  <2>1. q.line = <<>> /\ ~ q.cr /\ q.event = p.event /\ q.events = p.events
    BY <1>1 DEF ReadLf, Parser
  <2>2. ReadLf(q) = Dispatch(q)
    BY <2>1 DEF ReadLf, ReadEol
  <2>3. CutShort(p) = IF p.event = <<>> THEN <<>> ELSE <<p.event>>
    BY <1>1 DEF CutShort
  <2>4. /\ Dispatch(q).line = <<>>
        /\ Dispatch(q).event = <<>>
        /\ Dispatch(q).events = IF p.event = <<>> THEN p.events
                                ELSE Append(p.events, p.event)
    BY <1>0, <2>1 DEF Dispatch, Parser
  <2> QED
    BY <1>0, <1>e, <2>2, <2>3, <2>4 DEF ReadSeparator
<1>2. CASE ~ p.cr /\ p.line = <<>>
  <2>1. q = Dispatch(p)
    BY <1>2 DEF ReadLf, ReadEol
  <2>2. /\ q.line = <<>> /\ ~ q.cr /\ q.event = <<>>
        /\ q.events = IF p.event = <<>> THEN p.events
                      ELSE Append(p.events, p.event)
    BY <1>2, <2>1 DEF Dispatch, Parser
  <2>3. ReadLf(q) = Dispatch(q)
    BY <2>2 DEF ReadLf, ReadEol
  <2>4. /\ Dispatch(q).line = <<>>
        /\ Dispatch(q).event = <<>>
        /\ Dispatch(q).events = q.events
    BY <1>0, <2>2 DEF Dispatch, Parser
  <2>5. CutShort(p) = IF p.event = <<>> THEN <<>> ELSE <<p.event>>
    BY <1>2 DEF CutShort
  <2> QED
    BY <1>0, <1>e, <2>2, <2>3, <2>4, <2>5 DEF ReadSeparator
<1>3. CASE ~ p.cr /\ p.line # <<>>
  <2>1. q = k
    BY <1>3 DEF ReadLf, ReadEol
  <2>2. /\ k.line = <<>> /\ ~ k.cr /\ k.events = p.events
        /\ k.event \in Event
    BY <1>0, <1>3, <2>1 DEF KeepLine, Parser
  <2>3. ReadLf(q) = Dispatch(q)
    BY <2>1, <2>2 DEF ReadLf, ReadEol
  <2>4. /\ Dispatch(q).line = <<>>
        /\ Dispatch(q).event = <<>>
        /\ Dispatch(q).events = IF k.event = <<>> THEN p.events
                                ELSE Append(p.events, k.event)
    BY <1>0, <2>1, <2>2 DEF Dispatch, Parser
  <2>5. CutShort(p) = IF k.event = <<>> THEN <<>> ELSE <<k.event>>
    BY <1>3 DEF CutShort
  <2> QED
    BY <1>0, <1>e, <2>2, <2>3, <2>4, <2>5 DEF ReadSeparator
<1> QED
  BY <1>1, <1>2, <1>3

\* An error event read between two events is handed over as it is.
LEMMA ReportRead ==
    ASSUME NEW p \in Parser, p.line = <<>>, p.event = <<>>
    PROVE  /\ ReadReport(p) \in Parser
           /\ ReadReport(p).events = Append(p.events, ReportEvent)
<1> DEFINE q == ReadContent(p, Report)
           r == ReadLf(q)
<1>0. q \in Parser /\ r \in Parser /\ ReadReport(p) \in Parser
  BY ParserClosed, ContentAssumption DEF ReadReport
<1>1. q = [p EXCEPT !.line = <<Report>>, !.cr = FALSE]
  BY ContentAssumption DEF ReadContent, Parser, Line
<1>2. /\ r.line = <<>> /\ ~ r.cr
      /\ r.event = ReportEvent /\ r.events = p.events
  <2>1. /\ q.line = <<Report>> /\ ~ q.cr /\ q.line # <<>>
        /\ Head(q.line) # Colon /\ q.event = <<>> /\ q.events = p.events
    BY <1>1, ContentAssumption DEF Parser
  <2>2. r = KeepLine(q)
    BY <2>1 DEF ReadLf, ReadEol
  <2> QED
    BY <1>0, <2>1, <2>2 DEF KeepLine, Parser, ReportEvent
<1>3. ReadLf(r) = Dispatch(r)
  BY <1>2 DEF ReadLf, ReadEol
<1>4. Dispatch(r).events = Append(p.events, ReportEvent)
  BY <1>0, <1>2 DEF Dispatch, Parser, ReportEvent
<1> QED
  BY <1>0, <1>3, <1>4 DEF ReadReport

-----------------------------------------------------------------------------
(* The inductive invariant *)

\* The tracker follows the upstream's parser flag by flag.
TrackerFollows ==
    /\ tracker.prev_cr = upstream.cr
    /\ tracker.line_empty <=> upstream.line = <<>>
    /\ BoundaryExact

\* A parser behind a CR has an empty line, and one that has seen no line since
\* the last empty one has no event.
Settled(p) ==
    /\ p.cr => p.line = <<>>
    /\ p.fresh => p.event = <<>>

\* The client's parser is the upstream's, but a heartbeat between CR and LF
\* makes it forget the CR: then both stand between two events, where the LF
\* that the client takes for an empty line of its own changes nothing.
SameReading ==
    /\ client.line = upstream.line
    /\ client.event = upstream.event
    /\ client.fresh = upstream.fresh
    /\ client.events = upstream.events
    /\ \/ client.cr = upstream.cr
       \/ ~ client.cr /\ upstream.cr /\ upstream.fresh

IInv ==
    /\ TypeOK
    /\ TrackerFollows
    /\ Settled(upstream)
    /\ status # "failed" => SameReading
    /\ ErrorEventSeparate

-----------------------------------------------------------------------------
(* The steps *)

\* A byte of text keeps the three readers together.
LEMMA ContentStep ==
    ASSUME IInv, ForwardContent
    PROVE  IInv'
<1> USE DEF IInv
<1>1. PICK b \in Content : /\ upstream' = ReadContent(upstream, b)
                           /\ client' = ReadContent(client, b)
  BY DEF ForwardContent
<1>2. /\ status = "streaming" /\ status' = "streaming"
      /\ fed \in Nat /\ fed' \in 0 .. MaxBytes
      /\ tracker' = FeedContent(tracker)
  BY ContentAssumption DEF ForwardContent, Forward, TypeOK
<1>3. upstream' \in Parser /\ client' \in Parser
  BY <1>1, ParserClosed DEF TypeOK
<1>4. TypeOK'
  BY <1>2, <1>3 DEF TypeOK, FeedContent, Tracker
<1>5. Append(upstream.line, b) # <<>>
  <2>1. upstream.line \in Seq(Content)
    BY DEF TypeOK, Parser, Line
  <2> QED
    BY <2>1, AppendProperties
<1>6. TrackerFollows'
  BY <1>1, <1>2, <1>5 DEF TrackerFollows, BoundaryExact, FeedContent,
                          ReadContent, TypeOK, Parser
<1>7. Settled(upstream)'
  BY <1>1 DEF Settled, ReadContent, TypeOK, Parser
<1>8. SameReading'
  BY <1>1, <1>2 DEF SameReading, ReadContent, TypeOK, Parser
<1>9. ErrorEventSeparate'
  BY <1>2 DEF ErrorEventSeparate
<1> QED
  BY <1>4, <1>6, <1>7, <1>8, <1>9

\* What the end of a line does to a parser, field by field.
LEMMA EolFields ==
    ASSUME NEW p \in Parser
    PROVE  /\ ReadEol(p) \in Parser
           /\ ReadEol(p).line = <<>>
           /\ ReadEol(p).cr = p.cr
           /\ ReadEol(p).fresh <=> p.line = <<>>
           /\ p.line = <<>> => ReadEol(p).event = <<>>
<1>1. ReadEol(p) \in Parser
  BY ParserClosed, ContentAssumption
<1> QED
  BY <1>1 DEF ReadEol, Dispatch, KeepLine, Parser

\* Two parsers that differ at most in cr end a line alike.
LEMMA EolAgrees ==
    ASSUME NEW p \in Parser, NEW q \in Parser,
           p.line = q.line, p.event = q.event,
           p.fresh = q.fresh, p.events = q.events
    PROVE  /\ ReadEol(p).event = ReadEol(q).event
           /\ ReadEol(p).events = ReadEol(q).events
BY DEF ReadEol, Dispatch, KeepLine, Parser

\* The end of an empty line changes nothing behind an empty line.
LEMMA EolIdle ==
    ASSUME NEW p \in Parser, p.line = <<>>, p.event = <<>>, p.fresh
    PROVE  ReadEol(p) = p
BY DEF ReadEol, Dispatch, Parser

\* LF, first or second half of a line terminator.
LEMMA LfStep ==
    ASSUME IInv, ForwardLf
    PROVE  IInv'
<1> USE DEF IInv
<1>1. /\ upstream' = ReadLf(upstream)
      /\ client' = ReadLf(client)
      /\ tracker' = FeedLf(tracker)
      /\ status = "streaming" /\ status' = "streaming"
      /\ fed' \in 0 .. MaxBytes
  BY ContentAssumption DEF ForwardLf, Forward, TypeOK
<1>2. /\ upstream \in Parser /\ client \in Parser /\ tracker \in Tracker
      /\ upstream' \in Parser /\ client' \in Parser
  BY <1>1, ParserClosed, ContentAssumption DEF TypeOK
<1>3. tracker' \in Tracker
  BY <1>1, <1>2 DEF FeedLf, EndLine, Tracker
<1>4. TypeOK'
  BY <1>1, <1>2, <1>3 DEF TypeOK, FeedLf, EndLine, Tracker
<1>5. /\ ReadEol(upstream) \in Parser
      /\ ReadEol(upstream).line = <<>>
      /\ ReadEol(upstream).cr = upstream.cr
      /\ ReadEol(upstream).fresh <=> upstream.line = <<>>
      /\ upstream.line = <<>> => ReadEol(upstream).event = <<>>
  BY <1>2, EolFields
<1>6. TrackerFollows'
  BY <1>1, <1>2, <1>5 DEF TrackerFollows, BoundaryExact, FeedLf, EndLine,
                          ReadLf, Tracker, Parser
<1>7. Settled(upstream)'
  BY <1>1, <1>2, <1>5 DEF Settled, ReadLf, Parser
<1>8. SameReading'
  <2>0. SameReading
    BY <1>1
  <2>1. CASE client.cr = upstream.cr /\ upstream.cr
    BY <2>0, <2>1, <1>1, <1>2 DEF SameReading, ReadLf, Parser
  <2>2. CASE client.cr = upstream.cr /\ ~ upstream.cr
    <3>1. /\ ReadEol(client).line = <<>>
          /\ ReadEol(client).cr = client.cr
          /\ ReadEol(client).fresh <=> client.line = <<>>
          /\ ReadEol(client) \in Parser
      BY <1>2, EolFields
    <3>2. /\ ReadEol(client).event = ReadEol(upstream).event
          /\ ReadEol(client).events = ReadEol(upstream).events
      BY <2>0, <1>2, EolAgrees DEF SameReading
    <3>3. upstream' = ReadEol(upstream) /\ client' = ReadEol(client)
      BY <1>1, <2>2 DEF ReadLf
    <3> QED
      BY <2>0, <2>2, <1>5, <3>1, <3>2, <3>3 DEF SameReading, Parser
  <2>3. CASE ~ client.cr /\ upstream.cr /\ upstream.fresh
    <3>1. client.line = <<>> /\ client.event = <<>> /\ client.fresh
      BY <2>0, <2>3 DEF SameReading, Settled
    <3>2. client' = client
      BY <1>1, <1>2, <2>3, <3>1, EolIdle DEF ReadLf
    <3>3. upstream' = [upstream EXCEPT !.cr = FALSE]
      BY <1>1, <2>3 DEF ReadLf
    <3> QED
      BY <1>2, <2>0, <2>3, <3>2, <3>3 DEF SameReading, Parser
  <2> QED
    BY <2>0, <2>1, <2>2, <2>3, <1>2 DEF SameReading, Parser
<1>9. ErrorEventSeparate'
  BY <1>1 DEF ErrorEventSeparate
<1> QED
  BY <1>4, <1>6, <1>7, <1>8, <1>9

\* CR ends a line at once, whatever follows it.
LEMMA CrStep ==
    ASSUME IInv, ForwardCr
    PROVE  IInv'
<1> USE DEF IInv
<1>1. /\ upstream' = ReadCr(upstream)
      /\ client' = ReadCr(client)
      /\ tracker' = FeedCr(tracker)
      /\ status = "streaming" /\ status' = "streaming"
      /\ fed' \in 0 .. MaxBytes
  BY ContentAssumption DEF ForwardCr, Forward, TypeOK
<1>2. /\ upstream \in Parser /\ client \in Parser /\ tracker \in Tracker
      /\ upstream' \in Parser /\ client' \in Parser
  BY <1>1, ParserClosed, ContentAssumption DEF TypeOK
<1>3. tracker' \in Tracker
  BY <1>1, <1>2 DEF FeedCr, EndLine, Tracker
<1>4. TypeOK'
  BY <1>1, <1>2, <1>3 DEF TypeOK, FeedCr, EndLine, Tracker
<1>5. /\ ReadEol(upstream) \in Parser /\ ReadEol(client) \in Parser
      /\ ReadEol(upstream).line = <<>> /\ ReadEol(client).line = <<>>
      /\ ReadEol(upstream).fresh <=> upstream.line = <<>>
      /\ ReadEol(client).fresh <=> client.line = <<>>
      /\ upstream.line = <<>> => ReadEol(upstream).event = <<>>
  BY <1>2, EolFields
<1>6. TrackerFollows'
  BY <1>1, <1>2, <1>5 DEF TrackerFollows, BoundaryExact, FeedCr, EndLine,
                          ReadCr, Tracker, Parser
<1>7. Settled(upstream)'
  BY <1>1, <1>2, <1>5 DEF Settled, ReadCr, Parser
<1>8. SameReading'
  <2>0. SameReading
    BY <1>1
  <2>1. /\ ReadEol(client).event = ReadEol(upstream).event
        /\ ReadEol(client).events = ReadEol(upstream).events
    BY <2>0, <1>2, EolAgrees DEF SameReading
  <2> QED
    BY <2>0, <2>1, <1>1, <1>2, <1>5 DEF SameReading, ReadCr, Parser
<1>9. ErrorEventSeparate'
  BY <1>1 DEF ErrorEventSeparate
<1> QED
  BY <1>4, <1>6, <1>7, <1>8, <1>9

\* A heartbeat between two events.
LEMMA HeartbeatStep ==
    ASSUME IInv, Heartbeat
    PROVE  IInv'
<1> USE DEF IInv
<1>1. /\ status = "streaming" /\ tracker.at_boundary
      /\ client' = ReadHeartbeat(client)
      /\ UNCHANGED <<tracker, upstream, status, fed>>
  BY DEF Heartbeat, HeartbeatAllowed
<1>2. SameReading /\ client \in Parser /\ upstream \in Parser
  BY <1>1 DEF TypeOK
<1>3. client.line = <<>> /\ client.event = <<>> /\ client.fresh
  BY <1>1, <1>2 DEF SameReading, TrackerFollows, BoundaryExact, Settled
<1>4. client' = [client EXCEPT !.cr = FALSE]
  BY <1>1, <1>2, <1>3, HeartbeatRead
<1>5. TypeOK'
  BY <1>1, <1>2, <1>4 DEF TypeOK, Parser
<1>6. SameReading'
  BY <1>1, <1>2, <1>3, <1>4 DEF SameReading, Parser
<1>7. TrackerFollows' /\ Settled(upstream)' /\ ErrorEventSeparate'
  BY <1>1 DEF TrackerFollows, BoundaryExact, Settled, ErrorEventSeparate
<1> QED
  BY <1>5, <1>6, <1>7

\* The upstream breaks, at a boundary or in the middle of an event.
LEMMA ErrorStep ==
    ASSUME IInv, UpstreamError
    PROVE  IInv'
<1> USE DEF IInv
<1>1. /\ status = "streaming" /\ status' = "failed"
      /\ client' = ReadReport(Separated(client))
      /\ UNCHANGED <<tracker, upstream, fed>>
  BY DEF UpstreamError
<1>2. SameReading /\ client \in Parser /\ upstream \in Parser
  BY <1>1 DEF TypeOK
<1>3. client.cr => client.line = <<>>
  BY <1>2 DEF SameReading, Settled, Parser
<1>4. CutShort(client) = CutShort(upstream)
  BY <1>2 DEF CutShort, KeepLine, SameReading, Parser
<1>5. /\ Separated(client) \in Parser
      /\ Separated(client).line = <<>> /\ Separated(client).event = <<>>
      /\ Separated(client).events = upstream.events \o CutShort(upstream)
  <2>1. CASE tracker.at_boundary
    <3>1. client.line = <<>> /\ client.event = <<>>
      BY <2>1, <1>2 DEF SameReading, TrackerFollows, BoundaryExact, Settled
    <3>2. CutShort(client) = <<>>
      BY <3>1 DEF CutShort
    <3>3. client.events \in Seq(Event)
      BY <1>2 DEF Parser
    <3>4. client.events \o <<>> = client.events
      BY <3>3, ConcatEmptySeq
    <3> QED
      BY <2>1, <3>1, <3>2, <3>4, <1>2, <1>4 DEF Separated, SameReading
  <2>2. CASE ~ tracker.at_boundary
    BY <2>2, <1>2, <1>3, <1>4, SeparatorRead DEF Separated, SameReading
  <2> QED
    BY <2>1, <2>2
<1>6. /\ client' \in Parser
      /\ client'.events = Append(Separated(client).events, ReportEvent)
  BY <1>1, <1>5, ReportRead
<1>7. TypeOK'
  BY <1>1, <1>6 DEF TypeOK
<1>8. ErrorEventSeparate'
  <2>1. Separated(client).events \in Seq(Event)
    BY <1>5 DEF Parser
  <2>2. CutShort(upstream)' = CutShort(upstream)
    BY <1>1 DEF CutShort, KeepLine
  <2>3. ReportEvent \in Event
    BY ContentAssumption DEF ReportEvent, Event, Line
  <2>4. client'.events = upstream.events \o CutShort(upstream) \o <<ReportEvent>>
    BY <2>1, <2>3, <1>5, <1>6, ConcatFacts
  <2> QED
    BY <1>1, <2>2, <2>4 DEF ErrorEventSeparate
<1>9. TrackerFollows' /\ Settled(upstream)'
  BY <1>1 DEF TrackerFollows, BoundaryExact, Settled
<1> QED
  BY <1>1, <1>7, <1>8, <1>9

-----------------------------------------------------------------------------
(* The theorems *)

\* The invariant holds at the start of the stream.
LEMMA InitIInv == Init => IInv
<1> SUFFICES ASSUME Init PROVE IInv
  OBVIOUS
<1>1. NewParser \in Parser
  BY DEF NewParser, Parser, Event, Line
<1>2. TypeOK
  BY <1>1, ContentAssumption DEF Init, TypeOK, NewTracker, Tracker
<1>3. TrackerFollows /\ Settled(upstream) /\ SameReading /\ ErrorEventSeparate
  BY DEF Init, TrackerFollows, BoundaryExact, Settled, SameReading,
         ErrorEventSeparate, NewTracker, NewParser
<1> QED
  BY <1>2, <1>3 DEF IInv

\* Every step preserves it.
LEMMA NextIInv == IInv /\ [Next]_vars => IInv'
<1> SUFFICES ASSUME IInv, [Next]_vars PROVE IInv'
  OBVIOUS
<1>1. CASE ForwardContent
  BY <1>1, ContentStep
<1>2. CASE ForwardLf
  BY <1>2, LfStep
<1>3. CASE ForwardCr
  BY <1>3, CrStep
<1>4. CASE Heartbeat
  BY <1>4, HeartbeatStep
<1>5. CASE UpstreamEnd
  BY <1>5 DEF IInv, UpstreamEnd, TypeOK, TrackerFollows, BoundaryExact,
              Settled, SameReading, ErrorEventSeparate
<1>6. CASE UpstreamError
  BY <1>6, ErrorStep
<1>7. CASE UNCHANGED vars
  <2>1. CutShort(upstream)' = CutShort(upstream)
    BY <1>7 DEF vars, CutShort, KeepLine
  <2> QED
    BY <1>7, <2>1 DEF vars, IInv, TypeOK, TrackerFollows, BoundaryExact,
                      Settled, SameReading, ErrorEventSeparate
<1> QED
  BY <1>1, <1>2, <1>3, <1>4, <1>5, <1>6, <1>7 DEF Next, Stopped

\* The tracker, the parsers and the invariants that tie them together, in
\* every state of every stream.
THEOREM Invariance == Spec => []IInv
<1>1. Init => IInv
  BY InitIInv
<1>2. IInv /\ [Next]_vars => IInv'
  BY NextIInv
<1> QED
  BY <1>1, <1>2, PTL DEF Spec

\* Type correctness of the tracker of handle_success and of both readings.
THEOREM TypeCorrect == Spec => []TypeOK
<1>1. IInv => TypeOK
  BY DEF IInv
<1> QED
  BY <1>1, Invariance, PTL

\* at_boundary is exact for streams of any length and any bytes.
THEOREM TrackerIsExact == Spec => []BoundaryExact
<1>1. IInv => BoundaryExact
  BY DEF IInv, TrackerFollows
<1> QED
  BY <1>1, Invariance, PTL

\* No heartbeat of handle_success tears, merges or ends an event.
THEOREM NoTornEvent == Spec => []HeartbeatsInvisible
<1>1. IInv => HeartbeatsInvisible
  BY DEF IInv, SameReading, HeartbeatsInvisible
<1> QED
  BY <1>1, Invariance, PTL

\* The error event of handle_success is always an event of its own.
THEOREM ErrorStandsAlone == Spec => []ErrorEventSeparate
<1>1. IInv => ErrorEventSeparate
  BY DEF IInv
<1> QED
  BY <1>1, Invariance, PTL
=============================================================================
