---------------------------- MODULE BridgeProofs ----------------------------
(***************************************************************************)
(* Proofs about Bridge, for every interval, every capacity of the channel  *)
(* and every number of chunks: type correctness, the timing of heartbeats, *)
(* and that the SSE path keeps what it promises to the client, implements  *)
(* the contract that Server relies on and never ends a stream as if it     *)
(* were complete.                                                          *)
(***************************************************************************)
EXTENDS Bridge, Countdown, SequenceTheorems, TLAPS

\* Once unfolded, the variables of every action.
USE DEF upstreamVars, clientVars

-----------------------------------------------------------------------------
(* Type correctness *)

\* The channel after a push, a pop and a disconnect.
LEMMA ChannelTypes ==
    ASSUME NEW c \in Seq(Frame), NEW f \in Frame
    PROVE  /\ Append(c, f) \in Seq(Frame)
           /\ Len(Append(c, f)) = Len(c) + 1
           /\ Append(c, f)[Len(c) + 1] = f
           /\ c # <<>> => /\ Head(c) \in Frame
                          /\ Tail(c) \in Seq(Frame)
                          /\ Len(Tail(c)) = Len(c) - 1
           /\ Len(c) \in Nat
BY AppendProperties, HeadTailProperties, LenProperties

\* The frames of write_event are frames.
LEMMA FrameTypes ==
    ASSUME NEW m \in 0 .. MaxChunks
    PROVE  /\ FrameOf("heartbeat", m) \in Frame /\ FrameOf("chunk", m) \in Frame
           /\ FrameOf("separator", m) \in Frame /\ FrameOf("error", m) \in Frame
           /\ NoFrame \notin Frame
BY DEF FrameOf, Frame, NoFrame

\* Sending a frame leaves a channel of frames within its capacity.
LEMMA PushType ==
    ASSUME TypeOK, NEW f \in Frame, Room, Push(f)
    PROVE  /\ chan' \in Seq(Frame) /\ Len(chan') <= Capacity
           /\ idle' \in 0 .. Interval + 1
<1>1. Len(chan) \in Nat /\ Len(chan) < Capacity /\ chan' = Append(chan, f)
  BY ChannelTypes DEF TypeOK, Room, Push
<1>2. chan' \in Seq(Frame) /\ Len(chan') = Len(chan) + 1
  BY <1>1, ChannelTypes DEF TypeOK
<1> QED
  BY <1>1, <1>2, BridgeAssumption DEF Push

\* The state in which handle_sse starts has the types.
LEMMA InitTypeOK == Init => TypeOK
<1> SUFFICES ASSUME Init PROVE TypeOK
  OBVIOUS
<1>1. chan \in Seq(Frame) /\ Len(chan) = 0 /\ sent \in Seq({"whole", "open"})
      /\ Len(sent) = 0
  BY DEF Init
<1>2. view \in View
  BY BridgeAssumption DEF Init, NewView, View
<1>3. pulled \in 0 .. Len(sent) /\ Len(chan) <= Capacity /\ Len(sent) <= MaxChunks
      /\ idle \in 0 .. Interval + 1 /\ left \in 0 .. Interval
  BY <1>1, BridgeAssumption DEF Init
<1>4. job \in Frame \cup {NoFrame} /\ ctl \in Ctl /\ answer \in Answers \cup {"pending"}
  BY DEF Init, Ctl
<1> QED
  BY <1>1, <1>2, <1>3, <1>4, BridgeAssumption DEF Init, TypeOK

\* Every step preserves the types.
LEMMA NextTypeOK == TypeOK /\ [Next]_vars => TypeOK'
<1> SUFFICES ASSUME TypeOK, [Next]_vars PROVE TypeOK'
  OBVIOUS
<1> USE BridgeAssumption
<1>a. Interval \in 0 .. Interval /\ 0 \in 0 .. Interval + 1 /\ Len(sent) \in Nat
  BY LenProperties DEF TypeOK
<1>1. CASE AnsweredSse
  BY <1>1, <1>a DEF AnsweredSse, TypeOK, Ctl
<1>2. CASE AnsweredOther
  BY <1>2 DEF AnsweredOther, TypeOK, Ctl
<1>3. CASE WindowCloses
  BY <1>3, <1>a DEF WindowCloses, TypeOK, Ctl
<1>4. CASE AnsweredLate
  <2>1. ctl' \in Ctl
    BY <1>4 DEF AnsweredLate, TypeOK, Answers, Ctl
  <2> QED
    BY <1>4, <2>1 DEF AnsweredLate, LateTimer, TypeOK
<1>5. CASE Beat
  <2>1. pulled \in 0 .. MaxChunks
    BY <1>a DEF TypeOK
  <2>2. job' \in Frame
    BY <1>5, <2>1, FrameTypes DEF Beat
  <2> QED
    BY <1>5, <2>2 DEF Beat, TypeOK
<1>6. CASE SkipBeat
  BY <1>6, <1>a DEF SkipBeat, Reset, TypeOK, Ctl
<1>7. CASE PullChunk
  <2>1. pulled' \in 0 .. Len(sent) /\ pulled' \in 0 .. MaxChunks
    BY <1>7, <1>a DEF PullChunk, TypeOK
  <2>2. job' \in Frame
    BY <1>7, <2>1, FrameTypes DEF PullChunk
  <2> QED
    BY <1>7, <2>1, <2>2 DEF PullChunk, TypeOK
<1>8. CASE PullEnd
  BY <1>8 DEF PullEnd, AfterBreak, TypeOK, Ctl
<1>9. CASE Collected
  BY <1>9 DEF Collected, TypeOK, Ctl
<1>10. CASE Written
  <2>1. job \in Frame
    BY <1>10 DEF Written, TypeOK
  <2>2. /\ chan' \in Seq(Frame) /\ Len(chan') <= Capacity
        /\ idle' \in 0 .. Interval + 1
    BY <1>10, <2>1, PushType DEF Written
  <2>3. ctl' \in Ctl /\ left' \in 0 .. Interval
    BY <1>10, <1>a DEF Written, Rearm, Reset, TypeOK, Ctl
  <2> QED
    BY <1>10, <2>2, <2>3 DEF Written, TypeOK
<1>11. CASE WriteFails
  BY <1>11 DEF WriteFails, AfterFailure, TypeOK, Ctl
<1>12. CASE WriteSeparator
  <2>1. FrameOf("separator", pulled) \in Frame
    BY <1>a, FrameTypes DEF TypeOK
  <2>2. /\ chan' \in Seq(Frame) /\ Len(chan') <= Capacity
        /\ idle' \in 0 .. Interval + 1
    <3>1. CASE Room /\ Push(FrameOf("separator", pulled))
      BY <3>1, <2>1, PushType
    <3>2. CASE UNCHANGED <<chan, idle>>
      BY <3>2 DEF TypeOK
    <3> QED
      BY <1>12, <3>1, <3>2 DEF WriteSeparator
  <2> QED
    BY <1>12, <2>2 DEF WriteSeparator, TypeOK, Ctl
<1>13. CASE WriteError
  <2>1. FrameOf("error", pulled) \in Frame
    BY <1>a, FrameTypes DEF TypeOK
  <2>2. /\ chan' \in Seq(Frame) /\ Len(chan') <= Capacity
        /\ idle' \in 0 .. Interval + 1
    <3>1. CASE Room /\ Push(FrameOf("error", pulled))
      BY <3>1, <2>1, PushType
    <3>2. CASE UNCHANGED <<chan, idle>>
      BY <3>2 DEF TypeOK
    <3> QED
      BY <1>13, <3>1, <3>2 DEF WriteError
  <2> QED
    BY <1>13, <2>2 DEF WriteError, TypeOK, Ctl
<1>14. CASE Answer
  BY <1>14 DEF Answer, TypeOK
<1>15. CASE Produce
  <2>1. PICK kind \in {"whole", "open"} : sent' = Append(sent, kind)
    BY <1>15 DEF Produce
  <2>2. /\ sent' \in Seq({"whole", "open"})
        /\ Len(sent') = Len(sent) + 1
    BY <2>1, AppendProperties DEF TypeOK
  <2>3. Len(sent) < MaxChunks
    BY <1>15 DEF Produce
  <2> QED
    BY <1>15, <1>a, <2>2, <2>3 DEF Produce, TypeOK
<1>16. CASE Settle
  BY <1>16 DEF Settle, TypeOK
<1>17. CASE Deliver
  <2>1. /\ Head(chan) \in Frame /\ Tail(chan) \in Seq(Frame)
        /\ Len(Tail(chan)) = Len(chan) - 1 /\ Len(chan) \in Nat
    BY <1>17, ChannelTypes, FrameTypes DEF Deliver, TypeOK
  <2>2. Seen(view, Head(chan)) \in View
    BY <2>1 DEF Seen, Frame, View, TypeOK
  <2> QED
    BY <1>17, <2>1, <2>2 DEF Deliver, TypeOK
<1>18. CASE DeliverEnd
  BY <1>18 DEF DeliverEnd, TypeOK, View
<1>19. CASE Leave
  BY <1>19 DEF Leave, TypeOK, Ctl
<1>20. CASE Tick
  <2>1. left' \in 0 .. Interval
    BY <1>20 DEF Tick, TypeOK
  <2>2. idle' \in 0 .. Interval + 1
    BY <1>20 DEF Tick, TypeOK
  <2> QED
    BY <1>20, <2>1, <2>2 DEF Tick, TypeOK
<1>21. CASE UNCHANGED vars
  BY <1>21 DEF vars, TypeOK
<1> QED
  BY <1>1, <1>2, <1>3, <1>4, <1>5, <1>6, <1>7, <1>8, <1>9, <1>10, <1>11,
     <1>12, <1>13, <1>14, <1>15, <1>16, <1>17, <1>18, <1>19, <1>20, <1>21
     DEF Next, Task, Upstream, Client, Over

\* Type correctness of the SSE path, for every value of the constants.
THEOREM TypeCorrect == Spec => []TypeOK
<1>1. Init => TypeOK
  BY InitTypeOK
<1>2. TypeOK /\ [Next]_vars => TypeOK'
  BY NextTypeOK
<1> QED
  BY <1>1, <1>2, PTL DEF Spec

-----------------------------------------------------------------------------
(* The timing of heartbeats *)

Loops == {"race", "wait", "stream", "collect"}

\* The time since the last frame and the time left on the timer add up to an
\* interval: to no more between events, and to no less in any loop.  Only a
\* loop waits in write_event, and with a heartbeat only on a timer that fired.
TimerInv ==
    /\ TypeOK
    /\ job # NoFrame => ctl \in Loops \ {"race"}
    /\ ~ Overflows =>
        /\ BetweenEvents => idle + left <= Interval
        /\ ctl \in Loops => Interval <= idle + left
    /\ job.kind = "heartbeat" => left = 0 /\ ~ Overflows

\* The idle time and the timer, as numbers.
LEMMA TimeIsNat ==
    ASSUME TypeOK
    PROVE  /\ Interval \in Nat /\ left \in Nat /\ idle \in Nat
           /\ left <= Interval /\ idle <= Interval + 1
BY BridgeAssumption DEF TypeOK

\* What a tick does to the sum of the two.
LEMMA TickSum ==
    ASSUME NEW i \in Nat, NEW l \in Nat, NEW d \in Nat,
           NEW l2, l2 = IF l = 0 THEN l ELSE l - 1,
           NEW d2, d2 = IF d > i THEN d ELSE d + 1
    PROVE  /\ l > 0 /\ d + l <= i => d2 + l2 <= i
           /\ i <= d + l => i <= d2 + l2
OBVIOUS

\* No time has passed, and no timer runs, when handle_sse starts.
LEMMA InitTimerInv == Init => TimerInv
<1> SUFFICES ASSUME Init PROVE TimerInv
  OBVIOUS
<1>1. TypeOK
  BY InitTypeOK
<1> QED
  BY <1>1, BridgeAssumption
     DEF Init, TimerInv, Loops, NoFrame, FrameOf

\* Every step preserves the sum.
LEMMA NextTimerInv == TimerInv /\ [Next]_vars => TimerInv'
<1> SUFFICES ASSUME TimerInv, [Next]_vars PROVE TimerInv'
  OBVIOUS
<1>t. TypeOK /\ TypeOK'
  BY NextTypeOK DEF TimerInv
<1>n. /\ Interval \in Nat /\ left \in Nat /\ idle \in Nat
      /\ left' \in Nat /\ idle' \in Nat
      /\ left <= Interval /\ idle <= Interval + 1
  BY <1>t, TimeIsNat, BridgeAssumption DEF TypeOK
<1> USE <1>t, <1>n DEF TimerInv, Loops, BetweenEvents, Overflows
<1>1. CASE AnsweredSse
  BY <1>1 DEF AnsweredSse, NoFrame, FrameOf
<1>2. CASE AnsweredOther
  BY <1>2 DEF AnsweredOther, NoFrame, FrameOf
<1>3. CASE WindowCloses
  BY <1>3 DEF WindowCloses, NoFrame, FrameOf
<1>4. CASE AnsweredLate
  <2>1. ctl' \in {"stream", "collect", "error"}
    BY <1>4 DEF AnsweredLate, TypeOK, Answers
  <2> QED
    BY <1>4, <2>1 DEF AnsweredLate, LateTimer, NoFrame, FrameOf
<1>5. CASE Beat
  <2>1. /\ ctl' = ctl /\ left' = left /\ idle' = idle /\ left = 0 /\ ~ Overflows
        /\ ctl \in Loops \ {"race"} /\ job' # NoFrame
    BY <1>5 DEF Beat, SafePlace, TimerFired, NoFrame, FrameOf
  <2> QED
    BY <2>1
<1>6. CASE SkipBeat
  BY <1>6 DEF SkipBeat, Reset, TimerFired, NoFrame, FrameOf
<1>7. CASE PullChunk
  BY <1>7 DEF PullChunk, NoFrame, FrameOf
<1>8. CASE PullEnd
  BY <1>8 DEF PullEnd, AfterBreak, NoFrame, FrameOf
<1>9. CASE Collected
  BY <1>9 DEF Collected, NoFrame, FrameOf
<1>10. CASE Written
  <2>1. job' = NoFrame /\ NoFrame.kind # "heartbeat" /\ idle' = 0
    BY <1>10 DEF Written, Push, NoFrame, FrameOf
  <2>2. ~ Overflows => left' = Interval /\ ctl' = ctl
    BY <1>10 DEF Written, Rearm, Reset
  <2>3. ~ Overflows => idle' = 0 /\ left' = Interval
    BY <2>1, <2>2
  <2>4. job'.kind # "heartbeat" /\ job' = NoFrame
    BY <2>1
  <2>5. ~ Overflows => idle' + left' <= Interval /\ Interval <= idle' + left'
    <3>1. 0 + Interval <= Interval /\ Interval <= 0 + Interval
      OBVIOUS
    <3> QED
      BY <2>3, <3>1
  <2>6. (~ Overflows)' <=> ~ Overflows
    OBVIOUS
  <2> QED
    BY <2>4, <2>5, <2>6
<1>11. CASE WriteFails
  BY <1>11 DEF WriteFails, AfterFailure, NoFrame, FrameOf
<1>12. CASE WriteSeparator
  BY <1>12 DEF WriteSeparator, NoFrame, FrameOf
<1>13. CASE WriteError
  BY <1>13 DEF WriteError, NoFrame, FrameOf
<1>14. CASE Answer
  BY <1>14 DEF Answer
<1>15. CASE Produce
  BY <1>15 DEF Produce
<1>16. CASE Settle
  BY <1>16 DEF Settle
<1>17. CASE Deliver
  BY <1>17 DEF Deliver
<1>18. CASE DeliverEnd
  BY <1>18 DEF DeliverEnd
<1>19. CASE Leave
  BY <1>19 DEF Leave
<1>20. CASE Tick
  <2>1. /\ ctl' = ctl /\ job' = job /\ atBoundary' = atBoundary
        /\ ~ Ready
    BY <1>20 DEF Tick
  <2>2. BetweenEvents /\ ~ Overflows => left > 0
    BY <2>1 DEF Ready, TimerFired
  <2>3. /\ ~ Overflows => left' = IF left = 0 THEN left ELSE left - 1
        /\ idle' = IF idle > Interval THEN idle ELSE idle + 1
    BY <1>20 DEF Tick
  <2>4. ~ Overflows /\ left > 0 /\ idle + left <= Interval
            => idle' + left' <= Interval
    BY <2>3, TickSum
  <2>5. ~ Overflows /\ BetweenEvents' => idle' + left' <= Interval
    BY <2>1, <2>2, <2>4
  <2>6. ~ Overflows /\ ctl' \in Loops => Interval <= idle' + left'
    BY <2>1, <2>3, TickSum
  <2>7. job'.kind = "heartbeat" => left' = 0 /\ ~ Overflows
    BY <2>1, <2>3
  <2> QED
    BY <2>1, <2>5, <2>6, <2>7
<1>21. CASE UNCHANGED vars
  BY <1>21 DEF vars
<1> QED
  BY <1>1, <1>2, <1>3, <1>4, <1>5, <1>6, <1>7, <1>8, <1>9, <1>10, <1>11,
     <1>12, <1>13, <1>14, <1>15, <1>16, <1>17, <1>18, <1>19, <1>20, <1>21
     DEF Next, Task, Upstream, Client, Over

\* The sum holds in every state.
LEMMA TimerInvariance == Spec => []TimerInv
<1>1. Init => TimerInv
  BY InitTimerInv
<1>2. TimerInv /\ [Next]_vars => TimerInv'
  BY NextTimerInv
<1> QED
  BY <1>1, <1>2, PTL DEF Spec

\* Between events no more than one interval passes without a frame, for every
\* interval that the clock can represent, every channel and every stream.
THEOREM AliveBetweenEvents == Spec => []KeepAlive
<1>1. TimerInv => KeepAlive
  <2> SUFFICES ASSUME TimerInv, BetweenEvents, ~ Overflows
               PROVE  idle <= Interval
    BY DEF KeepAlive
  <2>1. idle + left <= Interval
    BY DEF TimerInv
  <2> QED
    BY <2>1, TimeIsNat DEF TimerInv
<1> QED
  BY <1>1, TimerInvariance, PTL

\* A heartbeat never follows another frame within less than an interval.
THEOREM HeartbeatsSpaced == Spec => HeartbeatsOnlyWhenIdle
<1> DEFINE Spaced ==
        Len(chan') > Len(chan) /\ chan'[Len(chan')].kind = "heartbeat"
            => idle >= Interval
<1>1. TimerInv /\ [Next]_vars => [Spaced]_vars
  <2> SUFFICES ASSUME TimerInv, Next,
                      Len(chan') > Len(chan),
                      chan'[Len(chan')].kind = "heartbeat"
               PROVE  idle >= Interval
    OBVIOUS
  <2>1. TypeOK /\ Len(chan) \in Nat /\ chan \in Seq(Frame)
    BY ChannelTypes, LenProperties DEF TimerInv, TypeOK
  <2>2. CASE Written
    <3>1. job \in Frame /\ chan' = Append(chan, job)
      BY <2>1, <2>2 DEF Written, Push, TypeOK
    <3>2. job.kind = "heartbeat"
      BY <2>1, <3>1, ChannelTypes
    <3>3. left = 0 /\ ~ Overflows /\ Interval <= idle + left
      BY <2>2, <3>2 DEF TimerInv, Written
    <3> QED
      BY <2>1, <3>3, TimeIsNat
  <2>3. CASE WriteSeparator
    <3>1. PICK f \in Frame : f.kind = "separator" /\ chan' = Append(chan, f)
      <4>1. pulled \in 0 .. MaxChunks
        BY <2>1, LenProperties, BridgeAssumption DEF TypeOK
      <4>2. chan' = Append(chan, FrameOf("separator", pulled))
        BY <2>3 DEF WriteSeparator, Push
      <4> QED
        BY <4>1, <4>2, FrameTypes DEF FrameOf
    <3> QED
      BY <2>1, <3>1, ChannelTypes
  <2>4. CASE WriteError
    <3>1. PICK f \in Frame : f.kind = "error" /\ chan' = Append(chan, f)
      <4>1. pulled \in 0 .. MaxChunks
        BY <2>1, LenProperties, BridgeAssumption DEF TypeOK
      <4>2. chan' = Append(chan, FrameOf("error", pulled))
        BY <2>4 DEF WriteError, Push
      <4> QED
        BY <4>1, <4>2, FrameTypes DEF FrameOf
    <3> QED
      BY <2>1, <3>1, ChannelTypes
  <2>5. CASE Deliver
    BY <2>1, <2>5, ChannelTypes, FrameTypes DEF Deliver
  <2>6. CASE Leave
    BY <2>1, <2>6 DEF Leave
  <2>7. ASSUME ~ Written, ~ WriteSeparator, ~ WriteError, ~ Deliver, ~ Leave
        PROVE  chan' = chan
    BY <2>7 DEF Next, Task, Upstream, Client, Over, vars, AnsweredSse,
       AnsweredOther, WindowCloses, AnsweredLate, Beat, SkipBeat, PullChunk,
       PullEnd, Collected, WriteFails, Answer, Produce, Settle, DeliverEnd,
       Tick
  <2> QED
    BY <2>1, <2>2, <2>3, <2>4, <2>5, <2>6, <2>7
<1> QED
  BY <1>1, TimerInvariance, PTL DEF Spec, HeartbeatsOnlyWhenIdle

-----------------------------------------------------------------------------
(* What the client is promised: the invariant *)

\* Which response belongs to which place of the code, and where it can wait in
\* write_event.
ReplyInv ==
    /\ ctl = "race" => resp = "none" /\ ~ gone
    /\ ctl \in {"wait", "stream", "collect", "separator", "error"} => resp = "sse"
    /\ resp = "none" => ctl \in {"race", "done"}
    /\ resp \in {"relayed", "bad_gateway"} => ctl = "done"
    /\ view.over => resp = "sse" /\ Stopped
    /\ job # NoFrame => ctl \in {"wait", "stream", "collect"}

Failed == UpstreamOutcome = "failed"

\* The stream stands between two events behind m chunks.
WholeAt(m) == m = 0 \/ sent[m] = "whole"

\* What the place of the code knows of the upstream.
UpstreamInv ==
    /\ answer \in {"pending", "opaque", "fail"} => outcome = "flowing"
    /\ answer \notin {"sse", "plain"} => sent = <<>>
    /\ ctl \in {"race", "wait"} => pulled = 0
    /\ ctl = "stream" => /\ answer \in {"sse", "plain"}
                         /\ atBoundary <=> WholeAt(pulled)
    /\ ctl = "collect" => answer = "status"
    /\ ctl = "separator" => Failed /\ pulled = Len(sent) /\ ~ WholeAt(pulled)
    /\ ctl = "error" => Failed /\ pulled = Len(sent)

\* write_event waits with the last chunk or with a heartbeat.
JobInv ==
    job # NoFrame =>
        /\ job.kind \in {"chunk", "heartbeat"} /\ job.n = pulled
        /\ IF job.kind = "chunk" THEN pulled > 0 ELSE WholeAt(pulled)

\* Chunks that have been written to the channel.
Put == IF job.kind = "chunk" THEN pulled - 1 ELSE pulled

\* The last frame but i that has left the task, received or in the channel.
CountAt(i) == IF i = 0 THEN view.got ELSE chan[i].n
KindAt(i) == IF i = 0 THEN view.last ELSE chan[i].kind

\* The frame at place i of the channel belongs behind the one before it.
Follows(i) ==
    LET f == chan[i]
    IN  /\ f.n = CountAt(i - 1) + (IF f.kind = "chunk" THEN 1 ELSE 0)
        /\ f.n <= pulled
        /\ f.kind = "heartbeat" => WholeAt(f.n)
        /\ f.kind = "separator" =>
             /\ Failed /\ f.n = Len(sent) /\ ~ WholeAt(f.n)
             /\ KindAt(i - 1) \notin {"separator", "error"}
        /\ f.kind = "error" =>
             /\ Failed /\ f.n = Len(sent) /\ i = Len(chan)
             /\ WholeAt(f.n) \/ KindAt(i - 1) = "separator"

\* The channel leads from what the client has received to what was written.
ChainInv ==
    /\ CountAt(Len(chan)) = Put
    /\ \A i \in 1 .. Len(chan) : Follows(i)

\* What the last frame says of the task that has written it.
LastInv ==
    LET last == KindAt(Len(chan))
    IN  /\ last = "separator" => ctl \in {"error", "done"}
        /\ last = "error" => ctl = "done"
        /\ ctl = "error" => WholeAt(pulled) \/ last = "separator"
        /\ ctl = "done" /\ resp = "sse" =>
             last = "error" \/ (UpstreamOutcome = "finished" /\ pulled = Len(sent))

ViewInv ==
    /\ view.got <= pulled
    /\ view.open <=> ~ WholeAt(view.got) /\ view.last \notin {"separator", "error"}
    /\ view.last = "error" => chan = <<>>
    /\ view.over => chan = <<>>

\* It holds for every interval: a task that panics only spoils the end.
PromiseInv ==
    /\ TypeOK
    /\ ReplyInv /\ UpstreamInv /\ JobInv
    /\ ~ gone => ChainInv /\ LastInv /\ ViewInv
    /\ ctl # "panicked" => HonestEnd

-----------------------------------------------------------------------------
(* The parts of the invariant that look at no frame *)

\* Every step keeps responses and places together.
LEMMA NextReply == ReplyInv /\ TypeOK /\ [Next]_vars => ReplyInv'
<1> SUFFICES ASSUME ReplyInv, TypeOK, [Next]_vars PROVE ReplyInv'
  OBVIOUS
<1> USE DEF ReplyInv, Stopped
<1>1. CASE AnsweredSse \/ AnsweredOther \/ WindowCloses
  BY <1>1 DEF AnsweredSse, AnsweredOther, WindowCloses
<1>2. CASE AnsweredLate
  <2>1. ctl' \in {"stream", "collect", "error"}
    BY <1>2 DEF AnsweredLate, TypeOK, Answers
  <2> QED
    BY <1>2, <2>1 DEF AnsweredLate
<1>3. CASE Beat \/ PullChunk \/ PullEnd \/ Collected
  BY <1>3 DEF Beat, SafePlace, PullChunk, PullEnd, AfterBreak, Collected
<1>4. CASE SkipBeat
  BY <1>4 DEF SkipBeat, Reset
<1>5. CASE Written
  BY <1>5 DEF Written, Rearm, Reset
<1>6. CASE WriteFails
  BY <1>6 DEF WriteFails, AfterFailure
<1>7. CASE WriteSeparator \/ WriteError
  BY <1>7 DEF WriteSeparator, WriteError
<1>8. CASE Upstream
  BY <1>8 DEF Upstream, Answer, Produce, Settle
<1>9. CASE Deliver
  <2>1. view'.over = view.over
    BY <1>9 DEF Deliver, Seen, TypeOK, View
  <2> QED
    BY <1>9, <2>1 DEF Deliver
<1>10. CASE DeliverEnd
  BY <1>10 DEF DeliverEnd, SenderDropped, TypeOK, View
<1>11. CASE Leave \/ Tick
  BY <1>11 DEF Leave, Tick
<1>12. CASE Over \/ UNCHANGED vars
  BY <1>12 DEF Over, vars
<1> QED
  BY <1>1, <1>2, <1>3, <1>4, <1>5, <1>6, <1>7, <1>8, <1>9, <1>10, <1>11, <1>12
     DEF Next, Task, Client

\* What the upstream has supplied stays, and a failure is final.
LEMMA SupplyGrows ==
  ASSUME TypeOK, UpstreamInv, Upstream
  PROVE  /\ \A m \in 0 .. Len(sent) : WholeAt(m)' = WholeAt(m)
         /\ Len(sent) <= Len(sent')
         /\ UpstreamOutcome # "flowing" => UpstreamOutcome' = UpstreamOutcome
                                           /\ sent' = sent
<1>1. CASE Answer
  BY <1>1 DEF Answer, UpstreamInv, UpstreamOutcome, WholeAt, Answers, TypeOK
<1>2. CASE Produce
  <2>1. PICK kind \in {"whole", "open"} : sent' = Append(sent, kind)
    BY <1>2 DEF Produce
  <2>2. /\ Len(sent') = Len(sent) + 1 /\ Len(sent) \in Nat
        /\ \A m \in 1 .. Len(sent) : sent'[m] = sent[m]
    BY <2>1, AppendProperties, LenProperties DEF TypeOK
  <2>3. \A m \in 0 .. Len(sent) : WholeAt(m)' = WholeAt(m)
    BY <2>2 DEF WholeAt
  <2>4. UpstreamOutcome = "flowing"
    BY <1>2 DEF Produce, Streaming, UpstreamOutcome
  <2> QED
    BY <2>2, <2>3, <2>4
<1>3. CASE Settle
  <2>1. /\ sent' = sent /\ answer' = answer
        /\ UpstreamOutcome # "flowing" => UpstreamOutcome' = UpstreamOutcome
    BY <1>3 DEF Settle, Streaming, UpstreamOutcome
  <2> QED
    BY <2>1, LenProperties DEF WholeAt, TypeOK
<1> QED
  BY <1>1, <1>2, <1>3 DEF Upstream

\* Every step keeps what the task knows of the upstream.
LEMMA NextUpstream == UpstreamInv /\ TypeOK /\ [Next]_vars => UpstreamInv'
<1> SUFFICES ASSUME UpstreamInv, TypeOK, [Next]_vars PROVE UpstreamInv'
  OBVIOUS
<1>n. Len(sent) \in Nat /\ pulled \in 0 .. Len(sent)
  BY LenProperties DEF TypeOK
<1> USE DEF UpstreamInv, Failed
<1>1. CASE AnsweredSse \/ AnsweredOther \/ WindowCloses
  BY <1>1 DEF AnsweredSse, AnsweredOther, WindowCloses, WholeAt
<1>2. CASE AnsweredLate
  <2>1. /\ answer \in {"sse", "plain"} => ctl' = "stream"
        /\ answer = "status" => ctl' = "collect"
        /\ answer \in {"opaque", "fail"} => ctl' = "error"
        /\ answer \in Answers
    BY <1>2 DEF AnsweredLate, TypeOK, Answers
  <2>2. /\ pulled' = 0 /\ pulled = 0 /\ atBoundary' = TRUE
        /\ UNCHANGED <<answer, sent, outcome>>
    BY <1>2 DEF AnsweredLate
  <2>3. ctl' = "error" => UpstreamOutcome = "failed" /\ Len(sent) = 0
    BY <2>1, LenProperties DEF UpstreamOutcome, Answers
  <2>4. UpstreamOutcome' = UpstreamOutcome
    BY <2>2 DEF UpstreamOutcome
  <2> QED
    BY <2>1, <2>2, <2>3, <2>4 DEF WholeAt, Answers
<1>3. CASE Beat
  BY <1>3 DEF Beat, WholeAt, UpstreamOutcome
<1>4. CASE SkipBeat
  BY <1>4 DEF SkipBeat, Reset, WholeAt, UpstreamOutcome
<1>5. CASE PullChunk
  <2>1. /\ ctl = "stream" /\ ctl' = ctl /\ pulled' = pulled + 1
        /\ atBoundary' <=> sent[pulled'] = "whole"
        /\ UNCHANGED <<answer, sent, outcome>>
    BY <1>5 DEF PullChunk
  <2>2. atBoundary' <=> WholeAt(pulled)'
    BY <1>n, <2>1 DEF WholeAt
  <2> QED
    BY <2>1, <2>2
<1>6. CASE PullEnd
  <2>1. /\ UNCHANGED <<answer, sent, outcome, pulled>> /\ pulled = Len(sent)
        /\ answer \in {"sse", "plain"} /\ outcome # "flowing"
        /\ atBoundary <=> WholeAt(pulled)
        /\ ctl' = IF outcome = "finished" THEN "done"
                  ELSE IF atBoundary THEN "error" ELSE "separator"
    BY <1>6 DEF PullEnd, AfterBreak
  <2>2. ctl' # "done" => UpstreamOutcome' = "failed"
    BY <2>1 DEF UpstreamOutcome, TypeOK
  <2>3. WholeAt(pulled)' <=> WholeAt(pulled)
    BY <2>1 DEF WholeAt
  <2> QED
    BY <2>1, <2>2, <2>3
<1>7. CASE Collected
  <2>1. /\ UNCHANGED <<answer, sent, outcome, pulled>> /\ ctl' = "error"
        /\ answer = "status" /\ sent = <<>>
    BY <1>7 DEF Collected
  <2>2. UpstreamOutcome' = "failed" /\ pulled' = Len(sent')
    BY <1>n, <2>1, LenProperties DEF UpstreamOutcome
  <2> QED
    BY <2>1, <2>2
<1>8. CASE Written
  BY <1>8 DEF Written, Rearm, Reset, WholeAt, UpstreamOutcome
<1>9. CASE WriteFails
  BY <1>9 DEF WriteFails, AfterFailure
<1>10. CASE WriteSeparator \/ WriteError
  BY <1>10 DEF WriteSeparator, WriteError, UpstreamOutcome
<1>11. CASE Upstream
  <2>1. /\ UNCHANGED <<ctl, pulled, atBoundary>>
        /\ ctl = "stream" => answer' = answer
        /\ ctl = "collect" => answer' = answer
    BY <1>11 DEF Upstream, Answer, Produce, Settle
  <2>2. /\ answer' \in {"pending", "opaque", "fail"} => outcome' = "flowing"
        /\ answer' \notin {"sse", "plain"} => sent' = <<>>
    BY <1>11 DEF Upstream, Answer, Produce, Settle, Streaming
  <2>3. WholeAt(pulled)' <=> WholeAt(pulled)
    BY <1>n, <1>11, <2>1, SupplyGrows DEF WholeAt
  <2>4. UpstreamOutcome = "failed" => UpstreamOutcome' = "failed" /\ sent' = sent
    BY <1>11, SupplyGrows
  <2> QED
    BY <2>1, <2>2, <2>3, <2>4
<1>12. CASE Client \/ Tick
  BY <1>12 DEF Client, Deliver, DeliverEnd, Leave, Tick, WholeAt, UpstreamOutcome
<1>13. CASE Over \/ UNCHANGED vars
  BY <1>13 DEF Over, vars, WholeAt, UpstreamOutcome
<1> QED
  BY <1>1, <1>2, <1>3, <1>4, <1>5, <1>6, <1>7, <1>8, <1>9, <1>10, <1>11,
     <1>12, <1>13 DEF Next, Task

\* Every step keeps what write_event waits with.
LEMMA NextJob ==
  JobInv /\ ReplyInv /\ UpstreamInv /\ TypeOK /\ [Next]_vars => JobInv'
<1> SUFFICES ASSUME JobInv, ReplyInv, UpstreamInv, TypeOK, [Next]_vars
             PROVE  JobInv'
  OBVIOUS
<1>n. Len(sent) \in Nat /\ pulled \in 0 .. Len(sent)
  BY LenProperties DEF TypeOK
<1> USE DEF JobInv
<1>1. CASE UNCHANGED <<job, pulled, sent>>
  BY <1>1 DEF WholeAt
<1>2. CASE job' = NoFrame
  BY <1>2
<1>3. CASE Beat
  <2>1. CASE ctl = "collect"
    <3>1. Len(sent) = 0
      BY <2>1 DEF UpstreamInv
    <3> QED
      BY <1>n, <1>3, <3>1 DEF Beat, FrameOf, WholeAt
  <2>2. CASE ctl # "collect"
    <3>1. WholeAt(pulled)
      BY <1>3, <2>2 DEF Beat, SafePlace, UpstreamInv, WholeAt
    <3> QED
      BY <1>3, <3>1 DEF Beat, FrameOf, WholeAt
  <2> QED
    BY <2>1, <2>2
<1>4. CASE PullChunk
  BY <1>n, <1>4 DEF PullChunk, FrameOf
<1>5. CASE Upstream
  <2>1. WholeAt(pulled)' <=> WholeAt(pulled)
    BY <1>n, <1>5, SupplyGrows DEF Upstream, Answer, Produce, Settle, WholeAt
  <2> QED
    BY <1>5, <2>1 DEF Upstream, Answer, Produce, Settle
<1>6. ASSUME ~ Beat, ~ PullChunk, ~ Upstream
      PROVE  UNCHANGED <<job, pulled, sent>> \/ job' = NoFrame
  BY <1>6 DEF Next, Task, Client, AnsweredSse, AnsweredOther, WindowCloses,
     AnsweredLate, SkipBeat, PullEnd, Collected, Written, WriteFails,
     WriteSeparator, WriteError, Deliver, DeliverEnd, Leave, Tick, Over, vars
<1> QED
  BY <1>1, <1>2, <1>3, <1>4, <1>5, <1>6

-----------------------------------------------------------------------------
(* The frames between the task and the client *)

\* The frames of the channel carry numbers of chunks.
LEMMA FrameFacts ==
  ASSUME TypeOK
  PROVE  /\ Len(chan) \in Nat /\ Len(sent) \in Nat /\ pulled \in 0 .. Len(sent)
         /\ view.got \in Nat
         /\ \A i \in 1 .. Len(chan) : chan[i] \in Frame /\ chan[i].n \in Nat
<1>1. \A i \in 1 .. Len(chan) : chan[i] \in Frame
  BY ElementOfSeq DEF TypeOK
<1> QED
  BY <1>1, LenProperties, BridgeAssumption DEF TypeOK, Frame, View

\* A channel that nobody touches stays in order whatever the upstream does.
LEMMA ChannelRests ==
  ASSUME TypeOK, ChainInv, UNCHANGED <<chan, view>>,
         pulled' \in Nat, pulled <= pulled',
         \A m \in 0 .. Len(sent) : WholeAt(m)' = WholeAt(m),
         Failed => Failed' /\ sent' = sent
  PROVE  \A i \in 1 .. Len(chan) : Follows(i)'
<1> SUFFICES ASSUME NEW i \in 1 .. Len(chan)
             PROVE  Follows(i)'
  OBVIOUS
<1>1. chan[i].n \in 0 .. Len(sent) /\ Follows(i) /\ chan[i].n <= pulled
  BY FrameFacts DEF ChainInv, Follows
<1>2. WholeAt(chan[i].n)' = WholeAt(chan[i].n)
  <2>1. \A m \in 0 .. Len(sent) : WholeAt(m)' = WholeAt(m)
    OBVIOUS
  <2>2. chan'[i].n = chan[i].n
    OBVIOUS
  <2> QED
    BY <1>1, <2>1, <2>2 DEF WholeAt
<1>3. CountAt(i - 1)' = CountAt(i - 1) /\ KindAt(i - 1)' = KindAt(i - 1)
  BY DEF CountAt, KindAt
<1> QED
  BY <1>1, <1>2, <1>3, FrameFacts DEF Follows

\* A frame that belongs behind the last one keeps the channel in order.
LEMMA PushFollows ==
  ASSUME TypeOK, ChainInv, NEW f \in Frame, chan' = Append(chan, f),
         UNCHANGED <<view, sent, answer, outcome, pulled>>,
         KindAt(Len(chan)) # "error",
         f.n = CountAt(Len(chan)) + (IF f.kind = "chunk" THEN 1 ELSE 0),
         f.n <= pulled,
         f.kind = "heartbeat" => WholeAt(f.n),
         f.kind = "separator" =>
             /\ Failed /\ f.n = Len(sent) /\ ~ WholeAt(f.n)
             /\ KindAt(Len(chan)) # "separator",
         f.kind = "error" =>
             /\ Failed /\ f.n = Len(sent)
             /\ WholeAt(f.n) \/ KindAt(Len(chan)) = "separator"
  PROVE  /\ \A i \in 1 .. Len(chan') : Follows(i)'
         /\ Len(chan') # 0
         /\ CountAt(Len(chan))' = f.n
         /\ KindAt(Len(chan))' = f.kind
<1>1. /\ Len(chan') = Len(chan) + 1 /\ Len(chan) \in Nat
      /\ chan'[Len(chan) + 1] = f
      /\ \A i \in 1 .. Len(chan) : chan'[i] = chan[i]
  BY AppendProperties, FrameFacts DEF TypeOK
<1>2. /\ \A m : WholeAt(m)' = WholeAt(m)
      /\ Failed' = Failed
  BY DEF WholeAt, Failed, UpstreamOutcome
<1>3. \A i \in 0 .. Len(chan) : /\ CountAt(i)' = CountAt(i)
                                /\ KindAt(i)' = KindAt(i)
  BY <1>1 DEF CountAt, KindAt
<1>4. CountAt(Len(chan))' = f.n /\ KindAt(Len(chan))' = f.kind
  <2>1. Len(chan') # 0 /\ chan'[Len(chan')] = f
    BY <1>1
  <2> QED
    BY <2>1 DEF CountAt, KindAt
<1>5. ASSUME NEW i \in 1 .. Len(chan)
      PROVE  Follows(i)'
  <2>1. Follows(i) /\ i # 0 /\ i - 1 \in 0 .. Len(chan)
    BY <1>1 DEF ChainInv
  <2>2. chan[i].kind # "error"
    <3>1. chan[i].kind = "error" => i = Len(chan)
      BY <2>1 DEF Follows
    <3>2. i = Len(chan) => chan[i].kind # "error"
      BY <2>1 DEF KindAt
    <3> QED
      BY <3>1, <3>2
  <2>3. chan'[i] = chan[i] /\ CountAt(i - 1)' = CountAt(i - 1)
        /\ KindAt(i - 1)' = KindAt(i - 1)
    BY <1>1, <1>3, <2>1
  <2>4. WholeAt(chan[i].n)' = WholeAt(chan[i].n)
    BY <2>3 DEF WholeAt
  <2> QED
    BY <1>2, <2>1, <2>2, <2>3, <2>4 DEF Follows
<1>6. ASSUME NEW i \in Nat, i = Len(chan) + 1
      PROVE  Follows(i)'
  <2>1. chan'[i] = f /\ i = Len(chan') /\ i - 1 = Len(chan) /\ i - 1 \in 0 .. Len(chan)
    BY <1>1, <1>6
  <2>2. CountAt(i - 1)' = CountAt(Len(chan)) /\ KindAt(i - 1)' = KindAt(Len(chan))
    BY <1>3, <2>1
  <2>3. WholeAt(f.n)' = WholeAt(f.n)
    BY DEF WholeAt
  <2> QED
    BY <1>2, <2>1, <2>2, <2>3 DEF Follows
<1>7. ASSUME NEW i \in 1 .. Len(chan')
      PROVE  Follows(i)'
  BY <1>1, <1>5, <1>6, <1>7
<1> QED
  BY <1>1, <1>4, <1>7

\* The links from the client to the task.
Linked == ChainInv /\ LastInv /\ ViewInv

\* A step that touches neither the channel nor the stream only has to say
\* where the task is now.
LEMMA QuietStep ==
  ASSUME TypeOK, ChainInv, ViewInv, LastInv',
         UNCHANGED <<chan, view, sent, answer, outcome>>,
         pulled' \in Nat, pulled <= pulled', Put' = Put
  PROVE  Linked'
<1>1. /\ \A m \in 0 .. Len(sent) : WholeAt(m)' = WholeAt(m)
      /\ Failed => Failed' /\ sent' = sent
  BY DEF WholeAt, Failed, UpstreamOutcome
<1>2. \A i \in 1 .. Len(chan') : Follows(i)'
  BY <1>1, ChannelRests
<1>3. CountAt(Len(chan))' = Put'
  BY DEF ChainInv, CountAt
<1>4. ViewInv'
  <2>1. WholeAt(view.got)' = WholeAt(view.got)
    BY DEF WholeAt
  <2>2. view.got <= pulled'
    BY FrameFacts DEF ViewInv
  <2> QED
    BY <2>1, <2>2 DEF ViewInv
<1> QED
  BY <1>2, <1>3, <1>4 DEF Linked, ChainInv

\* The steps of handle_stream, of the loops and of time.
LEMMA LoopLinks ==
  ASSUME PromiseInv, ~ gone,
         \/ AnsweredSse \/ AnsweredOther \/ WindowCloses \/ AnsweredLate
         \/ Beat \/ SkipBeat \/ PullChunk \/ PullEnd \/ Collected
         \/ Tick \/ Over \/ UNCHANGED vars
  PROVE  Linked'
<1> DEFINE last == KindAt(Len(chan))
<1>i. TypeOK /\ ReplyInv /\ UpstreamInv /\ JobInv /\ ChainInv /\ LastInv /\ ViewInv
  BY DEF PromiseInv
<1>n. /\ Len(sent) \in Nat /\ pulled \in Nat /\ pulled <= Len(sent)
      /\ sent = <<>> => pulled = 0
  BY <1>i, FrameFacts
<1>l. /\ last = "separator" => ctl \in {"error", "done"}
      /\ last = "error" => ctl = "done"
      /\ ctl = "error" => WholeAt(pulled) \/ last = "separator"
      /\ ctl = "done" /\ resp = "sse" =>
             last = "error" \/ (UpstreamOutcome = "finished" /\ pulled = Len(sent))
  BY <1>i DEF LastInv
<1>s. ASSUME UNCHANGED <<chan, view, sent, answer, outcome>>
      PROVE  /\ KindAt(Len(chan))' = last
             /\ UpstreamOutcome' = UpstreamOutcome
             /\ \A m : WholeAt(m)' = WholeAt(m)
  BY <1>s DEF KindAt, UpstreamOutcome, WholeAt
<1>1. CASE AnsweredSse \/ AnsweredOther \/ WindowCloses
  <2>1. /\ ctl = "race" /\ ctl' \in {"stream", "done", "wait"}
        /\ ctl' = "done" => resp' # "sse"
        /\ UNCHANGED <<chan, view, sent, answer, outcome, pulled, job>>
    BY <1>1 DEF AnsweredSse, AnsweredOther, WindowCloses
  <2>2. LastInv'
    BY <1>l, <1>s, <2>1 DEF LastInv
  <2> QED
    BY <1>i, <1>n, <2>1, <2>2, QuietStep DEF Put
<1>2. CASE AnsweredLate
  <2>1. /\ ctl = "wait" /\ ctl' \in {"stream", "collect", "error"}
        /\ UNCHANGED <<chan, view, sent, answer, outcome, pulled, job>>
    BY <1>2, <1>i DEF AnsweredLate, TypeOK, Answers
  <2>2. WholeAt(pulled)'
    BY <1>i, <2>1 DEF UpstreamInv, WholeAt
  <2>3. LastInv'
    BY <1>l, <1>s, <2>1, <2>2 DEF LastInv
  <2> QED
    BY <1>i, <1>n, <2>1, <2>3, QuietStep DEF Put
<1>3. CASE Beat
  <2>1. /\ ctl \in {"wait", "stream", "collect"} /\ ctl' = ctl
        /\ UNCHANGED <<chan, view, sent, answer, outcome, pulled>>
        /\ job = NoFrame /\ job'.kind = "heartbeat"
    BY <1>3 DEF Beat, SafePlace, FrameOf
  <2>2. LastInv'
    BY <1>l, <1>s, <2>1 DEF LastInv
  <2> QED
    BY <1>i, <1>n, <2>1, <2>2, QuietStep DEF Put, NoFrame, FrameOf
<1>4. CASE SkipBeat
  <2>1. /\ ctl = "stream" /\ ctl' \in {"stream", "panicked"}
        /\ UNCHANGED <<chan, view, sent, answer, outcome, pulled, job>>
    BY <1>4 DEF SkipBeat, Reset
  <2>2. LastInv'
    BY <1>l, <1>s, <2>1 DEF LastInv
  <2> QED
    BY <1>i, <1>n, <2>1, <2>2, QuietStep DEF Put
<1>5. CASE PullChunk
  <2>1. /\ ctl = "stream" /\ ctl' = "stream" /\ pulled' = pulled + 1
        /\ UNCHANGED <<chan, view, sent, answer, outcome>>
        /\ job = NoFrame /\ job'.kind = "chunk"
    BY <1>5 DEF PullChunk, FrameOf
  <2>2. LastInv'
    BY <1>l, <1>s, <2>1 DEF LastInv
  <2>3. Put' = Put
    BY <1>n, <2>1 DEF Put, NoFrame, FrameOf
  <2> QED
    BY <1>i, <1>n, <2>1, <2>2, <2>3, QuietStep
<1>6. CASE PullEnd
  <2>1. /\ ctl = "stream" /\ pulled = Len(sent) /\ outcome # "flowing"
        /\ ctl' = IF outcome = "finished" THEN "done"
                  ELSE IF atBoundary THEN "error" ELSE "separator"
        /\ UNCHANGED <<chan, view, sent, answer, outcome, pulled, job>>
        /\ answer \in {"sse", "plain"} /\ (atBoundary <=> WholeAt(pulled))
    BY <1>6, <1>i DEF PullEnd, AfterBreak, UpstreamInv
  <2>2. /\ outcome = "finished" => UpstreamOutcome' = "finished"
        /\ WholeAt(pulled)' = WholeAt(pulled)
    BY <2>1 DEF UpstreamOutcome, WholeAt
  <2>3. LastInv'
    BY <1>l, <1>s, <2>1, <2>2 DEF LastInv
  <2> QED
    BY <1>i, <1>n, <2>1, <2>3, QuietStep DEF Put
<1>7. CASE Collected
  <2>1. /\ ctl = "collect" /\ ctl' = "error"
        /\ UNCHANGED <<chan, view, sent, answer, outcome, pulled, job>>
    BY <1>7 DEF Collected
  <2>2. WholeAt(pulled)'
    BY <1>i, <1>n, <2>1 DEF UpstreamInv, WholeAt
  <2>3. LastInv'
    BY <1>l, <1>s, <2>1, <2>2 DEF LastInv
  <2> QED
    BY <1>i, <1>n, <2>1, <2>3, QuietStep DEF Put
<1>8. CASE Tick \/ Over \/ UNCHANGED vars
  <2>1. UNCHANGED <<ctl, resp, chan, view, sent, answer, outcome, pulled, job>>
    BY <1>8 DEF Tick, Over, vars
  <2>2. WholeAt(pulled)' = WholeAt(pulled)
    BY <2>1 DEF WholeAt
  <2>3. LastInv'
    BY <1>l, <1>s, <2>1, <2>2 DEF LastInv
  <2> QED
    BY <1>i, <1>n, <2>1, <2>3, QuietStep DEF Put
<1> QED
  BY <1>1, <1>2, <1>3, <1>4, <1>5, <1>6, <1>7, <1>8

\* The steps of write_event, with or without the loop behind them.
LEMMA WriteLinks ==
  ASSUME PromiseInv, ~ gone,
         Written \/ WriteSeparator \/ WriteError
  PROVE  Linked'
<1>i. TypeOK /\ ReplyInv /\ UpstreamInv /\ JobInv /\ ChainInv /\ LastInv /\ ViewInv
  BY DEF PromiseInv
<1>n. /\ Len(sent) \in Nat /\ pulled \in Nat /\ pulled <= Len(sent)
      /\ pulled \in 0 .. MaxChunks
  BY <1>i, FrameFacts, BridgeAssumption DEF TypeOK
<1>1. ctl # "done" => KindAt(Len(chan)) # "error"
  BY <1>i DEF LastInv
\* What is left to show once the new frame is known to belong where it is.
<1>2. ASSUME NEW f \in Frame, chan' = Append(chan, f), ctl # "done",
             UNCHANGED <<view, sent, answer, outcome, pulled>>, ~ Stopped,
             \A i \in 1 .. Len(chan') : Follows(i)',
             Len(chan') # 0, CountAt(Len(chan))' = f.n, f.n = Put', LastInv'
      PROVE  Linked'
  <2>1. view.last # "error" /\ ~ view.over
    BY <1>1, <1>2, <1>i DEF ReplyInv, ViewInv, KindAt
  <2>2. ViewInv'
    BY <1>2, <1>i, <2>1 DEF ViewInv, WholeAt
  <2> QED
    BY <1>2, <2>2 DEF Linked, ChainInv
<1>3. CASE Written
  <2>1. /\ job \in Frame /\ job # NoFrame /\ job' = NoFrame /\ ctl' \in {ctl, "panicked"}
        /\ chan' = Append(chan, job)
        /\ UNCHANGED <<view, sent, answer, outcome, pulled, resp>>
        /\ ctl \in {"wait", "stream", "collect"}
    BY <1>3, <1>i DEF Written, Push, Rearm, Reset, TypeOK, ReplyInv
  <2>2. /\ job.kind \in {"chunk", "heartbeat"} /\ job.n = pulled
        /\ job.kind = "heartbeat" => WholeAt(pulled)
        /\ CountAt(Len(chan)) = IF job.kind = "chunk" THEN pulled - 1 ELSE pulled
    BY <1>i, <2>1 DEF JobInv, ChainInv, Put
  <2>3. job.n = CountAt(Len(chan)) + (IF job.kind = "chunk" THEN 1 ELSE 0)
        /\ job.n <= pulled
    BY <1>n, <2>2
  <2>4. KindAt(Len(chan)) # "error"
    BY <1>1, <2>1
  <2>5. /\ \A i \in 1 .. Len(chan') : Follows(i)'
        /\ Len(chan') # 0
        /\ CountAt(Len(chan))' = job.n /\ KindAt(Len(chan))' = job.kind
    BY <1>i, <2>1, <2>2, <2>3, <2>4, PushFollows
  <2>6. LastInv'
    BY <2>1, <2>2, <2>5 DEF LastInv
  <2>7. job.n = Put'
    BY <2>1, <2>2 DEF Put, NoFrame, FrameOf
  <2> QED
    BY <1>2, <2>1, <2>5, <2>6, <2>7 DEF Stopped
<1>4. CASE WriteSeparator
  <2> DEFINE f == FrameOf("separator", pulled)
  <2>1. /\ ctl = "separator" /\ ctl' = "error"
        /\ chan' = Append(chan, f)
        /\ UNCHANGED <<view, sent, answer, outcome, pulled, resp, job>>
        /\ job = NoFrame
    BY <1>4, <1>i DEF WriteSeparator, Push, ReplyInv
  <2>2. f \in Frame /\ f.kind = "separator" /\ f.n = pulled
    BY <1>n, FrameTypes DEF FrameOf
  <2>3. Failed /\ f.n = Len(sent) /\ ~ WholeAt(f.n)
        /\ KindAt(Len(chan)) \notin {"separator", "error"}
    BY <1>i, <2>1, <2>2 DEF UpstreamInv, LastInv
  <2>4. f.n = CountAt(Len(chan)) + 0 /\ f.n <= pulled
    BY <1>i, <1>n, <2>1, <2>2 DEF ChainInv, Put, NoFrame, FrameOf
  <2>5. /\ \A i \in 1 .. Len(chan') : Follows(i)'
        /\ Len(chan') # 0
        /\ CountAt(Len(chan))' = f.n /\ KindAt(Len(chan))' = f.kind
    <3> HIDE DEF f
    <3> QED
      BY <1>i, <2>1, <2>2, <2>3, <2>4, PushFollows
  <2>6. LastInv'
    BY <2>1, <2>2, <2>5 DEF LastInv
  <2>7. f.n = Put'
    BY <2>1, <2>2 DEF Put, NoFrame, FrameOf
  <2> HIDE DEF f
  <2> QED
    BY <1>2, <2>1, <2>2, <2>5, <2>6, <2>7 DEF Stopped
<1>5. CASE WriteError
  <2> DEFINE f == FrameOf("error", pulled)
  <2>1. /\ ctl = "error" /\ ctl' = "done"
        /\ chan' = Append(chan, f)
        /\ UNCHANGED <<view, sent, answer, outcome, pulled, resp, job>>
        /\ job = NoFrame
    BY <1>5, <1>i DEF WriteError, Push, ReplyInv
  <2>2. f \in Frame /\ f.kind = "error" /\ f.n = pulled
    BY <1>n, FrameTypes DEF FrameOf
  <2>3. /\ Failed /\ f.n = Len(sent) /\ KindAt(Len(chan)) # "error"
        /\ WholeAt(f.n) \/ KindAt(Len(chan)) = "separator"
    BY <1>i, <2>1, <2>2 DEF UpstreamInv, LastInv
  <2>4. f.n = CountAt(Len(chan)) + 0 /\ f.n <= pulled
    BY <1>i, <1>n, <2>1, <2>2 DEF ChainInv, Put, NoFrame, FrameOf
  <2>5. /\ \A i \in 1 .. Len(chan') : Follows(i)'
        /\ Len(chan') # 0
        /\ CountAt(Len(chan))' = f.n /\ KindAt(Len(chan))' = f.kind
    <3> HIDE DEF f
    <3> QED
      BY <1>i, <2>1, <2>2, <2>3, <2>4, PushFollows
  <2>6. LastInv'
    BY <2>1, <2>2, <2>5 DEF LastInv
  <2>7. f.n = Put'
    BY <2>1, <2>2 DEF Put, NoFrame, FrameOf
  <2> HIDE DEF f
  <2> QED
    BY <1>2, <2>1, <2>2, <2>5, <2>6, <2>7 DEF Stopped
<1> QED
  BY <1>3, <1>4, <1>5

\* The upstream supplies, settles or fails while the task is there.
LEMMA UpstreamLinks ==
  ASSUME PromiseInv, ~ gone, Upstream
  PROVE  Linked'
<1>i. TypeOK /\ UpstreamInv /\ ChainInv /\ LastInv /\ ViewInv
  BY DEF PromiseInv
<1>n. /\ Len(sent) \in Nat /\ pulled \in 0 .. Len(sent) /\ view.got \in Nat
  BY <1>i, FrameFacts
<1>1. /\ UNCHANGED <<ctl, resp, chan, view, job, pulled>> /\ ctl # "done"
  BY DEF Upstream, Answer, Produce, Settle, Streaming, Stopped
<1>2. /\ \A m \in 0 .. Len(sent) : WholeAt(m)' = WholeAt(m)
      /\ Failed => Failed' /\ sent' = sent
  BY <1>i, SupplyGrows DEF Failed
<1>3. \A i \in 1 .. Len(chan') : Follows(i)'
  BY <1>i, <1>n, <1>1, <1>2, ChannelRests
<1>4. CountAt(Len(chan))' = CountAt(Len(chan)) /\ KindAt(Len(chan))' = KindAt(Len(chan))
      /\ Put' = Put
  BY <1>1 DEF CountAt, KindAt, Put
<1>5. WholeAt(pulled)' = WholeAt(pulled) /\ WholeAt(view.got)' = WholeAt(view.got)
  <2>1. view.got \in 0 .. Len(sent) /\ pulled \in 0 .. Len(sent)
    BY <1>i, <1>n DEF ViewInv
  <2> QED
    BY <1>1, <1>2, <2>1 DEF WholeAt
<1>6. LastInv'
  BY <1>i, <1>1, <1>4, <1>5 DEF LastInv
<1>7. ViewInv'
  BY <1>i, <1>1, <1>5 DEF ViewInv
<1> QED
  BY <1>i, <1>3, <1>4, <1>6, <1>7 DEF Linked, ChainInv

\* The client receives the first frame of the channel.
LEMMA DeliverLinks ==
  ASSUME PromiseInv, Deliver
  PROVE  Linked'
<1> DEFINE f == Head(chan)
<1>i. TypeOK /\ UpstreamInv /\ ChainInv /\ LastInv /\ ViewInv /\ ~ gone
  BY DEF PromiseInv, Deliver
<1>1. /\ UNCHANGED <<ctl, resp, job, pulled, sent, answer, outcome>>
      /\ chan # <<>> /\ chan' = Tail(chan) /\ view' = Seen(view, f)
  BY DEF Deliver
<1>2. /\ Len(chan') = Len(chan) - 1 /\ Len(chan) \in Nat /\ Len(chan) # 0
      /\ f = chan[1] /\ f \in Frame
      /\ \A i \in 1 .. Len(chan') : chan'[i] = chan[i + 1]
  BY <1>i, <1>1, HeadTailProperties, FrameFacts, ChannelTypes DEF TypeOK
<1>3. Follows(1) /\ CountAt(0) = view.got /\ KindAt(0) = view.last
  BY <1>i, <1>2 DEF ChainInv, CountAt, KindAt
<1>4. /\ f.n = view.got + (IF f.kind = "chunk" THEN 1 ELSE 0) /\ f.n <= pulled
      /\ f.kind = "heartbeat" => WholeAt(f.n)
      /\ f.kind = "separator" => ~ WholeAt(f.n)
      /\ f.kind = "error" => Len(chan) = 1
                             /\ (WholeAt(f.n) \/ view.last = "separator")
  BY <1>2, <1>3 DEF Follows
<1>5. /\ view \in View /\ f.n \in Nat /\ view.got \in Nat
      /\ f.kind \in {"heartbeat", "chunk", "separator", "error"}
      /\ pulled \in 0 .. Len(sent)
  BY <1>i, <1>2, FrameFacts DEF TypeOK, Frame
<1>6. view'.got = f.n /\ view'.last = f.kind /\ view'.over = view.over
  BY <1>1, <1>4, <1>5 DEF Seen, View
<1>7. \A i \in 0 .. Len(chan') : /\ CountAt(i)' = CountAt(i + 1)
                                 /\ KindAt(i)' = KindAt(i + 1)
  BY <1>2, <1>6 DEF CountAt, KindAt
<1>8. /\ \A m : WholeAt(m)' = WholeAt(m)
      /\ Failed' = Failed /\ UpstreamOutcome' = UpstreamOutcome
  BY <1>1 DEF WholeAt, Failed, UpstreamOutcome
<1>9. \A i \in 1 .. Len(chan') : Follows(i)'
  <2> SUFFICES ASSUME NEW i \in 1 .. Len(chan')
               PROVE  Follows(i)'
    OBVIOUS
  <2>1. /\ i + 1 \in 1 .. Len(chan) /\ i - 1 \in 0 .. Len(chan') /\ (i - 1) + 1 = i
        /\ (i + 1) - 1 = i
    BY <1>2
  <2>2. Follows(i + 1)
    BY <1>i, <2>1 DEF ChainInv
  <2>3. CountAt(i - 1)' = CountAt(i) /\ KindAt(i - 1)' = KindAt(i)
        /\ chan'[i] = chan[i + 1]
    BY <1>2, <1>7, <2>1
  <2>4. i + 1 = Len(chan) => i = Len(chan')
    BY <1>2
  <2> QED
    BY <1>1, <1>8, <2>1, <2>2, <2>3, <2>4 DEF Follows, WholeAt
<1>10. CountAt(Len(chan))' = CountAt(Len(chan)) /\ KindAt(Len(chan))' = KindAt(Len(chan))
       /\ Put' = Put
  <2>1. CASE Len(chan') = 0
    <3>a. Len(chan) = 1
      BY <1>2, <2>1
    <3>1. chan[Len(chan)] = f
      BY <1>2, <3>a
    <3> QED
      BY <1>1, <1>2, <1>6, <2>1, <3>1 DEF Put, CountAt, KindAt
  <2>2. CASE Len(chan') # 0
    <3>1. chan'[Len(chan')] = chan[Len(chan)]
      BY <1>2, <2>2
    <3> QED
      BY <1>1, <1>2, <2>2, <3>1 DEF Put, CountAt, KindAt
  <2> QED
    BY <2>1, <2>2
<1>11. LastInv'
  BY <1>i, <1>1, <1>8, <1>10 DEF LastInv, WholeAt
<1>12. ViewInv'
  <2>1. view'.open <=> ~ WholeAt(f.n) /\ f.kind \notin {"separator", "error"}
    <3>1. CASE f.kind = "chunk"
      <4>1. f.n \in 1 .. Len(sent) /\ sent[f.n] \in {"whole", "open"}
        BY <1>i, <1>4, <1>5, <3>1, ElementOfSeq DEF TypeOK
      <4>2. view'.open = (sent[f.n] = "open")
        BY <1>1, <1>5, <3>1 DEF Seen, View
      <4>3. (sent[f.n] = "open") <=> ~ WholeAt(f.n)
        BY <4>1 DEF WholeAt
      <4> QED
        BY <3>1, <4>2, <4>3
    <3>2. CASE f.kind # "chunk"
      <4>1. view'.open = IF f.kind = "separator" THEN FALSE ELSE view.open
        BY <1>1, <1>5, <3>2 DEF Seen, View
      <4>2. f.n = view.got
        BY <1>4, <1>5, <3>2
      <4> QED
        BY <1>i, <1>4, <1>5, <3>2, <4>1, <4>2 DEF ViewInv
    <3> QED
      BY <3>1, <3>2
  <2>2. f.kind = "error" => chan' = <<>>
    BY <1>2, <1>1, <1>4, EmptySeq, <1>i, ChannelTypes DEF TypeOK
  <2>3. ~ view.over
    BY <1>i, <1>1 DEF ViewInv
  <2> QED
    BY <1>1, <1>4, <1>6, <1>8, <2>1, <2>2, <2>3 DEF ViewInv
<1> QED
  BY <1>i, <1>9, <1>10, <1>11, <1>12 DEF Linked, ChainInv

\* A task that has panicked does nothing more.
LEMMA PanicStays == ctl = "panicked" /\ TypeOK /\ ReplyInv /\ [Next]_vars => ctl' = "panicked"
BY DEF ReplyInv, Next, Task, Upstream, Client, AnsweredSse, AnsweredOther,
   WindowCloses, AnsweredLate, Beat, SafePlace, SkipBeat, PullChunk, PullEnd,
   Collected, Written, WriteFails, WriteSeparator, WriteError, Answer, Produce,
   Settle, Deliver, DeliverEnd, Leave, Tick, Over, vars

\* The end of the stream is honest, and stays so.
LEMMA NextHonest ==
  ASSUME PromiseInv, [Next]_vars, ctl' # "panicked"
  PROVE  HonestEnd'
<1>i. TypeOK /\ ReplyInv /\ HonestEnd /\ ctl # "panicked"
  BY PanicStays DEF PromiseInv
<1>1. CASE DeliverEnd
  <2>1. /\ ~ gone /\ chan = <<>> /\ ctl = "done" /\ resp = "sse" /\ job = NoFrame
        /\ UNCHANGED <<outcome, sent>>
        /\ view' = [view EXCEPT !.over = TRUE] /\ view \in View
    BY <1>1, <1>i DEF DeliverEnd, SenderDropped, Stopped, ReplyInv, TypeOK
  <2>2. ChainInv /\ LastInv
    BY <2>1 DEF PromiseInv
  <2>3. Len(chan) = 0 /\ view.got = pulled
    BY <2>1, <2>2 DEF ChainInv, CountAt, Put, NoFrame, FrameOf
  <2>4. view.last = "error" \/ (UpstreamOutcome = "finished" /\ pulled = Len(sent))
    BY <2>1, <2>2, <2>3 DEF LastInv, KindAt
  <2>5. UpstreamOutcome = "finished" => outcome = "finished"
    BY DEF UpstreamOutcome
  <2>6. view'.last = view.last /\ view'.got = view.got
    BY <2>1 DEF View
  <2> QED
    BY <2>1, <2>3, <2>4, <2>5, <2>6 DEF HonestEnd
<1>2. CASE Deliver
  <2>1. ~ view.over
    BY <1>2 DEF Deliver, PromiseInv, ViewInv
  <2>2. view'.over = view.over
    BY <1>2, <1>i DEF Deliver, Seen, TypeOK, View
  <2> QED
    BY <2>1, <2>2, <1>i DEF HonestEnd, TypeOK, View
<1>3. CASE Upstream
  <2>1. ~ Stopped /\ view' = view
    BY <1>3 DEF Upstream, Answer, Produce, Settle, Streaming
  <2> QED
    BY <2>1, <1>i DEF HonestEnd, ReplyInv
<1>4. ASSUME ~ DeliverEnd, ~ Deliver, ~ Upstream
      PROVE  UNCHANGED <<view, outcome, sent>>
  BY <1>4 DEF Next, Task, Client, AnsweredSse, AnsweredOther, WindowCloses,
     AnsweredLate, Beat, SkipBeat, PullChunk, PullEnd, Collected, Written,
     WriteFails, WriteSeparator, WriteError, Leave, Tick, Over, vars
<1> QED
  BY <1>1, <1>2, <1>3, <1>4, <1>i DEF HonestEnd

\* An interval that the clock can represent never panics the task.
LEMMA NeverPanics ==
  ASSUME ~ Overflows, TypeOK, [Next]_vars, ctl # "panicked"
  PROVE  ctl' # "panicked"
<1>1. ctl # "panicked"
  OBVIOUS
<1>2. CASE SkipBeat \/ Written
  BY <1>1, <1>2 DEF SkipBeat, Written, Rearm, Reset
<1>3. CASE AnsweredLate
  BY <1>3 DEF AnsweredLate, TypeOK, Answers
<1>4. ASSUME ~ SkipBeat, ~ Written, ~ AnsweredLate
      PROVE  ctl' \in {ctl, "stream", "done", "wait", "error", "separator"}
  BY <1>4 DEF Next, Task, Upstream, Client, AnsweredSse, AnsweredOther,
     WindowCloses, Beat, PullChunk, PullEnd, AfterBreak, Collected, WriteFails,
     AfterFailure, WriteSeparator, WriteError, Answer, Produce, Settle, Deliver,
     DeliverEnd, Leave, Tick, Over, vars
<1> QED
  BY <1>1, <1>2, <1>3, <1>4

LEMMA InitPromise == Init => PromiseInv
<1> SUFFICES ASSUME Init PROVE PromiseInv
  OBVIOUS
<1>1. TypeOK
  BY InitTypeOK
<1>2. Len(chan) = 0 /\ Len(sent) = 0
  BY DEF Init
<1>3. ReplyInv /\ UpstreamInv /\ JobInv /\ HonestEnd
  BY DEF Init, ReplyInv, UpstreamInv, JobInv, HonestEnd, NewView, WholeAt
<1>4. ChainInv /\ LastInv /\ ViewInv
  BY <1>2 DEF Init, ChainInv, LastInv, ViewInv, CountAt, KindAt, Put, NoFrame,
     FrameOf, NewView, WholeAt
<1> QED
  BY <1>1, <1>3, <1>4 DEF PromiseInv, Init

LEMMA NextPromise ==
  ASSUME PromiseInv, [Next]_vars
  PROVE  PromiseInv'
<1>1. /\ TypeOK' /\ ReplyInv' /\ UpstreamInv' /\ JobInv'
      /\ ctl' # "panicked" => HonestEnd'
  BY NextTypeOK, NextReply, NextUpstream, NextJob, NextHonest DEF PromiseInv
<1>2. ASSUME ~ gone'
      PROVE  Linked'
  <2>1. CASE ~ gone
    <3>1. CASE Written \/ WriteSeparator \/ WriteError
      BY <2>1, <3>1, WriteLinks
    <3>2. CASE Upstream
      BY <2>1, <3>2, UpstreamLinks
    <3>3. CASE Deliver
      BY <3>3, DeliverLinks
    <3>4. CASE DeliverEnd
      <4>1. /\ UNCHANGED <<ctl, resp, job, pulled, sent, answer, outcome, chan>>
            /\ chan = <<>> /\ view' = [view EXCEPT !.over = TRUE] /\ view \in View
            /\ ChainInv /\ LastInv /\ ViewInv
        BY <2>1, <3>4 DEF DeliverEnd, PromiseInv, TypeOK
      <4>2. Len(chan) = 0 /\ view'.got = view.got /\ view'.last = view.last
            /\ view'.open = view.open
        BY <4>1 DEF View
      <4>3. ChainInv'
        BY <4>1, <4>2 DEF ChainInv, CountAt, Put
      <4>4. LastInv'
        BY <4>1, <4>2 DEF LastInv, KindAt, WholeAt, UpstreamOutcome
      <4>5. ViewInv'
        BY <4>1, <4>2 DEF ViewInv, WholeAt
      <4> QED
        BY <4>3, <4>4, <4>5 DEF Linked
    <3>5. CASE WriteFails \/ Leave
      BY <1>2, <2>1, <3>5 DEF WriteFails, Leave
    <3> QED
      BY <2>1, <3>1, <3>2, <3>3, <3>4, <3>5, LoopLinks DEF Next, Task, Client
  <2>2. CASE gone
    BY <1>2, <2>2 DEF Next, Task, Upstream, Client, AnsweredSse, AnsweredOther,
       WindowCloses, AnsweredLate, Beat, SkipBeat, PullChunk, PullEnd, Collected,
       Written, WriteFails, WriteSeparator, WriteError, Answer, Produce, Settle,
       Deliver, DeliverEnd, Leave, Tick, Over, vars
  <2> QED
    BY <2>1, <2>2
<1> QED
  BY <1>1, <1>2 DEF PromiseInv, Linked

LEMMA PromiseInvariant == Spec => []PromiseInv
<1>1. PromiseInv /\ [Next]_vars => PromiseInv'
  BY NextPromise
<1> QED
  BY <1>1, InitPromise, PTL DEF Spec

\* A task whose interval the clock can represent does not panic.
LEMMA NoPanic == ASSUME ~ Overflows PROVE Spec => [](ctl # "panicked")
<1> DEFINE Calm == ctl # "panicked"
<1>1. Init => Calm
  BY DEF Init
<1>2. TypeOK /\ Calm /\ [Next]_vars => Calm'
  BY NeverPanics
<1> HIDE DEF Calm
<1>3. Spec => []Calm
  BY <1>1, <1>2, TypeCorrect, PTL DEF Spec
<1> QED
  BY <1>3 DEF Calm

-----------------------------------------------------------------------------
(* Theorems *)

\* A stream that the client sees end without an error event was complete: the
\* channel that sse_channel drops behind the task of bridge or handle_success
\* ends the body, and it never does so behind a stream that broke.
THEOREM EndsHonestly == ASSUME ~ Overflows PROVE Spec => []HonestEnd
<1>1. PromiseInv /\ ctl # "panicked" => HonestEnd
  BY DEF PromiseInv
<1> QED
  BY <1>1, PromiseInvariant, NoPanic, PTL

\* The end of the body that a task which has panicked leaves to its client.
EndsInPanic == ctl = "panicked" /\ DeliverEnd

\* For an interval of any length, every step but one kind is one of Downstream:
\* a client whose task has panicked is sent what was written, in order and
\* between the right events, and only the end that it then sees is wrong.
THEOREM OnlyTheEndIsWrong ==
    Spec => Promise!Init /\ [][Promise!Next \/ EndsInPanic]_(Promise!vars)
<1>1. Init => Promise!Init
  BY DEF Init, Promise!Init, UpstreamOutcome, NewView, Promise!NewView
<1>2. ASSUME PromiseInv, [Next]_vars
      PROVE  [Promise!Next \/ EndsInPanic]_(Promise!vars)
  <2>i. TypeOK /\ ReplyInv /\ UpstreamInv
    BY <1>2 DEF PromiseInv
  <2> USE DEF Promise!vars
  <2>1. CASE Answer
    <3>1. UNCHANGED <<sent, view, gone>>
      BY <2>1 DEF Answer
    <3>2. UpstreamOutcome = "flowing"
      BY <2>1, <2>i DEF Answer, UpstreamInv, UpstreamOutcome
    <3>3. UpstreamOutcome' \in {"flowing", "failed"}
      BY <2>1, <2>i DEF Answer, UpstreamInv, UpstreamOutcome, Answers
    <3>4. Promise!Settle \/ UNCHANGED Promise!vars
      BY <3>1, <3>2, <3>3 DEF Promise!Settle
    <3> QED
      BY <3>4 DEF Promise!Next
  <2>2. CASE Produce
    <3>1. UpstreamOutcome = "flowing" /\ UpstreamOutcome' = "flowing"
      BY <2>2 DEF Produce, Streaming, UpstreamOutcome
    <3>2. Promise!Supply
      BY <2>2, <3>1 DEF Produce, Promise!Supply
    <3> QED
      BY <3>2 DEF Promise!Next
  <2>3. CASE Settle
    <3>1. UNCHANGED <<sent, view, gone, answer>>
      BY <2>3 DEF Settle
    <3>2. \/ UpstreamOutcome = "flowing" /\ UpstreamOutcome' \in {"finished", "failed"}
          \/ UpstreamOutcome' = UpstreamOutcome
      BY <2>3 DEF Settle, Streaming, UpstreamOutcome
    <3>3. Promise!Settle \/ UNCHANGED Promise!vars
      BY <3>1, <3>2 DEF Promise!Settle
    <3> QED
      BY <3>3 DEF Promise!Next
  <2>4. CASE Deliver
    <3> DEFINE f == chan[1]
    <3>1. /\ ~ gone /\ chan # <<>> /\ view' = Seen(view, f)
          /\ UNCHANGED <<answer, sent, outcome, gone>> /\ Head(chan) = f
      BY <2>4, <2>i, HeadTailProperties DEF Deliver, TypeOK
    <3>2. 1 \in 1 .. Len(chan) /\ f \in Frame /\ view.got \in Nat
      BY <2>i, <3>1, EmptySeq, FrameFacts DEF TypeOK
    <3>3. ChainInv /\ ViewInv
      BY <1>2, <3>1 DEF PromiseInv
    <3>4. /\ f.n = view.got + (IF f.kind = "chunk" THEN 1 ELSE 0)
          /\ f.n <= pulled
          /\ f.kind = "heartbeat" => WholeAt(f.n)
          /\ f.kind = "separator" =>
               /\ Failed /\ f.n = Len(sent) /\ ~ WholeAt(f.n)
               /\ view.last \notin {"separator", "error"}
          /\ f.kind = "error" =>
               /\ Failed /\ f.n = Len(sent)
               /\ WholeAt(f.n) \/ view.last = "separator"
      <4>1. Follows(1)
        BY <3>2, <3>3 DEF ChainInv
      <4>2. CountAt(1 - 1) = view.got /\ KindAt(1 - 1) = view.last
        BY DEF CountAt, KindAt
      <4> QED
        BY <4>1, <4>2 DEF Follows
    <3>5. /\ f.n = view.got + (IF f.kind = "chunk" THEN 1 ELSE 0)
          /\ f.n <= Len(sent) /\ f.n \in Nat /\ Len(sent) \in Nat
          /\ view.got \in Nat
      BY <2>i, <3>2, <3>4, FrameFacts
    <3>6. view.last # "error" /\ ~ view.over
      BY <3>1, <3>3 DEF ViewInv
    <3>7. Promise!Listening
      BY <3>1, <3>6 DEF Promise!Listening
    <3>8. UpstreamOutcome' = UpstreamOutcome
      BY <3>1 DEF UpstreamOutcome
    <3>9. view.open <=> ~ WholeAt(view.got)
                        /\ view.last \notin {"separator", "error"}
      BY <3>3 DEF ViewInv
    <3>10. view \in [got : 0 .. MaxChunks, open : BOOLEAN,
                     last : {"headers", "heartbeat", "chunk", "separator", "error"},
                     over : BOOLEAN]
      BY <2>i DEF TypeOK, View
    <3>11. CASE f.kind = "heartbeat"
      <4>1. f.n = view.got /\ ~ view.open
        BY <3>4, <3>5, <3>9, <3>11
      <4>2. view' = [view EXCEPT !.last = "heartbeat"]
        BY <3>1, <3>10, <3>11 DEF Seen
      <4>3. Promise!ReceiveHeartbeat
        BY <3>1, <3>7, <3>8, <4>1, <4>2 DEF Promise!ReceiveHeartbeat
      <4> QED
        BY <4>3 DEF Promise!Next
    <3>12. CASE f.kind = "chunk"
      <4>1. f.n = view.got + 1 /\ view.got < Len(sent)
        BY <3>5, <3>12
      <4>2. view' = [view EXCEPT !.got = view.got + 1, !.last = "chunk",
                                 !.open = sent[view.got + 1] = "open"]
        BY <3>1, <3>10, <3>12, <4>1 DEF Seen
      <4>3. Promise!ReceiveChunk
        BY <3>1, <3>7, <3>8, <4>1, <4>2 DEF Promise!ReceiveChunk
      <4> QED
        BY <4>3 DEF Promise!Next
    <3>13. CASE f.kind = "separator"
      <4>1. /\ f.n = view.got /\ f.n = Len(sent) /\ Failed
            /\ view.open
        BY <3>4, <3>5, <3>9, <3>13
      <4>2. view' = [view EXCEPT !.last = "separator", !.open = FALSE]
        BY <3>1, <3>10, <3>13 DEF Seen
      <4>3. Promise!ReceiveSeparator
        BY <3>1, <3>7, <3>8, <4>1, <4>2 DEF Promise!ReceiveSeparator, Failed
      <4> QED
        BY <4>3 DEF Promise!Next
    <3>14. CASE f.kind = "error"
      <4>1. /\ f.n = view.got /\ f.n = Len(sent) /\ Failed
            /\ ~ view.open
        BY <3>4, <3>5, <3>9, <3>14
      <4>2. view' = [view EXCEPT !.last = "error"]
        BY <3>1, <3>10, <3>14 DEF Seen
      <4>3. Promise!ReceiveError
        BY <3>1, <3>7, <3>8, <4>1, <4>2 DEF Promise!ReceiveError, Failed
      <4> QED
        BY <4>3 DEF Promise!Next
    <3> QED
      BY <3>2, <3>11, <3>12, <3>13, <3>14 DEF Frame
  <2>5. CASE DeliverEnd /\ ctl # "panicked"
    <3>1. /\ ~ gone /\ ~ view.over /\ view' = [view EXCEPT !.over = TRUE]
          /\ UNCHANGED <<answer, sent, outcome, gone>>
          /\ view'.over
      BY <2>5, <2>i DEF DeliverEnd, TypeOK, View
    <3>2. view'.last = view.last /\ view'.got = view.got
      BY <2>i, <3>1 DEF TypeOK, View
    <3>3. HonestEnd'
      BY <1>2, <2>5, NextHonest DEF DeliverEnd
    <3>4. view.last = "error" \/ (outcome = "finished" /\ view.got = Len(sent))
      BY <3>1, <3>2, <3>3 DEF HonestEnd
    <3>5. UpstreamOutcome' = UpstreamOutcome
      BY <3>1 DEF UpstreamOutcome
    <3>6. view.last = "error"
          \/ (UpstreamOutcome = "finished" /\ view.got = Len(sent))
      BY <1>2, <2>5 DEF PromiseInv, DeliverEnd, SenderDropped, Stopped, LastInv,
         ChainInv, CountAt, KindAt, Put, NoFrame, FrameOf, ReplyInv
    <3>7. Promise!ReceiveEnd
      BY <3>1, <3>5, <3>6 DEF Promise!ReceiveEnd
    <3> QED
      BY <3>7 DEF Promise!Next
  <2>6. CASE Leave
    <3>1. Promise!Leave
      BY <2>6 DEF Leave, Promise!Leave, UpstreamOutcome
    <3> QED
      BY <3>1 DEF Promise!Next
  <2>7. ASSUME ~ Upstream, ~ Client
        PROVE  UNCHANGED Promise!vars
    BY <1>2, <2>7 DEF Next, Task, AnsweredSse, AnsweredOther, WindowCloses,
       AnsweredLate, Beat, SkipBeat, PullChunk, PullEnd, Collected, Written,
       WriteFails, WriteSeparator, WriteError, Tick, Over, vars, UpstreamOutcome
  <2> QED
    BY <2>1, <2>2, <2>3, <2>4, <2>5, <2>6, <2>7 DEF Upstream, Client, EndsInPanic
<1> QED
  BY <1>1, <1>2, PromiseInvariant, PTL DEF Spec

\* Bridge implements Downstream: hyper and the client receive from sse_channel
\* what Downstream promises, whatever the timers, the full channel and the
\* moment of the upstream's failure did to the task.
THEOREM PromiseKept == ASSUME ~ Overflows PROVE Spec => KeepsPromise
<1>1. ctl # "panicked" /\ [Promise!Next \/ EndsInPanic]_(Promise!vars)
        => [Promise!Next]_(Promise!vars)
  BY DEF EndsInPanic
<1> QED
  BY <1>1, OnlyTheEndIsWrong, NoPanic, PTL DEF KeepsPromise, Promise!Spec

\* Where a task with an interval that is too long can be: its timer never fires,
\* so it has written nothing, and the first chunk is the last.
PanicInv ==
    /\ TypeOK /\ ReplyInv
    /\ ctl = "panicked" => Overflows /\ resp = "sse" /\ pulled = 1
    /\ Overflows => /\ ctl \notin {"wait", "collect"}
                    /\ ctl = "race" => pulled = 0
                    /\ ctl = "stream" => pulled = IF job = NoFrame THEN 0 ELSE 1

LEMMA NextPanic == PanicInv /\ UpstreamInv /\ [Next]_vars => PanicInv'
<1> SUFFICES ASSUME PanicInv, UpstreamInv, [Next]_vars PROVE PanicInv'
  OBVIOUS
<1>t. TypeOK' /\ ReplyInv' /\ TypeOK /\ ReplyInv
  BY NextTypeOK, NextReply DEF PanicInv
<1> USE <1>t DEF PanicInv, Overflows
<1>1. CASE AnsweredSse \/ AnsweredOther
  BY <1>1 DEF AnsweredSse, AnsweredOther, ReplyInv
<1>2. CASE WindowCloses \/ Beat \/ SkipBeat
  BY <1>2 DEF WindowCloses, Beat, SkipBeat, Reset, TimerFired
<1>3. CASE AnsweredLate
  <2>1. ctl' \in {"stream", "collect", "error"}
    BY <1>3 DEF AnsweredLate, TypeOK, Answers
  <2> QED
    BY <1>3, <2>1 DEF AnsweredLate
<1>4. CASE PullChunk
  BY <1>4 DEF PullChunk, FrameOf, NoFrame
<1>5. CASE PullEnd \/ Collected
  BY <1>5 DEF PullEnd, AfterBreak, Collected
<1>6. CASE Written
  BY <1>6 DEF Written, Rearm, Reset, ReplyInv
<1>7. CASE WriteFails \/ WriteSeparator \/ WriteError
  BY <1>7 DEF WriteFails, AfterFailure, WriteSeparator, WriteError
<1>8. CASE Upstream \/ Client
  BY <1>8 DEF Upstream, Answer, Produce, Settle, Client, Deliver, DeliverEnd, Leave
<1>9. CASE Tick \/ Over \/ UNCHANGED vars
  BY <1>9 DEF Tick, Over, vars
<1> QED
  BY <1>1, <1>2, <1>3, <1>4, <1>5, <1>6, <1>7, <1>8, <1>9 DEF Next, Task

\* The extent of what bridge_overflow shows: the task panics only if the clock
\* cannot represent the interval, in an answer that it streams, behind the first
\* chunk.
THEOREM PanicsBehindTheFirstChunk ==
    Spec => [](ctl = "panicked" => Overflows /\ resp = "sse" /\ pulled = 1)
<1>1. Init => PanicInv
  BY InitTypeOK DEF Init, PanicInv, ReplyInv, NewView
<1>2. PanicInv => (ctl = "panicked" => Overflows /\ resp = "sse" /\ pulled = 1)
  BY DEF PanicInv
<1>3. PromiseInv => UpstreamInv
  BY DEF PromiseInv
<1> QED
  BY <1>1, <1>2, <1>3, NextPanic, PromiseInvariant, PTL DEF Spec

\* Bridge implements Response, on which Server relies: the request is relayed
\* or fed by one task of passthrough_sse_response or bridge, its body ends
\* only behind that task, and the task outlives the client.  This needs no
\* assumption on the interval: a task that panics has returned.
THEOREM ContractKept == Spec => KeepsContract
<1> DEFINE Inv == TypeOK /\ ReplyInv
           Fed == IF resp = "sse" /\ ~ Stopped THEN 1 ELSE 0
<1>1. Init => Inv /\ Contract!Init
  <2> SUFFICES ASSUME Init PROVE Inv /\ Contract!Init
    OBVIOUS
  <2>1. ReplyInv
    BY DEF Init, ReplyInv, NewView
  <2>2. Reply = "awaited" /\ Fed = 0
    BY DEF Init, Reply
  <2> QED
    BY <2>1, <2>2, InitTypeOK DEF Contract!Init
<1>2. Inv /\ [Next]_vars => Inv'
  BY NextTypeOK, NextReply
<1>3. ASSUME Inv, [Next]_vars
      PROVE  [Contract!Next]_(Contract!vars)
  <2> USE DEF Contract!vars, Stopped
  <2>1. CASE AnsweredSse \/ WindowCloses
    <3>1. /\ resp = "none" /\ ~ gone /\ ~ view.over /\ Fed = 0
          /\ resp' = "sse" /\ ~ gone' /\ ~ view'.over /\ Fed' = 1
      BY <1>3, <2>1 DEF AnsweredSse, WindowCloses, ReplyInv
    <3>2. Reply = "awaited" /\ Reply' = "fed"
      BY <3>1 DEF Reply
    <3>3. Contract!Feed
      BY <3>1, <3>2 DEF Contract!Feed
    <3> QED
      BY <3>3 DEF Contract!Next
  <2>2. CASE AnsweredOther
    <3>1. /\ resp = "none" /\ ~ gone /\ Fed = 0
          /\ resp' \in {"relayed", "bad_gateway"} /\ ~ gone' /\ Fed' = 0
      BY <1>3, <2>2 DEF AnsweredOther, ReplyInv
    <3>2. Reply = "awaited" /\ Reply' = "relayed"
      BY <3>1 DEF Reply
    <3>3. Contract!Relay
      BY <3>1, <3>2 DEF Contract!Relay
    <3> QED
      BY <3>3 DEF Contract!Next
  <2>3. CASE DeliverEnd
    <3>1. /\ resp = "sse" /\ ~ gone /\ ~ view.over /\ Fed = 0
          /\ resp' = "sse" /\ ~ gone' /\ view'.over /\ Fed' = 0
      BY <1>3, <2>3 DEF DeliverEnd, SenderDropped, TypeOK, View
    <3>2. Reply = "fed" /\ Reply' = "quiet"
      BY <3>1 DEF Reply
    <3>3. Contract!End
      BY <3>1, <3>2 DEF Contract!End
    <3> QED
      BY <3>3 DEF Contract!Next
  <2>4. CASE Leave
    <3>1. gone' /\ Fed' = Fed
      BY <1>3, <2>4 DEF Leave, ReplyInv
    <3>2. Reply' = "gone"
      BY <3>1 DEF Reply
    <3>3. Contract!Lose
      BY <3>1, <3>2 DEF Contract!Lose
    <3> QED
      BY <3>3 DEF Contract!Next
  <2>5. ASSUME ~ AnsweredSse, ~ WindowCloses, ~ AnsweredOther, ~ DeliverEnd,
               ~ Leave
        PROVE  Contract!Return \/ UNCHANGED Contract!vars
    <3>1. UNCHANGED <<resp, gone>> /\ view'.over = view.over
      <4>1. CASE Deliver
        BY <1>3, <4>1 DEF Deliver, Seen, TypeOK, View
      <4>2. CASE ~ Deliver
        BY <1>3, <2>5, <4>2 DEF Next, Task, Upstream, Client, AnsweredLate,
           Beat, SkipBeat, PullChunk, PullEnd, Collected, Written, WriteFails,
           WriteSeparator, WriteError, Answer, Produce, Settle, Tick, Over, vars
      <4> QED
        BY <4>1, <4>2
    <3>2. Reply' = Reply
      BY <3>1 DEF Reply
    <3>3. Stopped => ctl' = ctl
      BY <1>3, <2>5 DEF Next, Task, Upstream, Client, AnsweredLate,
         Beat, SafePlace, SkipBeat, PullChunk, PullEnd, Collected, Written,
         WriteFails, WriteSeparator, WriteError, Answer, Produce, Settle,
         Deliver, Tick, Over, vars, ReplyInv
    <3>4. Fed' = Fed \/ (Fed = 1 /\ Fed' = 0)
      BY <3>1, <3>3
    <3> QED
      BY <3>2, <3>4 DEF Contract!Return
  <2> QED
    BY <2>1, <2>2, <2>3, <2>4, <2>5 DEF Contract!Next
<1> QED
  BY <1>1, <1>2, <1>3, PTL DEF Spec, KeepsContract, Contract!Spec

-----------------------------------------------------------------------------
(* The loops come to rest *)

\* The stages, as numbers.
LEMMA StageNumbers ==
    /\ Stages("race") = 6 /\ Stages("wait") = 5
    /\ Stages("stream") = 3 /\ Stages("collect") = 3
    /\ Stages("separator") = 2 /\ Stages("error") = 1
    /\ Stages("done") = 0 /\ Stages("panicked") = 0
    /\ \A c \in Ctl : Stages(c) \in 0 .. 6
BY DEF Stages, Ctl

\* What is due, as a number.
LEMMA DueNumber ==
    /\ Due \in {0, 1, 2}
    /\ job # NoFrame => Due = 1
    /\ job = NoFrame => Due = IF TimerFired THEN 2 ELSE 0
BY DEF Due

\* Each step of the task uses up work, if time passes between two heartbeats.
LEMMA TaskWorks ==
    ASSUME TypeOK, ReplyInv, Interval > 0, Task
    PROVE  Work' < Work
<1> DEFINE D == Len(sent) - pulled
<1>n. D \in Nat /\ Len(sent) \in Nat /\ pulled \in Nat /\ Interval \in Nat
  BY LenProperties, BridgeAssumption DEF TypeOK
<1>w. Work = 4 * D + Stages(ctl) + Due
  BY DEF Work
<1>v. Work' = 4 * D' + Stages(ctl') + Due'
  BY DEF Work, Stages
<1>d. /\ Due' \in {0, 1, 2}
      /\ job' # NoFrame => Due' = 1
      /\ job' = NoFrame => Due' = IF TimerFired' THEN 2 ELSE 0
  BY DEF Due
<1>r. left' = Interval => ~ TimerFired'
  BY <1>n DEF TimerFired
<1>k. UNCHANGED <<job, left>> => Due' = Due
  BY DEF Due, TimerFired
<1>1. ASSUME UNCHANGED <<sent, pulled>>, Stages(ctl') \in Nat, Stages(ctl) \in Nat,
             Stages(ctl') + Due' < Stages(ctl) + Due
      PROVE  Work' < Work
  BY <1>1, <1>n, <1>w, <1>v, <1>d, DueNumber
<1> HIDE DEF D
<1> USE StageNumbers, DueNumber, <1>d, <1>r, <1>k
<1>2. CASE AnsweredSse \/ AnsweredOther
  BY <1>1, <1>2 DEF AnsweredSse, AnsweredOther
<1>3. CASE WindowCloses
  <2>1. job = NoFrame
    BY <1>3 DEF WindowCloses, ReplyInv
  <2> QED
    BY <1>1, <1>3, <2>1 DEF WindowCloses
<1>4. CASE AnsweredLate
  <2>1. ctl' \in {"stream", "collect", "error"} /\ ctl = "wait" /\ left' = left
        /\ UNCHANGED <<job, sent, pulled>>
    BY <1>4 DEF AnsweredLate, LateTimer, TypeOK, Answers
  <2> QED
    BY <1>1, <2>1
<1>5. CASE Beat
  BY <1>1, <1>5 DEF Beat, SafePlace, FrameOf, NoFrame
<1>6. CASE SkipBeat
  BY <1>1, <1>6 DEF SkipBeat, Reset, TimerFired
<1>7. CASE PullChunk
  <2>1. D' = D - 1 /\ D > 0 /\ ctl' = ctl /\ ctl = "stream"
    BY <1>7, <1>n DEF PullChunk, D
  <2>2. job' # NoFrame
    BY <1>7 DEF PullChunk, FrameOf, NoFrame
  <2> QED
    BY <1>n, <1>w, <1>v, <2>1, <2>2
<1>8. CASE PullEnd
  BY <1>1, <1>8 DEF PullEnd, AfterBreak
<1>9. CASE Collected
  BY <1>1, <1>9 DEF Collected
<1>10. CASE Written
  BY <1>1, <1>10 DEF Written, Rearm, Reset, ReplyInv
<1>11. CASE WriteFails
  BY <1>1, <1>11 DEF WriteFails, AfterFailure, ReplyInv
<1>12. CASE WriteSeparator \/ WriteError
  BY <1>1, <1>12 DEF WriteSeparator, WriteError
<1> QED
  BY <1>2, <1>3, <1>4, <1>5, <1>6, <1>7, <1>8, <1>9, <1>10, <1>11, <1>12 DEF Task

\* The upstream supplies work chunk by chunk, and the timer one heartbeat.
LEMMA OthersWork ==
    ASSUME TypeOK, Upstream \/ Client \/ Tick \/ Over \/ UNCHANGED vars,
           ~ Produce, ~ Tick
    PROVE  Work' <= Work
<1>1. ctl \in Ctl /\ Len(sent) - pulled \in Nat /\ Due \in Nat
  BY LenProperties, DueNumber DEF TypeOK
<1>2. ASSUME UNCHANGED <<sent, pulled, job, left>>, ctl' \in {ctl, "done"}
      PROVE  Work' <= Work
  <2>1. Due' = Due
    BY <1>2 DEF Due, TimerFired
  <2>2. Work' = 4 * (Len(sent) - pulled) + Stages(ctl') + Due
    BY <1>2, <2>1 DEF Work, Stages
  <2> QED
    BY <1>1, <1>2, <2>2, StageNumbers DEF Work
<1>3. CASE Answer \/ Settle
  BY <1>2, <1>3 DEF Answer, Settle
<1>4. CASE Client
  BY <1>2, <1>4 DEF Client, Deliver, DeliverEnd, Leave
<1>5. CASE Over \/ UNCHANGED vars
  BY <1>2, <1>5 DEF Over, vars
<1> QED
  BY <1>3, <1>4, <1>5 DEF Upstream

\* The task comes to rest between two chunks or two ticks, in every loop of the
\* path and whatever is ready, unless the interval is 0.
THEOREM LoopsComeToRest == Spec => NeverSpins
<1> DEFINE Inv == TypeOK /\ ReplyInv
           Rests == Interval > 0 => /\ Task => Work' < Work
                                    /\ Work' > Work => Produce \/ Tick
<1>1. Init => Inv
  BY InitTypeOK DEF Init, ReplyInv, NewView
<1>2. Inv /\ [Next]_vars => Inv'
  BY NextTypeOK, NextReply
<1>3. Inv /\ [Next]_vars => [Rests]_vars
  <2> SUFFICES ASSUME Inv, Next, Interval > 0
               PROVE  /\ Task => Work' < Work
                      /\ Work' > Work => Produce \/ Tick
    OBVIOUS
  <2>1. Work \in Nat
    <3>1. Len(sent) - pulled \in Nat /\ ctl \in Ctl
      BY LenProperties DEF TypeOK
    <3> QED
      BY <3>1, StageNumbers, DueNumber DEF Work
  <2>2. Work' \in Int
    <3>1. TypeOK'
      BY NextTypeOK
    <3>2. ctl' \in Ctl /\ Len(sent') \in Nat /\ pulled' \in Nat
      BY <3>1, LenProperties DEF TypeOK
    <3>3. Due' \in Int /\ Stages(ctl') \in Int
      BY <3>2, StageNumbers DEF Due
    <3>4. Work' = 4 * (Len(sent') - pulled') + Stages(ctl') + Due'
      BY DEF Work, Stages
    <3> QED
      BY <3>2, <3>3, <3>4
  <2>3. Task => Work' < Work
    BY TaskWorks
  <2>4. ~ Task /\ ~ Produce /\ ~ Tick => Work' <= Work
    BY OthersWork DEF Next
  <2> QED
    BY <2>1, <2>2, <2>3, <2>4
<1> QED
  BY <1>1, <1>2, <1>3, PTL DEF Spec, NeverSpins

-----------------------------------------------------------------------------
(* A client that leaves is noticed *)

\* Without its client the task stands still until it takes a step itself, and
\* stays ready if it is.
LEMMA AloneStep ==
    ASSUME TypeOK, gone, [Next]_vars
    PROVE  /\ gone'
           /\ Task \/ UNCHANGED <<ctl, job, atBoundary>>
           /\ <<Task>>_vars \/ (Ready => Ready')
<1>1. CASE <<Task>>_vars
  BY <1>1 DEF Task, AnsweredSse, AnsweredOther, WindowCloses, AnsweredLate, Beat,
     SkipBeat, PullChunk, PullEnd, Collected, Written, WriteFails,
     WriteSeparator, WriteError
<1>2. CASE Answer \/ Settle
  BY <1>2 DEF Answer, Settle, Ready, BodyRead, TimerFired, Room
<1>3. CASE Produce
  <2>1. PICK kind \in {"whole", "open"} : sent' = Append(sent, kind)
    BY <1>3 DEF Produce
  <2>2. Len(sent') = Len(sent) + 1 /\ Len(sent) \in Nat /\ pulled \in Nat
    BY <2>1, AppendProperties, LenProperties DEF TypeOK
  <2> QED
    BY <1>3, <2>2 DEF Produce, Ready, BodyRead, TimerFired, Room
<1>4. CASE Tick
  BY <1>4 DEF Tick
<1>5. CASE Client
  BY <1>5 DEF Client, Deliver, DeliverEnd, Leave
<1>6. CASE Over \/ UNCHANGED vars
  BY <1>6 DEF Over, vars, Ready, BodyRead, TimerFired, Room
<1> QED
  BY <1>1, <1>2, <1>3, <1>4, <1>5, <1>6 DEF Next, Upstream

\* The task is where it can be, and so is its response.
LEMMA PlacesInvariance == Spec => [](TypeOK /\ ReplyInv)
<1>1. Init => TypeOK /\ ReplyInv
  BY InitTypeOK DEF Init, ReplyInv, NewView
<1>2. TypeOK /\ ReplyInv /\ [Next]_vars => TypeOK' /\ ReplyInv'
  BY NextTypeOK, NextReply
<1> QED
  BY <1>1, <1>2, PTL DEF Spec

\* The task writes next, and the write fails.
Fails == gone /\ job # NoFrame
Alone(c) == gone /\ ctl = c /\ job = NoFrame
Inside == Alone("stream") /\ ~ atBoundary
Between == Alone("stream") /\ atBoundary

\* Where the task can be without its client.
LEMMA AloneSomewhere ==
    ASSUME TypeOK, ReplyInv, gone
    PROVE  \/ Stopped \/ Fails \/ Alone("wait") \/ Alone("collect")
           \/ Alone("separator") \/ Alone("error") \/ Inside \/ Between
BY DEF TypeOK, ReplyInv, Ctl, Stopped, Fails, Alone, Inside, Between

\* Where its own steps lead from there: to the end, or at least further.
LEMMA AloneMoves ==
    ASSUME ~ Overflows, TypeOK, ReplyInv, gone, Task
    PROVE  /\ Fails => Stopped'
           /\ Alone("error") => Stopped'
           /\ Alone("separator") => Alone("error")'
           /\ Alone("collect") => Fails' \/ Alone("error")'
           /\ Between => \/ Stopped' \/ Fails'
                         \/ Alone("separator")' \/ Alone("error")'
           /\ Inside => \/ Stopped' \/ Fails' \/ Inside'
                        \/ Alone("separator")' \/ Alone("error")'
           /\ Alone("wait") => \/ Fails' \/ Alone("collect")' \/ Between'
                               \/ Alone("error")'
<1> USE DEF Fails, Alone, Inside, Between, Stopped, ReplyInv
<1>1. CASE AnsweredSse \/ AnsweredOther \/ WindowCloses
  BY <1>1 DEF AnsweredSse, AnsweredOther, WindowCloses
<1>2. CASE AnsweredLate
  <2>1. ctl' \in {"stream", "collect", "error"}
    BY <1>2 DEF AnsweredLate, TypeOK, Answers
  <2> QED
    BY <1>2, <2>1 DEF AnsweredLate
<1>3. CASE Beat
  BY <1>3 DEF Beat, SafePlace, FrameOf, NoFrame
<1>4. CASE SkipBeat
  BY <1>4 DEF SkipBeat, Reset
<1>5. CASE PullChunk
  BY <1>5 DEF PullChunk, FrameOf, NoFrame
<1>6. CASE PullEnd
  BY <1>6 DEF PullEnd, AfterBreak
<1>7. CASE Collected
  BY <1>7 DEF Collected
<1>8. CASE Written
  BY <1>8 DEF Written, Room
<1>9. CASE WriteFails
  BY <1>9 DEF WriteFails, AfterFailure
<1>10. CASE WriteSeparator \/ WriteError
  BY <1>10 DEF WriteSeparator, WriteError
<1> QED
  BY <1>1, <1>2, <1>3, <1>4, <1>5, <1>6, <1>7, <1>8, <1>9, <1>10 DEF Task

\* The places where it waits for its timer, or for the upstream, and can write.
Idling == (Alone("wait") \/ Alone("collect") \/ Between) /\ ~ Ready

\* The timer runs while it waits.
LEMMA TimerRuns ==
    ASSUME ~ Overflows, TypeOK, ReplyInv, Idling
    PROVE  left \in Nat /\ left > 0 /\ ~ Stopped
<1>1. left \in Nat
  BY BridgeAssumption DEF TypeOK
<1>2. left # 0
  BY DEF Idling, Alone, Between, Ready, TimerFired
<1> QED
  BY <1>1, <1>2 DEF Idling, Alone, Between, Stopped

\* Only a tick moves it there.
LEMMA IdleStep ==
    ASSUME ~ Overflows, TypeOK, ReplyInv, Idling, [Next]_vars
    PROVE  /\ ~ Idling' \/ left' \in {left, left - 1}
           /\ Tick => left' = left - 1
<1>1. left \in Nat /\ left > 0 /\ gone /\ job = NoFrame
  BY TimerRuns DEF Idling, Alone, Between
<1>2. CASE Tick
  BY <1>1, <1>2 DEF Tick
<1>3. CASE Task /\ ~ Tick
  <2>1. ~ WindowCloses /\ ~ SkipBeat /\ ~ AnsweredSse /\ ~ Written
    BY <1>1 DEF Idling, Alone, Between, WindowCloses, SkipBeat, AnsweredSse, Written
  <2>2. UNCHANGED left
    BY <1>3, <2>1 DEF Task, AnsweredOther, AnsweredLate, LateTimer, Beat, PullChunk,
       PullEnd, Collected, WriteFails, WriteSeparator, WriteError
  <2> QED
    BY <1>1, <1>3, <2>2
<1>4. CASE (Upstream \/ Client \/ Over \/ UNCHANGED vars) /\ ~ Tick
  BY <1>4 DEF Upstream, Answer, Produce, Settle, Client, Deliver, DeliverEnd, Leave,
     Over, vars
<1> QED
  BY <1>2, <1>3, <1>4 DEF Next

\* So what is left of the interval becomes less.
LEMMA TimerFalls ==
    ASSUME ~ Overflows, NEW n \in Nat
    PROVE  FairSpec /\ []NeverStuck
               => (left = n ~> left \in 0 .. n - 1 \/ ~ Idling)
<1> DEFINE Inv == TypeOK /\ ReplyInv
           Still == Idling /\ left = n
           Less == left \in 0 .. n - 1 \/ ~ Idling
<1>1. left = n => Less \/ Still
  OBVIOUS
<1>2. Inv /\ [Next]_vars => (Still => Still' \/ Less')
  <2> SUFFICES ASSUME Inv, [Next]_vars, Still PROVE Still' \/ Less'
    OBVIOUS
  <2> QED
    BY IdleStep, TimerRuns
<1>3. Inv /\ [Next]_vars /\ <<Tick>>_vars => (Still => Less')
  <2> SUFFICES ASSUME Inv, [Next]_vars, Tick, Still PROVE Less'
    OBVIOUS
  <2> QED
    BY IdleStep, TimerRuns
<1>4. Inv /\ Still => ~ Ready /\ ~ Stopped /\ ~ Overflows /\ left > 0
  BY TimerRuns DEF Idling
<1> HIDE DEF Still
<1> QED
  BY <1>1, <1>2, <1>3, <1>4, PlacesInvariance, PTL
     DEF FairSpec, Fairness, Spec, NeverStuck

\* It does not wait for ever, however long the interval is.
LEMMA WaitsEnd ==
    ASSUME ~ Overflows
    PROVE  FairSpec /\ []NeverStuck /\ EndsAtZero(left, ~ Idling) => []<>~ Idling
<1>1. FairSpec /\ []NeverStuck
        => \A n \in Nat : (left = n ~> left \in 0 .. n - 1 \/ ~ Idling)
  BY TimerFalls
<1>2. FairSpec /\ []NeverStuck /\ EndsAtZero(left, ~ Idling)
        => (left \in Nat ~> ~ Idling)
  BY <1>1 DEF EndsAtZero
<1>3. TypeOK => left \in Nat
  BY BridgeAssumption DEF TypeOK
<1> QED
  BY <1>2, <1>3, TypeCorrect, PTL DEF FairSpec

\* A client that disconnects is noticed, for every interval that the clock can
\* represent: from each place of the code the task comes to a write, which fails,
\* with no help from the upstream, or it waits inside an event for ever.
THEOREM DisconnectNoticed ==
    ASSUME ~ Overflows
    PROVE  FairSpec /\ []NeverStuck /\ EndsAtZero(left, ~ Idling) => GoneNoticed
<1> DEFINE Inv == TypeOK /\ ReplyInv
           F == Fails
           W == Alone("wait")
           C == Alone("collect")
           S == Alone("separator")
           E == Alone("error")
           I == Inside
           B == Between
           Stuck == ctl = "stream" /\ ~ atBoundary
           Live == FairSpec /\ []NeverStuck /\ []<>~ Idling
<1>1. FairSpec => []Inv
  BY PlacesInvariance, PTL DEF FairSpec
<1>2. Inv /\ gone => Stopped \/ F \/ W \/ C \/ S \/ E \/ I \/ B
  BY AloneSomewhere
<1>3. /\ Inv /\ (F \/ S \/ E) => Ready
      /\ W \/ C \/ B => Idling \/ Ready
      /\ F \/ S \/ E \/ W \/ C \/ B => ~ SkipsAlways
      /\ I => Stuck
  BY DEF Fails, Alone, Inside, Between, Idling, Ready, SkipsAlways
<1>4. Inv /\ [Next]_vars /\ <<Task>>_vars
        => /\ F => Stopped'
           /\ E => Stopped'
           /\ S => E'
           /\ C => F' \/ E'
           /\ B => Stopped' \/ F' \/ S' \/ E'
           /\ W => F' \/ C' \/ B' \/ E'
  <2>1. F \/ E \/ S \/ C \/ B \/ W => gone
    BY DEF Fails, Alone, Inside, Between
  <2> QED
    BY <2>1, AloneMoves
<1>5. Inv /\ [Next]_vars
        => /\ F => F' \/ Stopped'
           /\ E => E' \/ Stopped'
           /\ S => S' \/ E'
           /\ C => C' \/ F' \/ E'
           /\ B => B' \/ Stopped' \/ F' \/ S' \/ E'
           /\ W => W' \/ F' \/ C' \/ B' \/ E'
           /\ I => I' \/ Stopped' \/ F' \/ S' \/ E'
  <2> SUFFICES ASSUME Inv, [Next]_vars, gone
               PROVE  /\ F => F' \/ Stopped'
                      /\ E => E' \/ Stopped'
                      /\ S => S' \/ E'
                      /\ C => C' \/ F' \/ E'
                      /\ B => B' \/ Stopped' \/ F' \/ S' \/ E'
                      /\ W => W' \/ F' \/ C' \/ B' \/ E'
                      /\ I => I' \/ Stopped' \/ F' \/ S' \/ E'
    BY DEF Fails, Alone, Inside, Between
  <2>1. CASE Task
    BY <2>1, AloneMoves
  <2>2. CASE ~ Task
    BY <2>2, AloneStep DEF Fails, Alone, Inside, Between
  <2> QED
    BY <2>1, <2>2
<1>6. Inv /\ [Next]_vars /\ (F \/ W \/ C \/ S \/ E \/ B) /\ Ready
        => Ready' \/ <<Task>>_vars
  BY AloneStep DEF Fails, Alone, Inside, Between
<1>7. Inv /\ [Next]_vars /\ gone => gone'
  BY AloneStep
<1>8. FairSpec /\ []NeverStuck
        => []([](Ready /\ ~ SkipsAlways) => <><<Task>>_vars)
  BY PTL DEF FairSpec, Fairness, NeverStuck
<1>9. Live => (F \/ S \/ E ~> Stopped)
  BY <1>1, <1>3, <1>4, <1>5, <1>6, <1>8, PTL DEF FairSpec, Spec
<1>10. Live => (C \/ B \/ W ~> F \/ S \/ E \/ Stopped)
  BY <1>1, <1>3, <1>4, <1>5, <1>6, <1>8, PTL DEF FairSpec, Spec
<1>11. FairSpec => [](I => []Stuck \/ <>(F \/ S \/ E \/ Stopped))
  BY <1>1, <1>3, <1>5, PTL DEF FairSpec, Spec
<1>12. Live => GoneNoticed
  BY <1>1, <1>2, <1>9, <1>10, <1>11, PTL DEF GoneNoticed, FairSpec, Spec
<1> QED
  BY <1>12, WaitsEnd

-----------------------------------------------------------------------------
(* A stream that has ended is concluded *)

\* The upstream is through with a client that is still there.
Ending == answer \in {"opaque", "fail"} \/ outcome # "flowing"

Closing == Ending /\ ~ gone /\ ~ view.over /\ resp \in {"none", "sse"}

\* The work of the task, with a heartbeat only where one may be written, and
\* what hyper then still has to send.  A step of the task that adds a frame to
\* the channel takes more from the first than it adds to the second.
ToDo == 4 * (Len(sent) - pulled) + Stages(ctl) + (IF ctl \in Loops THEN Due ELSE 0)

Remaining == 2 * ToDo + Len(chan)

\* Only handle_stream answers a client that stays without a stream.
Served == ctl = "done" /\ resp = "none" => gone

LEMMA NextServed == Served /\ ReplyInv /\ [Next]_vars => Served'
<1> SUFFICES ASSUME Served, ReplyInv, [Next]_vars PROVE Served'
  OBVIOUS
<1> USE DEF Served, ReplyInv
<1>1. CASE AnsweredSse \/ AnsweredOther \/ WindowCloses \/ AnsweredLate \/ Beat
  BY <1>1 DEF AnsweredSse, AnsweredOther, WindowCloses, AnsweredLate, Beat
<1>2. CASE SkipBeat \/ PullChunk \/ PullEnd \/ Collected
  BY <1>2 DEF SkipBeat, Reset, PullChunk, PullEnd, Collected
<1>3. CASE Written \/ WriteFails \/ WriteSeparator \/ WriteError
  BY <1>3 DEF Written, Rearm, Reset, WriteFails, WriteSeparator, WriteError
<1>4. CASE Upstream
  BY <1>4 DEF Upstream, Answer, Produce, Settle
<1>5. CASE Client
  BY <1>5 DEF Client, Deliver, DeliverEnd, Leave
<1>6. CASE Tick \/ Over \/ UNCHANGED vars
  BY <1>6 DEF Tick, Over, vars
<1> QED
  BY <1>1, <1>2, <1>3, <1>4, <1>5, <1>6 DEF Next, Task

\* What the rest of the section knows of the states of a behaviour.
RestInv == TypeOK /\ ReplyInv /\ UpstreamInv /\ Served

LEMMA RestInvariance == Spec => []RestInv
<1>1. Init => RestInv
  BY InitTypeOK, LenProperties
     DEF Init, RestInv, ReplyInv, UpstreamInv, Served, NewView
<1>2. RestInv /\ [Next]_vars => RestInv'
  BY NextTypeOK, NextReply, NextUpstream, NextServed DEF RestInv
<1> QED
  BY <1>1, <1>2, PTL DEF Spec

\* Each loop then has an arm that is ready, unless it waits in write_event.
LEMMA EndingWakes ==
    ASSUME RestInv, Ending, job = NoFrame, ctl \in Loops
    PROVE  Ready
BY DEF RestInv, UpstreamInv, Ending, Loops, Ready, BodyRead

\* So the task can go on, or hyper has something to send.
LEMMA NobodyWaits ==
    ASSUME RestInv, Closing
    PROVE  Ready \/ Sends
<1> USE DEF Closing
<1>1. CASE Stopped
  BY <1>1 DEF RestInv, Served, ReplyInv, Stopped, Sends, SenderDropped
<1>2. CASE ~ Stopped /\ job = NoFrame /\ ctl \in Loops
  BY <1>2, EndingWakes
<1>3. CASE ~ Stopped /\ ~ (job = NoFrame /\ ctl \in Loops)
  <2>1. job # NoFrame \/ ctl \in {"separator", "error"}
    BY <1>3 DEF RestInv, TypeOK, Ctl, Loops, Stopped
  <2>2. CASE Room
    BY <2>1, <2>2 DEF Ready
  <2>3. CASE ~ Room
    <3>1. Len(chan) > 0
      BY <2>3, BridgeAssumption, LenProperties DEF Room, RestInv, TypeOK
    <3> QED
      BY <3>1, LenProperties DEF Sends, RestInv, TypeOK
  <2> QED
    BY <2>2, <2>3
<1> QED
  BY <1>1, <1>2, <1>3

\* The two parts of what remains, as numbers.
Sized ==
    /\ ToDo \in Nat /\ Len(chan) \in Nat /\ Remaining \in Nat
    /\ ToDo <= Work /\ Work \in Nat
    /\ ctl \in Loops => ToDo = Work

LEMMA RemainingIsNat == TypeOK => Sized
<1> SUFFICES ASSUME TypeOK PROVE Sized
  OBVIOUS
<1>1. Len(sent) - pulled \in Nat /\ ctl \in Ctl /\ Len(chan) \in Nat
  BY LenProperties DEF TypeOK
<1>2. Stages(ctl) \in Nat /\ Due \in Nat
  BY <1>1, StageNumbers, DueNumber
<1>3. /\ ToDo \in Nat /\ ToDo <= Work /\ Work \in Nat
      /\ ctl \in Loops => ToDo = Work
  BY <1>1, <1>2 DEF ToDo, Work
<1> QED
  BY <1>1, <1>3 DEF Remaining, Sized

\* A step of the task takes some of its work away and sends one frame at most.
LEMMA TaskRemains ==
    ASSUME RestInv, Interval > 0, [Next]_vars, Task
    PROVE  Remaining' < Remaining
<1>1. TypeOK /\ ReplyInv /\ TypeOK' /\ Sized
  BY NextTypeOK, RemainingIsNat DEF RestInv
<1>2. Len(chan') \in Nat /\ Len(chan') <= Len(chan) + 1
  <2>1. UNCHANGED chan \/ \E f \in Frame : chan' = Append(chan, f)
    BY <1>1, FrameTypes DEF Task, AnsweredSse, AnsweredOther, WindowCloses, AnsweredLate,
       Beat, SkipBeat, PullChunk, PullEnd, Collected, Written, WriteFails,
       WriteSeparator, WriteError, Push, TypeOK
  <2> QED
    BY <1>1, <2>1, LenProperties, AppendProperties DEF TypeOK
<1>3. ToDo' \in Nat /\ ToDo' <= Work' /\ Work' \in Nat
  <2>1. TypeOK' => Sized'
    BY RemainingIsNat, PTL
  <2> QED
    BY <1>1, <2>1 DEF Sized
<1>4. ToDo' < ToDo
  <2>1. CASE ctl \in Loops
    BY <1>1, <1>3, <2>1, TaskWorks DEF Sized
  <2>2. CASE ctl \notin Loops
    <3>1. WriteSeparator \/ WriteError
      BY <1>1, <2>2 DEF Task, AnsweredSse, AnsweredOther, WindowCloses, AnsweredLate,
         Beat, SafePlace, SkipBeat, PullChunk, PullEnd, Collected, Written,
         WriteFails, ReplyInv, Loops
    <3>2. /\ UNCHANGED <<sent, pulled>> /\ ctl' \notin Loops
          /\ Stages(ctl') \in Nat /\ Stages(ctl) \in Nat
          /\ Stages(ctl') < Stages(ctl)
      BY <3>1, StageNumbers DEF WriteSeparator, WriteError, Loops
    <3>3. Len(sent) - pulled \in Nat
      BY <1>1, LenProperties DEF TypeOK
    <3>4. ToDo = 4 * (Len(sent) - pulled) + Stages(ctl)
      BY <2>2, <3>2, <3>3 DEF ToDo
    <3>5. ToDo' = 4 * (Len(sent) - pulled) + Stages(ctl')
      <4>1. ToDo' = 4 * (Len(sent') - pulled') + Stages(ctl')
                      + (IF ctl' \in Loops THEN Due' ELSE 0)
        BY DEF ToDo, Stages
      <4> QED
        BY <3>2, <3>3, <4>1
    <3> QED
      BY <3>2, <3>3, <3>4, <3>5
  <2> QED
    BY <2>1, <2>2
<1> QED
  BY <1>1, <1>2, <1>3, <1>4 DEF Remaining, Sized

\* hyper takes a frame out of the channel, or ends the body.
LEMMA HyperRemains ==
    ASSUME RestInv, Closing, Deliver \/ DeliverEnd
    PROVE  ~ Closing' \/ Remaining' < Remaining
<1>1. CASE DeliverEnd
  BY <1>1 DEF DeliverEnd, Closing, RestInv, TypeOK, View
<1>2. CASE Deliver
  <2>1. Sized /\ chan \in Seq(Frame) /\ chan # <<>> /\ chan' = Tail(chan)
    BY <1>2, RemainingIsNat DEF RestInv, TypeOK, Deliver
  <2>2. Len(chan') = Len(chan) - 1
    BY <2>1, ChannelTypes
  <2>3. ToDo' = ToDo
    BY <1>2 DEF Deliver, upstreamVars, ToDo, Stages, Due, TimerFired
  <2> QED
    BY <2>1, <2>2, <2>3 DEF Remaining, Sized
<1> QED
  BY <1>1, <1>2

\* No other step makes work, or keeps the task or hyper from doing it.  In
\* particular time only passes while the task waits in write_event, where a
\* timer that fires is not looked at.
LEMMA OthersWait ==
    ASSUME RestInv, Closing, [Next]_vars, ~ Task, ~ Deliver, ~ DeliverEnd, Closing'
    PROVE  /\ Remaining' = Remaining
           /\ Ready => Ready'
           /\ Sends => Sends'
<1> USE DEF Closing, Ending
<1>1. ~ Upstream
  BY DEF Upstream, Answer, Produce, Settle, Streaming, RestInv, UpstreamInv
<1>2. ~ Leave
  BY DEF Leave
<1>3. CASE Tick
  <2>1. ~ Ready /\ UNCHANGED <<ctl, job, chan, resp, pulled, sent, view, gone>>
    BY <1>3 DEF Tick, upstreamVars, clientVars
  <2>2. (IF ctl' \in Loops THEN Due' ELSE 0) = (IF ctl \in Loops THEN Due ELSE 0)
    BY <2>1, EndingWakes DEF Due
  <2>3. Remaining' = Remaining
    BY <2>1, <2>2 DEF Remaining, ToDo, Stages
  <2> QED
    BY <2>1, <2>3 DEF Sends, SenderDropped, Stopped
<1>4. CASE Over \/ UNCHANGED vars
  BY <1>4 DEF Over, vars, Remaining, ToDo, Stages, Due, TimerFired, Ready,
     BodyRead, Room, Sends, SenderDropped, Stopped
<1> QED
  BY <1>1, <1>2, <1>3, <1>4 DEF Next, Client

\* So what remains becomes less.
LEMMA RemainingFalls ==
    ASSUME Interval > 0, NEW n \in Nat
    PROVE  FairSpec /\ []NeverStuck
               => (Remaining = n ~> Remaining \in 0 .. n - 1 \/ ~ Closing)
<1> DEFINE Working == Closing /\ Remaining = n /\ Ready
           Sending == Closing /\ Remaining = n /\ Sends
           Less == Remaining \in 0 .. n - 1 \/ ~ Closing
           Hyper == Deliver \/ DeliverEnd
<1>1. RestInv /\ Remaining = n => Working \/ Sending \/ Less
  BY NobodyWaits
<1>2. Working => Ready /\ ~ SkipsAlways
  BY DEF SkipsAlways
<1>3. Sending => Sends
  OBVIOUS
<1>4. RestInv /\ [Next]_vars
        => /\ Working \/ Sending => (Task \/ Hyper => Less')
           /\ Working => Working' \/ Less'
           /\ Sending => Sending' \/ Less'
  <2> SUFFICES ASSUME RestInv, [Next]_vars, Closing, Remaining = n, Closing'
               PROVE  /\ Task \/ Hyper => Remaining' \in 0 .. n - 1
                      /\ ~ Task /\ ~ Hyper => /\ Remaining' = n
                                              /\ Ready => Ready'
                                              /\ Sends => Sends'
    OBVIOUS
  <2>1. Remaining' \in Nat
    <3>1. TypeOK'
      BY NextTypeOK DEF RestInv
    <3>2. TypeOK' => Sized'
      BY RemainingIsNat, PTL
    <3> QED
      BY <3>1, <3>2 DEF Sized
  <2>2. Task => Remaining' < n
    BY TaskRemains
  <2>3. Hyper => Remaining' < n
    BY HyperRemains
  <2>4. ~ Task /\ ~ Hyper => /\ Remaining' = n
                             /\ Ready => Ready'
                             /\ Sends => Sends'
    BY OthersWait
  <2> HIDE DEF Hyper
  <2> QED
    BY <2>1, <2>2, <2>3, <2>4
<1>5. RestInv /\ [Next]_vars /\ Working /\ <<Task>>_vars => Less'
  BY <1>4
<1>6. RestInv /\ [Next]_vars /\ Sending /\ <<Hyper>>_vars => Less'
  BY <1>4
<1>7. RestInv /\ [Next]_vars /\ Working => Working' \/ Less'
  BY <1>4
<1>8. RestInv /\ [Next]_vars /\ Sending => Sending' \/ Less'
  BY <1>4
<1>9. FairSpec /\ []NeverStuck
        => /\ []([](Ready /\ ~ SkipsAlways) => <><<Task>>_vars)
           /\ []([]Sends => <><<Hyper>>_vars)
  BY PTL DEF FairSpec, Fairness, NeverStuck
<1> HIDE DEF Working, Sending, Less, Hyper
<1>10. FairSpec /\ []NeverStuck => (Remaining = n ~> Less)
  BY <1>1, <1>2, <1>3, <1>5, <1>6, <1>7, <1>8, <1>9, RestInvariance, PTL
     DEF FairSpec, Spec
<1> QED
  BY <1>10 DEF Less

\* A client that stays sees the end of a stream that the upstream is through
\* with, whatever chunks and heartbeats still had to be written, and however
\* full the channel was, for every channel and every interval but 0: each step
\* of the task or of hyper leaves less to do, and nothing else makes work.
THEOREM StreamsConclude ==
    ASSUME Interval > 0
    PROVE  FairSpec /\ []NeverStuck /\ EndsAtZero(Remaining, ~ Closing)
               => StreamConcludes
<1>1. FairSpec /\ []NeverStuck
        => \A n \in Nat : (Remaining = n ~> Remaining \in 0 .. n - 1 \/ ~ Closing)
  BY RemainingFalls
<1>2. FairSpec /\ []NeverStuck /\ EndsAtZero(Remaining, ~ Closing)
        => (Remaining \in Nat ~> ~ Closing)
  BY <1>1 DEF EndsAtZero
<1>3. RestInv => Remaining \in Nat
  BY RemainingIsNat DEF RestInv, Sized
<1>4. RestInv /\ [Next]_vars => (Ending => Ending')
  <2> SUFFICES ASSUME RestInv, Next, Ending PROVE Ending'
    BY DEF vars, Ending
  <2>1. ~ Answer /\ ~ Produce
    BY DEF Answer, Produce, Streaming, Ending, RestInv, UpstreamInv
  <2> QED
    BY <2>1 DEF Next, Task, AnsweredSse, AnsweredOther, WindowCloses, AnsweredLate,
       Beat, SkipBeat, PullChunk, PullEnd, Collected, Written, WriteFails,
       WriteSeparator, WriteError, Upstream, Settle, Client, Deliver, DeliverEnd,
       Leave, Tick, Over, vars, upstreamVars, Ending
<1>5. RestInv /\ Ending /\ ~ Closing
        => view.over \/ gone \/ resp \in {"relayed", "bad_gateway"}
  BY DEF RestInv, TypeOK, Closing
<1>6. Concluded => Ending
  BY DEF Concluded, Ending
<1> QED
  BY <1>2, <1>3, <1>4, <1>5, <1>6, RestInvariance, PTL
     DEF FairSpec, Spec, StreamConcludes
=============================================================================
