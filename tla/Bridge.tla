------------------------------- MODULE Bridge -------------------------------
(***************************************************************************)
(* The SSE path of src/src/sse.rs for one request: handle_stream races the *)
(* upstream's answer against one heartbeat interval; a background task     *)
(* (bridge, or the task of passthrough_sse_response) then moves the        *)
(* upstream's stream into a bounded channel, keeps the client alive with   *)
(* heartbeats and turns every failure into an error event; hyper takes the *)
(* frames out of the channel and sends them to the client.                 *)
(*                                                                         *)
(* Actors: the task, the upstream, hyper with the client, and time.  Bytes *)
(* are abstracted to what a chunk does to EventBoundaryTracker (module     *)
(* EventBoundary): "whole" leaves at_boundary TRUE, "open" leaves it       *)
(* FALSE.  Time passes in ticks while the task has nothing to do: what the *)
(* task does takes no time.                                                *)
(***************************************************************************)
EXTENDS Naturals, Sequences

CONSTANTS
    Interval,       \* ticks: --heartbeat-interval
    MaxInterval,    \* the longest interval that an Instant can be moved by
    Capacity,       \* frames in the channel of sse_channel: 16 in the code
    MaxChunks       \* bound: chunks of the upstream's stream

ASSUME BridgeAssumption ==
    /\ Interval \in Nat
    /\ MaxInterval \in Nat
    /\ Capacity \in Nat \ {0}
    /\ MaxChunks \in Nat

VARIABLES
    ctl,        \* where the code stands: see Ctl
    job,        \* the frame that write_event is waiting to send, or NoFrame
    atBoundary, \* tracker.at_boundary of handle_success
    left,       \* ticks until the timer of the code fires
    idle,       \* ticks since the client was last sent something
    chan,       \* the channel between the task and hyper
    resp,       \* the response: "none", "sse", "relayed" or "bad_gateway"
    answer,     \* the upstream's answer, "pending" before there is one
    sent,       \* chunks of the upstream's body that have arrived
    pulled,     \* how many of them the task has taken
    outcome,    \* the upstream's body: "flowing", "finished" or "broken"
    view,       \* what the client has received
    gone        \* the client has disconnected: the receiver is dropped

upstreamVars == <<answer, sent, outcome>>
clientVars == <<view, gone>>
vars == <<ctl, job, atBoundary, left, idle, chan, resp, answer, sent, pulled,
          outcome, view, gone>>

Ctl == {"race",         \* handle_stream: select between answer and sleep
        "wait",         \* bridge: loop before the upstream's answer
        "stream",       \* handle_success: loop
        "collect",      \* handle_error: loop until the body is collected
        "separator",    \* write_event("\n\n") of a break inside an event
        "error",        \* write_event(error event)
        "done",         \* the task has returned, or was never started
        "panicked"}     \* the task has panicked

Stopped == ctl \in {"done", "panicked"}

\* What the upstream can answer: an SSE stream that can be decoded, another
\* 2xx response that can be decoded, a 2xx SSE response in a coding that
\* cannot, a status that is no 2xx, and a request that fails.
Answers == {"sse", "plain", "opaque", "status", "fail"}

\* A frame, and how many chunks have been written once it has been.
Frame == [kind : {"heartbeat", "chunk", "separator", "error"},
          n : 0 .. MaxChunks]

FrameOf(k, m) == [kind |-> k, n |-> m]

NoFrame == FrameOf("none", 0)

View == [got  : 0 .. MaxChunks,     \* chunks received
         open : BOOLEAN,            \* the last of them ended inside an event
         last : {"headers", "heartbeat", "chunk", "separator", "error"},
         over : BOOLEAN]            \* the stream has ended

NewView == [got |-> 0, open |-> FALSE, last |-> "headers", over |-> FALSE]

-----------------------------------------------------------------------------
(* Timer *)

\* Instant::now() + interval panics when there is no such Instant, while
\* sleep(interval) then waits for the far future.
Overflows == Interval > MaxInterval

\* reset(Instant::now() + interval), then on to `label`
Reset(label) ==
    IF Overflows THEN ctl' = "panicked" /\ UNCHANGED left
                 ELSE left' = Interval /\ ctl' = label

TimerFired == left = 0 /\ ~ Overflows

\* The channel takes another frame.
Unbounded == ~ gone     \* mutant: a channel without a limit
Room == ~ gone /\ Len(chan) < Capacity

Push(f) == chan' = Append(chan, f) /\ idle' = 0

-----------------------------------------------------------------------------
(* handle_stream *)

\* 2xx, SSE and decodable: passthrough_sse_response passes the headers on and
\* starts handle_success in a task of its own with a new timer.
AnsweredSse ==
    /\ ctl = "race" /\ answer = "sse"
    /\ ctl' = "stream" /\ resp' = "sse"
    /\ atBoundary' = TRUE
    /\ left' = Interval /\ idle' = 0
    /\ UNCHANGED <<job, chan, pulled, upstreamVars, clientVars>>

\* Any other answer goes to the client as it is.
AnsweredOther ==
    /\ ctl = "race" /\ answer \in {"plain", "opaque", "status", "fail"}
    /\ ctl' = "done"
    /\ resp' = IF answer = "fail" THEN "bad_gateway" ELSE "relayed"
    /\ UNCHANGED <<job, atBoundary, left, idle, chan, pulled,
                   upstreamVars, clientVars>>

\* The window closes: the gateway answers 200 itself and starts bridge.
WindowCloses ==
    /\ ctl = "race" /\ TimerFired
    /\ ctl' = "wait" /\ resp' = "sse"
    /\ left' = Interval /\ idle' = 0
    /\ UNCHANGED <<job, atBoundary, chan, pulled, upstreamVars, clientVars>>

-----------------------------------------------------------------------------
(* bridge *)

\* handle_success and handle_error go on with the timer of bridge.
FreshTimer == Interval      \* mutant: with a new one
LateTimer == left

\* The upstream answers after the window: the timer runs on.
AnsweredLate ==
    /\ ctl = "wait" /\ job = NoFrame /\ answer # "pending"
    /\ ctl' = CASE answer \in {"sse", "plain"}   -> "stream"
                [] answer = "status"             -> "collect"
                [] answer \in {"opaque", "fail"} -> "error"
    /\ atBoundary' = TRUE
    /\ left' = LateTimer
    /\ UNCHANGED <<job, idle, chan, resp, pulled, upstreamVars, clientVars>>

\* Where a heartbeat may be written.
AnyPlace == ctl \in {"wait", "collect", "stream"}   \* mutant: inside events too
StreamPlace == ctl = "stream" /\ atBoundary          \* mutant: for an answer only
SafePlace == ctl \in {"wait", "collect"} \/ (ctl = "stream" /\ atBoundary)

\* The timer fires where a heartbeat may be written.
Beat ==
    /\ SafePlace
    /\ job = NoFrame /\ TimerFired
    /\ job' = FrameOf("heartbeat", pulled)
    /\ UNCHANGED <<ctl, atBoundary, left, idle, chan, resp, pulled,
                   upstreamVars, clientVars>>

\* The timer fires inside an event: wait for another interval.
SkipBeat ==
    /\ ctl = "stream" /\ ~ atBoundary
    /\ job = NoFrame /\ TimerFired
    /\ Reset("stream")
    /\ UNCHANGED <<job, atBoundary, idle, chan, resp, pulled,
                   upstreamVars, clientVars>>

-----------------------------------------------------------------------------
(* handle_success and handle_error *)

\* The stream yields a chunk: feed the tracker, then write.
PullChunk ==
    /\ ctl = "stream" /\ job = NoFrame /\ pulled < Len(sent)
    /\ pulled' = pulled + 1
    /\ atBoundary' = (sent[pulled'] = "whole")
    /\ job' = FrameOf("chunk", pulled')
    /\ UNCHANGED <<ctl, left, idle, chan, resp, upstreamVars, clientVars>>

\* What to write first when the stream breaks.
SilentEnd == "done"         \* mutant: nothing
AfterBreak == IF atBoundary THEN "error" ELSE "separator"

\* The stream ends, or breaks between two events or inside one.
PullEnd ==
    /\ ctl = "stream" /\ job = NoFrame
    /\ pulled = Len(sent) /\ outcome # "flowing"
    /\ ctl' = IF outcome = "finished" THEN "done" ELSE AfterBreak
    /\ UNCHANGED <<job, atBoundary, left, idle, chan, resp, pulled,
                   upstreamVars, clientVars>>

\* What ends the loop of handle_error.
BodyWhole == outcome = "finished"   \* mutant: not a body that cannot be read
BodyRead == outcome # "flowing"

\* The error body has been read, or cannot be (a failure, more than 1 MiB).
Collected ==
    /\ ctl = "collect" /\ job = NoFrame /\ BodyRead
    /\ ctl' = "error"
    /\ UNCHANGED <<job, atBoundary, left, idle, chan, resp, pulled,
                   upstreamVars, clientVars>>

-----------------------------------------------------------------------------
(* SseWriter *)

\* A write that succeeds resets the timer, and the loop goes on.
NoReset(label) == ctl' = label /\ UNCHANGED left    \* mutant
Rearm(label) == Reset(label)

\* A chunk or a heartbeat finds room in the channel.
Written ==
    /\ job # NoFrame /\ Room
    /\ Push(job)
    /\ job' = NoFrame
    /\ Rearm(ctl)
    /\ UNCHANGED <<atBoundary, resp, pulled, upstreamVars, clientVars>>

\* Where the task goes when the receiver is gone.
KeepGoing == ctl            \* mutant: on, without its client
AfterFailure == "done"

\* The receiver is gone: the task returns, which drops the upstream's stream.
WriteFails ==
    /\ job # NoFrame /\ gone
    /\ ctl' = AfterFailure /\ job' = NoFrame
    /\ UNCHANGED <<atBoundary, left, idle, chan, resp, pulled,
                   upstreamVars, clientVars>>

\* The last writes of a failed stream, whose errors are ignored.
WriteSeparator ==
    /\ ctl = "separator"
    /\ \/ Room /\ Push(FrameOf("separator", pulled))
       \/ gone /\ UNCHANGED <<chan, idle>>
    /\ ctl' = "error"
    /\ UNCHANGED <<job, atBoundary, left, resp, pulled, upstreamVars, clientVars>>

WriteError ==
    /\ ctl = "error"
    /\ \/ Room /\ Push(FrameOf("error", pulled))
       \/ gone /\ UNCHANGED <<chan, idle>>
    /\ ctl' = "done"
    /\ UNCHANGED <<job, atBoundary, left, resp, pulled, upstreamVars, clientVars>>

-----------------------------------------------------------------------------
(* The upstream (external): nothing arrives once the task has dropped it *)

Answer ==
    /\ answer = "pending" /\ ~ Stopped
    /\ answer' \in Answers
    /\ UNCHANGED <<ctl, job, atBoundary, left, idle, chan, resp, sent, pulled,
                   outcome, clientVars>>

Streaming == answer \in {"sse", "plain"} /\ outcome = "flowing" /\ ~ Stopped

Produce ==
    /\ Streaming /\ Len(sent) < MaxChunks
    /\ \E kind \in {"whole", "open"} : sent' = Append(sent, kind)
    /\ UNCHANGED <<ctl, job, atBoundary, left, idle, chan, resp, answer,
                   pulled, outcome, clientVars>>

Settle ==
    /\ \/ Streaming
       \/ answer = "status" /\ outcome = "flowing" /\ ~ Stopped
    /\ outcome' \in {"finished", "broken"}
    /\ UNCHANGED <<ctl, job, atBoundary, left, idle, chan, resp, answer, sent,
                   pulled, clientVars>>

-----------------------------------------------------------------------------
(* hyper and the client (external) *)

Seen(v, f) ==
    IF f.kind = "chunk"
    THEN [v EXCEPT !.got = f.n, !.open = sent[f.n] = "open", !.last = "chunk"]
    ELSE [v EXCEPT !.last = f.kind,
                   !.open = IF f.kind = "separator" THEN FALSE ELSE @]

Deliver ==
    /\ ~ gone /\ chan # <<>>
    /\ view' = Seen(view, Head(chan))
    /\ chan' = Tail(chan)
    /\ UNCHANGED <<ctl, job, atBoundary, left, idle, resp, pulled, gone,
                   upstreamVars>>

\* The sender is dropped and the channel is empty: the body ends.
NoSender == TRUE            \* mutant: the channel closes when it is empty
SenderDropped == Stopped

DeliverEnd ==
    /\ ~ gone /\ ~ view.over /\ chan = <<>> /\ resp = "sse" /\ SenderDropped
    /\ view' = [view EXCEPT !.over = TRUE]
    /\ UNCHANGED <<ctl, job, atBoundary, left, idle, chan, resp, pulled, gone,
                   upstreamVars>>

\* The client disconnects: hyper drops the receiver, or handle_stream itself
\* while there is no response yet.
Leave ==
    /\ ~ gone /\ ~ view.over /\ resp \in {"none", "sse"}
    /\ gone' = TRUE
    /\ chan' = <<>>
    /\ ctl' = IF ctl = "race" THEN "done" ELSE ctl
    /\ UNCHANGED <<job, atBoundary, left, idle, resp, pulled, view, upstreamVars>>

-----------------------------------------------------------------------------
(* Time *)

\* The task can go on at once.
Ready ==
    \/ ctl = "race" /\ (answer # "pending" \/ TimerFired)
    \/ ctl = "wait" /\ job = NoFrame /\ (answer # "pending" \/ TimerFired)
    \/ /\ ctl = "stream" /\ job = NoFrame
       /\ pulled < Len(sent) \/ outcome # "flowing" \/ TimerFired
    \/ ctl = "collect" /\ job = NoFrame /\ (BodyRead \/ TimerFired)
    \/ /\ job # NoFrame \/ ctl \in {"separator", "error"}
       /\ Room \/ gone

Tick ==
    /\ ~ Ready /\ ~ Stopped
    /\ left' = IF Overflows \/ left = 0 THEN left ELSE left - 1
    /\ idle' = IF idle > Interval THEN idle ELSE idle + 1
    /\ UNCHANGED <<ctl, job, atBoundary, chan, resp, pulled,
                   upstreamVars, clientVars>>

-----------------------------------------------------------------------------

Init ==
    /\ ctl = "race" /\ job = NoFrame /\ atBoundary = TRUE
    /\ left = Interval /\ idle = 0
    /\ chan = <<>> /\ resp = "none"
    /\ answer = "pending" /\ sent = <<>> /\ pulled = 0 /\ outcome = "flowing"
    /\ view = NewView /\ gone = FALSE

Task ==
    \/ AnsweredSse \/ AnsweredOther \/ WindowCloses
    \/ AnsweredLate \/ Beat \/ SkipBeat
    \/ PullChunk \/ PullEnd \/ Collected
    \/ Written \/ WriteFails \/ WriteSeparator \/ WriteError

Upstream == Answer \/ Produce \/ Settle

Client == Deliver \/ DeliverEnd \/ Leave

Over ==
    /\ Stopped /\ (resp # "sse" \/ gone \/ view.over)
    /\ UNCHANGED vars

Next == Task \/ Upstream \/ Client \/ Tick \/ Over

Spec == Init /\ [][Next]_vars

\* The runtime polls a task that can go on, time passes, and hyper sends what
\* it is given.  Nothing makes the upstream answer or the client leave.
Fairness == WF_vars(Task) /\ WF_vars(Tick) /\ WF_vars(Deliver \/ DeliverEnd)

FairSpec == Spec /\ Fairness

-----------------------------------------------------------------------------
(* Properties *)

\* Type invariant.
TypeOK ==
    /\ ctl \in Ctl
    /\ job \in Frame \cup {NoFrame}
    /\ atBoundary \in BOOLEAN
    /\ left \in 0 .. Interval
    /\ idle \in 0 .. Interval + 1
    /\ chan \in Seq(Frame) /\ Len(chan) <= Capacity
    /\ resp \in {"none", "sse", "relayed", "bad_gateway"}
    /\ answer \in Answers \cup {"pending"}
    /\ sent \in Seq({"whole", "open"}) /\ Len(sent) <= MaxChunks
    /\ pulled \in 0 .. Len(sent)
    /\ outcome \in {"flowing", "finished", "broken"}
    /\ view \in View
    /\ gone \in BOOLEAN

\* What the client receives through the channel of sse_channel, with the
\* timers and the two tasks of sse.rs behind it, is what Downstream promises:
\* chunks in order and complete, heartbeats only between events, one error
\* event and only for a failure, an end that is never mistaken for success.
UpstreamOutcome ==
    CASE answer \in {"opaque", "status", "fail"} -> "failed"
      [] outcome = "broken"                      -> "failed"
      [] OTHER                                   -> outcome

Promise == INSTANCE Downstream WITH outcome <- UpstreamOutcome

KeepsPromise == Promise!Spec

\* What the connection sees of this request is what Server assumes of each
\* request of each connection: one task or none, a fed response that ends with
\* its task, and a task that outlives the client.
Reply ==
    CASE gone                                     -> "gone"
      [] ~ gone /\ resp = "none"                  -> "awaited"
      [] ~ gone /\ resp \in {"relayed", "bad_gateway"} -> "relayed"
      [] ~ gone /\ resp = "sse" /\ ~ view.over    -> "fed"
      [] ~ gone /\ resp = "sse" /\ view.over      -> "quiet"

Contract == INSTANCE Response WITH
    reply <- Reply,
    task  <- IF resp = "sse" /\ ~ Stopped THEN 1 ELSE 0

KeepsContract == Contract!Spec

\* Between events, and before the first of them, the task never lets more
\* than one interval pass since it last sent the client something, unless it
\* is held up by a client that does not read: through the race, the wait for
\* a late answer, the hand-over to handle_success or handle_error with a timer
\* that is already running, and heartbeats skipped inside an event.
BetweenEvents ==
    /\ ctl \in {"race", "wait", "collect"} \/ (ctl = "stream" /\ atBoundary)
    /\ job = NoFrame

KeepAlive == BetweenEvents /\ ~ Overflows => idle <= Interval

\* A heartbeat is only sent after a whole interval without a frame, so the
\* chunks of a stream that flows carry no heartbeats among them.
HeartbeatsOnlyWhenIdle ==
    [][Len(chan') > Len(chan) /\ chan'[Len(chan')].kind = "heartbeat"
       => idle >= Interval]_vars

\* What the task still has to do before it waits: the chunks that have come and
\* the stages of the response, each with its writes, and a heartbeat if due.
Stages(c) ==
    CASE c = "race" -> 6 [] c = "wait" -> 5 [] c \in {"stream", "collect"} -> 3
      [] c = "separator" -> 2 [] c = "error" -> 1 [] c \in {"done", "panicked"} -> 0

Due == IF job # NoFrame THEN 1 ELSE IF TimerFired THEN 2 ELSE 0

Work == 4 * (Len(sent) - pulled) + Stages(ctl) + Due

\* The select! loops do not spin: each turn of the task uses up work, and only
\* another chunk or the passing of time makes some, so between two of those the
\* task comes to rest, whichever branches are ready and whichever are taken.
\* (With an interval of 0 it does spin, as long as its client reads.)
NeverSpins ==
    [][Interval > 0 => /\ Task => Work' < Work
                       /\ Work' > Work => Produce \/ Tick]_vars

\* What the fairness waits for.  hyper has something to send: a frame, or the
\* end of the body.
Sends ==
    /\ ~ gone
    /\ chan # <<>> \/ (resp = "sse" /\ SenderDropped /\ ~ view.over)

\* Nobody is stuck.  Each select! has an arm for whatever wakes it, and each
\* write goes on when there is room or nobody to read: so the task can take a
\* step exactly when it is ready (but for an interval of 0, where a heartbeat
\* is skipped over and over).  hyper can go on when it has something to send,
\* and while the task waits for its timer time passes.
SkipsAlways ==
    Interval = 0 /\ ctl = "stream" /\ ~ atBoundary /\ job = NoFrame

NeverStuck ==
    /\ Ready <=> ENABLED <<Task>>_vars \/ SkipsAlways
    /\ Sends <=> ENABLED <<Deliver \/ DeliverEnd>>_vars
    /\ ~ Ready /\ ~ Stopped /\ ~ Overflows /\ left > 0 => ENABLED <<Tick>>_vars

\* A stream that the client sees end without an error event was complete: the
\* upstream had finished it and every chunk has been received.
HonestEnd ==
    view.over /\ view.last # "error" =>
        outcome = "finished" /\ view.got = Len(sent)

\* Once the upstream has failed to answer, or its body has ended or broken, a
\* client that stays sees the end of the stream (or, inside the window, the
\* upstream's own answer), whatever heartbeats were due at that moment and
\* however full the channel was.
Concluded ==
    /\ ~ Stopped
    /\ answer \in {"opaque", "fail"} \/ outcome # "flowing"

StreamConcludes ==
    Concluded ~> (view.over \/ gone \/ resp \in {"relayed", "bad_gateway"})

\* A client that disconnects is noticed with no help from the upstream: the
\* next heartbeat fails and ends the task.  The one exception is a task that
\* waits inside an event for ever, where heartbeats are skipped.
GoneNoticed ==
    (gone ~> Stopped) \/ <>[](ctl = "stream" /\ ~ atBoundary)

\* design.md (2026-07-03-llm-sse-gateway) says that a client's disconnect
\* drops the upstream request, which a task does by returning.
GoneCancels == gone ~> Stopped
=============================================================================
