# keep-sse in TLA+

keep-sse is a gateway in front of an LLM service. It proxies HTTP as it is,
except for requests that ask for a stream of server-sent events (SSE): those
it keeps alive with heartbeats (`":\n\n"`) when the upstream is silent, and it
turns every failure of the upstream into an error event of the client's API.
This directory holds TLA+ models of the gateway, the TLC configurations that
check them on small instances, and TLAPS proofs of their main properties for
all instances. `PROJECT.json` maps every definition to the lines it models and
lists runs, hazards, findings and theorems.

## The system

| part | state | operations | works with |
|---|---|---|---|
| start-up, `main.rs` | none | configure, spawn the profiler, bind, run | everything |
| accept loop, `server.rs` | listener, shutdown future with its signal handlers, watched connections | accept, back off, drain, time out | spawns a task per connection, which calls `handle` |
| dispatch, `lib.rs`, `detect.rs` | one request: its head, the collected body | match the endpoint, limit and collect the body, probe for `stream` | `proxy` or `handle_stream`; `decode_bytes` |
| proxy, `proxy.rs` | header maps | rewrite Host and target, strip hop-by-hop headers, pass bodies through | hyper's client |
| SSE path, `sse.rs` | timer, upstream future or stream, bounded channel, boundary flags | race, wait, stream, collect an error, heartbeat | a background task and hyper share the channel of `sse_channel` |
| boundary tracker, `sse.rs` | `at_boundary`, `line_empty`, `prev_cr` | `feed` | read by `handle_success` when the timer fires and when the stream breaks |
| writer and codecs, `encoding.rs` | sender of the channel | `write_event`, `end`, `decode_bytes`, `decoder_stream` | SSE path, dispatch |
| error events, `error_event.rs` | none | `build` for four APIs | SSE path |
| configuration, `config.rs` | constants | parse and refuse once | everything |
| profiler, `pprof.rs` | sampler guard, two files per profile | dump on SIGUSR1 | shares signals and the runtime with the server |

Requests share no mutable state: what runs concurrently is, per request, the
background task, hyper with the client, the upstream and time, and, per
process, the connections, the signals, the shutdown and the profiler. The hard
behaviours are therefore

* interleavings of one task with its timer, its upstream and its client;
* a timer that fires behind any byte of the stream (heartbeats must not tear
  an event, nor stop between events);
* a full channel, a client that leaves, an upstream that breaks, each at any
  moment and together;
* the end of the process while responses, or profiles, are under way;
* tasks that belong to no connection and outlive the client they write for;
* limits: bodies, decoded bodies, messages, intervals at the edge of a type.

What makes each part correct is stated in the modules and listed under *Runs*.

## Modules

```
BoundaryTracker --- TrackerFeed            the loop of feed
              |         \--- TrackerFeedProofs
              \---- EventBoundary          what the flags decide
                        \--- EventBoundaryProofs

Downstream <------- Bridge --------------> Response      (refinement mappings)
                        \--- BridgeProofs
Response <--------- Server                  (one mapping for each connection)
                        |\-- ServerProofs ----.
Profiler <--------- Process -------------- ProcessProofs     (Process implements Server)

Countdown --- BridgeProofs, ServerProofs   (what liveness proofs count down)

Dispatch ---------- DispatchProofs
Headers ----------- HeadersProofs
ErrorEvent -------- ErrorEventProofs
```

Lines without a head are EXTENDS. An arrow leads to a module that is
instantiated: as the abstract specification that is implemented, or, from
Process to Profiler, as the component whose actions are composed.

Some operators are commented as *mutant*: they are slips that this code could
contain, kept next to the operator that they would replace, and no
specification uses them. `PROJECT.json` names, for each property, one that
breaks it.

**BoundaryTracker** has the three flags and what `feed` does to them for text,
LF and CR. **TrackerFeed** is `feed` as written, one action per turn of its
memchr loop, over consecutive chunks.

**EventBoundary** is the byte stream of `handle_success`. `ForwardContent`,
`ForwardLf` and `ForwardCr` are one byte of the arm that feeds the tracker and
writes a chunk; `Heartbeat` the timer arm; `UpstreamError` the arm that writes
the separator and the error event. Next to the code's flags run two SSE parsers
(external: line ends LF, CR, CR LF; comments skipped; an empty line
dispatches), one over the upstream's bytes and one over what the client gets.
The text of an error event is one byte.

**Bridge** is the control of one request on the SSE path: `ctl` is the place in
`handle_stream`, `bridge`, `handle_success` or `handle_error`, `job` the frame
that `write_event` is waiting to send, `chan` the mpsc channel, `left` the
timer. Every arm of every `select!` is an action; when two are ready either may
be taken, as `select!` polls in random order. `Beat` and `SkipBeat` are the
timer arms, `PullChunk` and `PullEnd` the stream arm, `Written` and
`WriteFails` the two results of a write with the reset behind it (the reset of
`Instant::now() + interval` panics when `Interval > MaxInterval`, while
`sleep(interval)` saturates), `WriteSeparator` and `WriteError` the last writes,
whose results are ignored. A chunk is abstracted to whether the stream stands
inside an event behind it, which is what EventBoundary justifies. Frames carry,
for the sake of properties, the number of chunks written with them. Time passes
in `Tick` when the task has nothing to do: its own steps take no time.

**Downstream** is the abstract promise to a client: chunks in order, none lost
or repeated; heartbeats only between events; a separator only inside one;
exactly one error event and only for a failure; an end without an error event
only behind a complete stream. It has neither channel nor timer nor task.
`Bridge!KeepsPromise` is `Downstream!Spec` under the mapping of `outcome` to
what the client should be told.

**Response** is the contract in which a request on the SSE path and the server
meet: a response is relayed, or fed by one task; a fed one ends only when its
task has returned; the loss of the client does not end the task. `Bridge`
implements it for its one request (`KeepsContract`), `Server` for every
connection with all of its requests (`EachServes`). Server may therefore treat a
task as something that returns some time, and what Bridge shows of one request
holds for each of them.

**Dispatch** is `handle`: endpoint match, declared length, `Limited::collect`
byte by byte, Gemini, Accept, probe; and the transparent pass. `Take` is
`max_out as u64 + 1` at its width. A body is its encoded and decoded length and
whether its JSON asks for a stream.

**Headers** follows one exchange in both directions: what `ResolvedConfig::parse`
accepts as an upstream (`Accepted`) and where `upstream_uri` sends a request
with each form of target; the header maps on their way; how `handle_stream`
tells what it may write heartbeats into (`is_event_stream`,
`parse_content_encoding`); and the headers and the body that each way to a
response returns, the ways behind the window included (`ReturnOwn`, then
`LateAnswer` or `LateFailure`). A header is who has written it; of the answer's
Content-Encoding every line and coding is kept, as what is still on the bytes
depends on them. A peer may list any name in its Connection headers, also one
that is meant for the other end: what that takes away (the Host that
`proxy_req` has just set, the Content-Encoding of a body that is relayed, the
Content-Type of a stream) is said in the properties. An upstream may carry a
query; `upstream_uri` drops it, because the client's path and query replace
those of the base together.

**ErrorEvent** is `handle_error` from the end of its collection on, and `build`:
the three parsers, `message` with its truncation loop (one action per turn), and
the four tables. A text is its length and the set of its character boundaries.
`BlameByStatus` says for which statuses the tables agree on whom an event blames
and what each does with the rest, where no two of them agree on all.

**Server** is `main`, `server::run` and `shutdown_signal`, with the connections
as hyper treats them (external: backlog, keep-alive, notice of the drain) and
the background tasks of their requests. `caught` is the set of signals that
have a handler: `shutdown_signal` is a lazy future, so `WatchSignals` happens
when `select!` first polls it, and a signal before that is `Uncaught` and kills
the process. A handler that cannot be installed leaves that signal uncaught, and
for SIGINT makes the future ready at once.

**Profiler** is `dump_loop`: waiting for SIGUSR1, building a report, creating
and writing two files one after the other, each of which may fail. A report is
known by its number and named after the second in which it is built; the clock
is free to stand still or go back. The loop awaits in `recv` only, which is ready
at once when a signal has come during a dump: a poll of the task (`Polled`) goes
from one dump to the next and ends when `recv` finds no signal (`Yield`).
(tokio's cooperative budget would make `recv` yield after some hundred signals
in one poll. That is left out: it can only end a poll earlier.)

**Countdown** states the induction that liveness proofs need where a number
counts down: `EndsAtZero`.

**Process** composes Server and Profiler. Their actions meet in the signals
(`DumpLoopStarts` installs the handler, `Asked` and `Killed` are SIGUSR1 with and
without it) and in the end of the process: when `run` has returned the runtime
is dropped, which polls no task again (`Woken` needs `Running`) but waits for one
that is being polled. Nothing in a poll of `dump_loop` asks whether `run` has
returned: it completes the dump and, when SIGUSR1 has come meanwhile, begins
another one (`Dumps`). The process has ended when the poll has (`Gone`).
Process implements Server (`KeepsServer`): what the
profiler does is no step of Server, or one that Server takes without it. For
that, Server lets a signal without a handler kill the process behind the return
of `run` too, while the runtime is being dropped.

## Runs

| run | bounds | what it shows |
|---|---|---|
| `event_boundary` | 7 bytes over text, colon, LF, CR | `BoundaryExact`: `at_boundary` exactly between events. `HeartbeatsInvisible`: the application is given the upstream's events. `ErrorEventSeparate`: a break is an event of its own. |
| `tracker_feed` | 2 chunks of up to 6 bytes | `FeedIsBytewise`: the jumping loop equals a byte-by-byte reading, from every state a chunk can leave |
| `bridge` | interval 2, capacity 2, 3 chunks | `KeepsPromise`, `KeepsContract`, `KeepAlive`, `HeartbeatsOnlyWhenIdle`, `NeverSpins`, `HonestEnd`, `StreamConcludes`, `GoneNoticed`, `NeverStuck` |
| `bridge_gone` | the same | violated: `GoneCancels` |
| `bridge_overflow` | interval beyond the largest | violated: `HonestEnd` |
| `dispatch` | limit 2, bodies up to 4, width 16 | `BufferBounded`, `RawOrNothing`, `WrappedIffAsked`, `RefusedForCause` |
| `dispatch_wide` | limit 3, width 4 | violated: `WrappedIffAsked` |
| `headers` | 4 names in requests and 6 in answers, 5 listable in both, those meant for the other end included; upstreams with and without a query; up to 2 codings in one line or two | `RequestCrosses`, `UpstreamHonoured`, `ResponseDescribesBody`, `OnlyStreamsAreTouched`, `ResponseCrosses` |
| `error_event` | messages of 5 bytes, texts up to 7, 11 statuses, one at least of every class but 2xx and of every default | `LongestPrefix`, `WordsKept`, `BlameByStatus` |
| `error_responses` | the same, shorter texts | violated: `ErrorFilledIn` |
| `server` | 3 connections, back-off 1, timeout 2 | `TasksServe`, `CutOnlyByTimeout`, `TimeoutOnlyForResponses`, `SignalEndsProcess`, `EachServes` |
| `process` | 1 connection, back-off 1, timeout 1, 2 profiles, 2 seconds | `ProfilesKept`, `NeverStuck`, `RequestsHeard`, `ProcessEnds`, and `KeepsServer`: the process implements Server |

Why the bounds are enough to be telling: seven bytes hold a field, CR LF CR LF
and the start of another event, with a heartbeat at every place; six bytes per
chunk put text on both sides of two terminators, and two chunks every split of
CR LF. A channel of two frames fills and empties; three chunks leave one to be
pulled, one in the channel and one received; an interval of two ticks separates
"due", "not yet" and "skipped once". Bodies of 0 to 4 bytes lie on both sides of
a limit of 2 in either length. Texts of 7 bytes put a character of each width
across a limit of 5. Three connections are one idle, one busy and one in the
backlog. Two profiles in two seconds are two of the same name, two of different
names, and two whose clock has gone back, with a signal that comes during the
first and an end of the process during the second; one connection is enough to
hold up the drain meanwhile. A list of two codings, in one line or in two, is
the shortest that `parse_content_encoding` must refuse. The proofs below lift the
main safety properties from these bounds.

### Fairness

*Bridge*: weak fairness of the task's actions together (the runtime polls a task
that has been woken), of `Tick` (time passes), and of `Deliver \/ DeliverEnd`
(hyper sends what it is given to a client that stays; a client that never reads
would stop everything behind it, which is what a bounded channel is for).
Nothing is assumed of the upstream, which may be silent for ever, nor of the
client's leaving. Within the task there is no fairness between arms, as none is
needed: an arm that is taken consumes the chunk or rearms the timer
(`NeverSpins`). An interval of 0 is the exception, which the configuration does not refuse: a heartbeat is
then always due, and that the stream still concludes rests on the random order
in which `select!` polls. The safety properties are proved for it too.

*Server*: weak fairness of the clock and the end of the back-off together
(`Resumes`), and of the clock, the notices to connections and the two ends of the
drain together (`Drains`): time passes, and the runtime polls whom it has woken.
`WatchSignals` and
`StopAccepting` are strongly fair: `select!` polls its branches in random order,
so the shutdown future is polled some time, and a pending signal is not passed
over each time even though accept is ready or failing each time. Responses,
tasks and clients owe nothing.

*Process*: the same, and weak fairness of `Woken` (a task with a signal to take
is polled, as long as the runtime is not being dropped) and of `PollGoesOn` (a
poll goes on: a file is written or fails in the end). That the polls come to an
end is not assumed: it follows from the bound on the signals (`MaxAsked`), and
for a process that is sent SIGUSR1 again in every dump it would be false.

### Findings

1. `bridge_gone`: in the middle of an event no heartbeat is written, so a client
   that leaves there is not noticed while the upstream is silent, and the
   upstream request is not dropped as the design says. `GoneNoticed` shows that
   this is the only exception.
2. `bridge_overflow`: an interval that is too long for `Instant` panics the task
   behind its first write; the client sees an apparently complete stream. The
   `sleep` that the reset replaced saturates.
3. `dispatch_wide`: `max_out as u64 + 1` wraps when `--max-probe-body` is the
   largest `usize`; compressed requests are then never seen to ask for a stream.
4. `error_responses`: a standard error with a null `code` is not filled into the
   event of the Responses API.

Other places where code and documents part, which no run is about:

* README.md:129 says that signals for profiles and for the shutdown do not
  interfere and that a failed dump does not end the process. A SIGUSR1 that
  comes before `dump_loop` has its handler (`Killed`), or in a process whose
  sampler did not start, kills it, responses included: `CutOnlyByTimeout` names
  this exception.
* server.rs:17 says that a shutdown signal makes `run` stop accepting. The
  handlers for it are installed by the first poll only; a SIGTERM between the
  binding of the listener and that poll kills the process, whose backlog is
  reset.
* config.rs:27 says that a body over `--max-probe-body` is proxied
  transparently; Dispatch shows that this is so with a Content-Length only, and
  that others are refused with 413 (`ExceedLimit`).
* config.rs:30 says that the process is forced to exit when `--shutdown-timeout`
  has passed. `run` returns then; the process waits for the dump under way and
  for those that pending signals begin behind it (`ProcessEnds`).
* proxy.rs:66 and specs/2026-07-03-llm-sse-gateway/design.md:58 say that the
  gateway writes Host itself, as the upstream's authority. `proxy_req` strips the
  headers that the client lists in Connection behind that: for a client that
  lists Host the upstream receives none (`RequestCrosses`).
* specs/2026-07-03-code-review-fixes/design.md:106 and tests/gateway.rs:1123 say
  that no connection can be established after the shutdown. That is so once
  `run` has returned, which the test waits for. While the drain lasts the
  listener is still open and nobody accepts: such a connection (`Backlog`) is
  established by the kernel and reset at the end of the drain.

## Proofs

Checked by TLAPS, for every value of the constants that the modules' `ASSUME`s
allow:

* **EventBoundaryProofs**. `TypeCorrect`, `TrackerIsExact` (`BoundaryExact`),
  `NoTornEvent` (`HeartbeatsInvisible`), `ErrorStandsAlone`
  (`ErrorEventSeparate`). `TypeCorrect` includes that the flags take only five of
  their eight combinations. The inductive invariant relates the flags to the
  parser over the upstream (`line_empty` to an empty line, `prev_cr` to its CR,
  `at_boundary` to a fresh event) and the client's parser to the upstream's:
  equal but for the CR that a heartbeat makes it forget. The forgotten CR is why
  the properties alone are not inductive: a heartbeat between CR and LF turns
  the LF into a line end of its own, which is harmless only because the stream
  is then between events.
  `HeartbeatRead`, `SeparatorRead` and `ReportRead` compute what the parser does
  with the gateway's bytes; `ContentStep`, `LfStep` and `CrStep` that a byte
  keeps the relation.
* **TrackerFeedProofs**. `FeedReadsBytes` (`FeedIsBytewise`): wherever the loop
  stands, the flags are those of a byte-by-byte reading of what it has passed,
  for chunks of any length and from every state. The reference is a recursive
  function over the number of bytes read; that it exists and takes its values
  (`ReadingExists`, `BytewiseReads`) is by induction on that number
  (`NumberInduction`, from the library's well-founded induction, which a set in
  place of a predicate makes usable), and so is `TextReads`: a run of text in
  which the loop skips ahead does to the flags what each of its bytes would.
  `CutsDoNotMatter`: reading two chunks one after the other is reading their
  concatenation, so where the upstream's bytes are cut into chunks is of no
  consequence. `BoundaryIsBlankLine`: what is computed in this way can be read
  off the stream's last bytes, whatever its length: `at_boundary` holds at the
  start and behind a line terminator that ends an empty line, CR LF being one
  terminator whose CR already ends the line (`EndsBlank`).
* **BridgeProofs**. `TypeCorrect`; `AliveBetweenEvents` (`KeepAlive`) and
  `HeartbeatsSpaced` (`HeartbeatsOnlyWhenIdle`) from `TimerInv`: outside an
  event the timer and the silence together are one interval, and a heartbeat
  that waits to be sent has been due for a whole one. It carries the timer
  through the hand-over from `bridge` to `handle_success` and `handle_error`.
  `PromiseKept` (`KeepsPromise`) and `EndsHonestly`
  (`HonestEnd`) for every interval that `Instant` can be moved by (`~ Overflows`,
  which `bridge_overflow` drops), and `ContractKept` (`KeepsContract`) without
  that assumption. How far that run reaches is proved too: an interval that is
  too long panics the task behind its first chunk and nowhere else
  (`PanicsBehindTheFirstChunk`), and of what Downstream promises only the end of
  the stream is then wrong (`OnlyTheEndIsWrong`, from which `PromiseKept`
  follows). Downstream has no channel, so the invariant must say what is
  in it: `ChainInv` reads the client's view and the frames of the channel as one
  chain, in which each frame follows the one before it (`Follows`): the chunks
  count on without a gap up to what the task has written, a heartbeat stands
  behind a whole chunk or before the first, a separator only inside an event and
  only behind all chunks of a failed stream, an error behind everything.
  `LastInv` says what the last frame tells of the place of the task, and
  `UpstreamInv` what the task knows of the upstream there, so that a task that
  is done has either passed on a complete stream or written its error event.
  `SupplyGrows` is why frames that wait stay true while the upstream goes on.
  `LoopsComeToRest` (`NeverSpins`): `Work` counts the chunks to pull, the stages
  to come and the heartbeat that is due; each step of the task lowers it, and
  only a chunk or a tick raises it.
  `DisconnectNoticed` (`GoneNoticed`), which is liveness: without its client the
  task is in one of seven places (`AloneSomewhere`), and from each its next step
  leads to a write that fails, or on in an order without a cycle, but for the
  wait inside an event (`AloneMoves`). While it waits for its timer every tick
  takes something from it (`IdleStep`), so the wait ends (`WaitsEnd`).
  `StreamsConclude` (`StreamConcludes`), which is liveness too, for every
  interval but 0: once the upstream is through, each step of the task takes more
  from what it has to do than it adds to the channel (`TaskRemains`), hyper takes
  from the channel (`HyperRemains`), no other step makes work (`OthersWait`), and
  one of the two can always go on (`NobodyWaits`): a task that cannot write has a
  full channel in front of it.
* **DispatchProofs**. `TypeCorrect`; `BytesAreTheClients` (`RawOrNothing`), `MemoryBounded`
  (`BufferBounded`), `RefusalsJustified` (`RefusedForCause`), and `WrapsWhatAsks`
  (`WrappedIffAsked`) under `MaxProbe + 1 < Width`, the assumption that
  `dispatch_wide` drops. `OnlyCompressedAreMissed` says what is left without it:
  no request is wrapped that does not ask, and the one that is missed asks in a
  compressed body only, at the largest limit. The invariant remembers in each
  stage how the request was told apart; `TakeValue` computes the wrapping sum.
* **ErrorEventProofs**. `TypeCorrect`; `CutsAtCharacters` (`LongestPrefix`),
  `UpstreamIsQuoted` (`WordsKept`), `BlameFollows` (`BlameByStatus`, for every
  status from 100 to 999 but 2xx), and
  `OnlyUncodedAreQuoted`: the upstream's own error is passed on exactly if it is
  the standard one of the API, so that `error_responses` shows the only case
  that is not. While `message` steps back no character ends between the place it
  has come to and the limit; a message is not empty because no character is
  longer than four bytes.
* **HeadersProofs**. `RequestsCross` (`RequestCrosses`), `UpstreamReached`
  (`UpstreamHonoured`), `OthersUntouched` (`OnlyStreamsAreTouched`) and
  `ResponsesCross` (`ResponseCrosses`), for every set of names and every list of
  options, without an assumption: each is a computation with functions over
  names. `BodiesAreDescribed`
  (`ResponseDescribesBody`), for any number of codings in any number of lines:
  what `parse_content_encoding` accepts has one coding at most that is not
  identity (`OnlyOneCoding`), so that decoding leaves none (`DecodingLeavesNone`).
* **ServerProofs**. `TypeCorrect`; `NoTaskLingers` (`TasksServe`) and
  `ConnectionsServe` (`EachServes`); `ResponsesSurvive` (`CutOnlyByTimeout`) and
  `IdleDoNotDelay` (`TimeoutOnlyForResponses`). The last needs the invariant
  that the clock of the drain has only run if every watched connection has been
  told of it: the tick waits for the notices, which are immediate in hyper.
  `SignalEnds` (`SignalEndsProcess`), which is liveness: a signal that has come
  stays pending (`SignalMoves`), so strong fairness of `StopAccepting` takes it
  although accept fails or yields again and again. Before it `run` may sleep in
  its back-off, behind it until the end of the drain: `Sleep` counts what is left
  of either, and the connections that have yet to learn of the drain, for which
  the clock waits; every step of `Resumes` or `Drains` lowers it or ends the sleep
  (`SleepMoves`, `SleepFalls`).
* **ProcessProofs**. `ProcessTypeCorrect` (`ProcessTypeOK`) and `ProfilesSurvive`
  (`ProfilesKept`), for any number of signals and every clock. The invariant
  says what both files of the last report hold while the first is being
  created, while it is written, and while the second is, and that only the last
  report can be incomplete. `ProfilerIsApart` (`KeepsServer`) is the refinement,
  step by step (`ServerStep`), and `ServedWhileProfiled` what follows from it:
  the theorems about Server hold for the profiling image. `RequestsAnswered`
  (`RequestsHeard`), which is liveness, for any number of requests: a request
  that no dump has begun after is still pending (`OwedInv`), and the loop comes
  back to it in four steps at most. `SignalEndsAll` (`ProcessEnds`) adds to
  `SignalEnds` that the poll of the dump loop ends which is under way when `run`
  returns: from each of its places it goes on to where `recv` is looked at
  (`PollMoves`), and every signal that `recv` takes there lowers the number of
  those that can still come (`Unheard`, `LastPollFalls`).

The theorems of liveness (`DisconnectNoticed`, `StreamsConclude`, `SignalEnds`,
`SignalEndsAll`, `RequestsAnswered`) are chains of links, each a fact about one
step that is proved as the invariants are; the last step puts links and fairness
together. What the provers lack for them is a hypothesis of the theorem:

* They know nothing of ENABLED. Which state enables a fair action is written out
  as a state predicate (`Ready`, `Sends` and so on), and that this is right is
  the invariant `NeverStuck`, which the runs `bridge` and `process` check and
  which is all that these theorems take from TLC. (`RunNeverStuck` is the part of
  it that is about `run`.)
* They cannot use induction for a temporal formula. `EndsAtZero` is that
  induction, for the one number that the theorem counts down. It says nothing of
  the system: every behaviour of every system satisfies it.

Only model-checked: `NeverStuck`, which is about ENABLED. For an interval of 0
`StreamConcludes` is neither proved nor checked, as it rests there on chance
(see *Fairness*).

## Not modelled

* The codecs, `decoder_stream` and serde_json: libraries; Bridge sees decoded
  chunks, ErrorEvent what the parsers find. That a JSON string holds no line end
  is taken from serde_json.
* hyper's connections and client pool: environments of Server and Bridge. A
  cancelled upstream request is the task's return.
* The reading of arguments and environment (clap), the log, `dump_dir` and the
  exit code. Of configured numbers only the limits of their types matter
  (`MaxInterval`, `Width`); the connect timeout is the client library's, and a
  request that fails is all that is seen of it.
* The worker threads of the runtime: a dump that blocks one of them is not seen
  by Bridge, whose task runs whenever it is ready.
* The framing headers that hyper adds to what the gateway returns or sends (a
  Content-Length from the body's size, Transfer-Encoding, Date): Headers is about
  the maps that the gateway makes.
* The sampler, and what is in a profile: pprof-rs.
* `run_with_shutdown` is `run` with a client, for tests.

## Plan

The order was that of importance: the byte stream and its tracker, the task
around it, the abstract promise, the server, the dispatch, the error events, the
headers; then the contract in which server and bridge meet, start-up and
signals, the profiler and the process, the configuration, and the proofs that
the refinements hold. What could still be added:

1. The end of `handle_error` inside Bridge joined to ErrorEvent, so that one run
   follows an upstream's error from its bytes to the client.
2. Dispatch in front of Headers, so that the way of a request is decided in the
   run that follows its headers.
3. The connections of hyper's client pool, with an upstream that closes one
   while it is being reused.
