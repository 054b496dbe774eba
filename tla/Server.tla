------------------------------- MODULE Server -------------------------------
(***************************************************************************)
(* main, server::run and server::shutdown_signal of src/src, with the      *)
(* connections they own: start-up, the signal handlers, the accept loop,   *)
(* and the drain that waits for the connections or for shutdown_timeout,   *)
(* whichever comes first.                                                  *)
(*                                                                         *)
(* The kernel completes a handshake as long as the listener is open and    *)
(* keeps the connection in a backlog until it is accepted.  An SSE stream  *)
(* is the body of a response: its connection is busy as long as it lasts,  *)
(* but the task that feeds it (module Bridge) is a task of its own, which  *)
(* nobody waits for when the process ends.                                 *)
(***************************************************************************)
EXTENDS Naturals, FiniteSets

CONSTANTS
    Conn,               \* connections that clients may open
    Backoff,            \* ticks: the pause after a failed accept, 100 ms
    ShutdownTimeout     \* ticks: --shutdown-timeout

ASSUME ServerAssumption ==
    /\ IsFiniteSet(Conn)
    /\ Backoff \in Nat
    /\ ShutdownTimeout \in Nat

VARIABLES
    phase,      \* where main and run stand: see Phases
    caught,     \* signals that have a handler: the others kill the process
    signalled,  \* the shutdown future is ready
    timer,      \* ticks until the sleep of the current phase ends
    conn,       \* the state of every connection
    told,       \* connections that know of the drain: keep-alive is off
    tasks       \* background tasks that each connection's requests have started

signalVars == <<caught, signalled>>
connVars == <<conn, told, tasks>>
vars == <<phase, caught, signalled, timer, conn, told, tasks>>

Phases == {"starting",      \* main, before the listener is bound
           "accepting",     \* select between shutdown and accept
           "backoff",       \* sleep after a failed accept
           "draining",      \* select between graceful.shutdown and sleep
           "exited",        \* run has returned, or was never called
           "killed"}        \* a signal without a handler

Signals == {"SIGINT", "SIGTERM", "SIGUSR1"}

ConnStates == {"none",
               "backlog",       \* not accepted yet
               "idle",          \* between two requests
               "handling",      \* handle has not returned a response yet
               "relaying",      \* the body comes from the upstream or is at hand
               "streaming",     \* the body comes from a background task
               "closed",        \* by the client, or after a last response
               "cut"}           \* by the end of the process

Busy == {c \in Conn : conn[c] \in {"handling", "relaying", "streaming"}}

Watched == {c \in Conn : conn[c] = "idle"} \cup Busy

Backlog == {c \in Conn : conn[c] = "backlog"}

Running == phase \notin {"exited", "killed"}

Listening == phase \in {"accepting", "backoff", "draining"}

-----------------------------------------------------------------------------
(* main *)

Init ==
    /\ phase = "starting"
    /\ caught = {}
    /\ signalled = FALSE
    /\ timer = 0
    /\ conn = [c \in Conn |-> "none"]
    /\ told = {}
    /\ tasks = [c \in Conn |-> 0]

\* The process goes no further and takes what is left with it.
Cease(how) ==
    /\ phase' = how
    /\ conn' = [c \in Conn |-> IF c \in Watched \cup Backlog THEN "cut" ELSE conn[c]]
    /\ tasks' = [c \in Conn |-> 0]
    /\ UNCHANGED <<signalVars, timer, told>>

\* The configuration is refused, or the address cannot be bound.
StartFails == phase = "starting" /\ Cease("exited")

\* The listener is bound and run begins.
Bind ==
    /\ phase = "starting"
    /\ phase' = "accepting"
    /\ UNCHANGED <<signalVars, timer, connVars>>

\* dump_loop, a task that main has spawned, gets its handler, possibly in a poll
\* that the end of run does not interrupt.
ProfilerListens ==
    /\ phase # "killed"
    /\ "SIGUSR1" \notin caught
    /\ caught' = caught \cup {"SIGUSR1"}
    /\ UNCHANGED <<phase, signalled, timer, connVars>>

-----------------------------------------------------------------------------
(* Signals *)

\* The shutdown future has been polled once.
Watching == "SIGINT" \in caught \/ signalled

\* shutdown_signal installs its handlers when select! first polls it.  Without
\* one for SIGTERM it waits for SIGINT alone; without one for SIGINT it is
\* ready at once, as if the signal had come.
WatchSignals ==
    /\ phase = "accepting" /\ ~ Watching
    /\ \E term \in SUBSET {"SIGTERM"} :
          \/ caught' = caught \cup {"SIGINT"} \cup term /\ UNCHANGED signalled
          \/ caught' = caught \cup term /\ signalled' = TRUE
    /\ UNCHANGED <<phase, timer, connVars>>

Caught(s) ==
    /\ s \in caught
    /\ signalled' = (signalled \/ s # "SIGUSR1")
    /\ UNCHANGED <<phase, caught, timer, connVars>>

Uncaught(s) == s \notin caught /\ Cease("killed")

\* A signal, at any moment: one without a handler kills the process also when run
\* has returned, as long as the runtime is being dropped.  (The first process of
\* a container never sees one that it has no handler for: nothing happens then.)
Signal(s) ==
    \/ Running /\ Caught(s)
    \/ phase # "killed" /\ Uncaught(s)

-----------------------------------------------------------------------------
(* run *)

\* accept yields a connection: it is watched and served by a task of its own.
Accept(c) ==
    /\ phase = "accepting"
    /\ conn[c] = "backlog"
    /\ conn' = [conn EXCEPT ![c] = "idle"]
    /\ UNCHANGED <<phase, signalVars, timer, told, tasks>>

\* accept fails: sleep with no eye on the shutdown signal.
AcceptFails ==
    /\ phase = "accepting"
    /\ Backlog # {}
    /\ phase' = "backoff" /\ timer' = Backoff
    /\ UNCHANGED <<signalVars, connVars>>

BackoffEnds ==
    /\ phase = "backoff" /\ timer = 0
    /\ phase' = "accepting"
    /\ UNCHANGED <<signalVars, timer, connVars>>

\* The shutdown signal ends the loop, and graceful.shutdown() sends word to
\* every connection.
StopAccepting ==
    /\ phase = "accepting" /\ signalled
    /\ phase' = "draining" /\ timer' = ShutdownTimeout
    /\ UNCHANGED <<signalVars, connVars>>

DrainedAtOnce == TRUE       \* mutant: exit without waiting
AllDrained == Watched = {}

Drained == phase = "draining" /\ AllDrained /\ Cease("exited")

NoTimeout == FALSE          \* mutant: wait for the connections alone
TimeoutElapsed == timer = 0

DrainTimesOut == phase = "draining" /\ TimeoutElapsed /\ Cease("exited")

-----------------------------------------------------------------------------
(* hyper's connections, the handlers they run, and the clients *)

\* Watched connections that do not know of the drain yet.
Unaware == Watched \ told

\* A watched connection learns of the drain when its task is polled next: it
\* will not be kept alive, and closes at once between two requests.
KeepIdle(c) == conn[c]      \* mutant: it waits for another request
AfterNotice(c) == IF conn[c] = "idle" THEN "closed" ELSE conn[c]

Notice(c) ==
    /\ phase = "draining"
    /\ c \in Unaware
    /\ told' = told \cup {c}
    /\ conn' = [conn EXCEPT ![c] = AfterNotice(c)]
    /\ UNCHANGED <<phase, signalVars, timer, tasks>>

Moves(c, from, to) ==
    /\ Running
    /\ conn[c] = from
    /\ conn' = [conn EXCEPT ![c] = to]
    /\ UNCHANGED <<phase, signalVars, timer, told>>

Connect(c) == Listening /\ Moves(c, "none", "backlog") /\ UNCHANGED tasks

Request(c) == Moves(c, "idle", "handling") /\ UNCHANGED tasks

\* handle returns a response with the upstream's body or one of its own.
Relay(c) == Moves(c, "handling", "relaying") /\ UNCHANGED tasks

\* handle_stream returns a response that a task it has spawned writes.
StartStream(c) ==
    /\ Moves(c, "handling", "streaming")
    /\ tasks' = [tasks EXCEPT ![c] = @ + 1]

\* The task returns, and with it goes the sender of the channel.
TaskReturns(c) ==
    /\ tasks[c] > 0
    /\ tasks' = [tasks EXCEPT ![c] = @ - 1]
    /\ UNCHANGED <<phase, signalVars, timer, conn, told>>

AfterResponse(c) == IF c \in told THEN "closed" ELSE "idle"

RespondRelayed(c) ==
    Moves(c, "relaying", AfterResponse(c)) /\ UNCHANGED tasks

\* The body of a stream ends with the last sender of its channel.
ChannelEmpty(c) == TRUE     \* mutant: it ends when there is nothing to send
ChannelClosed(c) == tasks[c] = 0

RespondStream(c) ==
    /\ ChannelClosed(c)
    /\ Moves(c, "streaming", AfterResponse(c)) /\ UNCHANGED tasks

\* The client goes away: hyper drops the handler or the body, but not the task
\* that writes the body.
Disconnect(c) ==
    /\ c \in Watched \cup Backlog
    /\ Moves(c, conn[c], "closed") /\ UNCHANGED tasks

\* Time passes while the tasks of the process have nothing to do.
Waiting ==
    \/ phase = "backoff"
    \/ phase = "draining" /\ Watched # {} /\ Watched \subseteq told

Tick ==
    /\ timer > 0 /\ Waiting
    /\ timer' = timer - 1
    /\ UNCHANGED <<phase, signalVars, connVars>>

Ended == ~ Running /\ UNCHANGED vars

-----------------------------------------------------------------------------

Main == StartFails \/ Bind \/ WatchSignals

\* One connection or another learns of the drain.
Notify == \E c \in Conn : Notice(c)

Run ==
    \/ \E c \in Conn : Accept(c)
    \/ AcceptFails \/ BackoffEnds \/ StopAccepting \/ Drained \/ DrainTimesOut

Connection(c) ==
    \/ Connect(c) \/ Request(c) \/ Relay(c) \/ StartStream(c) \/ TaskReturns(c)
    \/ RespondRelayed(c) \/ RespondStream(c) \/ Disconnect(c) \/ Notice(c)

\* How run gets out of a back-off, and out of a drain.
Resumes == Tick \/ BackoffEnds
Drains == Tick \/ Notify \/ Drained \/ DrainTimesOut

Next ==
    \/ Main \/ ProfilerListens \/ Run \/ Tick \/ Ended
    \/ \E s \in Signals : Signal(s)
    \/ \E c \in Conn : Connection(c)

Spec == Init /\ [][Next]_vars

\* select! polls its branches in random order, so the shutdown future is polled
\* some time, and a signal that is pending every time the loop comes round is
\* not passed over for ever, even when accept is ready or failing every time.
\* A sleep passes and the tasks of the connections are polled; responses and
\* clients owe nothing.
Fairness ==
    /\ SF_vars(WatchSignals) /\ SF_vars(StopAccepting)
    /\ WF_vars(Resumes) /\ WF_vars(Drains)

FairSpec == Spec /\ Fairness

-----------------------------------------------------------------------------
(* Properties *)

\* Type invariant, with what the phases rule out: a connection that knows of
\* the drain does not wait for another request.
TypeOK ==
    /\ phase \in Phases
    /\ caught \subseteq Signals
    /\ signalled \in BOOLEAN
    /\ timer \in Nat
    /\ phase = "backoff" => timer <= Backoff
    /\ phase = "draining" => timer <= ShutdownTimeout
    /\ conn \in [Conn -> ConnStates]
    /\ told \subseteq Conn
    /\ tasks \in [Conn -> Nat]
    /\ \A c \in told : conn[c] # "idle"

\* However many requests its client sends, a connection has one task at most,
\* and one that still runs either writes the response under way or has lost
\* its client: no task outlives its response while the connection goes on.
TasksServe ==
    \A c \in Conn :
        /\ tasks[c] <= 1
        /\ tasks[c] > 0 => conn[c] \in {"streaming", "closed"}

\* A response that is under way when the drain begins is only lost if the
\* drain has lasted shutdown_timeout: run does not return earlier while one
\* connection is still busy, and no failure of accept makes it return at all.
\* Apart from run, only a signal that has no handler (yet) ends a response.
CutOnlyByTimeout ==
    [][\A c \in Busy : conn'[c] = "cut"
           => \/ phase = "draining" /\ timer = 0
              \/ phase' = "killed" /\ caught # Signals]_vars

\* The drain lasts to its timeout for the sake of responses only: connections
\* that their clients keep open between two requests do not hold it up.
TimeoutOnlyForResponses ==
    [][phase = "draining" /\ phase' = "exited" /\ Watched # {}
           => ShutdownTimeout = 0 \/ Busy # {}]_vars

\* A signal that is caught ends the process, whatever the clients, the
\* connections and a failing accept do: the back-off only delays it, and a
\* stream that never ends only lasts until the timeout.
SignalEndsProcess == signalled ~> ~ Running

\* run never waits for a client: once the signal has come each of the places
\* where it awaits lets it go on by itself, the accept loop, the back-off, and
\* the drain, in which either a connection is still to be told, or time passes
\* for those that are busy, or one of the two branches of its select! is ready.
RunNeverStuck ==
    /\ phase = "accepting" /\ signalled => ENABLED <<StopAccepting>>_vars
    /\ phase = "backoff"                => ENABLED <<Resumes>>_vars
    /\ phase = "draining"               => ENABLED <<Drains>>_vars

ReplyOf(c) ==
    CASE conn[c] \in {"none", "backlog", "idle"} -> "quiet"
      [] conn[c] = "handling"                    -> "awaited"
      [] conn[c] = "relaying"                    -> "relayed"
      [] conn[c] = "streaming"                   -> "fed"
      [] conn[c] \in {"closed", "cut"}           -> "gone"

Serving(c) == INSTANCE Response WITH reply <- ReplyOf(c), task <- tasks[c]

\* Every connection keeps the contract of Response with the tasks its requests
\* start: handle_stream's task is the one that Bridge models, so what Bridge
\* shows of one request holds for each request of each connection.
EachServes ==
    /\ \A c \in Conn : Serving(c)!Init
    /\ [][\A c \in Conn : [Serving(c)!Next]_(Serving(c)!vars)]_vars
=============================================================================
