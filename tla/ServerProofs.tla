---------------------------- MODULE ServerProofs ----------------------------
(***************************************************************************)
(* Proofs about Server, for every set of connections and all durations.    *)
(***************************************************************************)
EXTENDS Server, Countdown, FiniteSetTheorems, TLAPS

\* The inductive invariant: tasks belong to streams, there is no connection
\* before the listener, connections are told of the drain only once it has
\* begun, and the clock of the drain only runs when all of them know.
IInv ==
    /\ TypeOK
    /\ TasksServe
    /\ phase = "starting" => \A c \in Conn : conn[c] = "none"
    /\ told # {} => phase \in {"draining", "exited", "killed"}
    /\ phase = "draining" /\ timer < ShutdownTimeout => Watched \subseteq told

Open == {"idle", "handling", "relaying", "streaming"}

\* The watched connections by their states.
LEMMA WatchedByState == Watched = {c \in Conn : conn[c] \in Open}
  BY DEF Watched, Busy, Open

\* What the invariant says, one fact at a time.
LEMMA Facts ==
    ASSUME IInv
    PROVE  /\ phase \in Phases /\ caught \subseteq Signals
           /\ signalled \in BOOLEAN
           /\ timer \in Nat /\ Backoff \in Nat /\ ShutdownTimeout \in Nat
           /\ conn \in [Conn -> ConnStates]
           /\ told \subseteq Conn
           /\ tasks \in [Conn -> Nat]
           /\ \A c \in told : conn[c] # "idle"
           /\ \A c \in Conn : tasks[c] \in {0, 1}
           /\ \A c \in Conn : tasks[c] = 1 => conn[c] \in {"streaming", "closed"}
<1>1. Backoff \in Nat /\ ShutdownTimeout \in Nat
  BY ServerAssumption
<1>2. signalled \in BOOLEAN
  BY Zenon DEF IInv, TypeOK
<1>3. /\ phase \in Phases /\ caught \subseteq Signals /\ timer \in Nat
      /\ conn \in [Conn -> ConnStates] /\ told \subseteq Conn
      /\ tasks \in [Conn -> Nat]
      /\ \A c \in told : conn[c] # "idle"
  BY Zenon DEF IInv, TypeOK
<1>4. ASSUME NEW c \in Conn
      PROVE  /\ tasks[c] \in {0, 1}
             /\ tasks[c] = 1 => conn[c] \in {"streaming", "closed"}
  <2>1. tasks[c] \in Nat /\ tasks[c] <= 1
    BY <1>3 DEF IInv, TasksServe
  <2>2. tasks[c] > 0 => conn[c] \in {"streaming", "closed"}
    BY DEF IInv, TasksServe
  <2> QED
    BY <2>1, <2>2
<1> QED
  BY <1>1, <1>2, <1>3, <1>4

\* What every step of one connection c does to it and to its tasks.
Step(c, state, n) ==
    /\ phase # "starting"
    /\ conn' = [conn EXCEPT ![c] = state]
    /\ tasks' = [tasks EXCEPT ![c] = n]
    /\ n = 1 => state \in {"streaming", "closed"}
    /\ UNCHANGED <<phase, caught, signalled, timer>>
    /\ told' \in {told, told \cup {c}}
    /\ told' # told => phase = "draining"
    /\ c \in told' => state # "idle"
    /\ state \in Open /\ phase = "draining" => conn[c] \in Open
    /\ state = "cut" => conn[c] = "cut"

\* Such a step keeps the invariant.
LEMMA OneConnection ==
    ASSUME IInv, NEW c \in Conn, NEW state \in ConnStates, NEW n \in {0, 1},
           Step(c, state, n)
    PROVE  IInv'
<1> USE DEF Step
<1>1. /\ conn \in [Conn -> ConnStates] /\ told \subseteq Conn
      /\ tasks \in [Conn -> Nat] /\ \A d \in told : conn[d] # "idle"
  BY Facts
<1>2. /\ conn' \in [Conn -> ConnStates] /\ told' \subseteq Conn
      /\ tasks' \in [Conn -> Nat]
  BY <1>1
<1>3. \A d \in Conn : /\ conn'[d] = IF d = c THEN state ELSE conn[d]
                    /\ tasks'[d] = IF d = c THEN n ELSE tasks[d]
  BY <1>1
<1>4. \A d \in told' : conn'[d] # "idle"
  BY <1>1, <1>3
<1>5. TypeOK'
  BY <1>2, <1>4 DEF IInv, TypeOK
<1>6. TasksServe'
  <2> SUFFICES ASSUME NEW d \in Conn
               PROVE  /\ tasks'[d] <= 1
                      /\ tasks'[d] > 0 => conn'[d] \in {"streaming", "closed"}
    BY DEF TasksServe
  <2>1. CASE d = c
    BY <2>1, <1>3
  <2>2. CASE d # c
    BY <2>2, <1>3 DEF IInv, TasksServe
  <2> QED
    BY <2>1, <2>2
<1>7. told' # {} => phase' \in {"draining", "exited", "killed"}
  BY DEF IInv
<1>8. phase' = "draining" /\ timer' < ShutdownTimeout => Watched' \subseteq told'
  <2> SUFFICES ASSUME phase = "draining", timer < ShutdownTimeout,
                      NEW d \in Watched'
               PROVE  d \in told'
    OBVIOUS
  <2>1. d \in Conn /\ conn'[d] \in Open
    BY DEF Watched, Busy, Open
  <2>2. conn[d] \in Open
    BY <2>1, <1>3
  <2> QED
    BY <2>1, <2>2, WatchedByState DEF IInv
<1> QED
  BY <1>5, <1>6, <1>7, <1>8 DEF IInv

\* The end of the process keeps the invariant and leaves nothing behind.
LEMMA CeaseIInv ==
    ASSUME IInv, NEW how \in {"exited", "killed"}, Cease(how)
    PROVE  IInv'
<1>1. conn \in [Conn -> ConnStates] /\ told \subseteq Conn
  BY Facts
<1>2. /\ conn' \in [Conn -> ConnStates]
      /\ \A c \in Conn : conn'[c] # "idle"
  BY <1>1 DEF Cease, ConnStates, Watched
<1>3. /\ tasks' \in [Conn -> Nat]
      /\ \A c \in Conn : tasks'[c] = 0
  BY DEF Cease
<1>4. /\ phase' \in {"exited", "killed"} /\ phase' \in Phases
      /\ UNCHANGED <<caught, signalled, timer, told>>
  BY DEF Cease, Phases, signalVars
<1>5. \A c \in told' : conn'[c] # "idle"
  BY <1>1, <1>2, <1>4
<1>6. TypeOK'
  BY <1>2, <1>3, <1>4, <1>5 DEF IInv, TypeOK
<1>7. TasksServe'
  BY <1>3 DEF TasksServe
<1> QED
  BY <1>4, <1>6, <1>7 DEF IInv

\* The server starts in the invariant.
LEMMA InitIInv == Init => IInv
<1> SUFFICES ASSUME Init PROVE IInv
  OBVIOUS
<1>1. conn \in [Conn -> ConnStates] /\ told = {} /\ phase = "starting"
  BY DEF Init, ConnStates
<1>2. signalled \in BOOLEAN
  BY Zenon DEF Init
<1>3. caught \subseteq Signals /\ timer \in Nat
  BY DEF Init
<1>4. tasks \in [Conn -> Nat] /\ \A c \in Conn : tasks[c] = 0
  BY DEF Init
<1>5. phase \in Phases /\ told \subseteq Conn /\ \A c \in told : conn[c] # "idle"
  BY <1>1 DEF Phases
<1>6. phase # "backoff" /\ phase # "draining"
  BY <1>1
<1>7. TypeOK
  BY Zenon, <1>1, <1>2, <1>3, <1>4, <1>5, <1>6 DEF TypeOK
<1>8. TasksServe
  BY <1>4 DEF TasksServe
<1>9. \A c \in Conn : conn[c] = "none"
  BY DEF Init
<1> QED
  BY <1>1, <1>6, <1>7, <1>8, <1>9 DEF IInv

\* Steps that leave connections and tasks alone.
LEMMA NoConnection ==
    ASSUME IInv, UNCHANGED <<conn, told, tasks>>,
           phase' \in Phases, caught' \subseteq Signals, signalled' \in BOOLEAN,
           timer' \in Nat,
           phase' = "backoff" => timer' <= Backoff,
           phase' = "draining" => timer' <= ShutdownTimeout,
           phase' = "starting" => phase = "starting",
           phase \in {"draining", "exited", "killed"} => phase' = phase,
           phase' = "draining" /\ timer' < ShutdownTimeout => Watched \subseteq told
    PROVE  IInv'
<1>1. TypeOK'
  BY Zenon DEF IInv, TypeOK
<1>2. TasksServe'
  BY DEF IInv, TasksServe
<1>3. Watched' = Watched
  BY DEF Watched, Busy
<1> QED
  BY <1>1, <1>2, <1>3 DEF IInv

\* The steps of a connection have that form.
LEMMA Moved ==
    ASSUME IInv, NEW c \in Conn, Connection(c)
    PROVE  \E state \in ConnStates, n \in {0, 1} : Step(c, state, n)
<1>t. /\ conn \in [Conn -> ConnStates] /\ tasks \in [Conn -> Nat]
      /\ \A d \in told : conn[d] # "idle"
      /\ tasks[c] \in {0, 1}
      /\ tasks[c] = 1 => conn[c] \in {"streaming", "closed"}
  BY Facts
<1>s. phase = "starting" => conn[c] = "none" /\ tasks[c] = 0
  BY <1>t DEF IInv
<1>u. /\ tasks = [tasks EXCEPT ![c] = tasks[c]]
      /\ conn = [conn EXCEPT ![c] = conn[c]]
  BY <1>t
<1>c. conn[c] \in ConnStates
  BY <1>t
<1> USE DEF Step, Moves, signalVars
<1>1. CASE Connect(c)
  <2>1. Step(c, "backlog", tasks[c])
    BY <1>1, <1>t, <1>u DEF Connect, Listening, Open
  <2> QED
    BY <2>1, <1>t DEF ConnStates
<1>2. CASE Request(c)
  <2>1. Step(c, "handling", tasks[c])
    BY <1>2, <1>s, <1>t, <1>u DEF Request, Open
  <2> QED
    BY <2>1, <1>t DEF ConnStates
<1>3. CASE Relay(c)
  <2>1. Step(c, "relaying", tasks[c])
    BY <1>3, <1>s, <1>t, <1>u DEF Relay, Open
  <2> QED
    BY <2>1, <1>t DEF ConnStates
<1>4. CASE StartStream(c)
  <2>1. tasks[c] = 0
    BY <1>4, <1>t DEF StartStream
  <2>2. Step(c, "streaming", 1)
    BY <1>4, <2>1, <1>s, <1>t DEF StartStream, Open
  <2> QED
    BY <2>2 DEF ConnStates
<1>5. CASE TaskReturns(c)
  <2>1. tasks[c] = 1
    BY <1>5, <1>t DEF TaskReturns
  <2>2. Step(c, conn[c], 0)
    BY <1>5, <2>1, <1>s, <1>t, <1>u DEF TaskReturns
  <2> QED
    BY <2>2, <1>c
<1>6. ASSUME NEW from \in {"relaying", "streaming"}, Moves(c, from, AfterResponse(c)),
             UNCHANGED tasks, from = "streaming" => tasks[c] = 0
      PROVE  \E state \in ConnStates, n \in {0, 1} : Step(c, state, n)
  <2>1. CASE c \in told
    <3>1. Step(c, "closed", tasks[c])
      BY <1>6, <2>1, <1>s, <1>t, <1>u DEF AfterResponse, Open
    <3> QED
      BY <3>1, <1>t DEF ConnStates
  <2>2. CASE c \notin told
    <3>1. Step(c, "idle", tasks[c])
      BY <1>6, <2>2, <1>s, <1>t, <1>u DEF AfterResponse, Open
    <3> QED
      BY <3>1, <1>t DEF ConnStates
  <2> QED
    BY <2>1, <2>2
<1>7. CASE RespondRelayed(c) \/ RespondStream(c)
  BY <1>6, <1>7 DEF RespondRelayed, RespondStream, ChannelClosed
<1>8. CASE Disconnect(c)
  <2>1. conn[c] \in Open \cup {"backlog"}
    BY <1>8, WatchedByState DEF Disconnect, Backlog
  <2>2. Step(c, "closed", tasks[c])
    BY <1>8, <2>1, <1>s, <1>t, <1>u DEF Disconnect, Open
  <2> QED
    BY <2>2, <1>t DEF ConnStates
<1>9. CASE Notice(c)
  <2>1. conn[c] \in Open /\ AfterNotice(c) \in ConnStates
        /\ AfterNotice(c) \notin {"idle", "cut"}
        /\ (tasks[c] = 1 => AfterNotice(c) \in {"streaming", "closed"})
    BY <1>9, <1>t, WatchedByState DEF Notice, Unaware, AfterNotice, ConnStates, Open
  <2>2. Step(c, AfterNotice(c), tasks[c])
    BY <1>9, <2>1, <1>u DEF Notice
  <2> QED
    BY <2>1, <2>2, <1>t
<1> QED
  BY <1>1, <1>2, <1>3, <1>4, <1>5, <1>7, <1>8, <1>9 DEF Connection

\* Every step keeps the invariant.
LEMMA NextIInv == IInv /\ [Next]_vars => IInv'
<1> SUFFICES ASSUME IInv, [Next]_vars PROVE IInv'
  OBVIOUS
<1>t. /\ phase \in Phases /\ caught \subseteq Signals /\ signalled \in BOOLEAN
      /\ timer \in Nat /\ Backoff \in Nat /\ ShutdownTimeout \in Nat
  BY Facts
<1>k. /\ phase = "backoff" => timer <= Backoff
      /\ phase = "draining" => timer <= ShutdownTimeout
      /\ phase = "draining" /\ timer < ShutdownTimeout => Watched \subseteq told
  BY DEF IInv, TypeOK
<1>a. phase = "accepting" => told = {}
  <2>1. told # {} => phase \in {"draining", "exited", "killed"}
    BY DEF IInv
  <2> QED
    BY <2>1
<1>1. CASE Main
  <2>1. CASE StartFails
    BY <2>1, CeaseIInv DEF StartFails
  <2>2. CASE Bind
    BY <2>2, <1>t, NoConnection DEF Bind, signalVars, connVars, Phases
  <2>3. CASE WatchSignals
    BY <2>3, <1>t, NoConnection DEF WatchSignals, connVars, Phases, Signals
  <2> QED
    BY <1>1, <2>1, <2>2, <2>3 DEF Main
<1>2. CASE ProfilerListens
  <2>1. /\ UNCHANGED <<phase, signalled, timer, conn, told, tasks>>
        /\ caught' \subseteq Signals
    BY <1>2, <1>t DEF ProfilerListens, connVars, Signals
  <2> QED
    BY <2>1, <1>t, <1>k, NoConnection
<1>3. CASE Run
  <2>1. ASSUME NEW c \in Conn, Accept(c) PROVE IInv'
    <3>1. conn[c] = "backlog" /\ tasks[c] = 0 /\ c \notin told'
          /\ UNCHANGED <<phase, caught, signalled, timer, told, tasks>>
          /\ phase = "accepting" /\ conn' = [conn EXCEPT ![c] = "idle"]
          /\ told = {}
      BY <2>1, <1>a, Facts DEF Accept, signalVars
    <3>2. tasks' = [tasks EXCEPT ![c] = 0]
      BY <3>1, Facts
    <3>3. Step(c, "idle", 0)
      <4>1. /\ told' \in {told, told \cup {c}} /\ told' = told
            /\ phase # "starting" /\ phase # "draining"
        BY <3>1
      <4>2. 0 # 1 /\ "idle" # "cut"
        OBVIOUS
      <4> QED
        BY Zenon, <3>1, <3>2, <4>1, <4>2 DEF Step
    <3>4. "idle" \in ConnStates /\ 0 \in {0, 1}
      BY DEF ConnStates
    <3> QED
      BY <3>3, <3>4, OneConnection
  <2>2. CASE AcceptFails
    BY <2>2, <1>t, NoConnection DEF AcceptFails, signalVars, connVars, Phases
  <2>3. CASE BackoffEnds
    BY <2>3, <1>t, NoConnection DEF BackoffEnds, signalVars, connVars, Phases
  <2>4. CASE StopAccepting
    BY <2>4, <1>t, NoConnection DEF StopAccepting, signalVars, connVars, Phases
  <2>5. CASE Drained \/ DrainTimesOut
    BY <2>5, CeaseIInv DEF Drained, DrainTimesOut
  <2> QED
    BY <1>3, <2>1, <2>2, <2>3, <2>4, <2>5 DEF Run
<1>4. CASE Tick
  <2>1. /\ timer' = timer - 1 /\ timer > 0
        /\ UNCHANGED <<phase, caught, signalled, conn, told, tasks>>
        /\ phase = "draining" => Watched \subseteq told
    BY <1>4 DEF Tick, Waiting, signalVars, connVars
  <2>2. timer' \in Nat /\ timer' < timer
    BY <2>1, <1>t
  <2>3. /\ phase = "backoff" => timer' <= Backoff
        /\ phase = "draining" => timer' <= ShutdownTimeout
    BY <2>2, <1>t, <1>k
  <2> QED
    BY <2>1, <2>2, <2>3, <1>t, NoConnection
<1>5. ASSUME NEW s \in Signals, Signal(s) PROVE IInv'
  <2>1. CASE Caught(s)
    <3>1. /\ UNCHANGED <<phase, caught, timer, conn, told, tasks>>
          /\ signalled' \in BOOLEAN
      BY <2>1 DEF Caught, connVars
    <3> QED
      BY <3>1, <1>t, <1>k, NoConnection
  <2>2. CASE Uncaught(s)
    BY <2>2, CeaseIInv DEF Uncaught
  <2> QED
    BY <1>5, <2>1, <2>2 DEF Signal
<1>6. ASSUME NEW c \in Conn, Connection(c) PROVE IInv'
  BY <1>6, Moved, OneConnection
<1>7. CASE UNCHANGED vars
  BY <1>7, <1>t, <1>k, NoConnection DEF vars
<1> QED
  BY <1>1, <1>2, <1>3, <1>4, <1>5, <1>6, <1>7 DEF Next, Ended

\* It holds throughout.
LEMMA Invariance == Spec => []IInv
<1>1. Init => IInv
  BY InitIInv
<1>2. IInv /\ [Next]_vars => IInv'
  BY NextIInv
<1> QED
  BY <1>1, <1>2, PTL DEF Spec

\* A step that cuts a connection, or leaves the drain, is the end of the
\* process: of the drain, of a start that fails, or by a signal.
LEMMA OnlyTheEndCuts ==
    ASSUME IInv, Next, ~ Drained, ~ DrainTimesOut, ~ StartFails,
           ~ \E s \in Signals : Uncaught(s)
    PROVE  /\ \A c \in Conn : conn'[c] = "cut" => conn[c] = "cut"
           /\ phase = "draining" => phase' = "draining"
<1>t. conn \in [Conn -> ConnStates]
  BY Facts
<1>1. CASE \E c \in Conn : Connection(c)
  <2>1. PICK c \in Conn : Connection(c)
    BY <1>1
  <2>2. PICK state \in ConnStates, n \in {0, 1} : Step(c, state, n)
    BY <2>1, Moved
  <2> QED
    BY <2>2, <1>t DEF Step
<1>2. CASE \E c \in Conn : Accept(c)
  BY <1>2, <1>t DEF Accept
<1>3. CASE \E s \in Signals : Signal(s)
  BY <1>3 DEF Signal, Caught, connVars
<1>4. CASE \/ Bind \/ WatchSignals \/ ProfilerListens
           \/ AcceptFails \/ BackoffEnds \/ StopAccepting \/ Tick \/ Ended
  BY <1>4 DEF Bind, WatchSignals, ProfilerListens, AcceptFails, BackoffEnds,
              StopAccepting, Tick, Ended, vars, connVars
<1> QED
  BY <1>1, <1>2, <1>3, <1>4 DEF Next, Main, Run

-----------------------------------------------------------------------------

\* The server's state keeps its types, and a connection that knows of the drain
\* never waits for another request.
THEOREM TypeCorrect == Spec => []TypeOK
<1>1. IInv => TypeOK
  BY DEF IInv
<1> QED
  BY <1>1, Invariance, PTL

\* A background task belongs to the response under way or has lost its client.
THEOREM NoTaskLingers == Spec => []TasksServe
<1>1. IInv => TasksServe
  BY DEF IInv
<1> QED
  BY <1>1, Invariance, PTL

\* A response is cut only when shutdown_timeout has passed, or by a signal that
\* has no handler.
THEOREM ResponsesSurvive == Spec => CutOnlyByTimeout
<1> DEFINE Cut == \A c \in Busy : conn'[c] = "cut"
                     => \/ phase = "draining" /\ timer = 0
                        \/ phase' = "killed" /\ caught # Signals
<1>1. IInv /\ [Next]_vars => [Cut]_vars
  <2> SUFFICES ASSUME IInv, Next, NEW c \in Busy, conn'[c] = "cut"
               PROVE  \/ phase = "draining" /\ timer = 0
                      \/ phase' = "killed" /\ caught # Signals
    BY DEF vars
  <2>1. c \in Conn /\ conn[c] # "cut" /\ c \in Watched
    BY DEF Busy, Watched
  <2>2. CASE Drained
    BY <2>1, <2>2 DEF Drained, AllDrained
  <2>3. CASE DrainTimesOut
    BY <2>3 DEF DrainTimesOut, TimeoutElapsed
  <2>4. CASE \E s \in Signals : Uncaught(s)
    BY <2>4 DEF Uncaught, Cease
  <2>5. CASE StartFails
    BY <2>5 DEF StartFails, IInv, Busy
  <2> QED
    BY <2>1, <2>2, <2>3, <2>4, <2>5, OnlyTheEndCuts
<1> QED
  BY <1>1, Invariance, PTL DEF Spec, CutOnlyByTimeout

\* run waits for its timeout only if a response is still under way.
THEOREM IdleDoNotDelay == Spec => TimeoutOnlyForResponses
<1> DEFINE Justified == phase = "draining" /\ phase' = "exited" /\ Watched # {}
               => ShutdownTimeout = 0 \/ Busy # {}
<1>1. IInv /\ [Next]_vars => [Justified]_vars
  <2> SUFFICES ASSUME IInv, Next, phase = "draining", phase' = "exited",
                      Watched # {}, ShutdownTimeout # 0
               PROVE  Busy # {}
    BY DEF vars
  <2>0. ~ StartFails /\ ~ \E s \in Signals : Uncaught(s)
    BY DEF StartFails, Uncaught, Cease
  <2>1. timer = 0
    BY <2>0, OnlyTheEndCuts DEF Drained, AllDrained, DrainTimesOut, TimeoutElapsed
  <2>2. Watched \subseteq told
    BY <2>1, ServerAssumption DEF IInv
  <2>3. PICK c \in Watched : c \in told
    BY <2>2
  <2>4. conn[c] # "idle"
    BY <2>3, Facts
  <2> QED
    BY <2>3, <2>4 DEF Watched
<1> QED
  BY <1>1, Invariance, PTL DEF Spec, TimeoutOnlyForResponses

-----------------------------------------------------------------------------
(* Server implements Response for every connection *)

\* The abstract state of a connection c, by the state of the connection.
LEMMA Replies ==
    ASSUME NEW state \in ConnStates, NEW c \in Conn, conn[c] = state
    PROVE  /\ state \in {"none", "backlog", "idle"} => ReplyOf(c) = "quiet"
           /\ state = "handling" => ReplyOf(c) = "awaited"
           /\ state = "relaying" => ReplyOf(c) = "relayed"
           /\ state = "streaming" => ReplyOf(c) = "fed"
           /\ state \in {"closed", "cut"} => ReplyOf(c) = "gone"
  BY DEF ReplyOf, ConnStates

\* The same after a step.
LEMMA NextReplies ==
    ASSUME NEW state \in ConnStates, NEW c \in Conn, conn'[c] = state
    PROVE  /\ state \in {"none", "backlog", "idle"} => ReplyOf(c)' = "quiet"
           /\ state = "handling" => ReplyOf(c)' = "awaited"
           /\ state = "relaying" => ReplyOf(c)' = "relayed"
           /\ state = "streaming" => ReplyOf(c)' = "fed"
           /\ state \in {"closed", "cut"} => ReplyOf(c)' = "gone"
  BY DEF ReplyOf, ConnStates

\* How Server's steps read in the contract, for the connection that takes one.
LEMMA OwnStep ==
    ASSUME IInv, NEW c \in Conn, Connection(c) \/ Accept(c)
    PROVE  [Serving(c)!Next]_(Serving(c)!vars)
<1>t. /\ conn \in [Conn -> ConnStates] /\ tasks \in [Conn -> Nat]
      /\ tasks[c] \in {0, 1} /\ conn[c] \in ConnStates
      /\ tasks[c] = 1 => conn[c] \in {"streaming", "closed"}
  BY Facts
<1> USE DEF Moves, Serving!Next, Serving!vars
<1>1. CASE Connect(c) \/ Accept(c)
  <2>1. /\ conn[c] \in {"none", "backlog"} /\ conn'[c] \in {"backlog", "idle"}
        /\ tasks'[c] = tasks[c]
    BY <1>1, <1>t DEF Connect, Accept
  <2> QED
    BY <2>1, <1>t, Replies, NextReplies DEF ConnStates
<1>2. CASE Request(c)
  <2>1. conn[c] = "idle" /\ conn'[c] = "handling" /\ tasks'[c] = tasks[c]
    BY <1>2, <1>t DEF Request
  <2> QED
    BY <2>1, Replies, NextReplies DEF ConnStates, Serving!Ask
<1>3. CASE Relay(c)
  <2>1. conn[c] = "handling" /\ conn'[c] = "relaying" /\ tasks'[c] = tasks[c]
    BY <1>3, <1>t DEF Relay
  <2> QED
    BY <2>1, Replies, NextReplies DEF ConnStates, Serving!Relay
<1>4. CASE StartStream(c)
  <2>1. /\ conn[c] = "handling" /\ conn'[c] = "streaming"
        /\ tasks[c] = 0 /\ tasks'[c] = 1
    BY <1>4, <1>t DEF StartStream
  <2> QED
    BY <2>1, Replies, NextReplies DEF ConnStates, Serving!Feed
<1>5. CASE TaskReturns(c)
  <2>1. conn'[c] = conn[c] /\ tasks[c] = 1 /\ tasks'[c] = 0
    BY <1>5, <1>t DEF TaskReturns
  <2>2. ReplyOf(c)' = ReplyOf(c)
    BY <2>1 DEF ReplyOf
  <2> QED
    BY <2>1, <2>2 DEF Serving!Return
<1>6. CASE RespondRelayed(c) \/ RespondStream(c)
  <2>1. /\ conn[c] = "relaying" \/ (conn[c] = "streaming" /\ tasks[c] = 0)
        /\ conn'[c] \in {"closed", "idle"} /\ tasks'[c] = tasks[c]
    BY <1>6, <1>t DEF RespondRelayed, RespondStream, ChannelClosed, AfterResponse
  <2>2. ReplyOf(c)' \in {"quiet", "gone"}
    BY <2>1, NextReplies DEF ConnStates
  <2>3. ReplyOf(c) = "relayed" \/ (ReplyOf(c) = "fed" /\ tasks[c] = 0)
    BY <2>1, Replies DEF ConnStates
  <2> QED
    BY <2>1, <2>2, <2>3 DEF Serving!End
<1>7. CASE Disconnect(c)
  <2>1. conn'[c] = "closed" /\ tasks'[c] = tasks[c]
    BY <1>7, <1>t DEF Disconnect
  <2> QED
    BY <2>1, NextReplies DEF ConnStates, Serving!Lose
<1>8. CASE Notice(c)
  <2>1. tasks'[c] = tasks[c] /\ conn'[c] \in {conn[c], "closed"}
    BY <1>8, <1>t DEF Notice, AfterNotice
  <2>2. CASE conn'[c] = "closed"
    BY <2>1, <2>2, NextReplies DEF ConnStates, Serving!Lose
  <2>3. CASE conn'[c] = conn[c]
    BY <2>1, <2>3 DEF ReplyOf
  <2> QED
    BY <2>1, <2>2, <2>3
<1> QED
  BY <1>1, <1>2, <1>3, <1>4, <1>5, <1>6, <1>7, <1>8 DEF Connection

\* The end of the process, in the contract.
LEMMA CeaseServing ==
    ASSUME IInv, NEW c \in Conn, NEW how, Cease(how)
    PROVE  [Serving(c)!Next]_(Serving(c)!vars)
<1>t. /\ conn \in [Conn -> ConnStates] /\ conn[c] \in ConnStates
      /\ tasks[c] \in {0, 1}
      /\ tasks[c] = 1 => conn[c] \in {"streaming", "closed"}
  BY Facts
<1>1. tasks'[c] = 0 /\ conn'[c] \in {conn[c], "cut"}
  BY <1>t DEF Cease
<1>2. conn[c] \in Open => conn'[c] = "cut"
  BY <1>t, WatchedByState DEF Cease
<1>3. CASE conn'[c] \in {"closed", "cut"}
  BY <1>1, <1>3, NextReplies DEF ConnStates, Serving!Next, Serving!Die
<1>4. CASE conn'[c] \notin {"closed", "cut"}
  <2>1. conn'[c] = conn[c] /\ tasks[c] = 0
    BY <1>1, <1>2, <1>4, <1>t DEF Open
  <2>2. ReplyOf(c)' = ReplyOf(c)
    BY <2>1 DEF ReplyOf
  <2> QED
    BY <1>1, <2>1, <2>2 DEF Serving!vars
<1> QED
  BY <1>3, <1>4

\* Every step keeps the contract of every connection.
LEMMA ServingStep ==
    ASSUME IInv, Next, NEW c \in Conn
    PROVE  [Serving(c)!Next]_(Serving(c)!vars)
<1>t. conn \in [Conn -> ConnStates] /\ tasks \in [Conn -> Nat]
  BY Facts
<1>1. ASSUME UNCHANGED <<conn, tasks>> PROVE UNCHANGED Serving(c)!vars
  BY <1>1 DEF ReplyOf, Serving!vars
<1>2. ASSUME NEW d \in Conn, Connection(d) \/ Accept(d)
      PROVE  [Serving(c)!Next]_(Serving(c)!vars)
  <2>1. CASE d = c
    BY <1>2, <2>1, OwnStep
  <2>2. CASE d # c
    <3>1. conn'[c] = conn[c] /\ tasks'[c] = tasks[c]
      <4>1. CASE Accept(d)
        BY <4>1, <2>2, <1>t DEF Accept
      <4>2. CASE Connection(d)
        <5>1. PICK state \in ConnStates, n \in {0, 1} : Step(d, state, n)
          BY <4>2, Moved
        <5> QED
          BY <5>1, <2>2, <1>t DEF Step
      <4> QED
        BY <1>2, <4>1, <4>2
    <3> QED
      BY <3>1 DEF ReplyOf, Serving!vars
  <2> QED
    BY <2>1, <2>2
<1>3. CASE \/ StartFails \/ Drained \/ DrainTimesOut
           \/ \E s \in Signals : Uncaught(s)
  BY <1>3, CeaseServing DEF StartFails, Drained, DrainTimesOut, Uncaught
<1>4. CASE \/ Bind \/ WatchSignals \/ ProfilerListens \/ AcceptFails
           \/ BackoffEnds \/ StopAccepting \/ Tick \/ Ended
           \/ \E s \in Signals : Caught(s)
  <2>1. UNCHANGED <<conn, tasks>>
    BY <1>4 DEF Bind, WatchSignals, ProfilerListens, AcceptFails, BackoffEnds,
                StopAccepting, Tick, Ended, Caught, vars, connVars
  <2> QED
    BY <1>1, <2>1
<1> QED
  BY <1>2, <1>3, <1>4 DEF Next, Main, Run, Signal

\* Server implements the contract of Response for every connection.
THEOREM ConnectionsServe == Spec => EachServes
<1> DEFINE Step1 == \A c \in Conn : [Serving(c)!Next]_(Serving(c)!vars)
<1>1. Init => \A c \in Conn : Serving(c)!Init
  <2> SUFFICES ASSUME Init, NEW c \in Conn PROVE Serving(c)!Init
    OBVIOUS
  <2>1. conn[c] = "none" /\ tasks[c] = 0
    BY DEF Init
  <2> QED
    BY <2>1, Replies DEF Serving!Init, ConnStates
<1>2. IInv /\ [Next]_vars => [Step1]_vars
  BY ServingStep
<1> QED
  BY <1>1, <1>2, Invariance, PTL DEF Spec, EachServes

-----------------------------------------------------------------------------
(* A signal is not passed over *)

\* Before run polls shutdown_signal there is no signal that it could have seen.
SignalInv ==
    phase = "starting" => ~ signalled /\ caught \subseteq {"SIGUSR1"}

\* It holds throughout.
LEMMA SignalInvariance == Spec => [](IInv /\ SignalInv)
<1>1. Init => SignalInv
  BY DEF Init, SignalInv
<1>2. IInv /\ SignalInv /\ [Next]_vars => SignalInv'
  <2> SUFFICES ASSUME IInv, SignalInv, [Next]_vars, phase' = "starting"
               PROVE  ~ signalled' /\ caught' \subseteq {"SIGUSR1"}
    BY DEF SignalInv
  <2>1. ASSUME NEW c \in Conn, Connection(c) PROVE UNCHANGED <<phase, caught, signalled>>
    BY <2>1, Moved DEF Step
  <2>2. CASE ProfilerListens
    BY <2>2 DEF ProfilerListens, SignalInv
  <2>3. CASE \E s \in Signals : Signal(s)
    BY <2>3 DEF Signal, Caught, Uncaught, Cease, SignalInv
  <2>4. CASE Main \/ Run \/ Tick \/ Ended \/ UNCHANGED vars
    BY <2>4 DEF Main, StartFails, Bind, WatchSignals, Run, Accept, AcceptFails,
       BackoffEnds, StopAccepting, Drained, DrainTimesOut, Cease, Tick, Ended,
       vars, signalVars, SignalInv
  <2> QED
    BY <2>1, <2>2, <2>3, <2>4 DEF Next, SignalInv
<1> QED
  BY <1>1, <1>2, Invariance, PTL DEF Spec

\* Where run can be once the signal has come, and where it goes from there: a
\* caught signal is not forgotten.
LEMMA SignalMoves ==
    ASSUME IInv, SignalInv, signalled, Running, [Next]_vars
    PROVE  /\ phase \in {"accepting", "backoff", "draining"}
           /\ signalled'
           /\ phase = "accepting" =>
                phase' \in {"accepting", "backoff", "draining", "exited", "killed"}
           /\ phase = "backoff" => phase' \in {"backoff", "accepting", "killed"}
           /\ phase = "draining" => phase' \in {"draining", "exited", "killed"}
<1>1. phase \in {"accepting", "backoff", "draining"}
  BY Facts DEF Phases, Running, SignalInv
<1>2. CASE \E c \in Conn : Connection(c)
  BY <1>1, <1>2, Moved DEF Step
<1>3. CASE \E s \in Signals : Signal(s)
  BY <1>1, <1>3 DEF Signal, Caught, Uncaught, Cease, signalVars
<1>4. CASE Main \/ ProfilerListens \/ Ended \/ UNCHANGED vars
  BY <1>1, <1>4 DEF Main, StartFails, Bind, WatchSignals, ProfilerListens, Ended,
     vars, signalVars, Cease
<1>5. CASE Run
  BY <1>1, <1>5 DEF Run, Accept, AcceptFails, BackoffEnds, StopAccepting, Drained,
     DrainTimesOut, Cease, signalVars
<1>6. CASE Tick
  BY <1>1, <1>6, Facts DEF Tick, signalVars
<1> QED
  BY <1>1, <1>2, <1>3, <1>4, <1>5, <1>6 DEF Next

\* What is left of a back-off or a drain: its ticks, and in the drain the notices
\* that come first.
Asleep == phase \in {"backoff", "draining"}

Sleep ==
    IF phase = "draining" THEN timer + Cardinality(Unaware) ELSE timer

\* It is a number, and the fewer connections are unaware the smaller it is.
LEMMA SleepIsNat ==
    ASSUME IInv
    PROVE  /\ IsFiniteSet(Unaware) /\ Cardinality(Unaware) \in Nat
           /\ Sleep \in Nat
           /\ \A S \in SUBSET Unaware :
                 /\ Cardinality(S) \in 0 .. Cardinality(Unaware)
                 /\ S # Unaware => Cardinality(S) < Cardinality(Unaware)
<1>1. Unaware \subseteq Conn
  BY DEF Unaware, Watched, Busy
<1>2. IsFiniteSet(Unaware) /\ Cardinality(Unaware) \in Nat
  BY <1>1, ServerAssumption, FS_Subset, FS_CardinalityType
<1>3. ASSUME NEW S \in SUBSET Unaware
      PROVE  /\ Cardinality(S) \in 0 .. Cardinality(Unaware)
             /\ S # Unaware => Cardinality(S) < Cardinality(Unaware)
  <2>1. /\ IsFiniteSet(S) /\ Cardinality(S) <= Cardinality(Unaware)
        /\ Cardinality(Unaware) = Cardinality(S) => Unaware = S
    BY <1>2, FS_Subset
  <2>2. Cardinality(S) \in Nat
    BY <2>1, FS_CardinalityType
  <2> QED
    BY <1>2, <2>1, <2>2
<1>4. Sleep \in Nat
  BY <1>2, Facts DEF Sleep
<1> QED
  BY <1>2, <1>3, <1>4

\* What a step of one connection does to a sleep.
LEMMA SleepersMove ==
    ASSUME IInv, Asleep, NEW c \in Conn, Connection(c)
    PROVE  /\ UNCHANGED <<phase, timer>>
           /\ phase = "draining" => Unaware' \subseteq Unaware
           /\ phase = "draining" /\ Notice(c) => Unaware' # Unaware
<1>1. PICK state, n : Step(c, state, n)
  BY Moved
<1>2. conn \in [Conn -> ConnStates]
  BY Facts
<1>3. \A d \in Conn : conn'[d] = IF d = c THEN state ELSE conn[d]
  BY <1>1, <1>2 DEF Step
<1>4. Watched' = {d \in Conn : conn'[d] \in Open}
  BY DEF Watched, Busy, Open
<1>5. phase = "draining" => Watched' \subseteq Watched
  BY <1>1, <1>3, <1>4, WatchedByState DEF Step
<1>6. told \subseteq told'
  BY <1>1 DEF Step
<1>7. Notice(c) => c \in Unaware /\ c \in told'
  BY DEF Notice
<1> QED
  BY <1>1, <1>5, <1>6, <1>7 DEF Step, Unaware

\* A sleep that goes on stays as it is or becomes shorter, and a notice or a
\* tick makes it shorter.
Sleeping == UNCHANGED phase /\ Sleep' = Sleep

LEMMA SleepMoves ==
    ASSUME IInv, Asleep, [Next]_vars
    PROVE  /\ ~ Asleep' \/ Sleeping \/ Sleep' \in 0 .. Sleep - 1
           /\ Resumes /\ phase = "backoff" => ~ Asleep' \/ Sleep' \in 0 .. Sleep - 1
           /\ Drains => ~ Asleep' \/ Sleep' \in 0 .. Sleep - 1
<1>n. /\ timer \in Nat /\ phase \in {"backoff", "draining"}
      /\ Cardinality(Unaware) \in Nat
  BY Facts, SleepIsNat DEF Asleep
<1>1. UNCHANGED <<phase, timer, Unaware>> => Sleeping
  BY DEF Sleep, Sleeping
<1>2. ASSUME NEW c \in Conn, Connection(c)
      PROVE  /\ Sleeping \/ Sleep' \in 0 .. Sleep - 1
             /\ Notice(c) => Sleep' \in 0 .. Sleep - 1
  <2>1. /\ UNCHANGED <<phase, timer>>
        /\ phase = "draining" => Unaware' \subseteq Unaware
        /\ phase = "draining" /\ Notice(c) => Unaware' # Unaware
    BY <1>2, SleepersMove
  <2>2. CASE phase = "backoff"
    <3>1. Sleep' = Sleep
      BY <2>1, <2>2 DEF Sleep
    <3> QED
      BY <2>1, <2>2, <3>1 DEF Notice, Sleeping
  <2>3. CASE phase = "draining"
    <3>1. /\ Cardinality(Unaware') \in 0 .. Cardinality(Unaware)
          /\ Unaware' # Unaware => Cardinality(Unaware') < Cardinality(Unaware)
      BY <2>1, <2>3, SleepIsNat
    <3>2. Sleep = timer + Cardinality(Unaware) /\ Sleep' = timer + Cardinality(Unaware')
      BY <2>1, <2>3 DEF Sleep
    <3>3. Unaware' # Unaware => Sleep' \in 0 .. Sleep - 1
      BY <1>n, <3>1, <3>2
    <3> QED
      BY <2>1, <2>3, <3>2, <3>3 DEF Sleeping
  <2> QED
    BY <1>n, <2>2, <2>3
<1>3. Notify => Sleep' \in 0 .. Sleep - 1
  BY <1>2 DEF Notify, Connection
<1>4. Tick => Sleep' \in 0 .. Sleep - 1
  <2> SUFFICES ASSUME Tick PROVE Sleep' \in 0 .. Sleep - 1
    OBVIOUS
  <2>1. timer # 0 /\ timer' = timer - 1 /\ UNCHANGED <<phase, Unaware>>
    BY <1>n DEF Tick, connVars, Unaware, Watched, Busy
  <2> QED
    BY <1>n, <2>1 DEF Sleep
<1>5. ASSUME NEW s \in Signals, Signal(s)
      PROVE  ~ Asleep' \/ Sleeping
  <2>1. CASE Caught(s)
    BY <1>1, <2>1 DEF Caught, connVars, Unaware, Watched, Busy
  <2>2. CASE Uncaught(s)
    BY <2>2 DEF Uncaught, Cease, Asleep
  <2> QED
    BY <1>5, <2>1, <2>2 DEF Signal
<1>6. ProfilerListens \/ UNCHANGED vars => Sleeping
  BY <1>1 DEF ProfilerListens, connVars, vars, Unaware, Watched, Busy
<1>7. /\ Drained \/ DrainTimesOut \/ BackoffEnds => ~ Asleep'
      /\ Run => Drained \/ DrainTimesOut \/ BackoffEnds
  <2>1. ASSUME NEW c \in Conn, Accept(c) PROVE phase = "accepting"
    BY <2>1 DEF Accept
  <2> QED
    BY <1>n, <2>1 DEF Run, AcceptFails, BackoffEnds, StopAccepting, Drained,
       DrainTimesOut, Cease, Asleep
<1>8. ~ Main /\ ~ Ended
  BY <1>n DEF Main, StartFails, Bind, WatchSignals, Ended, Running
<1>9. ~ Asleep' \/ Sleeping \/ Sleep' \in 0 .. Sleep - 1
  BY <1>2, <1>4, <1>5, <1>6, <1>7, <1>8 DEF Next
<1> QED
  BY <1>3, <1>4, <1>7, <1>9 DEF Resumes, Drains

\* A sleep does not stay as it is for ever.
LEMMA SleepFalls ==
    ASSUME NEW n \in Nat
    PROVE  FairSpec /\ []RunNeverStuck
               => (Sleep = n ~> Sleep \in 0 .. n - 1 \/ ~ Asleep)
<1> DEFINE Less == Sleep \in 0 .. n - 1 \/ ~ Asleep
           Paused == phase = "backoff" /\ Sleep = n
           Waits == phase = "draining" /\ Sleep = n
<1>1. Sleep = n => Less \/ Paused \/ Waits
  BY DEF Asleep
<1>2. IInv /\ [Next]_vars
        => /\ Paused => Less' \/ Paused'
           /\ Waits => Less' \/ Waits'
  BY SleepMoves DEF Sleeping, Asleep
<1>3. IInv /\ [Next]_vars /\ <<Resumes>>_vars => (Paused => Less')
  BY SleepMoves DEF Asleep
<1>4. IInv /\ [Next]_vars /\ <<Drains>>_vars => (Waits => Less')
  BY SleepMoves DEF Asleep
<1>5. (Paused => phase = "backoff") /\ (Waits => phase = "draining")
  OBVIOUS
<1> HIDE DEF Less, Paused, Waits
<1>6. Less => Sleep \in 0 .. n - 1 \/ ~ Asleep
  BY DEF Less
<1> QED
  BY <1>1, <1>2, <1>3, <1>4, <1>5, <1>6, Invariance, PTL
     DEF FairSpec, Fairness, Spec, RunNeverStuck

\* Every back-off and every drain of run ends, however long it is and however many connections
\* have to be told of the drain first.
LEMMA SleepsEnd ==
    FairSpec /\ []RunNeverStuck /\ EndsAtZero(Sleep, ~ Asleep) => []<>~ Asleep
<1>1. FairSpec /\ []RunNeverStuck
        => \A n \in Nat : (Sleep = n ~> Sleep \in 0 .. n - 1 \/ ~ Asleep)
  BY SleepFalls
<1>2. FairSpec /\ []RunNeverStuck /\ EndsAtZero(Sleep, ~ Asleep)
        => (Sleep \in Nat ~> ~ Asleep)
  BY <1>1 DEF EndsAtZero
<1>3. IInv => Sleep \in Nat
  BY SleepIsNat
<1> QED
  BY <1>2, <1>3, Invariance, PTL DEF FairSpec

\* A signal that is caught ends run, for all connections and durations, however
\* often accept fails or yields first: the signal stays pending, so it is taken
\* some time, and the rest is one sleep, which ends.  Of connections and clients
\* nothing is assumed, and nothing but the fairness of the clock.
THEOREM SignalEnds ==
    FairSpec /\ []RunNeverStuck /\ EndsAtZero(Sleep, ~ Asleep)
        => SignalEndsProcess
<1> DEFINE Inv == IInv /\ SignalInv
           Awake == ~ Asleep
           Loop == signalled /\ phase = "accepting"
           Back == signalled /\ phase = "backoff"
           Drain == signalled /\ phase = "draining"
           Over == ~ Running
           Live == FairSpec /\ []RunNeverStuck /\ []<>Awake
<1>1. Inv /\ signalled => Over \/ Loop \/ Back \/ Drain
  BY Facts DEF Phases, Running, SignalInv
<1>2. ASSUME NEW p \in {"exited", "killed"}, phase' = p PROVE Over'
  BY <1>2 DEF Running
<1>3. Inv /\ [Next]_vars
        => /\ Loop => Loop' \/ Back' \/ Drain' \/ Over'
           /\ Back => Back' \/ Loop' \/ Over'
           /\ Drain => Drain' \/ Over'
           /\ Loop => signalled'
  BY <1>2, SignalMoves DEF Running
<1>4. <<StopAccepting>>_vars => Loop /\ (signalled' => Drain')
  BY DEF StopAccepting, signalVars
<1>5. Spec => []Inv
  BY SignalInvariance
<1>6. /\ ~ (Loop /\ Back) /\ ~ (Drain /\ Loop) /\ ~ (Drain /\ Back)
      /\ (Back => ~ Awake) /\ (Drain => ~ Awake)
  BY DEF Asleep
<1>7. Live => (Drain ~> Over)
  BY <1>3, <1>5, <1>6, PTL DEF FairSpec, Spec
<1>8. Live => (Back ~> Loop \/ Over)
  BY <1>3, <1>5, <1>6, PTL DEF FairSpec, Spec
<1>9. Live => (Loop ~> Drain \/ Over)
  <2>1. Live => ([]<>Loop => []<><<StopAccepting>>_vars)
    BY PTL DEF FairSpec, Fairness, RunNeverStuck
  <2> QED
    BY <1>3, <1>4, <1>5, <1>8, <2>1, PTL DEF FairSpec, Spec
<1>10. Live => SignalEndsProcess
  BY <1>1, <1>5, <1>7, <1>8, <1>9, PTL DEF FairSpec, SignalEndsProcess
<1> QED
  BY <1>10, SleepsEnd
=============================================================================
