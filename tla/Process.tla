------------------------------- MODULE Process -------------------------------
(***************************************************************************)
(* The process of a profiling image: Server with the profiler's task.      *)
(*                                                                         *)
(* They meet in three places.  SIGUSR1 asks for a profile once the task    *)
(* has its handler and kills the process before.  The runtime is dropped   *)
(* when run has returned: a task that awaits is not polled again, but one  *)
(* that is being polled goes on until it yields, which dump_loop does when *)
(* no signal is pending at the end of a dump, and the process ends when no *)
(* task is polled any more.  A signal that kills the process stops a dump  *)
(* where it is.                                                            *)
(***************************************************************************)
EXTENDS Server, Sequences

CONSTANTS
    MaxAsked,   \* bound: SIGUSR1 that are caught
    MaxNow      \* bound: the last second of the clock

ASSUME ProcessAssumption == MaxAsked \in Nat /\ MaxNow \in Nat

VARIABLES stage, file, pending, asked, heard, names, failed, disk

Profiler == INSTANCE Profiler

profilerVars == <<stage, file, pending, asked, heard, names, failed, disk>>
processVars == <<vars, profilerVars>>

\* The runtime that is being dropped waits for the poll that is under way.
DumpDropped == TRUE         \* mutant: it does not
Yielded == ~ Profiler!Polled

\* The process has ended: nothing runs any more.
Gone == phase = "killed" \/ (phase = "exited" /\ Yielded)

-----------------------------------------------------------------------------

ProcessInit == Init /\ Profiler!Init

\* The runtime has the task polled as long as it is not being dropped.
Woken == Running /\ Profiler!Wake /\ UNCHANGED vars

\* The sampler and the handler: ProfilerListens of Server.
DumpLoopStarts == ProfilerListens /\ Profiler!Start

FailureIsFatal ==           \* mutant: run returns
    Running /\ Profiler!StartFails /\ Cease("exited")
DumpLoopFails == ~ Gone /\ Profiler!StartFails /\ UNCHANGED vars

\* SIGUSR1 with its handler.  A runtime that is being dropped keeps the handler,
\* and passes the signal on or does not: there is nothing to see of the latter.
Asked == ~ Gone /\ Caught("SIGUSR1") /\ Profiler!Ask

\* recv, with a signal and without, whether run has returned or not.
Dumps == ~ Gone /\ (Profiler!Build \/ Profiler!DumpFails) /\ UNCHANGED vars
Yields == ~ Gone /\ Profiler!Yield /\ UNCHANGED vars

DumpGoesOn == ~ Gone /\ Profiler!Dump /\ UNCHANGED vars

\* What a poll of the dump loop does.
PollGoesOn ==
    DumpLoopStarts \/ DumpLoopFails \/ Dumps \/ DumpGoesOn \/ Yields

Others ==
    /\ \/ Main \/ Run \/ Tick \/ \E c \in Conn : Connection(c)
       \/ Running /\ \E s \in {"SIGINT", "SIGTERM"} : Caught(s)
    /\ UNCHANGED profilerVars

\* A signal that has no handler kills the process as long as there is one.
Killed == ~ Gone /\ (\E s \in Signals : Uncaught(s)) /\ UNCHANGED profilerVars

ProcessOver == Gone /\ UNCHANGED processVars

ProcessNext == Woken \/ PollGoesOn \/ Asked \/ Others \/ Killed \/ ProcessOver

ProcessSpec == ProcessInit /\ [][ProcessNext]_processVars

\* The task is polled when a signal has come, and its polls go on: the files
\* are written in the end.
ProcessFairness ==
    /\ Fairness
    /\ WF_processVars(Woken) /\ WF_processVars(PollGoesOn)

FairProcess == ProcessSpec /\ ProcessFairness

-----------------------------------------------------------------------------
(* Properties *)

\* Type invariant, with what the two halves know of each other: the task waits
\* for signals only with a handler for them.
ProcessTypeOK ==
    /\ TypeOK
    /\ Profiler!ProfilerTypeOK
    /\ "SIGUSR1" \in caught <=> stage \notin {"off", "spawned", "starting"}

\* Each profile that has been written without an error is kept, and its two
\* files belong together, unless a later dump fell into the same second: the
\* clock may go back, dumps may fail half way, signals may come while files
\* are written, and so may the end of the process, which then has to wait for
\* this dump and for those that begin behind it in the same poll.
Written(r) == r < Len(names) \/ ~ Profiler!Dumping \/ (Gone /\ phase = "exited")

ProfilesKept ==
    \A r \in 1 .. Len(names) \ failed :
        Written(r) /\ Profiler!Latest(r) => Profiler!Kept(r)

\* The profiler is no part of the server: whether it starts or fails to, and
\* whatever becomes of its dumps, the process does what Server does, and what
\* is shown of Server holds for the profiling image too.
KeepsServer == Spec

\* Nothing that is owed waits for a client or for a signal: run goes on by
\* itself, a request that has been caught and not heard finds the dump loop in
\* a poll or has it woken, and a poll, for which a runtime that is being
\* dropped waits, can go on to where it yields, whatever fails on the way.
NeverStuck ==
    /\ RunNeverStuck
    /\ Running /\ heard < asked /\ Yielded => ENABLED <<Woken>>_processVars
    /\ ~ Yielded /\ phase # "killed" => ENABLED <<PollGoesOn>>_processVars

\* A request for a profile that is caught is answered by a dump that begins
\* after it, also when it comes while another one is being written: only the
\* end of the process forgives it.
RequestsHeard == \A n \in 1 .. MaxAsked : asked >= n ~> heard >= n \/ ~ Running

\* A signal that is caught ends the process, not only run, if the requests for
\* profiles come to an end (MaxAsked): it may wait longer than shutdown_timeout,
\* for the dump under way and for another one as often as SIGUSR1 has come
\* again when a dump is done, because recv takes it before the task yields.
ProcessEnds == signalled ~> Gone
=============================================================================
