------------------------------ MODULE Profiler ------------------------------
(***************************************************************************)
(* dump_loop of src/src/pprof.rs: the task that holds the sampler and, for *)
(* every SIGUSR1 it receives, builds a report and writes it to two files   *)
(* that are named after the second in which it does.                       *)
(*                                                                         *)
(* It awaits in recv only, and there only if no signal is pending: a poll  *)
(* of the task goes from one dump to the next as long as signals come.     *)
(* Signals that arrive while a dump is being written coalesce into one.    *)
(* The clock is the system's: it may stand still between two dumps and may *)
(* be set back.  A report is known by its number.                          *)
(***************************************************************************)
EXTENDS Naturals, Sequences

CONSTANTS
    MaxAsked,   \* bound: signals
    MaxNow      \* bound: the last second of the clock

VARIABLES
    stage,      \* where the task stands: see Stages
    file,       \* the file that is written next, in "creating" and "writing"
    pending,    \* recv has a signal to yield
    asked,      \* how many signals have been caught
    heard,      \* how many of them had been when recv last yielded one
    names,      \* the second that each report is named after
    failed,     \* reports of which one file could not be written
    disk        \* what the files hold: a report, or one of Fragments

profilerVars == <<stage, file, pending, asked, heard, names, failed, disk>>

Stages == {"off",           \* not enabled, or the task has returned
           "spawned",       \* the task has not been polled yet
           "starting",      \* before it has its handler
           "receiving",     \* recv looks for a signal
           "waiting",       \* recv has found none: the task has yielded
           "creating",      \* a file is to be created, or truncated
           "writing"}       \* and to be written

Files == {"svg", "pb"}

Missing == 0

Partial == MaxAsked + 1

Reports == 1 .. MaxAsked

Built == Len(names)

Dumping == stage \in {"creating", "writing"}

\* A worker thread is polling the task, which does not yield before it waits.
Polled == stage \in {"starting", "receiving"} \/ Dumping

-----------------------------------------------------------------------------

\* start_if_enabled
Init ==
    /\ stage \in {"off", "spawned"}
    /\ file = "svg"
    /\ pending = FALSE /\ asked = 0 /\ heard = 0
    /\ names = <<>> /\ failed = {}
    /\ disk = [f \in Files |-> [t \in 0 .. MaxNow |-> Missing]]

\* A worker polls the task: for the first time, or because a signal has come.
Wake ==
    /\ \/ stage = "spawned" /\ stage' = "starting"
       \/ stage = "waiting" /\ pending /\ stage' = "receiving"
    /\ UNCHANGED <<file, pending, asked, heard, names, failed, disk>>

\* The sampler runs and the handler is installed.
Start ==
    /\ stage = "starting" /\ stage' = "receiving"
    /\ UNCHANGED <<file, pending, asked, heard, names, failed, disk>>

\* One of them fails: the task returns.
StartFails ==
    /\ stage = "starting" /\ stage' = "off"
    /\ UNCHANGED <<file, pending, asked, heard, names, failed, disk>>

\* SIGUSR1 is caught, and recv is told.
Ask ==
    /\ asked < MaxAsked
    /\ asked' = asked + 1 /\ pending' = TRUE
    /\ UNCHANGED <<stage, file, heard, names, failed, disk>>

\* There is no signal to take: the poll ends.
Yield ==
    /\ stage = "receiving" /\ ~ pending /\ stage' = "waiting"
    /\ UNCHANGED <<file, pending, asked, heard, names, failed, disk>>

\* recv takes the signal, whatever comes next.
Hear == stage = "receiving" /\ pending /\ pending' = FALSE /\ heard' = asked

\* The report cannot be built, or there is no directory for it.
DumpFails ==
    /\ Hear
    /\ UNCHANGED <<stage, file, asked, names, failed, disk>>

\* A report, and the second that both of its files are named after.
Build ==
    /\ Hear
    /\ \E now \in 0 .. MaxNow : names' = Append(names, now)
    /\ stage' = "creating" /\ file' = "svg"
    /\ UNCHANGED <<asked, failed, disk>>

FixedName == 0              \* mutant: every dump has the same name
Name == names[Built]

Holds(content) == disk' = [disk EXCEPT ![file][Name] = content]

\* On to the second file, or in the same poll to the next signal.
ForgetSignals == FALSE      \* mutant: what came during the dump is dropped
KeepSignals == pending

Proceed ==
    /\ \/ file = "svg" /\ file' = "pb" /\ stage' = "creating" /\ UNCHANGED pending
       \/ file = "pb" /\ stage' = "receiving" /\ pending' = KeepSignals /\ UNCHANGED file
    /\ UNCHANGED <<asked, heard, names>>

Create ==
    /\ stage = "creating" /\ stage' = "writing"
    /\ Holds(Partial)
    /\ UNCHANGED <<file, pending, asked, heard, names, failed>>

Write ==
    /\ stage = "writing"
    /\ Holds(Built)
    /\ UNCHANGED failed
    /\ Proceed

\* The file cannot be created, or not be written to its end: the other one is
\* written all the same.
WriteFails ==
    /\ Dumping
    /\ failed' = failed \cup {Built}
    /\ UNCHANGED disk
    /\ Proceed

Dump == Create \/ Write \/ WriteFails

-----------------------------------------------------------------------------
(* Properties *)

\* Type invariant.
ProfilerTypeOK ==
    /\ stage \in Stages
    /\ file \in Files
    /\ pending \in BOOLEAN
    /\ asked \in 0 .. MaxAsked
    /\ heard \in 0 .. asked
    /\ names \in Seq(0 .. MaxNow) /\ Built <= heard
    /\ failed \subseteq 1 .. Built
    /\ disk \in [Files -> [0 .. MaxNow -> {Missing, Partial} \cup Reports]]

\* No later report has the name of report r.
Latest(r) == \A q \in r + 1 .. Built : names[q] # names[r]

\* The two files of report r hold it, both of them.
Kept(r) == \A f \in Files : disk[f][names[r]] = r
=============================================================================
