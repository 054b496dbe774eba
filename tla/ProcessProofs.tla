---------------------------- MODULE ProcessProofs ----------------------------
(***************************************************************************)
(* Proofs about Process, for every set of connections, all durations and   *)
(* any number of signals and reports.                                      *)
(***************************************************************************)
EXTENDS Process, ServerProofs, SequenceTheorems

Kept(r, f) == disk[f][names[r]] = r

StageNames == {"off", "spawned", "starting", "receiving", "waiting", "creating",
               "writing"}

Contents == {0, MaxAsked + 1} \cup (1 .. MaxAsked)

\* Report r is in both files once it has been written, and in the first one
\* while the second one is being written.
ReportInv(r) ==
    /\ r < Len(names) \/ ~ Profiler!Dumping => Kept(r, "svg") /\ Kept(r, "pb")
    /\ file = "pb" => Kept(r, "svg")

\* The inductive invariant of the profiler: the reports that have not failed
\* and whose name no later one has are where they should be.
DumpInv ==
    /\ Profiler!ProfilerTypeOK
    /\ "SIGUSR1" \in caught <=> stage \notin {"off", "spawned", "starting"}
    /\ pending => heard < asked
    /\ Profiler!Dumping => names # <<>>
    /\ \A r \in 1 .. Len(names) \ failed : Profiler!Latest(r) => ReportInv(r)

\* What it says, one fact at a time.
LEMMA DumpFacts ==
    ASSUME DumpInv
    PROVE  /\ stage \in StageNames
           /\ file \in {"svg", "pb"} /\ pending \in BOOLEAN
           /\ MaxAsked \in Nat /\ MaxNow \in Nat
           /\ asked \in Nat /\ asked <= MaxAsked /\ heard \in Nat /\ heard <= asked
           /\ names \in Seq(0 .. MaxNow) /\ Len(names) \in Nat /\ Len(names) <= heard
           /\ failed \subseteq 1 .. Len(names)
           /\ disk \in [{"svg", "pb"} -> [0 .. MaxNow -> Contents]]
<1>1. MaxAsked \in Nat /\ MaxNow \in Nat
  BY ProcessAssumption
<1>2. Profiler!ProfilerTypeOK
  BY DEF DumpInv
<1>3. pending \in BOOLEAN
  BY Zenon, <1>2 DEF Profiler!ProfilerTypeOK
<1>4. /\ stage \in StageNames
      /\ file \in {"svg", "pb"}
      /\ asked \in 0 .. MaxAsked /\ heard \in 0 .. asked
      /\ names \in Seq(0 .. MaxNow) /\ Len(names) <= heard
      /\ failed \subseteq 1 .. Len(names)
      /\ disk \in [{"svg", "pb"} -> [0 .. MaxNow -> Contents]]
  BY Zenon, <1>2 DEF Profiler!ProfilerTypeOK, Profiler!Stages, Profiler!Files,
     Profiler!Missing, Profiler!Partial, Profiler!Reports, Profiler!Built, Contents,
     StageNames
<1>5. Len(names) \in Nat
  BY <1>4, LenProperties
<1> QED
  BY <1>1, <1>3, <1>4, <1>5

\* And back: the facts that make up the type invariant after a step.
LEMMA NextTypes ==
    ASSUME stage' \in StageNames,
           file' \in {"svg", "pb"}, pending' \in BOOLEAN,
           asked' \in 0 .. MaxAsked, heard' \in 0 .. asked',
           names' \in Seq(0 .. MaxNow), Len(names') <= heard',
           failed' \subseteq 1 .. Len(names'),
           disk' \in [{"svg", "pb"} -> [0 .. MaxNow -> Contents]]
    PROVE  Profiler!ProfilerTypeOK'
  BY Zenon DEF Profiler!ProfilerTypeOK, Profiler!Stages, Profiler!Files,
     Profiler!Missing, Profiler!Partial, Profiler!Reports, Profiler!Built, Contents,
     StageNames

\* Writing one file changes that file only.
LEMMA DiskUpdate ==
    ASSUME DumpInv, NEW t \in 0 .. MaxNow, NEW content \in Contents,
           disk' = [disk EXCEPT ![file][t] = content]
    PROVE  /\ disk' \in [{"svg", "pb"} -> [0 .. MaxNow -> Contents]]
           /\ disk'[file][t] = content
           /\ \A f \in {"svg", "pb"}, u \in 0 .. MaxNow :
                 f # file \/ u # t => disk'[f][u] = disk[f][u]
<1>1. /\ file \in {"svg", "pb"}
      /\ disk \in [{"svg", "pb"} -> [0 .. MaxNow -> Contents]]
  BY DumpFacts
<1>2. disk' = [disk EXCEPT ![file] = [disk[file] EXCEPT ![t] = content]]
  OBVIOUS
<1>3. [disk[file] EXCEPT ![t] = content] \in [0 .. MaxNow -> Contents]
  BY <1>1
<1> QED
  BY <1>1, <1>2, <1>3

\* The profiler starts in it, and with no signal caught.
LEMMA InitDumpInv == ProcessInit => DumpInv
<1> SUFFICES ASSUME ProcessInit PROVE DumpInv
  OBVIOUS
<1>1. /\ stage \in {"off", "spawned"} /\ file = "svg"
      /\ asked = 0 /\ heard = 0 /\ names = <<>> /\ failed = {}
      /\ disk = [f \in {"svg", "pb"} |-> [t \in 0 .. MaxNow |-> 0]]
      /\ caught = {}
  BY DEF ProcessInit, Init, Profiler!Init, Profiler!Files, Profiler!Missing
<1>2. pending = FALSE
  BY DEF ProcessInit, Profiler!Init
<1>3. Len(names) = 0 /\ names \in Seq(0 .. MaxNow)
  BY <1>1, EmptySeq
<1>4. disk \in [{"svg", "pb"} -> [0 .. MaxNow -> Contents]]
  BY <1>1 DEF Contents
<1>5. asked \in 0 .. MaxAsked /\ heard \in 0 .. asked /\ Len(names) <= heard
  BY <1>1, <1>3, ProcessAssumption
<1>6. pending \in BOOLEAN
  BY Zenon, <1>2
<1>7. Profiler!ProfilerTypeOK
  BY Zenon, <1>1, <1>3, <1>4, <1>5, <1>6 DEF Profiler!ProfilerTypeOK,
     Profiler!Stages, Profiler!Files, Profiler!Missing, Profiler!Partial,
     Profiler!Reports, Profiler!Built, Contents,
     StageNames
<1>8. ~ Profiler!Dumping
  BY <1>1 DEF Profiler!Dumping
<1>9. 1 .. Len(names) = {}
  BY <1>3
<1> QED
  BY <1>1, <1>2, <1>7, <1>8, <1>9 DEF DumpInv

\* The report being written, and its name.
LEMMA LastReport ==
    ASSUME DumpInv, Profiler!Dumping
    PROVE  /\ Len(names) \in 1 .. Len(names)
           /\ Len(names) \in Contents
           /\ names[Len(names)] \in 0 .. MaxNow
           /\ stage \notin {"off", "spawned", "starting", "receiving", "waiting"}
<1>1. names # <<>> /\ names \in Seq(0 .. MaxNow) /\ Len(names) \in Nat
  BY DumpFacts DEF DumpInv
<1>2. Len(names) \in 1 .. Len(names)
  BY <1>1, EmptySeq
<1>3. Len(names) <= MaxAsked
  BY DumpFacts
<1>4. Len(names) \in Contents
  BY <1>1, <1>2, <1>3, ProcessAssumption DEF Contents
<1>5. names[Len(names)] \in 0 .. MaxNow
  BY <1>1, <1>2, ElementOfSeq
<1>6. stage \notin {"off", "spawned", "starting", "receiving", "waiting"}
  BY DEF Profiler!Dumping
<1> QED
  BY <1>2, <1>4, <1>5, <1>6

\* A step of a dump that does not touch the names: what it has to keep of the
\* earlier reports it keeps when it writes at most under the last name.
LEMMA EarlierReports ==
    ASSUME DumpInv, Profiler!Dumping, UNCHANGED names,
           \A f \in {"svg", "pb"}, u \in 0 .. MaxNow :
              u # names[Len(names)] => disk'[f][u] = disk[f][u],
           NEW r \in 1 .. Len(names), r \notin failed, r # Len(names),
           Profiler!Latest(r)
    PROVE  ReportInv(r)'
<1>1. names[Len(names)] # names[r] /\ r < Len(names) /\ names[r] \in 0 .. MaxNow
  <2>1. r < Len(names) /\ Len(names) \in Nat /\ r \in Nat
    BY DumpFacts
  <2>2. Len(names) \in r + 1 .. Len(names)
    BY <2>1
  <2> QED
    BY <2>1, <2>2, DumpFacts, ElementOfSeq DEF Profiler!Latest, Profiler!Built
<1>2. Kept(r, "svg") /\ Kept(r, "pb")
  BY <1>1 DEF DumpInv, ReportInv
<1> QED
  BY <1>1, <1>2 DEF ReportInv, Kept

\* Steps of a dump keep the invariant.
LEMMA DumpKeeps ==
    ASSUME DumpInv, Profiler!Dump, UNCHANGED caught
    PROVE  DumpInv'
<1> DEFINE N == Len(names)
<1>t. /\ stage \in {"creating", "writing"} /\ Profiler!Dumping
      /\ UNCHANGED <<names, asked, heard>> /\ stage' \in {"creating", "writing", "receiving"}
      /\ file' \in {"svg", "pb"} /\ pending' = pending
  BY DumpFacts DEF Profiler!Dump, Profiler!Create, Profiler!Write,
     Profiler!WriteFails, Profiler!Dumping, Profiler!Proceed, Profiler!KeepSignals,
     StageNames
<1>n. N \in 1 .. N /\ N \in Contents /\ names[N] \in 0 .. MaxNow
  BY <1>t, LastReport
<1>l. \A r \in 1 .. N : Profiler!Latest(r)' <=> Profiler!Latest(r)
  BY <1>t DEF Profiler!Latest, Profiler!Built
<1> HIDE DEF N
<1>1. ASSUME failed' \subseteq 1 .. Len(names),
             disk' \in [{"svg", "pb"} -> [0 .. MaxNow -> Contents]],
             failed \subseteq failed',
             \A f \in {"svg", "pb"}, u \in 0 .. MaxNow :
                u # names[N] => disk'[f][u] = disk[f][u],
             N \notin failed' /\ Profiler!Latest(N) => ReportInv(N)'
      PROVE  DumpInv'
  <2>1. Profiler!ProfilerTypeOK'
    BY <1>1, <1>t, DumpFacts, NextTypes DEF StageNames
  <2>2. ASSUME NEW r \in 1 .. N \ failed', Profiler!Latest(r)
        PROVE  ReportInv(r)'
    BY <1>1, <1>t, <2>2, EarlierReports DEF N
  <2>3. "SIGUSR1" \in caught' <=> stage' \notin {"off", "spawned", "starting"}
    BY <1>t DEF DumpInv
  <2>4. pending' => heard' < asked'
    BY <1>t DEF DumpInv
  <2>5. names' # <<>>
    BY <1>t DEF DumpInv
  <2> QED
    BY <1>t, <1>l, <2>1, <2>2, <2>3, <2>4, <2>5 DEF DumpInv, N
<1>2. CASE Profiler!Create
  <2>1. /\ disk' = [disk EXCEPT ![file][names[N]] = MaxAsked + 1]
        /\ stage' = "writing" /\ UNCHANGED <<file, failed>>
    BY <1>2 DEF Profiler!Create, Profiler!Holds, Profiler!Name, Profiler!Partial,
                Profiler!Built, N
  <2>2. /\ disk' \in [{"svg", "pb"} -> [0 .. MaxNow -> Contents]]
        /\ \A f \in {"svg", "pb"}, u \in 0 .. MaxNow :
              f # file \/ u # names[N] => disk'[f][u] = disk[f][u]
    BY <1>n, <2>1, DiskUpdate DEF Contents
  <2>3. N \notin failed' /\ Profiler!Latest(N) => ReportInv(N)'
    <3> SUFFICES ASSUME N \notin failed, Profiler!Latest(N) PROVE ReportInv(N)'
      BY <2>1
    <3>1. file = "pb" => Kept(N, "svg")
      BY <1>n DEF DumpInv, ReportInv, N
    <3>2. Profiler!Dumping'
      BY <2>1 DEF Profiler!Dumping
    <3> QED
      BY <1>n, <1>t, <2>1, <2>2, <3>1, <3>2 DEF ReportInv, Kept, N
  <2> QED
    BY <1>1, <2>1, <2>2, <2>3, DumpFacts
<1>3. CASE Profiler!Write
  <2>1. /\ disk' = [disk EXCEPT ![file][names[N]] = N]
        /\ UNCHANGED failed
        /\ \/ file = "svg" /\ file' = "pb" /\ stage' = "creating"
           \/ file = "pb" /\ file' = "pb" /\ stage' = "receiving"
    BY <1>3 DEF Profiler!Write, Profiler!Holds, Profiler!Name, Profiler!Proceed,
                Profiler!Built, N
  <2>2. /\ disk' \in [{"svg", "pb"} -> [0 .. MaxNow -> Contents]]
        /\ disk'[file][names[N]] = N
        /\ \A f \in {"svg", "pb"}, u \in 0 .. MaxNow :
              f # file \/ u # names[N] => disk'[f][u] = disk[f][u]
    BY <1>n, <2>1, DiskUpdate
  <2>3. N \notin failed' /\ Profiler!Latest(N) => ReportInv(N)'
    <3> SUFFICES ASSUME N \notin failed, Profiler!Latest(N) PROVE ReportInv(N)'
      BY <2>1
    <3>1. CASE file = "svg"
      <4>1. Profiler!Dumping'
        BY <2>1, <3>1 DEF Profiler!Dumping
      <4> QED
        BY <1>t, <2>2, <3>1, <4>1 DEF ReportInv, Kept, N
    <3>2. CASE file = "pb"
      <4>1. Kept(N, "svg")
        BY <1>n, <3>2 DEF DumpInv, ReportInv, N
      <4>2. disk'["svg"][names[N]] = N
        BY <1>n, <2>2, <3>2, <4>1 DEF Kept
      <4> QED
        BY <1>t, <2>2, <3>2, <4>2 DEF ReportInv, Kept, N
    <3> QED
      BY <3>1, <3>2, DumpFacts
  <2> QED
    BY <1>1, <2>1, <2>2, <2>3, DumpFacts
<1>4. CASE Profiler!WriteFails
  <2>1. failed' = failed \cup {N} /\ UNCHANGED disk
    BY <1>4 DEF Profiler!WriteFails, Profiler!Built, N
  <2>2. failed' \subseteq 1 .. Len(names)
    BY <1>n, <2>1, DumpFacts DEF N
  <2> QED
    BY <1>1, <2>1, <2>2, DumpFacts
<1> QED
  BY <1>2, <1>3, <1>4 DEF Profiler!Dump

\* A signal that recv yields, with a report or without, keeps the invariant.
LEMMA HearKeeps ==
    ASSUME DumpInv, Profiler!Build \/ Profiler!DumpFails, UNCHANGED caught
    PROVE  DumpInv'
<1> DEFINE N == Len(names)
<1>t. /\ stage = "receiving" /\ ~ Profiler!Dumping
      /\ pending' = FALSE /\ heard' = asked /\ heard < asked
      /\ UNCHANGED <<asked, failed, disk>>
  BY DumpFacts DEF DumpInv, Profiler!Build, Profiler!DumpFails, Profiler!Hear,
     Profiler!Dumping
<1>p. pending' \in BOOLEAN
  BY Zenon, <1>t
<1>k. ASSUME NEW r \in 1 .. N \ failed, Profiler!Latest(r)
      PROVE  Kept(r, "svg") /\ Kept(r, "pb")
  BY <1>k, <1>t DEF DumpInv, ReportInv
<1>1. CASE Profiler!DumpFails
  <2>1. UNCHANGED <<stage, file, names, failed, disk>>
    BY <1>1 DEF Profiler!DumpFails
  <2>2. Profiler!ProfilerTypeOK'
    BY <2>1, <1>t, <1>p, DumpFacts, NextTypes
  <2>3. \A r \in 1 .. N : Profiler!Latest(r)' <=> Profiler!Latest(r)
    BY <2>1 DEF Profiler!Latest, Profiler!Built
  <2>4. ~ Profiler!Dumping'
    BY <2>1, <1>t DEF Profiler!Dumping
  <2>5. \A r \in 1 .. N \ failed : Profiler!Latest(r) => ReportInv(r)'
    BY <2>1, <1>k DEF ReportInv, Kept
  <2> QED
    BY <2>1, <2>2, <2>3, <2>4, <2>5, <1>t DEF DumpInv
<1>2. CASE Profiler!Build
  <2>1. PICK now \in 0 .. MaxNow : names' = Append(names, now)
    BY <1>2 DEF Profiler!Build
  <2>2. stage' = "creating" /\ file' = "svg"
    BY <1>2 DEF Profiler!Build
  <2>3. /\ names' \in Seq(0 .. MaxNow) /\ Len(names') = N + 1
        /\ \A q \in 1 .. N : names'[q] = names[q]
    BY <2>1, DumpFacts, AppendProperties
  <2>4. Profiler!ProfilerTypeOK'
    <3>1. /\ N \in Nat /\ N <= heard /\ asked <= MaxAsked
          /\ asked \in Nat /\ MaxAsked \in Nat /\ heard \in Nat
          /\ failed \subseteq 1 .. N
      BY DumpFacts
    <3>2. Len(names') <= heard' /\ failed' \subseteq 1 .. Len(names')
      BY <3>1, <2>3, <1>t
    <3>3. asked' \in 0 .. MaxAsked /\ heard' \in 0 .. asked'
      BY <3>1, <1>t
    <3> QED
      BY <2>2, <2>3, <3>2, <3>3, <1>t, <1>p, DumpFacts, NextTypes DEF StageNames
  <2>5. Profiler!Dumping' /\ names' # <<>>
    BY <2>2, <2>3, DumpFacts, EmptySeq DEF Profiler!Dumping
  <2>6. ASSUME NEW r \in 1 .. Len(names') \ failed, Profiler!Latest(r)'
        PROVE  ReportInv(r)'
    <3> SUFFICES ASSUME r < Len(names') PROVE Kept(r, "svg")' /\ Kept(r, "pb")'
      BY <2>2, <2>5 DEF ReportInv
    <3>1. r \in 1 .. N
      BY <2>3, DumpFacts
    <3>2. Profiler!Latest(r)
      <4> SUFFICES ASSUME NEW q \in r + 1 .. N PROVE names[q] # names[r]
        BY DEF Profiler!Latest, Profiler!Built
      <4>1. q \in 1 .. N /\ q \in r + 1 .. N + 1
        BY <3>1, DumpFacts
      <4>2. names'[q] # names'[r]
        BY <2>6, <2>3, <4>1 DEF Profiler!Latest, Profiler!Built
      <4> QED
        BY <2>3, <3>1, <4>1, <4>2
    <3>3. names'[r] = names[r]
      BY <2>3, <3>1
    <3> QED
      BY <1>k, <1>t, <3>1, <3>2, <3>3 DEF Kept
  <2> QED
    BY <2>2, <2>4, <2>5, <2>6, <1>t DEF DumpInv
<1> QED
  BY <1>1, <1>2

\* So do the steps that leave the reports and the files alone.
LEMMA QuietKeeps ==
    ASSUME DumpInv, UNCHANGED <<file, heard, names, failed, disk>>,
           \/ UNCHANGED <<stage, pending, asked, caught>>
           \/ /\ UNCHANGED <<stage, caught>>
              /\ pending' = TRUE /\ asked < MaxAsked /\ asked' = asked + 1
           \/ /\ stage = "starting" /\ UNCHANGED <<pending, asked>>
              /\ stage' = "receiving" /\ caught' = caught \cup {"SIGUSR1"}
           \/ /\ stage = "starting" /\ UNCHANGED <<pending, asked>>
              /\ stage' = "off" /\ UNCHANGED caught
           \/ /\ \/ stage = "spawned" /\ stage' = "starting"
                 \/ stage = "waiting" /\ stage' = "receiving"
                 \/ stage = "receiving" /\ stage' = "waiting"
              /\ UNCHANGED <<pending, asked, caught>>
    PROVE  DumpInv'
<1>1. /\ asked' \in 0 .. MaxAsked /\ heard' \in 0 .. asked'
      /\ stage' \in StageNames
      /\ Len(names') <= heard'
  BY DumpFacts DEF StageNames
<1>2. pending' \in BOOLEAN
  <2>1. pending \in BOOLEAN
    BY DumpFacts
  <2> QED
    BY Zenon, <2>1
<1>3. Profiler!ProfilerTypeOK'
  BY <1>1, <1>2, DumpFacts, NextTypes
<1>4. Profiler!Dumping' <=> Profiler!Dumping
  BY DEF Profiler!Dumping
<1>5. pending' => heard' < asked'
  <2>1. CASE asked' = asked + 1
    BY <2>1, DumpFacts
  <2>2. CASE UNCHANGED <<pending, asked>>
    BY <2>2 DEF DumpInv
  <2> QED
    BY <2>1, <2>2
<1>6. "SIGUSR1" \in caught' <=> stage' \notin {"off", "spawned", "starting"}
  BY DEF DumpInv
<1>8. \A r \in 1 .. Len(names') \ failed' : Profiler!Latest(r)' => ReportInv(r)'
  <2> SUFFICES ASSUME NEW r \in 1 .. Len(names) \ failed, Profiler!Latest(r)'
               PROVE  ReportInv(r)'
    OBVIOUS
  <2>1. Profiler!Latest(r)
    BY DEF Profiler!Latest, Profiler!Built
  <2>2. ReportInv(r)
    BY <2>1 DEF DumpInv
  <2> QED
    BY <1>4, <2>2 DEF ReportInv, Kept
<1>9. Profiler!Dumping' => names' # <<>>
  BY <1>4 DEF DumpInv
<1> QED
  BY Zenon, <1>3, <1>5, <1>6, <1>8, <1>9 DEF DumpInv

\* A step of the rest of the process keeps it too.
LEMMA SomeoneElse ==
    ASSUME DumpInv, UNCHANGED profilerVars,
           "SIGUSR1" \in caught' <=> "SIGUSR1" \in caught
    PROVE  DumpInv'
<1>1. Profiler!ProfilerTypeOK' /\ (Profiler!Dumping' <=> Profiler!Dumping)
  BY DEF DumpInv, profilerVars, Profiler!ProfilerTypeOK, Profiler!Built,
         Profiler!Dumping
<1>2. \A r \in 1 .. Len(names') \ failed' : Profiler!Latest(r)' => ReportInv(r)'
  BY DEF DumpInv, profilerVars, Profiler!Latest, Profiler!Built, ReportInv, Kept,
         Profiler!Dumping
<1>3. /\ "SIGUSR1" \in caught' <=> stage' \notin {"off", "spawned", "starting"}
      /\ pending' => heard' < asked'
      /\ Profiler!Dumping' => names' # <<>>
  BY <1>1 DEF DumpInv, profilerVars
<1> QED
  BY Zenon, <1>1, <1>2, <1>3 DEF DumpInv

\* Every step of the process keeps the invariants of both halves.
LEMMA ProcessStep ==
    ASSUME IInv, DumpInv, [ProcessNext]_processVars
    PROVE  IInv' /\ DumpInv'
<1>q. ASSUME UNCHANGED profilerVars, UNCHANGED caught PROVE DumpInv'
  BY <1>q, QuietKeeps DEF profilerVars
<1>s. ASSUME UNCHANGED vars PROVE IInv' /\ UNCHANGED caught
  <2>1. IInv'
    BY <1>s, NextIInv
  <2> QED
    BY <1>s, <2>1 DEF vars
<1>1. CASE DumpLoopStarts
  <2>1. IInv'
    BY <1>1, NextIInv DEF DumpLoopStarts, Next
  <2>2. DumpInv'
    BY <1>1, QuietKeeps DEF DumpLoopStarts, ProfilerListens, Profiler!Start
  <2> QED
    BY <2>1, <2>2
<1>2. CASE Woken \/ Yields \/ DumpLoopFails
  BY <1>2, <1>s, QuietKeeps DEF Woken, Profiler!Wake, Yields, Profiler!Yield,
     DumpLoopFails, Profiler!StartFails
<1>3. CASE Asked
  <2>1. signalled' = signalled
    <3>1. signalled \in BOOLEAN
      BY Facts
    <3>2. signalled' = (signalled \/ "SIGUSR1" # "SIGUSR1")
      BY <1>3 DEF Asked, Caught
    <3> QED
      BY <3>1, <3>2
  <2>2. UNCHANGED vars
    BY <1>3, <2>1 DEF Asked, Caught, connVars, vars
  <2>3. DumpInv'
    BY <1>3, <2>2, <1>s, QuietKeeps DEF Asked, Profiler!Ask
  <2> QED
    BY <2>2, <2>3, <1>s
<1>4. CASE Dumps
  BY <1>4, <1>s, HearKeeps DEF Dumps
<1>5. CASE DumpGoesOn
  BY <1>5, <1>s, DumpKeeps DEF DumpGoesOn
<1>6. CASE Others
  <2>1. Next /\ UNCHANGED profilerVars
    BY <1>6 DEF Others, Next, Signal, Signals
  <2>2. IInv'
    BY <2>1, NextIInv
  <2>3. "SIGUSR1" \in caught' <=> "SIGUSR1" \in caught
    <3>1. CASE Main
      BY <3>1 DEF Main, StartFails, Bind, WatchSignals, Cease, signalVars
    <3>2. CASE Run
      BY <3>2 DEF Run, Accept, AcceptFails, BackoffEnds, StopAccepting, Drained,
                  DrainTimesOut, Cease, signalVars
    <3>3. CASE Tick \/ \E s \in {"SIGINT", "SIGTERM"} : Caught(s)
      BY <3>3 DEF Tick, Caught, signalVars
    <3>4. CASE \E c \in Conn : Connection(c)
      BY <3>4, Moved DEF Step
    <3> QED
      BY <1>6, <3>1, <3>2, <3>3, <3>4 DEF Others
  <2>4. DumpInv'
    BY <2>1, <2>3, SomeoneElse
  <2> QED
    BY <2>2, <2>4
<1>7. CASE Killed
  <2>1. PICK s \in Signals : Cease("killed")
    BY <1>7 DEF Killed, Uncaught
  <2>2. IInv'
    BY <2>1, CeaseIInv
  <2> QED
    BY <1>7, <2>1, <2>2, <1>q DEF Killed, Cease, signalVars
<1>8. CASE UNCHANGED processVars
  BY <1>8, <1>s, <1>q DEF processVars
<1> QED
  BY <1>1, <1>2, <1>3, <1>4, <1>5, <1>6, <1>7, <1>8
     DEF ProcessNext, PollGoesOn, ProcessOver

\* Both invariants hold throughout.
LEMMA ProcessInvariance == ProcessSpec => [](IInv /\ DumpInv)
<1>1. ProcessInit => IInv /\ DumpInv
  BY InitIInv, InitDumpInv DEF ProcessInit
<1>2. IInv /\ DumpInv /\ [ProcessNext]_processVars => (IInv /\ DumpInv)'
  BY ProcessStep
<1> QED
  BY <1>1, <1>2, PTL DEF ProcessSpec

-----------------------------------------------------------------------------

\* The state of the process keeps its types, and the profiler waits for signals
\* only while they are caught.
THEOREM ProcessTypeCorrect == ProcessSpec => []ProcessTypeOK
<1>1. IInv /\ DumpInv => ProcessTypeOK
  BY DEF IInv, DumpInv, ProcessTypeOK
<1> QED
  BY <1>1, ProcessInvariance, PTL

\* Profiles are not lost or mixed up, but for a later one of the same second.
THEOREM ProfilesSurvive == ProcessSpec => []ProfilesKept
<1>1. DumpInv => ProfilesKept
  <2> SUFFICES ASSUME DumpInv, NEW r \in 1 .. Len(names) \ failed,
                      Written(r), Profiler!Latest(r)
               PROVE  Profiler!Kept(r)
    BY DEF ProfilesKept
  <2>1. r < Len(names) \/ ~ Profiler!Dumping
    BY DEF Written, Gone, Yielded, Profiler!Polled
  <2> QED
    BY <2>1 DEF DumpInv, ReportInv, Kept, Profiler!Kept, Profiler!Files
<1> QED
  BY <1>1, ProcessInvariance, PTL

-----------------------------------------------------------------------------
(* Process implements Server *)

\* Every step of the process is one of Server or leaves the server alone.
LEMMA ServerStep == IInv /\ [ProcessNext]_processVars => [Next]_vars
<1> SUFFICES ASSUME IInv, ProcessNext PROVE Next \/ UNCHANGED vars
  BY DEF processVars
<1>1. CASE DumpLoopStarts
  BY <1>1 DEF DumpLoopStarts, Next
<1>2. CASE Woken \/ DumpLoopFails \/ Dumps \/ DumpGoesOn \/ Yields
  BY <1>2 DEF Woken, DumpLoopFails, Dumps, DumpGoesOn, Yields
<1>3. CASE Asked
  <2>1. signalled \in BOOLEAN
    BY Facts
  <2>2. signalled' = signalled
    BY <1>3, <2>1 DEF Asked, Caught
  <2> QED
    BY <1>3, <2>2 DEF Asked, Caught, connVars, vars
<1>4. CASE Others
  BY <1>4 DEF Others, Next, Signal, Signals
<1>5. CASE Killed
  BY <1>5 DEF Killed, Gone, Next, Signal
<1>6. CASE ProcessOver
  BY <1>6 DEF ProcessOver, processVars
<1> QED
  BY <1>1, <1>2, <1>3, <1>4, <1>5, <1>6 DEF ProcessNext, PollGoesOn

\* The profiler is no part of the server: the process implements Server.
THEOREM ProfilerIsApart == ProcessSpec => KeepsServer
<1>1. ProcessInit => Init
  BY DEF ProcessInit
<1>2. IInv /\ [ProcessNext]_processVars => [Next]_vars
  BY ServerStep
<1> QED
  BY <1>1, <1>2, ProcessInvariance, PTL DEF ProcessSpec, KeepsServer, Spec

\* So what is proved of Server holds while profiles are taken: a response under
\* way is cut by the timeout or an early signal only, idle connections do not
\* delay the end, and every connection keeps its contract.
THEOREM ServedWhileProfiled ==
    ProcessSpec => /\ CutOnlyByTimeout
                   /\ TimeoutOnlyForResponses
                   /\ []TasksServe
                   /\ EachServes
<1>1. ProcessSpec => Spec
  BY ProfilerIsApart, PTL DEF KeepsServer
<1> QED
  BY <1>1, ResponsesSurvive, IdleDoNotDelay, NoTaskLingers, ConnectionsServe, PTL

-----------------------------------------------------------------------------
(* What the dump loop owes *)

\* A signal that no dump has begun after is still pending, and none is caught
\* before the loop waits for them.
OwedInv ==
    /\ heard < asked => pending
    /\ stage \in {"off", "spawned", "starting"} => asked = 0

\* It holds throughout.
LEMMA OwedInvariance == ProcessSpec => [](IInv /\ DumpInv /\ OwedInv)
<1>1. ProcessInit => OwedInv
  BY DEF ProcessInit, Profiler!Init, OwedInv
<1>2. IInv /\ DumpInv /\ OwedInv /\ [ProcessNext]_processVars => OwedInv'
  <2> SUFFICES ASSUME IInv, DumpInv, OwedInv, [ProcessNext]_processVars
               PROVE  OwedInv'
    OBVIOUS
  <2>n. asked \in Nat /\ heard \in Nat /\ heard <= asked
    BY DumpFacts
  <2> USE DEF OwedInv
  <2>1. CASE DumpLoopStarts
    BY <2>1 DEF DumpLoopStarts, Profiler!Start
  <2>2. CASE Woken \/ Yields \/ DumpLoopFails
    BY <2>2 DEF Woken, Profiler!Wake, Yields, Profiler!Yield, DumpLoopFails,
       Profiler!StartFails
  <2>3. CASE Asked
    <3>1. stage \notin {"off", "spawned", "starting"}
      BY <2>3 DEF Asked, Caught, DumpInv
    <3> QED
      BY <2>3, <3>1 DEF Asked, Profiler!Ask
  <2>4. CASE Dumps
    BY <2>4, <2>n DEF Dumps, Profiler!Build, Profiler!DumpFails, Profiler!Hear
  <2>5. CASE DumpGoesOn
    BY <2>5 DEF DumpGoesOn, Profiler!Dump, Profiler!Create, Profiler!Write,
       Profiler!WriteFails, Profiler!Proceed, Profiler!KeepSignals, Profiler!Dumping
  <2>6. CASE UNCHANGED profilerVars
    BY <2>6 DEF profilerVars
  <2> QED
    BY <2>1, <2>2, <2>3, <2>4, <2>5, <2>6
       DEF ProcessNext, PollGoesOn, Others, Killed, ProcessOver, processVars
<1> QED
  BY <1>1, <1>2, ProcessInvariance, PTL DEF ProcessSpec

\* Where a poll of the loop stands.
Starting == stage = "starting"
Receiving == stage = "receiving"
Creating(f) == stage = "creating" /\ file = f
Writing(f) == stage = "writing" /\ file = f
Waits == stage = "waiting"

\* Nothing else is true of a poll.
LEMMA PollSomewhere ==
    ASSUME DumpInv
    PROVE  ~ Yielded => \/ Starting \/ Receiving
                        \/ Creating("svg") \/ Writing("svg")
                        \/ Creating("pb") \/ Writing("pb")
<1>1. stage \in StageNames /\ file \in {"svg", "pb"}
  BY DumpFacts
<1> QED
  BY <1>1 DEF Yielded, Profiler!Polled, Profiler!Dumping, StageNames, Starting,
     Receiving, Creating, Writing

\* What a step of a poll does, from each place.
LEMMA PollMoves ==
    ASSUME DumpInv, PollGoesOn
    PROVE  /\ asked' = asked
           /\ Starting => Receiving' \/ Yielded'
           /\ Receiving =>
                IF pending THEN heard' = asked ELSE Yielded' /\ Waits'
           /\ ~ Receiving \/ ~ pending => heard' = heard
           /\ Creating("svg") => Writing("svg")' \/ Creating("pb")'
           /\ Writing("svg") => Creating("pb")'
           /\ Creating("pb") => Writing("pb")' \/ Receiving'
           /\ Writing("pb") => Receiving'
           /\ ~ Waits
<1>1. CASE DumpLoopStarts
  BY <1>1 DEF DumpLoopStarts, Profiler!Start, Starting, Receiving, Creating,
     Writing, Waits
<1>2. CASE DumpLoopFails
  BY <1>2 DEF DumpLoopFails, Profiler!StartFails, Starting, Receiving, Creating,
     Writing, Waits, Yielded, Profiler!Polled, Profiler!Dumping
<1>3. CASE Dumps
  BY <1>3 DEF Dumps, Profiler!Build, Profiler!DumpFails, Profiler!Hear, Starting,
     Receiving, Creating, Writing, Waits
<1>4. CASE DumpGoesOn
  BY <1>4 DEF DumpGoesOn, Profiler!Dump, Profiler!Create, Profiler!Write,
     Profiler!WriteFails, Profiler!Proceed, Profiler!Dumping, Starting, Receiving,
     Creating, Writing, Waits
<1>5. CASE Yields
  BY <1>5 DEF Yields, Profiler!Yield, Starting, Receiving, Creating, Writing,
     Waits, Yielded, Profiler!Polled, Profiler!Dumping
<1> QED
  BY <1>1, <1>2, <1>3, <1>4, <1>5 DEF PollGoesOn

\* Everyone else leaves the poll where it is: a signal may come.
LEMMA OthersMove ==
    ASSUME DumpInv, [ProcessNext]_processVars, ~ PollGoesOn
    PROVE  /\ heard' = heard
           /\ asked' \in {asked, asked + 1}
           /\ pending => pending'
           /\ UNCHANGED <<stage, file>> \/ Woken
           /\ Woken => Yielded /\ (Waits => Receiving' /\ pending /\ pending')
<1>1. CASE Woken
  BY <1>1 DEF Woken, Profiler!Wake, Waits, Receiving, Yielded, Profiler!Polled,
     Profiler!Dumping
<1>2. CASE Asked
  <2>1. UNCHANGED <<stage, file, heard>> /\ asked' = asked + 1
    BY <1>2 DEF Asked, Profiler!Ask
  <2>2. pending'
    BY <1>2 DEF Asked, Profiler!Ask
  <2>3. Woken => asked' = asked
    BY DEF Woken, Profiler!Wake
  <2>4. ~ Woken
    BY <2>1, <2>3, DumpFacts
  <2> QED
    BY Zenon, <2>1, <2>2, <2>4
<1>3. ASSUME ~ Woken, ~ Asked PROVE UNCHANGED profilerVars
  BY <1>3 DEF ProcessNext, Others, Killed, ProcessOver, processVars
<1>4. CASE ~ Woken /\ ~ Asked
  BY <1>3, <1>4 DEF profilerVars
<1> QED
  BY <1>1, <1>2, <1>4

\* Where the loop is while it owes a dump.
LEMMA OwesSomewhere ==
    ASSUME DumpInv, OwedInv, NEW n \in 1 .. MaxAsked, asked >= n, heard < n
    PROVE  /\ pending /\ heard < asked
           /\ \/ Creating("svg") \/ Writing("svg")
              \/ Creating("pb") \/ Writing("pb") \/ Receiving \/ Waits
           /\ Yielded <=> Waits
<1>1. asked \in Nat /\ heard \in Nat /\ n \in Nat /\ n # 0
      /\ stage \in StageNames /\ file \in {"svg", "pb"}
  BY DumpFacts
<1>2. heard < asked /\ asked # 0
  BY <1>1
<1>3. pending /\ stage \notin {"off", "spawned", "starting"}
  BY <1>2 DEF OwedInv
<1> QED
  BY <1>1, <1>2, <1>3 DEF StageNames, Creating, Writing, Receiving, Waits, Yielded,
     Profiler!Polled, Profiler!Dumping

\* A request that is owed stays so, or it is heard.
LEMMA StaysOwed ==
    ASSUME DumpInv, OwedInv, NEW n \in 1 .. MaxAsked, asked >= n, heard < n,
           [ProcessNext]_processVars
    PROVE  /\ asked' >= n
           /\ heard' < n \/ heard' >= n
           /\ PollGoesOn /\ Receiving => heard' >= n
<1>1. asked \in Nat /\ heard \in Nat /\ n \in Nat
  BY DumpFacts
<1>2. asked' \in {asked, asked + 1} /\ heard' \in {heard, asked}
  BY PollMoves, OthersMove, OwesSomewhere
<1>3. PollGoesOn /\ Receiving => heard' = asked
  BY PollMoves, OwesSomewhere
<1> QED
  BY <1>1, <1>2, <1>3

\* One request is answered.
LEMMA RequestHeard ==
    ASSUME NEW n \in 1 .. MaxAsked
    PROVE  FairProcess /\ []NeverStuck
               => (asked >= n ~> heard >= n \/ ~ Running)
<1> DEFINE Inv == IInv /\ DumpInv /\ OwedInv
           Owed == asked >= n /\ heard < n /\ Running
           Heard == heard >= n \/ ~ Running
           W  == Owed /\ Waits
           A1 == Owed /\ Creating("svg")
           A2 == Owed /\ Writing("svg")
           A3 == Owed /\ Creating("pb")
           A4 == Owed /\ Writing("pb")
           R  == Owed /\ Receiving
           Poll == A1 \/ A2 \/ A3 \/ A4 \/ R
<1>1. Inv /\ asked >= n => Heard \/ Poll \/ W
  <2> SUFFICES ASSUME Inv, Owed PROVE Poll \/ W
    BY DumpFacts
  <2> QED
    BY OwesSomewhere
<1>2. ASSUME Inv, Owed, [ProcessNext]_processVars
      PROVE  Heard' \/ Owed'
  BY <1>2, StaysOwed
<1>3. Inv /\ [ProcessNext]_processVars
         => /\ W => Heard' \/ W' \/ R'
            /\ A1 => Heard' \/ A1' \/ A2' \/ A3'
            /\ A2 => Heard' \/ A2' \/ A3'
            /\ A3 => Heard' \/ A3' \/ A4' \/ R'
            /\ A4 => Heard' \/ A4' \/ R'
            /\ R => Heard' \/ R'
  <2> SUFFICES ASSUME Inv, Owed, [ProcessNext]_processVars, ~ Heard'
               PROVE  /\ Waits => Waits' \/ Receiving'
                      /\ Creating("svg") => Creating("svg")' \/ Writing("svg")' \/ Creating("pb")'
                      /\ Writing("svg") => Writing("svg")' \/ Creating("pb")'
                      /\ Creating("pb") => Creating("pb")' \/ Writing("pb")' \/ Receiving'
                      /\ Writing("pb") => Writing("pb")' \/ Receiving'
                      /\ Receiving => Receiving'
    BY <1>2
  <2>1. CASE PollGoesOn
    BY <2>1, PollMoves, StaysOwed
  <2>2. CASE ~ PollGoesOn
    <3>1. CASE UNCHANGED <<stage, file>>
      BY <3>1 DEF Waits, Receiving, Creating, Writing
    <3>2. CASE Woken
      <4>1. Waits /\ Receiving'
        BY <2>2, <3>2, OthersMove, OwesSomewhere
      <4> QED
        BY <4>1 DEF Waits, Receiving, Creating, Writing
    <3> QED
      BY <2>2, <3>1, <3>2, OthersMove
  <2> QED
    BY <2>1, <2>2
<1>4. Inv /\ [ProcessNext]_processVars /\ <<PollGoesOn>>_processVars
         => /\ A1 => Heard' \/ A2' \/ A3'
            /\ A2 => Heard' \/ A3'
            /\ A3 => Heard' \/ A4' \/ R'
            /\ A4 => Heard' \/ R'
            /\ R => Heard'
  BY <1>2, PollMoves, StaysOwed
<1>5. Inv /\ [ProcessNext]_processVars /\ <<Woken>>_processVars
         => (W => Heard' \/ R')
  <2> SUFFICES ASSUME Inv, W, [ProcessNext]_processVars, Woken
               PROVE  Heard' \/ R'
    OBVIOUS
  <2>1. ~ PollGoesOn
    BY PollMoves
  <2> QED
    BY <1>2, <2>1, OthersMove
<1>6. Inv /\ Poll => ~ Yielded /\ phase # "killed"
  BY DEF Yielded, Profiler!Polled, Profiler!Dumping, Creating, Writing, Receiving,
         Running
<1>7. Inv /\ W => Running /\ heard < asked /\ Yielded
  BY OwesSomewhere
<1>8. Heard <=> heard >= n \/ ~ Running
  BY DEF Heard
<1>9. ProcessSpec => []Inv
  BY OwedInvariance DEF Inv
<1>10. Poll <=> A1 \/ A2 \/ A3 \/ A4 \/ R
  BY DEF Poll
<1> HIDE DEF Heard, W, A1, A2, A3, A4, R, Poll, Inv
<1> QED
  BY <1>1, <1>3, <1>4, <1>5, <1>6, <1>7, <1>8, <1>9, <1>10, PTL
     DEF FairProcess, ProcessFairness, ProcessSpec, NeverStuck

\* Every request for a profile that is caught is answered by a dump that begins
\* after it, unless run returns or the process is killed: for any number of
\* requests, however they fall on the dumps.
THEOREM RequestsAnswered == FairProcess /\ []NeverStuck => RequestsHeard
<1>1. \A n \in 1 .. MaxAsked :
        FairProcess /\ []NeverStuck
            => (asked >= n ~> heard >= n \/ ~ Running)
  BY RequestHeard
<1> QED
  BY <1>1 DEF RequestsHeard

\* When run has returned, or the process has been killed, only a signal changes
\* the phase.
LEMMA StaysOut ==
    ASSUME IInv, ~ Running, [ProcessNext]_processVars
    PROVE  /\ ~ Running'
           /\ phase = "killed" => phase' = "killed"
<1>n. phase \in {"exited", "killed"}
  BY DEF Running
<1>1. [Next]_vars
  BY ServerStep
<1>2. CASE \E s \in Signals : Signal(s)
  BY <1>n, <1>2 DEF Signal, Caught, Uncaught, Cease, Running
<1>3. ASSUME NEW c \in Conn, Connection(c) PROVE phase' = phase
  BY <1>3, Moved DEF Step
<1>4. CASE Main \/ ProfilerListens \/ Run \/ Tick \/ Ended \/ UNCHANGED vars
  BY <1>n, <1>4 DEF Main, StartFails, Bind, WatchSignals, ProfilerListens, Running,
     Run, Accept, AcceptFails, BackoffEnds, StopAccepting, Drained, DrainTimesOut,
     Tick, Waiting, Ended, vars
<1> QED
  BY <1>n, <1>1, <1>2, <1>3, <1>4 DEF Next, Running

\* What bounds the dumps that can still begin.
Unheard == MaxAsked - heard

\* What a step does to a poll for which a runtime that is being dropped waits: it
\* takes another signal, of which there are not so many any more, or yields.
LEMMA LastPollMoves ==
    ASSUME IInv, DumpInv, phase = "exited", [ProcessNext]_processVars
    PROVE  /\ Gone' \/ phase' = "exited"
           /\ Unheard \in Nat
           /\ Unheard' = Unheard \/ Unheard' \in 0 .. Unheard - 1
           /\ ~ PollGoesOn => UNCHANGED <<stage, file>>
           /\ PollGoesOn =>
                /\ Starting => Receiving' \/ Gone'
                /\ Receiving => Unheard' \in 0 .. Unheard - 1 \/ Gone'
<1>1. Gone' \/ phase' = "exited"
  BY StaysOut DEF Gone, Running
<1>2. Yielded' => Gone'
  BY <1>1 DEF Gone
<1>3. /\ asked \in Nat /\ heard \in Nat /\ MaxAsked \in Nat
      /\ asked <= MaxAsked /\ heard <= asked
  BY DumpFacts
<1>4. pending => heard < asked
  BY DEF DumpInv
<1>5. heard' = asked /\ heard < asked => Unheard' \in 0 .. Unheard - 1
  BY <1>3 DEF Unheard
<1>6. heard' = heard => Unheard' = Unheard
  BY DEF Unheard
<1>7. ~ Woken
  BY DEF Woken, Running
<1>8. CASE ~ PollGoesOn
  BY <1>1, <1>3, <1>6, <1>7, <1>8, OthersMove DEF Unheard
<1>9. CASE PollGoesOn
  <2>1. /\ Starting => Receiving' \/ Gone'
        /\ Receiving => Unheard' \in 0 .. Unheard - 1 \/ Gone'
    BY <1>2, <1>4, <1>5, <1>9, PollMoves
  <2>2. Unheard' = Unheard \/ Unheard' \in 0 .. Unheard - 1
    BY <1>4, <1>5, <1>6, <1>9, PollMoves
  <2> QED
    BY <1>1, <1>3, <1>9, <2>1, <2>2 DEF Unheard
<1> QED
  BY <1>8, <1>9

\* Once run has returned the poll under way does not stay at one dump for ever.
LEMMA LastPollFalls ==
    ASSUME NEW n \in Nat
    PROVE  FairProcess /\ []NeverStuck
               => (Unheard = n ~> Unheard \in 0 .. n - 1 \/ (Gone \/ Running))
<1> DEFINE Inv == IInv /\ DumpInv
           Less == Unheard \in 0 .. n - 1 \/ (Gone \/ Running)
           Out == phase = "exited" /\ Unheard = n
           A0 == Out /\ Starting
           A1 == Out /\ Creating("svg")
           A2 == Out /\ Writing("svg")
           A3 == Out /\ Creating("pb")
           A4 == Out /\ Writing("pb")
           R  == Out /\ Receiving
           Poll == A0 \/ A1 \/ A2 \/ A3 \/ A4 \/ R
<1>1. Inv /\ Unheard = n => Less \/ Poll
  BY PollSomewhere DEF Running, Gone
<1>2. Inv /\ Out /\ [ProcessNext]_processVars => Less' \/ Out'
  BY LastPollMoves
<1>3. Inv /\ [ProcessNext]_processVars /\ <<PollGoesOn>>_processVars
        => /\ A0 => Less' \/ R'
           /\ A1 => Less' \/ A2' \/ A3'
           /\ A2 => Less' \/ A3'
           /\ A3 => Less' \/ A4' \/ R'
           /\ A4 => Less' \/ R'
           /\ R => Less'
  BY <1>2, PollMoves, LastPollMoves
<1>4. ASSUME Inv, Out, [ProcessNext]_processVars, ~ PollGoesOn
      PROVE  /\ A0 => Less' \/ A0'
             /\ A1 => Less' \/ A1'
             /\ A2 => Less' \/ A2'
             /\ A3 => Less' \/ A3'
             /\ A4 => Less' \/ A4'
             /\ R => Less' \/ R'
  <2>1. UNCHANGED <<stage, file>> /\ (Less' \/ Out')
    BY <1>2, <1>4, LastPollMoves
  <2> QED
    BY <2>1 DEF Starting, Receiving, Creating, Writing
<1>5. Inv /\ [ProcessNext]_processVars
        => /\ A0 => Less' \/ A0' \/ R'
           /\ A1 => Less' \/ A1' \/ A2' \/ A3'
           /\ A2 => Less' \/ A2' \/ A3'
           /\ A3 => Less' \/ A3' \/ A4' \/ R'
           /\ A4 => Less' \/ A4' \/ R'
           /\ R => Less' \/ R'
  <2> SUFFICES ASSUME Inv, [ProcessNext]_processVars
               PROVE  /\ A0 => Less' \/ A0' \/ R'
                      /\ A1 => Less' \/ A1' \/ A2' \/ A3'
                      /\ A2 => Less' \/ A2' \/ A3'
                      /\ A3 => Less' \/ A3' \/ A4' \/ R'
                      /\ A4 => Less' \/ A4' \/ R'
                      /\ R => Less' \/ R'
    OBVIOUS
  <2>1. CASE ~ PollGoesOn
    BY <1>4, <2>1
  <2>2. CASE PollGoesOn
    BY <1>2, <2>2, PollMoves, LastPollMoves
  <2> QED
    BY <2>1, <2>2
<1>6. Poll => ~ Yielded /\ phase # "killed"
  BY DEF Yielded, Profiler!Polled, Profiler!Dumping, Starting, Creating, Writing,
         Receiving
<1>7. Less => Unheard \in 0 .. n - 1 \/ (Gone \/ Running)
  BY DEF Less
<1>8. ProcessSpec => []Inv
  BY ProcessInvariance DEF Inv
<1>9. Poll <=> A0 \/ A1 \/ A2 \/ A3 \/ A4 \/ R
  BY DEF Poll
<1> HIDE DEF Inv, Less, A0, A1, A2, A3, A4, R, Poll
<1> QED
  BY <1>1, <1>3, <1>5, <1>6, <1>7, <1>8, <1>9, PTL
     DEF FairProcess, ProcessFairness, ProcessSpec, NeverStuck

\* Once run has returned the process ends: the poll under way is the last one,
\* and each dump in it has taken a signal that no other one takes.
LEMMA ExitedEnds ==
    FairProcess /\ []NeverStuck /\ EndsAtZero(Unheard, Gone \/ Running)
        => (~ Running ~> Gone)
<1>1. FairProcess /\ []NeverStuck
        => \A n \in Nat : (Unheard = n ~> Unheard \in 0 .. n - 1 \/ (Gone \/ Running))
  BY LastPollFalls
<1>2. FairProcess /\ []NeverStuck /\ EndsAtZero(Unheard, Gone \/ Running)
        => (Unheard \in Nat ~> (Gone \/ Running))
  BY <1>1 DEF EndsAtZero
<1>3. DumpInv => Unheard \in Nat
  BY DumpFacts DEF Unheard
<1>4. IInv /\ ~ Running /\ [ProcessNext]_processVars => ~ Running'
  BY StaysOut
<1> QED
  BY <1>2, <1>3, <1>4, ProcessInvariance, PTL DEF FairProcess, ProcessSpec

\* A signal that is caught ends the process, and not only run, for any number of
\* requests for profiles, whatever is being dumped: the proof is that of
\* SignalEnds with the last poll of the dump loop behind it.
THEOREM SignalEndsAll ==
    FairProcess /\ []NeverStuck /\ EndsAtZero(Sleep, ~ Asleep)
            /\ EndsAtZero(Unheard, Gone \/ Running)
        => ProcessEnds
<1>1. FairProcess /\ []NeverStuck => FairSpec /\ []RunNeverStuck
  BY ProfilerIsApart, PTL
     DEF FairProcess, ProcessFairness, FairSpec, KeepsServer, NeverStuck
<1>2. FairProcess /\ []NeverStuck /\ EndsAtZero(Sleep, ~ Asleep)
        => SignalEndsProcess
  BY <1>1, SignalEnds
<1> QED
  BY <1>2, ExitedEnds, PTL DEF SignalEndsProcess, ProcessEnds
=============================================================================
