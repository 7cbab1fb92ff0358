---------------------------- MODULE Measurements ----------------------------
(* What a tick starts: MeasureAndReport of the instruments that have no state *)
(* between measurements (internal/telemd/instrument.go; the four that do are  *)
(* in ContainerNetwork).                                                      *)
(*                                                                            *)
(* A measurement is about parts: files with a fixed name, devices or CPUs     *)
(* named in advance, or the containers found in one or several directories.   *)
(* It takes them in turn, or by goroutines that it waits for, or by           *)
(* goroutines that it leaves to themselves.  Parts come and go meanwhile, and *)
(* the ticker does not wait for a measurement to end before it starts another.*)
(*                                                                            *)
(* A behaviour is about one instrument, described by a record.                *)
EXTENDS Naturals, FiniteSets

CONSTANTS Calls,      \* the measurements of a behaviour: 1, 2, ... as ticked
          Parts,      \* devices, CPUs, files or containers
          Dirs,       \* directories 1, 2, ... of a Kubernetes instrument
          MaxChanges  \* bound: how often parts come or go

ASSUME MeasurementsAssumption ==
  /\ IsFiniteSet(Parts)
  /\ Calls \in SUBSET Nat
  /\ Dirs \in SUBSET Nat /\ 1 \in Dirs
  /\ MaxChanges \in Nat

-----------------------------------------------------------------------------
(* The instruments.                                                          *)

\*   how       in "turn", goroutines "waited" for, or "detached"
\*   parts     a "file" that is always there, a "device" that may not be, any
\*             number of those "named" in advance, the subdirectories of a
\*             "folder", or of "pods" in several folders
\*   readings  two if a rate is computed, half a second or a second apart
\*   puts      how many values a part gives, at most
\*   sum       the parts are added up and give one value
\*   lost      what an error in reading does: "skip" the part, "panic", or
\*             "hang": the goroutine returns without wg.Done
\*   fields    a line of the file is taken to have fields, and one without any
\*             panics
\*   cut       the name of the part is cut to 12 characters "before" it is
\*             read, "after", or not ("no")
InTurn == [how |-> "turn", parts |-> "folder", readings |-> 1, puts |-> 1,
           sum |-> FALSE, lost |-> "skip", fields |-> FALSE, cut |-> "no"]

CpuUtil             == [InTurn EXCEPT !.parts = "file", !.readings = 2, !.lost = "panic"]
CpuScalingFrequency == [InTurn EXCEPT !.parts = "named", !.sum = TRUE, !.lost = "panic"]
Load                == [InTurn EXCEPT !.parts = "file", !.puts = 2, !.lost = "panic"]
Procs               == [InTurn EXCEPT !.parts = "file", !.lost = "panic"]
Ram                 == [InTurn EXCEPT !.parts = "file", !.lost = "panic"]
Psi                 == [InTurn EXCEPT !.parts = "device", !.puts = 2, !.fields = TRUE]
Wifi                == [InTurn EXCEPT !.parts = "device"]

DataRate        == [InTurn EXCEPT !.how = "waited", !.parts = "named",
                                  !.readings = 2, !.puts = 2]
NetworkDataRate == [DataRate EXCEPT !.lost = "hang"]
DiskDataRate    == DataRate

DockerCgroupv1Cpu    == [InTurn EXCEPT !.cut = "after"]
DockerCgroupv1Blkio  == [InTurn EXCEPT !.cut = "after"]
DockerCgroupv1Memory == InTurn
DockerCgroupv2Cpu    == [InTurn EXCEPT !.cut = "before"]
DockerCgroupv2Blkio  == [InTurn EXCEPT !.cut = "before", !.fields = TRUE]
DockerCgroupv2Memory == [InTurn EXCEPT !.cut = "before"]

KubernetesCgroupv1Cpu     == [InTurn EXCEPT !.how = "detached", !.parts = "pods"]
KuberenetesCgroupv1Memory == [InTurn EXCEPT !.parts = "pods"]
KubernetesCgroupv1Blkio   == [InTurn EXCEPT !.parts = "pods"]
KubernetesCgroupv2Cpu     == [InTurn EXCEPT !.how = "detached", !.parts = "pods"]
KubernetesCgroupv2Memory  == [InTurn EXCEPT !.how = "detached", !.parts = "pods"]
KubernetesCgroupv2Blkio   == [InTurn EXCEPT !.how = "detached", !.parts = "pods",
                                            !.fields = TRUE]

\* The factory looks for the cgroup version of the host.
HostInstruments == {CpuUtil, CpuScalingFrequency, Load, Procs, Ram, Psi, Wifi,
                    NetworkDataRate, DiskDataRate}
CgroupInstruments(version) ==
  IF version = "v1"
  THEN {DockerCgroupv1Cpu, DockerCgroupv1Blkio, DockerCgroupv1Memory,
        KubernetesCgroupv1Cpu, KubernetesCgroupv1Blkio, KuberenetesCgroupv1Memory}
  ELSE {DockerCgroupv2Cpu, DockerCgroupv2Blkio, DockerCgroupv2Memory,
        KubernetesCgroupv2Cpu, KubernetesCgroupv2Blkio, KubernetesCgroupv2Memory}
Instruments == HostInstruments \cup UNION {CgroupInstruments(v) : v \in {"v1", "v2"}}

-----------------------------------------------------------------------------
VARIABLES
  kind,      \* the instrument
  short,     \* containers whose name has no 12 characters to cut
  home,      \* home[p]: the directory that p is in
  world,     \* world[p]: p is "absent", "up", "bare" (up, but its file has a
             \* line without fields, or cannot be read) or "gone"
  changes,   \* how often that has changed
  main,      \* main[m]: MeasureAndReport of m is "new", "running", "returned"
  unlisted,  \* unlisted[m]: directories that m has yet to list
  at,        \* at[m][p]: p is "unknown" to m, "listed", "between" two
             \* readings, "read", "half" put, "done" or "failed"
  wg,        \* wg[m]: the count of m's wait group
  taken,     \* taken[m][p]: which reading of p it is that m holds, or 0
  reads,     \* history: readings of p so far
  last,      \* history: the reading of p that was put last
  steady,    \* history: the parts that have been up since m began
  overlap,   \* history: a measurement began before another had returned
  crashed

host == <<kind, short, home>>
told == <<last, steady, overlap>>
vars == <<kind, short, home, world, changes, main, unlisted, at, wg, taken,
          reads, last, steady, overlap, crashed>>

\* The parts that are known without listing them.
Named == CASE kind.parts = "named"             -> Parts
           [] kind.parts \in {"file", "device"} -> {CHOOSE p \in Parts : TRUE}
           [] OTHER                            -> {}

InHand(m)   == {p \in Parts : at[m][p] \in {"between", "read", "half"}}
Pending(m)  == {p \in Parts : at[m][p] = "listed"}
Reported(m) == {p \in Parts : at[m][p] = "done"}
Failed(m)   == {p \in Parts : at[m][p] = "failed"}

\* Nothing is left to do in m, whether or not it has returned.
Settled(m) == main[m] # "new" /\ unlisted[m] = {} /\ InHand(m) = {} /\ Pending(m) = {}

TypeOK ==
  /\ kind \in Instruments
  /\ short \in SUBSET Parts /\ home \in [Parts -> Dirs]
  /\ world \in [Parts -> {"absent", "up", "bare", "gone"}]
  /\ changes \in 0 .. MaxChanges
  /\ main \in [Calls -> {"new", "running", "returned"}]
  /\ unlisted \in [Calls -> SUBSET Dirs]
  /\ at \in [Calls -> [Parts -> {"unknown", "listed", "between", "read", "half",
                                 "done", "failed"}]]
  /\ wg \in [Calls -> Nat]
  /\ taken \in [Calls -> [Parts -> Nat]]
  /\ reads \in [Parts -> Nat] /\ last \in [Parts -> Nat]
  /\ steady \in [Calls -> SUBSET Parts]
  /\ overlap \in BOOLEAN /\ crashed \in BOOLEAN
  /\ \A m \in Calls, p \in Parts : taken[m][p] <= reads[p]

\* The CPUs are those that were there when the daemon started.  A host without
\* pressure information may have the files of it all the same.
Init ==
  /\ kind \in Instruments
  /\ short \in IF kind.cut = "no" THEN {{}} ELSE SUBSET Parts
  /\ home \in IF kind.parts = "pods" THEN [Parts -> Dirs] ELSE {[p \in Parts |-> 1]}
  /\ world \in [Parts -> {"absent", "up", "gone"} \cup (IF kind = Psi THEN {"bare"} ELSE {})]
  /\ \A p \in Parts : IF p \in Named THEN world[p] # "absent" ELSE world[p] # "gone"
  /\ kind.parts \in {"file", "device"} => \A p \in Parts \ Named : world[p] = "absent"
  /\ kind.parts = "file" \/ kind.sum => \A p \in Named : world[p] = "up"
  /\ changes = 0
  /\ main = [m \in Calls |-> "new"] /\ unlisted = [m \in Calls |-> {}]
  /\ at = [m \in Calls |-> [p \in Parts |-> "unknown"]]
  /\ wg = [m \in Calls |-> 0]
  /\ taken = [m \in Calls |-> [p \in Parts |-> 0]]
  /\ reads = [p \in Parts |-> 0] /\ last = [p \in Parts |-> 0]
  /\ steady = [m \in Calls |-> {}]
  /\ overlap = FALSE /\ crashed = FALSE

-----------------------------------------------------------------------------
(* The host.                                                                 *)

\* A device may come back, a container that is gone does not, and pressure files
\* that cannot be read stay as they are.
NextOf(p) ==
  IF kind.parts \in {"file", "device", "named"}
  THEN IF p \in Named /\ kind.parts # "file" /\ world[p] # "bare"
       THEN {"up", "gone"} \ {world[p]} ELSE {}
  ELSE CASE world[p] = "absent" -> {"up"}
         [] world[p] = "up"     -> {"gone"} \cup (IF kind.fields THEN {"bare"} ELSE {})
         [] world[p] = "bare"   -> {"up", "gone"}
         [] world[p] = "gone"   -> {}

Change(p) ==
  /\ ~crashed /\ changes < MaxChanges
  /\ \E w \in NextOf(p) : world' = [world EXCEPT ![p] = w]
  /\ changes' = changes + 1
  /\ steady' = [m \in Calls |-> steady[m] \ {p}]
  /\ UNCHANGED <<host, main, unlisted, at, wg, taken, reads, last, overlap, crashed>>

-----------------------------------------------------------------------------
(* A measurement.                                                            *)

\* Mutant: each goroutine adds itself to the wait group when it is done with
\* its first reading.
LateAdd == 0

\* wg.Add(len(instr.Devices))
Added == IF kind.how = "waited" THEN Cardinality(Named) ELSE 0

\* A tick.  Files, devices and CPUs are known; containers have to be listed.
Begin(m) ==
  /\ ~crashed /\ main[m] = "new"
  /\ \A n \in Calls : n < m => main[n] # "new"
  /\ main' = [main EXCEPT ![m] = "running"]
  /\ unlisted' = [unlisted EXCEPT ![m] = CASE kind.parts = "pods"   -> Dirs
                                           [] kind.parts = "folder" -> {1}
                                           [] OTHER                 -> {}]
  /\ at' = [at EXCEPT ![m] = [p \in Parts |-> IF p \in Named THEN "listed" ELSE "unknown"]]
  /\ wg' = [wg EXCEPT ![m] = Added]
  /\ steady' = [steady EXCEPT ![m] = {p \in Parts : world[p] = "up"}]
  /\ overlap' = (overlap \/ \E n \in Calls : main[n] = "running")
  /\ UNCHANGED <<host, world, changes, taken, reads, last, crashed>>

\* listFilterDir, fetchKubernetesContainerDirs: one folder after the other, each
\* when the containers of the last are done with; or all of them at any time.
List(m, d) ==
  /\ ~crashed /\ d \in unlisted[m]
  /\ kind.how = "turn" => /\ \A e \in unlisted[m] : d <= e
                          /\ Pending(m) = {} /\ InHand(m) = {}
  /\ unlisted' = [unlisted EXCEPT ![m] = @ \ {d}]
  /\ at' = [at EXCEPT ![m] = [p \in Parts |->
              IF home[p] = d /\ world[p] \in {"up", "bare"} THEN "listed" ELSE @[p]]]
  /\ UNCHANGED <<host, world, changes, main, wg, taken, reads, told, crashed>>

\* readLineAndParseInt and the other readers fail if the file is not there.
Readable(p) == world[p] \in {"up", "bare"}

\* readIoStat splits the second field of each line; readPsiResult does not look
\* at what Scan returns, and readPsiMeasure takes the fields of whatever it gave.
Panics(p) == kind.fields /\ world[p] = "bare"

\* One part at a time, except that a sum holds on to those it has read.
Turn(m, p) == (kind.how = "turn" /\ ~kind.sum) => InHand(m) \subseteq {p}

\* containerId[:12], before the file is read or when the topic is made
TooShort(p, when) == kind.cut = when /\ p \in short

\* Mutant: an error ends the measurement.
EndOnError(m, p) == [q \in Parts |-> IF at[m][q] \in {"listed", "between"} THEN "failed"
                                                                      ELSE at[m][q]]

\* Log and go on with the next.
SkipOnError(m, p) == [at[m] EXCEPT ![p] = "failed"]

\* Mutant: a part that cannot be read ends the daemon.
AlwaysPanics == TRUE

\* check(err)
ErrorPanics == kind.lost = "panic"

\* Mutant: the disk instrument, too, leaves wg.Done to the end.
DoneAtEnd(m) == wg

\* defer wg.Done()
DoneOnError(m) == IF kind.how = "waited" /\ kind.lost # "hang"
                  THEN [wg EXCEPT ![m] = @ - 1] ELSE wg

Got(m, p) ==
  /\ Readable(p) /\ ~Panics(p)
  /\ IF at[m][p] = "listed" /\ kind.readings = 2
     THEN at' = [at EXCEPT ![m][p] = "between"] /\ UNCHANGED <<taken, reads>>
     ELSE /\ at' = [at EXCEPT ![m][p] = "read"]
          /\ reads' = [reads EXCEPT ![p] = @ + 1]
          /\ taken' = [taken EXCEPT ![m][p] = reads[p] + 1]
  /\ UNCHANGED <<wg, crashed>>

Missed(m, p) ==
  /\ ~Readable(p) /\ ~ErrorPanics
  /\ at' = [at EXCEPT ![m] = SkipOnError(m, p)]
  /\ wg' = DoneOnError(m)
  /\ UNCHANGED <<taken, reads, crashed>>

Panicked(m, p) ==
  /\ TooShort(p, "before") \/ Panics(p) \/ (~Readable(p) /\ ErrorPanics)
  /\ crashed' = TRUE
  /\ UNCHANGED <<at, wg, taken, reads>>

\* A reading of p, the first or the second.
Read(m, p) ==
  /\ ~crashed /\ at[m][p] \in {"listed", "between"} /\ Turn(m, p)
  /\ \/ ~TooShort(p, "before") /\ (Got(m, p) \/ Missed(m, p))
     \/ Panicked(m, p)
  /\ UNCHANGED <<host, world, changes, main, unlisted, told>>

\* The reporter takes a value of p; the last is followed by wg.Done.
Send(m, p) ==
  /\ ~crashed /\ ~kind.sum /\ at[m][p] \in {"read", "half"}
  /\ IF TooShort(p, "after")
     THEN crashed' = TRUE /\ UNCHANGED <<at, wg, taken, last>>
     ELSE /\ last' = [last EXCEPT ![p] = taken[m][p]]
          /\ IF at[m][p] = "read" /\ kind.puts = 2
             THEN at' = [at EXCEPT ![m][p] = "half"] /\ UNCHANGED <<wg, taken>>
             ELSE /\ at' = [at EXCEPT ![m][p] = "done"]
                  /\ taken' = [taken EXCEPT ![m][p] = 0]
                  /\ wg' = IF kind.how = "waited" THEN [wg EXCEPT ![m] = @ - 1] ELSE wg
          /\ UNCHANGED crashed
  /\ UNCHANGED <<host, world, changes, main, unlisted, reads, steady, overlap>>

\* channel.Put of the sum, when all have been read
SendSum(m) ==
  /\ ~crashed /\ kind.sum /\ \A p \in Parts : at[m][p] = "read"
  /\ at' = [at EXCEPT ![m] = [p \in Parts |-> "done"]]
  /\ last' = taken[m]
  /\ taken' = [taken EXCEPT ![m] = [p \in Parts |-> 0]]
  /\ UNCHANGED <<host, world, changes, main, unlisted, wg, reads, steady, overlap,
                 crashed>>

MayReturn(m) == CASE kind.how = "waited" -> wg[m] = 0
                  [] kind.how = "turn"   -> Settled(m)
                  [] OTHER               -> TRUE

Return(m) ==
  /\ ~crashed /\ main[m] = "running" /\ MayReturn(m)
  /\ main' = [main EXCEPT ![m] = "returned"]
  /\ UNCHANGED <<host, world, changes, unlisted, at, wg, taken, reads, told, crashed>>

Next == \/ \E p \in Parts : Change(p)
        \/ \E m \in Calls : Begin(m)
        \/ \E m \in Calls, d \in Dirs : List(m, d)
        \/ \E m \in Calls, p \in Parts : Read(m, p)
        \/ \E m \in Calls, p \in Parts : Send(m, p)
        \/ \E m \in Calls : SendSum(m)
        \/ \E m \in Calls : Return(m)

Spec == Init /\ [][Next]_vars

\* Something that can go on does: goroutines are scheduled, sleeps end and a
\* reporter takes what is put.
GoesOn == \E m \in Calls : \/ Return(m) \/ SendSum(m)
                          \/ \E d \in Dirs : List(m, d)
                          \/ \E p \in Parts : Read(m, p) \/ Send(m, p)

FairSpec == Spec /\ WF_vars(GoesOn)

-----------------------------------------------------------------------------
(* Properties.                                                               *)

\* What happens to one part is no harm to another: when nothing is left to do
\* in a measurement, whatever it could not read, every part that has been there
\* since it began has been reported (instrument.go:207, 249, 370, 403, 490).
SteadyPartsAreReported ==
  \A m \in Calls : Settled(m) /\ ~crashed => steady[m] \subseteq Reported(m)

\* A value of a part is put after a newer one only if measurements overlap, as
\* they may when the period is shorter than the second between two readings,
\* or if the instrument leaves its goroutines behind (ticker.go:62,
\* instrument.go:196-236, 240-271, 483-499).
ReportsKeepOrder ==
  [][\A p \in Parts : last'[p] < last[p] => overlap \/ kind.how = "detached"]_vars

\* A measurement ends the daemon only where a container has a name that is too
\* short to be cut, or where a part that it measures has not been there, fields
\* and all, ever since it began, and the instrument cannot do without: a CPU, or
\* the fields of io.stat or of a pressure file, which a host without pressure
\* information never has (instrument.go:152, 371, 400, 842; sysparse.go:98-112,
\* 143-144).
SteadyHostsDoNotCrash ==
  crashed => \/ short # {}
             \/ /\ kind.sum \/ kind.fields
                /\ \E m \in Calls, p \in Parts : at[m][p] # "unknown" /\ p \notin steady[m]

\* A measurement that waits for its goroutines may return when the last of them
\* has ended and not before; only the network instrument is then held back, and
\* by nothing but a device that it could not read (instrument.go:205-230, 244-271).
WaitsForItsGoroutines ==
  kind.how = "waited" => \A m \in Calls : main[m] # "new" =>
    /\ MayReturn(m) <=> Settled(m) /\ ~(kind = NetworkDataRate /\ Failed(m) # {})
    /\ main[m] = "returned" => MayReturn(m)

\* A measurement comes to its end, and all its goroutines do, unless the daemon
\* crashes: but for the network instrument, which waits for ever if a device
\* could not be read (instrument.go:205-230, 246).
MeasurementsReturn ==
  \A m \in Calls :
    main[m] = "running" ~> \/ main[m] = "returned" /\ Settled(m)
                           \/ crashed
                           \/ kind = NetworkDataRate /\ Failed(m) # {}
=============================================================================
