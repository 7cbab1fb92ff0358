------------------------- MODULE MeasurementsProofs -------------------------
(* The safety properties of Measurements, for any instrument, and any number *)
(* of measurements, parts, directories and changes.                          *)
EXTENDS Measurements, FiniteSetTheorems, TLAPS

\* The parts that m has begun with and is not done with.
Underway(m) == {p \in Parts : at[m][p] \in {"listed", "between", "read", "half"}}

\* The host: a file stays, and there is only one.
HostInv ==
  /\ kind.parts = "folder" => \A p \in Parts : home[p] = 1
  /\ kind.parts \in {"file", "device"} => \A p \in Parts \ Named : world[p] = "absent"
  /\ kind.parts = "file" => \A p \in Parts \cap Named : world[p] = "up"

\* A measurement touches nothing before it begins, and never a part that is
\* neither named nor listed.
BeginInv ==
  \A m \in Calls :
    /\ main[m] = "new" => unlisted[m] = {} /\ \A p \in Parts : at[m][p] = "unknown"
    /\ kind.parts \notin {"folder", "pods"} =>
         unlisted[m] = {} /\ \A p \in Parts \ Named : at[m][p] = "unknown"

\* A part that has been up all the time is on its way to being reported.
SteadyInv ==
  \A m \in Calls : \A p \in steady[m] :
    /\ world[p] = "up"
    /\ main[m] # "new" /\ at[m][p] = "unknown" => home[p] \in unlisted[m]
    /\ at[m][p] # "failed"

\* The wait group counts the goroutines that are under way, at least.
WaitInv ==
  kind.how = "waited" =>
    \A m \in Calls : Cardinality(Underway(m)) <= wg[m]

\* While measurements do not overlap and their goroutines do not outlive them,
\* a reading that is on its way to the reporter is the newest of its part.
OrderInv ==
  /\ \A p \in Parts : last[p] <= reads[p]
  /\ ~overlap => \A m, n \in Calls : main[m] = "running" /\ main[n] = "running" => m = n
  /\ kind.how # "detached" => \A m \in Calls :
       main[m] = "returned" => unlisted[m] = {} /\ Underway(m) = {}
  /\ ~overlap /\ kind.how # "detached" => \A m \in Calls, p \in Parts :
       at[m][p] \in {"read", "half"} => taken[m][p] = reads[p]

IInv == /\ TypeOK /\ HostInv /\ BeginInv /\ SteadyInv /\ WaitInv /\ OrderInv
        /\ SteadyHostsDoNotCrash

-----------------------------------------------------------------------------

\* What the instruments have in common, as far as the proofs need it.
KindFacts ==
  /\ kind.how \in {"turn", "waited", "detached"}
  /\ kind.parts \in {"file", "device", "named", "folder", "pods"}
  /\ kind.how = "waited" =>
       /\ kind.parts = "named" /\ ~kind.sum /\ kind.lost # "panic"
       /\ kind.lost = "hang" <=> kind = NetworkDataRate
  /\ kind.lost = "panic" => kind.parts = "file" \/ kind.sum

\* Every instrument is one of these, by going through the records.
LEMMA Kinds == kind \in Instruments => KindFacts
<1> USE DEF KindFacts, InTurn
<1>1. ASSUME kind \in HostInstruments
      PROVE  KindFacts
  <2>1. CASE kind = NetworkDataRate
    BY <2>1 DEF NetworkDataRate, DataRate
  <2>2. CASE kind = DiskDataRate
    BY <2>2 DEF NetworkDataRate, DiskDataRate, DataRate
  <2>3. CASE kind \in {CpuUtil, CpuScalingFrequency, Load, Procs, Ram, Psi, Wifi}
    BY <2>3 DEF CpuUtil, CpuScalingFrequency, Load, Procs, Ram, Psi, Wifi
  <2>4. QED
    BY <1>1, <2>1, <2>2, <2>3 DEF HostInstruments
<1>2. ASSUME kind \in {DockerCgroupv1Cpu, DockerCgroupv1Blkio, DockerCgroupv1Memory}
      PROVE  KindFacts
  BY <1>2 DEF DockerCgroupv1Cpu, DockerCgroupv1Blkio, DockerCgroupv1Memory
<1>3. ASSUME kind \in {KubernetesCgroupv1Cpu, KubernetesCgroupv1Blkio,
                       KuberenetesCgroupv1Memory}
      PROVE  KindFacts
  BY <1>3 DEF KubernetesCgroupv1Cpu, KubernetesCgroupv1Blkio, KuberenetesCgroupv1Memory
<1>4. ASSUME kind \in {DockerCgroupv2Cpu, DockerCgroupv2Blkio, DockerCgroupv2Memory}
      PROVE  KindFacts
  BY <1>4 DEF DockerCgroupv2Cpu, DockerCgroupv2Blkio, DockerCgroupv2Memory
<1>5. ASSUME kind \in {KubernetesCgroupv2Cpu, KubernetesCgroupv2Blkio,
                       KubernetesCgroupv2Memory}
      PROVE  KindFacts
  BY <1>5 DEF KubernetesCgroupv2Cpu, KubernetesCgroupv2Blkio, KubernetesCgroupv2Memory
<1>6. QED
  BY <1>1, <1>2, <1>3, <1>4, <1>5 DEF Instruments, CgroupInstruments

-----------------------------------------------------------------------------

\* A goroutine that is under way has its place in the wait group.
LEMMA Counts ==
  ASSUME TypeOK, WaitInv, kind.how = "waited", NEW m \in Calls
  PROVE  /\ IsFiniteSet(Underway(m))
         /\ Cardinality(Underway(m)) \in Nat
         /\ Cardinality(Underway(m)) <= wg[m]
         /\ wg[m] = 0 => Underway(m) = {}
         /\ \A p \in Underway(m) :
              /\ wg[m] - 1 \in Nat
              /\ Cardinality(Underway(m) \ {p}) <= wg[m] - 1
<1>1. IsFiniteSet(Underway(m)) /\ wg[m] \in Nat
  BY MeasurementsAssumption, FS_Subset DEF Underway, TypeOK
<1>2. Cardinality(Underway(m)) \in Nat /\ Cardinality(Underway(m)) <= wg[m]
  BY <1>1, FS_CardinalityType DEF WaitInv
<1>3. wg[m] = 0 => Underway(m) = {}
  <2>1. wg[m] = 0 => Cardinality(Underway(m)) = 0
    BY <1>1, <1>2
  <2>2. QED
    BY <1>1, <2>1, FS_EmptySet
<1>4. ASSUME NEW p \in Underway(m)
      PROVE  wg[m] - 1 \in Nat /\ Cardinality(Underway(m) \ {p}) <= wg[m] - 1
  <2>1. /\ IsFiniteSet(Underway(m) \ {p})
        /\ Cardinality(Underway(m) \ {p}) = Cardinality(Underway(m)) - 1
    BY <1>1, FS_RemoveElement
  <2>2. Cardinality(Underway(m) \ {p}) \in Nat
    BY <2>1, FS_CardinalityType
  <2>3. QED
    BY <1>1, <1>2, <2>1, <2>2
<1>5. QED
  BY <1>1, <1>2, <1>3, <1>4

\* The outcomes of a reading: the first of two, a value, an error, a panic.
LEMMA Readings ==
  ASSUME TypeOK, NEW m \in Calls, NEW p \in Parts, Read(m, p)
  PROVE  /\ at[m][p] \in {"listed", "between"}
         /\ UNCHANGED <<kind, short, home, world, changes, main, unlisted, last,
                        steady, overlap>>
         /\ \/ /\ at' = [at EXCEPT ![m][p] = "between"]
               /\ UNCHANGED <<taken, reads, wg, crashed>>
            \/ /\ at' = [at EXCEPT ![m][p] = "read"]
               /\ reads' = [reads EXCEPT ![p] = @ + 1]
               /\ taken' = [taken EXCEPT ![m][p] = reads[p] + 1]
               /\ UNCHANGED <<wg, crashed>>
            \/ /\ world[p] \notin {"up", "bare"}
               /\ at' = [at EXCEPT ![m][p] = "failed"]
               /\ \/ wg' = wg
                  \/ kind.how = "waited" /\ wg' = [wg EXCEPT ![m] = @ - 1]
               /\ UNCHANGED <<taken, reads, crashed>>
            \/ crashed' = TRUE /\ UNCHANGED <<at, wg, taken, reads>>
<1>1. Got(m, p) =>
        \/ /\ at' = [at EXCEPT ![m][p] = "between"]
           /\ UNCHANGED <<taken, reads, wg, crashed>>
        \/ /\ at' = [at EXCEPT ![m][p] = "read"]
           /\ reads' = [reads EXCEPT ![p] = @ + 1]
           /\ taken' = [taken EXCEPT ![m][p] = reads[p] + 1]
           /\ UNCHANGED <<wg, crashed>>
  BY DEF Got
<1>2. Missed(m, p) =>
        /\ world[p] \notin {"up", "bare"}
        /\ at' = [at EXCEPT ![m][p] = "failed"]
        /\ \/ wg' = wg
           \/ kind.how = "waited" /\ wg' = [wg EXCEPT ![m] = @ - 1]
        /\ UNCHANGED <<taken, reads, crashed>>
  BY DEF Missed, Readable, SkipOnError, DoneOnError
<1>3. Panicked(m, p) => crashed' = TRUE /\ UNCHANGED <<at, wg, taken, reads>>
  BY DEF Panicked
<1>4. QED
  BY <1>1, <1>2, <1>3 DEF Read, host, told

\* The outcomes of putting a value: a panic, the first of two, the last.
LEMMA Sendings ==
  ASSUME TypeOK, NEW m \in Calls, NEW p \in Parts, Send(m, p)
  PROVE  /\ at[m][p] \in {"read", "half"}
         /\ UNCHANGED <<kind, short, home, world, changes, main, unlisted, reads,
                        steady, overlap>>
         /\ \/ /\ crashed' = TRUE /\ p \in short
               /\ UNCHANGED <<at, wg, taken, last>>
            \/ /\ last' = [last EXCEPT ![p] = taken[m][p]]
               /\ at' = [at EXCEPT ![m][p] = "half"]
               /\ UNCHANGED <<wg, taken, crashed>>
            \/ /\ last' = [last EXCEPT ![p] = taken[m][p]]
               /\ at' = [at EXCEPT ![m][p] = "done"]
               /\ taken' = [taken EXCEPT ![m][p] = 0]
               /\ \/ kind.how # "waited" /\ wg' = wg
                  \/ kind.how = "waited" /\ wg' = [wg EXCEPT ![m] = @ - 1]
               /\ UNCHANGED crashed
<1>1. CASE TooShort(p, "after")
  BY <1>1 DEF Send, host, TooShort
<1>2. CASE ~TooShort(p, "after") /\ at[m][p] = "read" /\ kind.puts = 2
  BY <1>2 DEF Send, host
<1>3. CASE ~TooShort(p, "after") /\ ~(at[m][p] = "read" /\ kind.puts = 2)
  BY <1>3 DEF Send, host
<1>4. QED
  BY <1>1, <1>2, <1>3

\* A reading that is taken is one of those that have been made.
Made == /\ taken \in [Calls -> [Parts -> Nat]]
        /\ reads \in [Parts -> Nat] /\ last \in [Parts -> Nat]
        /\ \A m \in Calls, p \in Parts : taken[m][p] <= reads[p]

\* The type is kept; WaitInv keeps the wait group from going below zero.
LEMMA TypeStep == TypeOK /\ WaitInv /\ [Next]_vars => TypeOK'
<1> SUFFICES ASSUME TypeOK, WaitInv, [Next]_vars
             PROVE  TypeOK'
  OBVIOUS
<1> DEFINE Stages == {"unknown", "listed", "between", "read", "half", "done", "failed"}
<1>1. ASSUME NEW p \in Parts, Change(p)
      PROVE  TypeOK'
  <2>1. world' \in [Parts -> {"absent", "up", "bare", "gone"}]
    <3>1. \A w \in NextOf(p) : w \in {"absent", "up", "bare", "gone"}
      <4>1. world[p] \in {"absent", "up", "bare", "gone"}
        BY DEF TypeOK
      <4>2. QED
        BY <4>1 DEF NextOf
    <3>2. QED
      BY <1>1, <3>1 DEF Change, TypeOK
  <2>2. changes' \in 0 .. MaxChanges
    BY <1>1, MeasurementsAssumption DEF Change, TypeOK
  <2>3. steady' \in [Calls -> SUBSET Parts]
    BY <1>1 DEF Change, TypeOK
  <2>4. QED
    BY <1>1, <2>1, <2>2, <2>3 DEF Change, TypeOK, host
<1>2. ASSUME NEW m \in Calls, Begin(m)
      PROVE  TypeOK'
  <2>1. main' \in [Calls -> {"new", "running", "returned"}]
    BY <1>2 DEF Begin, TypeOK
  <2>2. unlisted' \in [Calls -> SUBSET Dirs]
    <3>1. {1} \in SUBSET Dirs
      BY MeasurementsAssumption
    <3>2. QED
      BY <1>2, <3>1 DEF Begin, TypeOK
  <2>3. at' \in [Calls -> [Parts -> Stages]]
    BY <1>2 DEF Begin, TypeOK
  <2>4. wg' \in [Calls -> Nat]
    <3>1. Added \in Nat
      <4>1. kind.how = "waited" => Named = Parts
        BY Kinds DEF TypeOK, KindFacts, Named
      <4>2. Cardinality(Parts) \in Nat
        BY MeasurementsAssumption, FS_CardinalityType
      <4>3. QED
        BY <4>1, <4>2 DEF Added
    <3>2. QED
      BY <1>2, <3>1 DEF Begin, TypeOK
  <2>5. steady' \in [Calls -> SUBSET Parts]
    BY <1>2 DEF Begin, TypeOK
  <2>6. overlap' \in BOOLEAN
    BY <1>2 DEF Begin
  <2>7. QED
    BY <1>2, <2>1, <2>2, <2>3, <2>4, <2>5, <2>6 DEF Begin, TypeOK, host
<1>3. ASSUME NEW m \in Calls, NEW d \in Dirs, List(m, d)
      PROVE  TypeOK'
  <2>1. unlisted' \in [Calls -> SUBSET Dirs]
    BY <1>3 DEF List, TypeOK
  <2>2. at' \in [Calls -> [Parts -> Stages]]
    BY <1>3 DEF List, TypeOK
  <2>3. QED
    BY <1>3, <2>1, <2>2 DEF List, TypeOK, host, told
<1>4. ASSUME NEW m \in Calls, NEW p \in Parts, Read(m, p)
      PROVE  TypeOK'
  <2>1. UNCHANGED <<kind, short, home, world, changes, main, unlisted, last,
                    steady, overlap>>
    BY <1>4, Readings
  <2>2. at' \in [Calls -> [Parts -> Stages]]
    <3>1. \/ at' = at
          \/ \E s \in {"between", "read", "failed"} : at' = [at EXCEPT ![m][p] = s]
      BY <1>4, Readings
    <3>2. at \in [Calls -> [Parts -> Stages]]
      BY DEF TypeOK
    <3>3. ASSUME NEW s \in Stages, at' = [at EXCEPT ![m][p] = s]
          PROVE  at' \in [Calls -> [Parts -> Stages]]
      BY <3>2, <3>3
    <3>4. QED
      BY <3>1, <3>2, <3>3
  <2>3. wg' \in [Calls -> Nat]
    <3>1. p \in Underway(m)
      BY <1>4, Readings DEF Underway
    <3>2. kind.how = "waited" => wg[m] - 1 \in Nat
      BY <3>1, Counts
    <3>3. wg' = wg \/ (kind.how = "waited" /\ wg' = [wg EXCEPT ![m] = @ - 1])
      BY <1>4, Readings
    <3>4. QED
      BY <3>2, <3>3 DEF TypeOK
  <2>4. Made'
    <3>1. \/ taken' = taken /\ reads' = reads
          \/ /\ reads' = [reads EXCEPT ![p] = @ + 1]
             /\ taken' = [taken EXCEPT ![m][p] = reads[p] + 1]
      BY <1>4, Readings
    <3>2. Made
      BY DEF TypeOK, Made
    <3>3. CASE /\ reads' = [reads EXCEPT ![p] = @ + 1]
               /\ taken' = [taken EXCEPT ![m][p] = reads[p] + 1]
      <4>1. reads' \in [Parts -> Nat] /\ taken' \in [Calls -> [Parts -> Nat]]
        BY <3>2, <3>3 DEF Made
      <4>2. ASSUME NEW n \in Calls, NEW q \in Parts
            PROVE  taken'[n][q] <= reads'[q]
        BY <3>2, <3>3 DEF Made
      <4>3. QED
        BY <2>1, <3>2, <4>1, <4>2 DEF Made
    <3>4. QED
      BY <2>1, <3>1, <3>2, <3>3 DEF Made
  <2>5. crashed' \in BOOLEAN
    BY <1>4, Readings DEF TypeOK
  <2>6. QED
    BY <2>1, <2>2, <2>3, <2>4, <2>5 DEF TypeOK, Made
<1>5. ASSUME NEW m \in Calls, NEW p \in Parts, Send(m, p)
      PROVE  TypeOK'
  <2>1. UNCHANGED <<kind, short, home, world, changes, main, unlisted, reads,
                    steady, overlap>>
    BY <1>5, Sendings
  <2>2. at' \in [Calls -> [Parts -> Stages]]
    <3>1. at' = at \/ \E s \in {"half", "done"} : at' = [at EXCEPT ![m][p] = s]
      BY <1>5, Sendings
    <3>2. at \in [Calls -> [Parts -> Stages]]
      BY DEF TypeOK
    <3>3. ASSUME NEW s \in Stages, at' = [at EXCEPT ![m][p] = s]
          PROVE  at' \in [Calls -> [Parts -> Stages]]
      BY <3>2, <3>3
    <3>4. QED
      BY <3>1, <3>2, <3>3
  <2>3. wg' \in [Calls -> Nat]
    <3>1. p \in Underway(m)
      BY <1>5, Sendings DEF Underway
    <3>2. kind.how = "waited" => wg[m] - 1 \in Nat
      BY <3>1, Counts
    <3>3. wg' = wg \/ (kind.how = "waited" /\ wg' = [wg EXCEPT ![m] = @ - 1])
      BY <1>5, Sendings
    <3>4. QED
      BY <3>2, <3>3 DEF TypeOK
  <2>4. Made'
    <3>1. /\ taken' = taken \/ taken' = [taken EXCEPT ![m][p] = 0]
          /\ last' = last \/ last' = [last EXCEPT ![p] = taken[m][p]]
      BY <1>5, Sendings
    <3>2. Made
      BY DEF TypeOK, Made
    <3>3. last' \in [Parts -> Nat] /\ taken' \in [Calls -> [Parts -> Nat]]
      BY <3>1, <3>2 DEF Made
    <3>4. ASSUME NEW n \in Calls, NEW q \in Parts
          PROVE  taken'[n][q] <= reads[q]
      <4>1. taken'[n][q] \in {taken[n][q], 0}
        BY <3>1, <3>2 DEF Made
      <4>2. QED
        BY <3>2, <4>1 DEF Made
    <3>5. QED
      BY <2>1, <3>2, <3>3, <3>4 DEF Made
  <2>5. crashed' \in BOOLEAN
    BY <1>5, Sendings DEF TypeOK
  <2>6. QED
    BY <2>1, <2>2, <2>3, <2>4, <2>5 DEF TypeOK, Made
<1>6. ASSUME NEW m \in Calls, SendSum(m)
      PROVE  TypeOK'
  <2>1. at' \in [Calls -> [Parts -> Stages]]
    BY <1>6 DEF SendSum, TypeOK
  <2>2. /\ taken' \in [Calls -> [Parts -> Nat]] /\ last' \in [Parts -> Nat]
        /\ \A n \in Calls, q \in Parts : taken'[n][q] <= reads[q]
    BY <1>6 DEF SendSum, TypeOK
  <2>3. QED
    BY <1>6, <2>1, <2>2 DEF SendSum, TypeOK, host
<1>7. ASSUME NEW m \in Calls, Return(m)
      PROVE  TypeOK'
  <2>1. main' \in [Calls -> {"new", "running", "returned"}]
    BY <1>7 DEF Return, TypeOK
  <2>2. QED
    BY <1>7, <2>1 DEF Return, TypeOK, host, told
<1>8. CASE UNCHANGED vars
  BY <1>8 DEF vars, TypeOK
<1>9. QED
  BY <1>1, <1>2, <1>3, <1>4, <1>5, <1>6, <1>7, <1>8 DEF Next

\* A file never goes away, and nothing moves within the file system.
LEMMA HostStep == TypeOK /\ HostInv /\ [Next]_vars => HostInv'
<1> SUFFICES ASSUME TypeOK, HostInv, [Next]_vars
             PROVE  HostInv'
  OBVIOUS
<1>1. ASSUME UNCHANGED <<kind, home, world>>
      PROVE  HostInv'
  BY <1>1 DEF HostInv, Named
<1>2. ASSUME NEW p \in Parts, Change(p)
      PROVE  HostInv'
  <2>1. /\ kind' = kind /\ home' = home /\ Named' = Named
        /\ \E w \in NextOf(p) : world' = [world EXCEPT ![p] = w]
    BY <1>2 DEF Change, host, Named
  <2>2. CASE kind.parts = "file"
    <3>1. NextOf(p) = {}
      BY <2>2 DEF NextOf
    <3>2. QED
      BY <2>1, <3>1
  <2>3. CASE kind.parts = "device"
    <3>1. p \notin Named => NextOf(p) = {}
      BY <2>3 DEF NextOf
    <3>2. QED
      BY <2>1, <2>3, <3>1 DEF HostInv, TypeOK
  <2>4. CASE kind.parts \notin {"file", "device"}
    BY <2>1, <2>4 DEF HostInv
  <2>5. QED
    BY <2>2, <2>3, <2>4
<1>3. CASE \E m \in Calls : Begin(m) \/ SendSum(m) \/ Return(m)
  BY <1>1, <1>3 DEF Begin, SendSum, Return, host
<1>4. CASE \E m \in Calls, d \in Dirs : List(m, d)
  BY <1>1, <1>4 DEF List, host
<1>5. CASE \E m \in Calls, p \in Parts : Read(m, p)
  BY <1>1, <1>5 DEF Read, host
<1>6. CASE \E m \in Calls, p \in Parts : Send(m, p)
  BY <1>1, <1>6 DEF Send, host
<1>7. QED
  BY <1>1, <1>2, <1>3, <1>4, <1>5, <1>6 DEF Next, vars

\* Parts are touched only after a measurement has begun, and if they may be.
LEMMA BeginStep == TypeOK /\ BeginInv /\ [Next]_vars => BeginInv'
<1> SUFFICES ASSUME TypeOK, BeginInv, [Next]_vars
             PROVE  BeginInv'
  OBVIOUS
<1> DEFINE Untouched(n) ==
      /\ main[n] = "new" => unlisted[n] = {} /\ \A q \in Parts : at[n][q] = "unknown"
      /\ kind.parts \notin {"folder", "pods"} =>
           unlisted[n] = {} /\ \A q \in Parts \ Named : at[n][q] = "unknown"
<1>1. \A n \in Calls : Untouched(n)
  BY DEF BeginInv
<1>2. ASSUME UNCHANGED <<kind, main, unlisted, at>>
      PROVE  BeginInv'
  BY <1>2 DEF BeginInv, Named
<1>3. ASSUME NEW m \in Calls, Begin(m)
      PROVE  BeginInv'
  <2>1. kind' = kind /\ Named' = Named
    BY <1>3 DEF Begin, host, Named
  <2>2. ASSUME NEW n \in Calls \ {m}
        PROVE  Untouched(n)'
    BY <1>1, <1>3, <2>1 DEF Begin, TypeOK
  <2>3. Untouched(m)'
    <3>1. main'[m] = "running"
      BY <1>3 DEF Begin, TypeOK
    <3>2. kind.parts \notin {"folder", "pods"} => unlisted'[m] = {}
      BY <1>3 DEF Begin, TypeOK
    <3>3. \A q \in Parts \ Named : at'[m][q] = "unknown"
      BY <1>3 DEF Begin, TypeOK
    <3>4. QED
      BY <2>1, <3>1, <3>2, <3>3
  <2>4. QED
    BY <2>2, <2>3 DEF BeginInv
<1>4. ASSUME NEW m \in Calls, NEW d \in Dirs, List(m, d)
      PROVE  BeginInv'
  <2>1. kind' = kind /\ Named' = Named /\ main' = main
    BY <1>4 DEF List, host, Named
  <2>2. ASSUME NEW n \in Calls \ {m}
        PROVE  Untouched(n)'
    BY <1>1, <1>4, <2>1 DEF List, TypeOK
  <2>3. d \in unlisted[m]
    BY <1>4 DEF List
  <2>4. main[m] # "new" /\ kind.parts \in {"folder", "pods"}
    BY <1>1, <2>3
  <2>5. QED
    BY <2>1, <2>2, <2>4 DEF BeginInv
<1>5. ASSUME NEW m \in Calls, NEW p \in Parts, at[m][p] # "unknown",
             UNCHANGED <<kind, main, unlisted>>,
             \E s : at' = [at EXCEPT ![m][p] = s]
      PROVE  BeginInv'
  <2>1. Named' = Named
    BY <1>5 DEF Named
  <2>2. main[m] # "new" /\ (kind.parts \notin {"folder", "pods"} => p \in Named)
    BY <1>1, <1>5
  <2>3. ASSUME NEW n \in Calls, NEW q \in Parts, n # m \/ q # p
        PROVE  at'[n][q] = at[n][q]
    BY <1>5, <2>3 DEF TypeOK
  <2>4. QED
    BY <1>1, <1>5, <2>1, <2>2, <2>3 DEF BeginInv
<1>6. ASSUME NEW m \in Calls, NEW p \in Parts, Read(m, p)
      PROVE  BeginInv'
  <2>1. /\ UNCHANGED <<kind, main, unlisted>>
        /\ at[m][p] # "unknown"
        /\ at' = at \/ \E s : at' = [at EXCEPT ![m][p] = s]
    BY <1>6, Readings
  <2>2. QED
    BY <1>2, <1>5, <2>1
<1>7. ASSUME NEW m \in Calls, NEW p \in Parts, Send(m, p)
      PROVE  BeginInv'
  <2>1. /\ UNCHANGED <<kind, main, unlisted>>
        /\ at[m][p] # "unknown"
        /\ at' = at \/ \E s : at' = [at EXCEPT ![m][p] = s]
    BY <1>7, Sendings
  <2>2. QED
    BY <1>2, <1>5, <2>1
<1>8. ASSUME NEW m \in Calls, SendSum(m)
      PROVE  BeginInv'
  <2>1. kind' = kind /\ Named' = Named /\ main' = main /\ unlisted' = unlisted
    BY <1>8 DEF SendSum, host, Named
  <2>2. ASSUME NEW n \in Calls, NEW q \in Parts
        PROVE  at[n][q] = "unknown" => at'[n][q] = "unknown"
    BY <1>8 DEF SendSum, TypeOK
  <2>3. QED
    BY <1>1, <2>1, <2>2 DEF BeginInv
<1>9. ASSUME NEW m \in Calls, Return(m)
      PROVE  BeginInv'
  <2>1. kind' = kind /\ Named' = Named /\ at' = at /\ unlisted' = unlisted
    BY <1>9 DEF Return, host, Named
  <2>2. \A n \in Calls : main'[n] = "new" => main[n] = "new"
    BY <1>9 DEF Return, TypeOK
  <2>3. QED
    BY <1>1, <2>1, <2>2 DEF BeginInv
<1>10. CASE \E p \in Parts : Change(p)
  BY <1>2, <1>10 DEF Change, host
<1>11. QED
  BY <1>2, <1>3, <1>4, <1>6, <1>7, <1>8, <1>9, <1>10 DEF Next, vars

\* What stays up while a measurement is under way does not fail in it.
LEMMA SteadyStep ==
  TypeOK /\ HostInv /\ BeginInv /\ SteadyInv /\ [Next]_vars => SteadyInv'
<1> SUFFICES ASSUME TypeOK, HostInv, BeginInv, SteadyInv, [Next]_vars
             PROVE  SteadyInv'
  OBVIOUS
<1> DEFINE Sure(n, q) ==
      /\ world[q] = "up"
      /\ main[n] # "new" /\ at[n][q] = "unknown" => home[q] \in unlisted[n]
      /\ at[n][q] # "failed"
<1>1. /\ \A n \in Calls : \A q \in steady[n] : Sure(n, q)
      /\ steady \in [Calls -> SUBSET Parts]
  BY DEF SteadyInv, TypeOK
<1>2. ASSUME UNCHANGED <<home, world, main, unlisted, at, steady>>
      PROVE  SteadyInv'
  BY <1>2 DEF SteadyInv
<1>3. ASSUME NEW p \in Parts, Change(p)
      PROVE  SteadyInv'
  <2>1. /\ UNCHANGED <<home, main, unlisted, at>>
        /\ \E w : world' = [world EXCEPT ![p] = w]
        /\ steady' = [n \in Calls |-> steady[n] \ {p}]
    BY <1>3 DEF Change, host
  <2>2. ASSUME NEW n \in Calls, NEW q \in steady'[n]
        PROVE  q \in steady[n] /\ world'[q] = world[q]
    BY <1>1, <2>1 DEF TypeOK
  <2>3. QED
    BY <1>1, <2>1, <2>2 DEF SteadyInv
<1>4. ASSUME NEW m \in Calls, Begin(m)
      PROVE  SteadyInv'
  <2>1. UNCHANGED <<kind, home, world>>
    BY <1>4 DEF Begin, host
  <2>2. ASSUME NEW n \in Calls \ {m}, NEW q \in steady'[n]
        PROVE  Sure(n, q)'
    BY <1>1, <1>4, <2>1 DEF Begin, TypeOK
  <2>3. ASSUME NEW q \in steady'[m]
        PROVE  Sure(m, q)'
    <3>1. q \in Parts /\ world[q] = "up"
      BY <1>4 DEF Begin, TypeOK
    <3>2. at'[m][q] = IF q \in Named THEN "listed" ELSE "unknown"
      BY <1>4, <3>1 DEF Begin, TypeOK
    <3>3. q \in Named \/ kind.parts \in {"folder", "pods"}
      BY <3>1, Kinds DEF KindFacts, TypeOK, HostInv, Named
    <3>4. CASE kind.parts = "folder"
      <4>1. home[q] = 1 /\ unlisted'[m] = {1}
        BY <1>4, <3>1, <3>4 DEF Begin, TypeOK, HostInv
      <4>2. QED
        BY <2>1, <3>1, <3>2, <4>1
    <3>5. CASE kind.parts = "pods"
      <4>1. home[q] \in Dirs /\ unlisted'[m] = Dirs
        BY <1>4, <3>1, <3>5 DEF Begin, TypeOK
      <4>2. QED
        BY <2>1, <3>1, <3>2, <4>1
    <3>6. QED
      BY <2>1, <3>1, <3>2, <3>3, <3>4, <3>5
  <2>4. QED
    BY <2>2, <2>3 DEF SteadyInv
<1>5. ASSUME NEW m \in Calls, NEW d \in Dirs, List(m, d)
      PROVE  SteadyInv'
  <2>1. UNCHANGED <<home, world, main, steady>>
    BY <1>5 DEF List, host, told
  <2>2. ASSUME NEW n \in Calls, NEW q \in steady[n]
        PROVE  Sure(n, q)'
    <3>1. q \in Parts /\ Sure(n, q)
      BY <1>1
    <3>2. CASE n # m
      BY <1>5, <2>1, <3>1, <3>2 DEF List, TypeOK
    <3>3. CASE n = m
      <4>1. /\ at'[m][q] = IF home[q] = d THEN "listed" ELSE at[m][q]
            /\ unlisted'[m] = unlisted[m] \ {d}
        BY <1>5, <3>1, <3>3 DEF List, TypeOK
      <4>2. QED
        BY <2>1, <3>1, <3>3, <4>1
    <3>4. QED
      BY <3>2, <3>3
  <2>3. QED
    BY <2>1, <2>2 DEF SteadyInv
<1>6. ASSUME NEW m \in Calls, NEW p \in Parts,
             UNCHANGED <<home, world, main, unlisted, steady>>,
             NEW s \in {"between", "read", "half", "done", "failed"},
             s # "failed" \/ world[p] # "up",
             at' = [at EXCEPT ![m][p] = s]
      PROVE  SteadyInv'
  <2>1. ASSUME NEW n \in Calls, NEW q \in steady[n]
        PROVE  Sure(n, q)'
    <3>1. q \in Parts /\ Sure(n, q)
      BY <1>1
    <3>2. at'[n][q] = IF n = m /\ q = p THEN s ELSE at[n][q]
      BY <1>6, <3>1 DEF TypeOK
    <3>3. QED
      BY <1>6, <3>1, <3>2
  <2>2. QED
    BY <1>6, <2>1 DEF SteadyInv
<1>7. ASSUME NEW m \in Calls, NEW p \in Parts, Read(m, p)
      PROVE  SteadyInv'
  <2>1. /\ UNCHANGED <<home, world, main, unlisted, steady>>
        /\ \/ at' = at
           \/ at' = [at EXCEPT ![m][p] = "between"]
           \/ at' = [at EXCEPT ![m][p] = "read"]
           \/ at' = [at EXCEPT ![m][p] = "failed"] /\ world[p] # "up"
    BY <1>7, Readings
  <2>2. QED
    BY <1>2, <1>6, <2>1
<1>8. ASSUME NEW m \in Calls, NEW p \in Parts, Send(m, p)
      PROVE  SteadyInv'
  <2>1. /\ UNCHANGED <<home, world, main, unlisted, steady>>
        /\ \/ at' = at
           \/ at' = [at EXCEPT ![m][p] = "half"]
           \/ at' = [at EXCEPT ![m][p] = "done"]
    BY <1>8, Sendings
  <2>2. QED
    BY <1>2, <1>6, <2>1
<1>9. ASSUME NEW m \in Calls, SendSum(m)
      PROVE  SteadyInv'
  <2>1. UNCHANGED <<home, world, main, unlisted, steady>>
    BY <1>9 DEF SendSum, host
  <2>2. ASSUME NEW n \in Calls, NEW q \in Parts
        PROVE  at'[n][q] \in {at[n][q], "done"}
    BY <1>9 DEF SendSum, TypeOK
  <2>3. QED
    BY <1>1, <2>1, <2>2 DEF SteadyInv
<1>10. ASSUME NEW m \in Calls, Return(m)
      PROVE  SteadyInv'
  <2>1. UNCHANGED <<home, world, unlisted, at, steady>>
    BY <1>10 DEF Return, host, told
  <2>2. \A n \in Calls : main'[n] # "new" => main[n] # "new"
    BY <1>10 DEF Return, TypeOK
  <2>3. QED
    BY <1>1, <2>1, <2>2 DEF SteadyInv
<1>11. QED
  BY <1>2, <1>3, <1>4, <1>5, <1>7, <1>8, <1>9, <1>10 DEF Next, vars

\* How a step of one part moves the set of those that are under way.
LEMMA Moves ==
  ASSUME TypeOK, NEW m \in Calls, NEW p \in Underway(m), NEW s,
         at' = [at EXCEPT ![m][p] = s]
  PROVE  /\ \A n \in Calls \ {m} : Underway(n)' = Underway(n)
         /\ s \in {"between", "read", "half"} => Underway(m)' = Underway(m)
         /\ s \in {"done", "failed"} => Underway(m)' = Underway(m) \ {p}
<1>1. p \in Parts /\ at \in [Calls -> [Parts -> {"unknown", "listed", "between", "read",
                                               "half", "done", "failed"}]]
  BY DEF TypeOK, Underway
<1>2. \A n \in Calls, q \in Parts :
        at'[n][q] = IF n = m /\ q = p THEN s ELSE at[n][q]
  BY <1>1
<1>3. \A n \in Calls \ {m} : Underway(n)' = Underway(n)
  BY <1>2 DEF Underway
<1>4. s \in {"between", "read", "half"} => Underway(m)' = Underway(m)
  BY <1>1, <1>2 DEF Underway
<1>5. s \in {"done", "failed"} => Underway(m)' = Underway(m) \ {p}
  BY <1>1, <1>2 DEF Underway
<1>6. QED
  BY <1>3, <1>4, <1>5

\* Done is called once by each goroutine, as it ends.
LEMMA WaitStep == TypeOK /\ BeginInv /\ WaitInv /\ [Next]_vars => WaitInv'
<1> SUFFICES ASSUME TypeOK, BeginInv, WaitInv, [Next]_vars, kind'.how = "waited"
             PROVE  \A n \in Calls : Cardinality(Underway(n)') <= wg'[n]
  BY DEF WaitInv
<1>1. kind' = kind
  BY DEF Next, Change, Begin, List, Read, Send, SendSum, Return, host, vars
<1>2. /\ kind.how = "waited" /\ kind.parts = "named" /\ Named = Parts
      /\ \A n \in Calls : /\ Cardinality(Underway(n)) <= wg[n]
                          /\ unlisted[n] = {}
  BY <1>1, Kinds DEF KindFacts, TypeOK, WaitInv, Named, BeginInv
<1> DEFINE Goal == \A n \in Calls : Cardinality(Underway(n)') <= wg'[n]
<1>3. ASSUME UNCHANGED <<at, wg>>
      PROVE  Goal
  BY <1>2, <1>3 DEF Underway
<1>4. ASSUME NEW m \in Calls, Begin(m)
      PROVE  Goal
  <2>1. /\ wg' = [wg EXCEPT ![m] = Cardinality(Parts)]
        /\ at' = [at EXCEPT ![m] = [p \in Parts |-> "listed"]]
    BY <1>2, <1>4 DEF Begin, Added
  <2>2. Underway(m)' = Parts /\ \A n \in Calls \ {m} : Underway(n)' = Underway(n)
    BY <2>1 DEF Underway, TypeOK
  <2>3. Cardinality(Parts) \in Nat
    BY MeasurementsAssumption, FS_CardinalityType
  <2>4. QED
    BY <1>2, <2>1, <2>2, <2>3 DEF TypeOK
<1>5. ASSUME NEW m \in Calls, NEW p \in Underway(m), NEW s, at' = [at EXCEPT ![m][p] = s],
             \/ s \in {"between", "read", "half"} /\ wg' = wg
             \/ s \in {"done", "failed"} /\ wg' = wg
             \/ s \in {"done", "failed"} /\ wg' = [wg EXCEPT ![m] = @ - 1]
      PROVE  Goal
  <2>1. CASE s \in {"between", "read", "half"} /\ wg' = wg
    <3>1. \A n \in Calls : Underway(n)' = Underway(n)
      BY <1>5, <2>1, Moves
    <3>2. QED
      BY <1>2, <2>1, <3>1
  <2>2. CASE s \in {"done", "failed"}
    <3>1. \A n \in Calls \ {m} : Underway(n)' = Underway(n) /\ wg'[n] = wg[n]
      BY <1>5, <2>2, Moves DEF TypeOK
    <3>2. Underway(m)' = Underway(m) \ {p}
      BY <1>5, <2>2, Moves
    <3>3. /\ wg[m] \in Nat /\ wg[m] - 1 \in Nat
          /\ Cardinality(Underway(m) \ {p}) <= wg[m] - 1
      BY <1>2, Counts DEF TypeOK
    <3>4. Cardinality(Underway(m) \ {p}) \in Nat
      BY <1>2, Counts, FS_RemoveElement, FS_CardinalityType
    <3>5. wg'[m] \in {wg[m], wg[m] - 1}
      BY <1>5, <2>2 DEF TypeOK
    <3>6. Cardinality(Underway(m)') <= wg'[m]
      BY <3>2, <3>3, <3>4, <3>5
    <3>7. QED
      BY <1>2, <3>1, <3>6
  <2>3. QED
    BY <1>5, <2>1, <2>2
<1>6. ASSUME NEW m \in Calls, NEW p \in Parts, Read(m, p)
      PROVE  Goal
  <2>1. /\ p \in Underway(m)
        /\ \/ UNCHANGED <<at, wg>>
           \/ \E s : /\ at' = [at EXCEPT ![m][p] = s]
                    /\ \/ s \in {"between", "read", "half"} /\ wg' = wg
                       \/ s \in {"done", "failed"} /\ wg' = wg
                       \/ s \in {"done", "failed"} /\ wg' = [wg EXCEPT ![m] = @ - 1]
    BY <1>6, Readings DEF Underway
  <2>2. QED
    BY <1>3, <1>5, <2>1
<1>7. ASSUME NEW m \in Calls, NEW p \in Parts, Send(m, p)
      PROVE  Goal
  <2>1. /\ p \in Underway(m)
        /\ \/ UNCHANGED <<at, wg>>
           \/ \E s : /\ at' = [at EXCEPT ![m][p] = s]
                    /\ \/ s \in {"between", "read", "half"} /\ wg' = wg
                       \/ s \in {"done", "failed"} /\ wg' = wg
                       \/ s \in {"done", "failed"} /\ wg' = [wg EXCEPT ![m] = @ - 1]
    BY <1>7, Sendings DEF Underway
  <2>2. QED
    BY <1>3, <1>5, <2>1
<1>8. ASSUME NEW m \in Calls, SendSum(m)
      PROVE  Goal
  <2>1. wg' = wg /\ at' = [at EXCEPT ![m] = [p \in Parts |-> "done"]]
    BY <1>8 DEF SendSum
  <2>2. Underway(m)' = {} /\ \A n \in Calls \ {m} : Underway(n)' = Underway(n)
    BY <2>1 DEF Underway, TypeOK
  <2>3. Cardinality(Underway(m)') = 0 /\ wg[m] \in Nat
    BY <2>2, FS_EmptySet DEF TypeOK
  <2>4. QED
    BY <1>2, <2>1, <2>2, <2>3
<1>9. CASE \/ \E p \in Parts : Change(p)
           \/ \E m \in Calls : Return(m)
  BY <1>3, <1>9 DEF Change, Return
<1>10. CASE \E m \in Calls, d \in Dirs : List(m, d)
  BY <1>2, <1>10 DEF List
<1>11. QED
  BY <1>3, <1>4, <1>6, <1>7, <1>8, <1>9, <1>10 DEF Next, vars

\* A measurement that is alone reads and sends its parts in one order.
LEMMA OrderStep ==
  TypeOK /\ BeginInv /\ WaitInv /\ OrderInv /\ [Next]_vars => OrderInv'
<1> SUFFICES ASSUME TypeOK, BeginInv, WaitInv, OrderInv, [Next]_vars
             PROVE  OrderInv'
  OBVIOUS
<1> DEFINE Orderly == ~overlap /\ kind.how # "detached"
           Ended(n) == main[n] = "returned" => unlisted[n] = {} /\ Underway(n) = {}
           Newest(n, q) == at[n][q] \in {"read", "half"} => taken[n][q] = reads[q]
<1>1. /\ \A q \in Parts : last[q] <= reads[q]
      /\ ~overlap => \A n, k \in Calls : main[n] = "running" /\ main[k] = "running" => n = k
      /\ kind.how # "detached" => \A n \in Calls : Ended(n)
      /\ Orderly => \A n \in Calls, q \in Parts : Newest(n, q)
  BY DEF OrderInv
<1>2. Made
  BY DEF TypeOK, Made
\* A part that is under way belongs to a measurement that is running.
<1>3. ASSUME NEW n \in Calls, NEW q \in Parts, kind.how # "detached",
             at[n][q] \in {"listed", "between", "read", "half"}
      PROVE  main[n] = "running"
  <2>1. q \in Underway(n)
    BY <1>3 DEF Underway
  <2>2. main[n] \notin {"new", "returned"}
    BY <1>1, <1>3, <2>1 DEF BeginInv
  <2>3. QED
    BY <2>2 DEF TypeOK
<1>4. ASSUME UNCHANGED <<kind, main, unlisted, at, taken, reads, last, overlap>>
      PROVE  OrderInv'
  BY <1>4 DEF OrderInv, Underway
<1>5. ASSUME NEW m \in Calls, Begin(m)
      PROVE  OrderInv'
  <2>1. /\ UNCHANGED <<kind, taken, reads, last>>
        /\ main[m] = "new" /\ main' = [main EXCEPT ![m] = "running"]
        /\ overlap' = (overlap \/ \E n \in Calls : main[n] = "running")
    BY <1>5 DEF Begin, host
  <2>2. \A n \in Calls \ {m} : UNCHANGED <<main[n], unlisted[n], at[n]>>
    BY <1>5 DEF Begin, TypeOK
  <2>3. main'[m] = "running" /\ \A q \in Parts : at'[m][q] \in {"listed", "unknown"}
    BY <1>5 DEF Begin, TypeOK
  <2>4. ~overlap' => \A n, k \in Calls : main'[n] = "running" /\ main'[k] = "running" => n = k
    BY <2>1, <2>2
  <2>5. kind.how # "detached" => \A n \in Calls : Ended(n)'
    BY <1>1, <2>2, <2>3 DEF Underway
  <2>6. Orderly' => \A n \in Calls, q \in Parts : Newest(n, q)'
    BY <1>1, <2>1, <2>2, <2>3
  <2>7. QED
    BY <1>1, <2>1, <2>4, <2>5, <2>6 DEF OrderInv
<1>6. ASSUME NEW m \in Calls, NEW d \in Dirs, List(m, d)
      PROVE  OrderInv'
  <2>1. UNCHANGED <<kind, main, taken, reads, last, overlap>> /\ d \in unlisted[m]
    BY <1>6 DEF List, host, told
  <2>2. \A n \in Calls \ {m} : UNCHANGED <<unlisted[n], at[n]>>
    BY <1>6 DEF List, TypeOK
  <2>3. \A q \in Parts : at'[m][q] \in {"listed", at[m][q]}
    BY <1>6 DEF List, TypeOK
  <2>4. kind.how # "detached" => main[m] # "returned"
    BY <1>1, <2>1
  <2>5. kind.how # "detached" => \A n \in Calls : Ended(n)'
    BY <1>1, <2>1, <2>2, <2>4 DEF Underway
  <2>6. Orderly' => \A n \in Calls, q \in Parts : Newest(n, q)'
    BY <1>1, <2>1, <2>2, <2>3
  <2>7. QED
    BY <1>1, <2>1, <2>5, <2>6 DEF OrderInv
\* What Ended is after a step of one part.
<1>7. ASSUME NEW m \in Calls, NEW p \in Parts, NEW s, kind.how # "detached",
             at[m][p] \in {"listed", "between", "read", "half"},
             at' = [at EXCEPT ![m][p] = s], UNCHANGED <<main, unlisted>>
      PROVE  \A n \in Calls : Ended(n)'
  <2>1. main[m] = "running"
    BY <1>3, <1>7
  <2>2. \A n \in Calls \ {m} : Underway(n)' = Underway(n)
    BY <1>7, Moves DEF Underway
  <2>3. QED
    BY <1>1, <1>7, <2>1, <2>2
<1>8. ASSUME NEW m \in Calls, NEW p \in Parts, Read(m, p)
      PROVE  OrderInv'
  <2>1. /\ at[m][p] \in {"listed", "between"}
        /\ UNCHANGED <<kind, main, unlisted, last, overlap>>
    BY <1>8, Readings
  <2>2. CASE UNCHANGED <<at, taken, reads>>
    BY <1>4, <2>1, <2>2
  <2>3. ASSUME NEW s \in {"between", "failed"}, at' = [at EXCEPT ![m][p] = s],
               UNCHANGED <<taken, reads>>
        PROVE  OrderInv'
    <3>1. kind.how # "detached" => \A n \in Calls : Ended(n)'
      BY <1>7, <2>1, <2>3
    <3>2. \A n \in Calls, q \in Parts : at'[n][q] \in {"between", "failed", at[n][q]}
      BY <2>3 DEF TypeOK
    <3>3. Orderly' => \A n \in Calls, q \in Parts : Newest(n, q)'
      BY <1>1, <2>1, <2>3, <3>2
    <3>4. QED
      BY <1>1, <2>1, <2>3, <3>1, <3>3 DEF OrderInv
  <2>4. CASE /\ at' = [at EXCEPT ![m][p] = "read"]
             /\ reads' = [reads EXCEPT ![p] = @ + 1]
             /\ taken' = [taken EXCEPT ![m][p] = reads[p] + 1]
    <3>1. kind.how # "detached" => \A n \in Calls : Ended(n)'
      BY <1>7, <2>1, <2>4
    <3>2. \A q \in Parts : last'[q] <= reads'[q]
      <4>1. ASSUME NEW q \in Parts
            PROVE  last[q] <= reads'[q]
        <5>1. last[q] \in Nat /\ reads[q] \in Nat /\ last[q] <= reads[q]
          BY <1>1, <1>2 DEF Made
        <5>2. reads'[q] \in {reads[q], reads[q] + 1}
          BY <1>2, <2>4 DEF Made
        <5>3. QED
          BY <5>1, <5>2
      <4>2. QED
        BY <2>1, <4>1
    <3>3. ASSUME Orderly', NEW n \in Calls, NEW q \in Parts,
                 at'[n][q] \in {"read", "half"}
          PROVE  taken'[n][q] = reads'[q]
      <4>1. CASE n = m /\ q = p
        BY <1>2, <2>4, <4>1 DEF Made
      <4>2. CASE q # p
        <5>1. /\ at'[n][q] = at[n][q] /\ reads'[q] = reads[q]
              /\ taken'[n][q] = taken[n][q]
          BY <1>2, <2>4, <4>2 DEF Made, TypeOK
        <5>2. QED
          BY <1>1, <2>1, <3>3, <5>1
      <4>3. CASE n # m /\ q = p
        <5>1. at[n][q] \in {"read", "half"}
          BY <2>4, <3>3, <4>3 DEF TypeOK
        <5>2. main[n] = "running" /\ main[m] = "running"
          BY <1>3, <2>1, <3>3, <5>1
        <5>3. QED
          BY <1>1, <2>1, <3>3, <4>3, <5>2
      <4>4. QED
        BY <4>1, <4>2, <4>3
    <3>4. QED
      BY <1>1, <2>1, <3>1, <3>2, <3>3 DEF OrderInv
  <2>5. QED
    <3>1. \/ UNCHANGED <<at, taken, reads>>
          \/ at' = [at EXCEPT ![m][p] = "between"] /\ UNCHANGED <<taken, reads>>
          \/ at' = [at EXCEPT ![m][p] = "failed"] /\ UNCHANGED <<taken, reads>>
          \/ /\ at' = [at EXCEPT ![m][p] = "read"]
             /\ reads' = [reads EXCEPT ![p] = @ + 1]
             /\ taken' = [taken EXCEPT ![m][p] = reads[p] + 1]
      BY <1>8, Readings
    <3>2. QED
      BY <2>2, <2>3, <2>4, <3>1
<1>9. ASSUME NEW m \in Calls, NEW p \in Parts, Send(m, p)
      PROVE  OrderInv'
  <2>1. /\ at[m][p] \in {"read", "half"}
        /\ UNCHANGED <<kind, main, unlisted, reads, overlap>>
    BY <1>9, Sendings
  <2>2. CASE UNCHANGED <<at, taken, last>>
    BY <1>4, <2>1, <2>2
  <2>3. ASSUME last' = [last EXCEPT ![p] = taken[m][p]],
               \/ at' = [at EXCEPT ![m][p] = "half"] /\ taken' = taken
               \/ /\ at' = [at EXCEPT ![m][p] = "done"]
                  /\ taken' = [taken EXCEPT ![m][p] = 0]
        PROVE  OrderInv'
    <3>1. kind.how # "detached" => \A n \in Calls : Ended(n)'
      BY <1>7, <2>1, <2>3
    <3>2. \A q \in Parts : last'[q] <= reads'[q]
      <4>1. \A q \in Parts : last'[q] \in {last[q], taken[m][q]}
        BY <1>2, <2>3 DEF Made
      <4>2. \A q \in Parts : taken[m][q] <= reads[q]
        BY <1>2 DEF Made
      <4>3. QED
        BY <1>1, <2>1, <4>1, <4>2
    <3>3. ASSUME Orderly', NEW n \in Calls, NEW q \in Parts,
                 at'[n][q] \in {"read", "half"}
          PROVE  taken'[n][q] = reads'[q]
      <4>1. at \in [Calls -> [Parts -> {"unknown", "listed", "between", "read", "half",
                                       "done", "failed"}]]
        BY DEF TypeOK
      <4>2. n # m \/ q # p => at'[n][q] = at[n][q]
        BY <2>3, <4>1
      <4>3. at[n][q] \in {"read", "half"}
        BY <2>1, <3>3, <4>2
      <4>4. taken'[n][q] = taken[n][q]
        <5>1. (at'[m][p] = "half" /\ taken' = taken) \/ at'[m][p] = "done"
          BY <2>3, <4>1
        <5>2. taken' = taken \/ n # m \/ q # p
          BY <3>3, <5>1
        <5>3. taken' = taken \/ taken' = [taken EXCEPT ![m][p] = 0]
          BY <2>3
        <5>4. QED
          BY <1>2, <5>2, <5>3 DEF Made
      <4>5. QED
        BY <1>1, <2>1, <3>3, <4>3, <4>4
    <3>4. QED
      BY <1>1, <2>1, <3>1, <3>2, <3>3 DEF OrderInv
  <2>4. QED
    BY <1>9, Sendings, <2>2, <2>3
<1>10. ASSUME NEW m \in Calls, SendSum(m)
      PROVE  OrderInv'
  <2>1. /\ UNCHANGED <<kind, main, unlisted, reads, overlap>>
        /\ at' = [at EXCEPT ![m] = [q \in Parts |-> "done"]]
        /\ last' = taken[m]
        /\ \A n \in Calls \ {m} : taken'[n] = taken[n]
    BY <1>10 DEF SendSum, host, TypeOK
  <2>2. \A q \in Parts : last'[q] <= reads'[q]
    BY <1>2, <2>1 DEF Made
  <2>3. /\ \A n \in Calls \ {m} : at'[n] = at[n] /\ Underway(n)' = Underway(n)
        /\ \A q \in Parts : at'[m][q] = "done"
        /\ Underway(m)' = {}
    BY <2>1 DEF Underway, TypeOK
  <2>4. kind.how # "detached" => \A n \in Calls : Ended(n)'
    BY <1>1, <2>1, <2>3
  <2>5. Orderly' => \A n \in Calls, q \in Parts : Newest(n, q)'
    BY <1>1, <2>1, <2>3
  <2>6. QED
    BY <1>1, <2>1, <2>2, <2>4, <2>5 DEF OrderInv
<1>11. ASSUME NEW m \in Calls, Return(m)
      PROVE  OrderInv'
  <2>1. /\ UNCHANGED <<kind, unlisted, at, taken, reads, last, overlap>>
        /\ main' = [main EXCEPT ![m] = "returned"] /\ MayReturn(m)
    BY <1>11 DEF Return, host, told
  <2>2. \A n \in Calls : main'[n] = IF n = m THEN "returned" ELSE main[n]
    BY <2>1 DEF TypeOK
  <2>3. kind.how # "detached" => unlisted[m] = {} /\ Underway(m) = {}
    <3>1. CASE kind.how = "waited"
      <4>1. wg[m] = 0
        BY <2>1, <3>1 DEF MayReturn
      <4>2. Underway(m) = {}
        BY <3>1, <4>1, Counts
      <4>3. unlisted[m] = {}
        BY <3>1, Kinds DEF KindFacts, TypeOK, BeginInv
      <4>4. QED
        BY <4>2, <4>3
    <3>2. CASE kind.how = "turn"
      BY <2>1, <3>2 DEF MayReturn, Settled, Underway, InHand, Pending
    <3>3. QED
      BY <3>1, <3>2, Kinds DEF KindFacts, TypeOK
  <2>4. kind.how # "detached" => \A n \in Calls : Ended(n)'
    BY <1>1, <2>1, <2>2, <2>3 DEF Underway
  <2>5. Orderly' => \A n \in Calls, q \in Parts : Newest(n, q)'
    BY <1>1, <2>1
  <2>6. QED
    BY <1>1, <2>1, <2>2, <2>4, <2>5 DEF OrderInv
<1>12. CASE \E p \in Parts : Change(p)
  BY <1>4, <1>12 DEF Change, host
<1>13. QED
  BY <1>4, <1>5, <1>6, <1>8, <1>9, <1>10, <1>11, <1>12 DEF Next, vars

\* A reading panics only if its part is not up or its name is cut short.
LEMMA CrashStep ==
  IInv /\ [Next]_vars => SteadyHostsDoNotCrash'
<1> SUFFICES ASSUME IInv, [Next]_vars, crashed'
             PROVE  SteadyHostsDoNotCrash'
  BY DEF SteadyHostsDoNotCrash
<1> USE DEF IInv
<1>1. CASE crashed
  <2>1. UNCHANGED vars
    BY <1>1 DEF Next, Change, Begin, List, Read, Send, SendSum, Return
  <2>2. QED
    BY <2>1, <1>1 DEF vars, SteadyHostsDoNotCrash
<1>2. ASSUME ~crashed, NEW m \in Calls, NEW p \in Parts, Read(m, p)
      PROVE  SteadyHostsDoNotCrash'
  <2>1. UNCHANGED <<kind, short, steady>> /\ at[m][p] \in {"listed", "between"}
    BY <1>2, Readings
  <2>2. ~Got(m, p) /\ ~Missed(m, p)
    BY <1>2 DEF Got, Missed
  <2>3. TooShort(p, "before") \/ Panics(p) \/ (~Readable(p) /\ ErrorPanics)
    BY <1>2, <2>2 DEF Read, Panicked
  <2>4. at' = at
    BY <1>2, <2>2 DEF Read, Panicked
  <2>5. CASE TooShort(p, "before")
    BY <2>1, <2>5 DEF TooShort, SteadyHostsDoNotCrash
  <2>6. CASE world[p] # "up" /\ (kind.sum \/ kind.fields)
    <3>1. at'[m][p] # "unknown"
      BY <2>1, <2>4
    <3>2. p \notin steady[m]
      BY <2>6 DEF SteadyInv
    <3>3. QED
      BY <2>1, <2>6, <3>1, <3>2 DEF SteadyHostsDoNotCrash
  <2>7. CASE Panics(p)
    BY <2>6, <2>7 DEF Panics
  <2>8. CASE ~Readable(p) /\ ErrorPanics
    <3>1. world[p] # "up"
      BY <2>8 DEF Readable
    <3>2. kind.parts = "file" \/ kind.sum
      BY <2>8, Kinds DEF KindFacts, TypeOK, ErrorPanics
    <3>3. kind.parts # "file"
      <4>1. kind.parts = "file" => p \in Named
        BY <2>1 DEF BeginInv
      <4>2. QED
        BY <3>1, <4>1 DEF HostInv
    <3>4. QED
      BY <2>6, <3>1, <3>2, <3>3
  <2>9. QED
    BY <2>3, <2>5, <2>7, <2>8
<1>3. ASSUME ~crashed, NEW m \in Calls, NEW p \in Parts, Send(m, p)
      PROVE  SteadyHostsDoNotCrash'
  BY <1>3, Sendings DEF SteadyHostsDoNotCrash
<1>4. CASE ~crashed /\ \E m \in Calls : Begin(m) \/ SendSum(m) \/ Return(m)
  BY <1>4 DEF Begin, SendSum, Return
<1>5. CASE ~crashed /\ \E p \in Parts : Change(p)
  BY <1>5 DEF Change
<1>6. CASE ~crashed /\ \E m \in Calls, d \in Dirs : List(m, d)
  BY <1>6 DEF List
<1>7. CASE ~crashed /\ UNCHANGED vars
  BY <1>7 DEF vars
<1>8. QED
  BY <1>1, <1>2, <1>3, <1>4, <1>5, <1>6, <1>7 DEF Next

\* The invariant holds before the first measurement.
LEMMA InitIInv == Init => IInv
<1> SUFFICES ASSUME Init
             PROVE  IInv
  OBVIOUS
<1>1. kind \in Instruments /\ KindFacts
  BY Kinds DEF Init
<1>2. TypeOK
  <2>1. short \in SUBSET Parts
    BY DEF Init
  <2>2. home \in [Parts -> Dirs]
    BY MeasurementsAssumption DEF Init
  <2>3. world \in [Parts -> {"absent", "up", "bare", "gone"}]
    BY DEF Init
  <2>4. changes \in 0 .. MaxChanges
    BY MeasurementsAssumption DEF Init
  <2>5. /\ main \in [Calls -> {"new", "running", "returned"}]
        /\ unlisted \in [Calls -> SUBSET Dirs]
        /\ at \in [Calls -> [Parts -> {"unknown", "listed", "between", "read", "half",
                                      "done", "failed"}]]
        /\ steady \in [Calls -> SUBSET Parts]
    BY DEF Init
  <2>6. /\ wg \in [Calls -> Nat] /\ Made
    BY DEF Init, Made
  <2>7. overlap \in BOOLEAN /\ crashed \in BOOLEAN
    BY DEF Init
  <2>8. QED
    BY <1>1, <2>1, <2>2, <2>3, <2>4, <2>5, <2>6, <2>7 DEF TypeOK, Made
<1>3. HostInv
  <2>1. kind.parts = "folder" => home = [p \in Parts |-> 1]
    BY DEF Init
  <2>2. kind.parts \in {"file", "device"} => \A p \in Parts \ Named : world[p] = "absent"
    BY DEF Init
  <2>3. kind.parts = "file" => \A p \in Parts \cap Named : world[p] = "up"
    BY DEF Init
  <2>4. QED
    BY <2>1, <2>2, <2>3 DEF HostInv
<1>4. BeginInv
  <2>1. \A m \in Calls : unlisted[m] = {} /\ \A p \in Parts : at[m][p] = "unknown"
    BY DEF Init
  <2>2. QED
    BY <2>1 DEF BeginInv
<1>5. SteadyInv
  BY DEF Init, SteadyInv
<1>6. \A m \in Calls : Underway(m) = {}
  BY DEF Init, Underway
<1>7. WaitInv
  <2>1. \A m \in Calls : Cardinality(Underway(m)) = 0 /\ wg[m] = 0
    BY <1>6, FS_EmptySet DEF Init
  <2>2. QED
    BY <2>1 DEF WaitInv
<1>8. OrderInv
  <2>1. /\ \A p \in Parts : last[p] = 0 /\ reads[p] = 0
        /\ \A m \in Calls : main[m] = "new" /\ \A p \in Parts : at[m][p] = "unknown"
    BY DEF Init
  <2>2. QED
    BY <1>6, <2>1 DEF OrderInv
<1>9. SteadyHostsDoNotCrash
  BY DEF Init, SteadyHostsDoNotCrash
<1>10. QED
  BY <1>2, <1>3, <1>4, <1>5, <1>7, <1>8, <1>9 DEF IInv

\* The invariant holds throughout.
LEMMA Inductive == Spec => []IInv
<1>1. IInv /\ [Next]_vars => IInv'
  BY TypeStep, HostStep, BeginStep, SteadyStep, WaitStep, OrderStep, CrashStep DEF IInv
<1>2. QED
  BY <1>1, InitIInv, PTL DEF Spec

-----------------------------------------------------------------------------

\* The state has its type; no wait group counts below zero, which would panic.
THEOREM TypeCorrect == Spec => []TypeOK
<1>1. IInv => TypeOK
  BY DEF IInv
<1>2. QED
  BY <1>1, Inductive, PTL

\* Whatever happens to other parts meanwhile, a part that has been there since
\* a measurement began is reported by it (instrument.go:207, 249, 370, 403, 490).
THEOREM SteadyReported == Spec => []SteadyPartsAreReported
<1>1. IInv => SteadyPartsAreReported
  <2> SUFFICES ASSUME IInv, NEW m \in Calls, Settled(m), NEW p \in steady[m]
               PROVE  p \in Reported(m)
    BY DEF SteadyPartsAreReported
  <2>1. p \in Parts /\ at[m][p] \in {"unknown", "listed", "between", "read", "half",
                                    "done", "failed"}
    BY DEF IInv, TypeOK
  <2>2. at[m][p] \notin {"unknown", "failed"}
    BY DEF IInv, SteadyInv, Settled
  <2>3. at[m][p] \notin {"listed", "between", "read", "half"}
    BY <2>1 DEF Settled, InHand, Pending
  <2>4. QED
    BY <2>1, <2>2, <2>3 DEF Reported
<1>2. QED
  BY <1>1, Inductive, PTL

\* What it takes for a measurement to end the daemon: a name too short to be cut,
\* or a part that has gone or has no fields, in an instrument that cannot do
\* without (instrument.go:152, 371, 400, 842; sysparse.go:98-112, 143-144).
THEOREM SteadyHostsLive == Spec => []SteadyHostsDoNotCrash
<1>1. IInv => SteadyHostsDoNotCrash
  BY DEF IInv
<1>2. QED
  BY <1>1, Inductive, PTL

\* Values of a part are put in the order in which they were read, unless
\* measurements overlap or their goroutines outlive them (ticker.go:62).
THEOREM Ordered == Spec => ReportsKeepOrder
<1>1. ASSUME IInv, [Next]_vars, NEW p \in Parts, last'[p] < last[p]
      PROVE  overlap \/ kind.how = "detached"
  <2>1. /\ last \in [Parts -> Nat] /\ reads \in [Parts -> Nat]
        /\ \A q \in Parts : last[q] <= reads[q]
    BY <1>1 DEF IInv, TypeOK, OrderInv
  <2>2. last' # last
    BY <1>1, <2>1
  <2>3. ASSUME NEW m \in Calls, at[m][p] \in {"read", "half"}, last'[p] = taken[m][p]
        PROVE  overlap \/ kind.how = "detached"
    BY <1>1, <2>1, <2>3 DEF IInv, OrderInv
  <2>4. ASSUME NEW m \in Calls, NEW q \in Parts, Send(m, q)
        PROVE  overlap \/ kind.how = "detached"
    <3>1. at[m][q] \in {"read", "half"} /\ last' = [last EXCEPT ![q] = taken[m][q]]
      BY <1>1, <2>2, <2>4, Sendings DEF IInv
    <3>2. CASE q = p
      BY <2>1, <2>3, <3>1, <3>2
    <3>3. CASE q # p
      BY <1>1, <2>1, <3>1, <3>3
    <3>4. QED
      BY <3>2, <3>3
  <2>5. CASE \E m \in Calls : SendSum(m)
    BY <2>3, <2>5 DEF SendSum
  <2>6. CASE \/ \E q \in Parts : Change(q)
             \/ \E m \in Calls : Begin(m) \/ Return(m)
    BY <2>2, <2>6 DEF Change, Begin, Return, told
  <2>7. CASE \E m \in Calls, d \in Dirs : List(m, d)
    BY <2>2, <2>7 DEF List, told
  <2>8. CASE \E m \in Calls, q \in Parts : Read(m, q)
    BY <2>2, <2>8 DEF Read, told
  <2>9. QED
    BY <1>1, <2>2, <2>4, <2>5, <2>6, <2>7, <2>8 DEF Next, vars
<1>2. IInv /\ [Next]_vars =>
        [\A p \in Parts : last'[p] < last[p] => overlap \/ kind.how = "detached"]_vars
  BY <1>1
<1>3. QED
  BY <1>2, Inductive, PTL DEF Spec, ReportsKeepOrder

-----------------------------------------------------------------------------
(* What the wait group counts, exactly.                                      *)

\* The parts whose goroutine has not called wg.Done.
Open(m) == Underway(m) \cup IF kind.lost = "hang" THEN Failed(m) ELSE {}

CountInv ==
  kind.how = "waited" => \A m \in Calls :
    /\ wg[m] = Cardinality(Open(m))
    /\ main[m] = "returned" => wg[m] = 0

\* The count is zero when no part is open; closing one takes one off.
LEMMA OpenCounts ==
  ASSUME NEW m \in Calls
  PROVE  /\ IsFiniteSet(Open(m)) /\ Cardinality(Open(m)) \in Nat
         /\ Cardinality(Open(m)) = 0 <=> Open(m) = {}
         /\ \A p \in Open(m) : Cardinality(Open(m) \ {p}) = Cardinality(Open(m)) - 1
<1>1. Open(m) \subseteq Parts
  BY DEF Open, Underway, Failed
<1>2. IsFiniteSet(Open(m))
  BY <1>1, MeasurementsAssumption, FS_Subset
<1>3. QED
  BY <1>2, FS_CardinalityType, FS_EmptySet, FS_RemoveElement

\* A step of one measurement that closes p, or none of its parts.
LEMMA Closes ==
  ASSUME TypeOK, CountInv, kind.how = "waited", kind' = kind, main' = main,
         NEW m \in Calls, main[m] = "returned" => wg'[m] = wg[m],
         \A n \in Calls \ {m} : wg'[n] = wg[n] /\ Open(n)' = Open(n),
         \/ wg'[m] = wg[m] /\ Open(m)' = Open(m)
         \/ \E p \in Open(m) : wg'[m] = wg[m] - 1 /\ Open(m)' = Open(m) \ {p}
  PROVE  CountInv'
  BY OpenCounts DEF CountInv

\* Every goroutine takes itself off the count but those the network instrument
\* gives up.
LEMMA CountStep == IInv /\ CountInv /\ [Next]_vars => CountInv'
<1> SUFFICES ASSUME IInv, CountInv, [Next]_vars, kind.how = "waited", kind' = kind
             PROVE  CountInv'
  <2>1. [Next]_vars => kind' = kind
    BY DEF Next, vars, Change, Begin, List, Read, Send, SendSum, Return, host
  <2>2. QED
    BY <2>1 DEF CountInv
<1>1. TypeOK /\ KindFacts
  BY Kinds DEF IInv, TypeOK
<1>2. at \in [Calls -> [Parts -> {"unknown", "listed", "between", "read", "half",
                                 "done", "failed"}]]
  BY <1>1 DEF TypeOK
<1>3. Named = Parts /\ ~kind.sum /\ kind.lost # "panic"
  BY <1>1 DEF KindFacts, Named
<1>4. ASSUME UNCHANGED <<main, wg, at>>
      PROVE  CountInv'
  BY <1>4 DEF CountInv, Open, Underway, Failed
<1>5. ASSUME NEW m \in Calls, Begin(m)
      PROVE  CountInv'
  <2>1. /\ main' = [main EXCEPT ![m] = "running"]
        /\ wg' = [wg EXCEPT ![m] = Cardinality(Parts)]
        /\ at' = [at EXCEPT ![m] = [p \in Parts |-> "listed"]]
    BY <1>3, <1>5 DEF Begin, Added
  <2>2. Open(m)' = Parts /\ \A n \in Calls \ {m} : Open(n)' = Open(n)
    BY <1>2, <2>1 DEF Open, Underway, Failed
  <2>3. /\ wg'[m] = Cardinality(Parts) /\ main'[m] = "running"
        /\ \A n \in Calls \ {m} : wg'[n] = wg[n] /\ main'[n] = main[n]
    BY <1>1, <2>1 DEF TypeOK
  <2>4. QED
    BY <2>2, <2>3 DEF CountInv
<1>6. ASSUME NEW m \in Calls, NEW p \in Parts, p \in Underway(m), main' = main,
             NEW s \in {"between", "read", "half", "done", "failed"},
             at' = [at EXCEPT ![m][p] = s],
             IF s = "done" \/ (s = "failed" /\ kind.lost # "hang")
             THEN wg' = [wg EXCEPT ![m] = @ - 1]
             ELSE wg' = wg
      PROVE  CountInv'
  <2>1. \A n \in Calls, q \in Parts : at'[n][q] = IF n = m /\ q = p THEN s ELSE at[n][q]
    BY <1>2, <1>6
  <2>2. \A n \in Calls \ {m} : wg'[n] = wg[n] /\ Open(n)' = Open(n)
    BY <1>1, <1>6, <2>1 DEF Open, Underway, Failed, TypeOK
  <2>3. p \in Open(m)
    BY <1>6 DEF Open
  <2>4. \/ wg'[m] = wg[m] /\ Open(m)' = Open(m)
        \/ wg'[m] = wg[m] - 1 /\ Open(m)' = Open(m) \ {p}
    <3>1. CASE s \in {"between", "read", "half"}
      BY <1>6, <2>1, <3>1 DEF Open, Underway, Failed
    <3>2. CASE s = "failed" /\ kind.lost = "hang"
      BY <1>6, <2>1, <3>2 DEF Open, Underway, Failed
    <3>3. CASE s = "done" \/ (s = "failed" /\ kind.lost # "hang")
      <4>1. wg'[m] = wg[m] - 1
        BY <1>1, <1>6, <3>3 DEF TypeOK
      <4>2. Open(m)' = Open(m) \ {p}
        BY <1>6, <2>1, <3>3 DEF Open, Underway, Failed
      <4>3. QED
        BY <4>1, <4>2
    <3>4. QED
      BY <1>6, <3>1, <3>2, <3>3
  <2>5. main[m] # "returned"
    BY <2>3, OpenCounts DEF CountInv
  <2>6. QED
    BY <1>1, <1>6, <2>2, <2>3, <2>4, <2>5, Closes
<1>7. ASSUME NEW m \in Calls, NEW p \in Parts, Read(m, p)
      PROVE  CountInv'
  <2>1. p \in Underway(m) /\ main' = main
    BY <1>7 DEF Read, Underway
  <2>2. CASE Got(m, p)
    <3>1. wg' = wg /\ \E s \in {"between", "read"} : at' = [at EXCEPT ![m][p] = s]
      BY <2>2 DEF Got
    <3>2. QED
      BY <1>6, <2>1, <3>1
  <2>3. CASE Missed(m, p)
    <3>1. /\ at' = [at EXCEPT ![m][p] = "failed"]
          /\ IF kind.lost # "hang" THEN wg' = [wg EXCEPT ![m] = @ - 1] ELSE wg' = wg
      BY <2>3 DEF Missed, SkipOnError, DoneOnError
    <3>2. QED
      BY <1>6, <2>1, <3>1
  <2>4. CASE Panicked(m, p)
    BY <1>4, <2>1, <2>4 DEF Panicked
  <2>5. QED
    BY <1>7, <2>2, <2>3, <2>4 DEF Read
<1>8. ASSUME NEW m \in Calls, NEW p \in Parts, Send(m, p)
      PROVE  CountInv'
  <2>1. p \in Underway(m) /\ main' = main
    BY <1>8 DEF Send, Underway
  <2>2. \/ UNCHANGED <<at, wg>>
        \/ at' = [at EXCEPT ![m][p] = "half"] /\ wg' = wg
        \/ at' = [at EXCEPT ![m][p] = "done"] /\ wg' = [wg EXCEPT ![m] = @ - 1]
    BY <1>1, <1>8, Sendings
  <2>3. QED
    BY <1>4, <1>6, <2>1, <2>2
<1>9. ASSUME NEW m \in Calls, Return(m)
      PROVE  CountInv'
  <2>1. /\ wg[m] = 0 /\ main' = [main EXCEPT ![m] = "returned"] /\ UNCHANGED <<wg, at>>
    BY <1>9 DEF Return, MayReturn
  <2>2. \A n \in Calls : Open(n)' = Open(n)
    BY <2>1 DEF Open, Underway, Failed
  <2>3. \A n \in Calls \ {m} : main'[n] = main[n]
    BY <2>1
  <2>4. QED
    BY <2>1, <2>2, <2>3 DEF CountInv
<1>10. ASSUME NEW m \in Calls, NEW d \in Dirs, List(m, d)
       PROVE  FALSE
  BY <1>1, <1>10 DEF List, IInv, BeginInv, KindFacts
<1>11. ASSUME NEW p \in Parts, Change(p)
       PROVE  CountInv'
  BY <1>4, <1>11 DEF Change
<1>12. CASE \E m \in Calls : SendSum(m)
  BY <1>3, <1>12 DEF SendSum
<1>13. CASE UNCHANGED vars
  BY <1>4, <1>13 DEF vars
<1>14. QED
  BY <1>5, <1>7, <1>8, <1>9, <1>10, <1>11, <1>12, <1>13 DEF Next

\* Waiting for goroutines takes as long as the last of them and no longer, but
\* for a device that the network instrument could not read: the safety half of
\* what MeasurementsReturn says (instrument.go:205-230, 244-271).
THEOREM Waits == Spec => []WaitsForItsGoroutines
<1>1. Init => CountInv
  <2> SUFFICES ASSUME Init, NEW m \in Calls
               PROVE  wg[m] = Cardinality(Open(m)) /\ main[m] # "returned"
    BY DEF CountInv
  <2>1. wg[m] = 0 /\ Open(m) = {} /\ main[m] = "new"
    BY DEF Init, Open, Underway, Failed
  <2>2. QED
    BY <2>1, OpenCounts
<1>2. IInv /\ CountInv => WaitsForItsGoroutines
  <2> SUFFICES ASSUME IInv, CountInv, kind.how = "waited",
                      NEW m \in Calls, main[m] # "new"
               PROVE  /\ MayReturn(m) <=>
                           Settled(m) /\ ~(kind = NetworkDataRate /\ Failed(m) # {})
                      /\ main[m] = "returned" => MayReturn(m)
    BY DEF WaitsForItsGoroutines
  <2>1. MayReturn(m) <=> wg[m] = 0
    BY DEF MayReturn
  <2>2. wg[m] = 0 <=> Open(m) = {}
    BY OpenCounts DEF CountInv
  <2>3. KindFacts
    BY Kinds DEF IInv, TypeOK
  <2>4. Settled(m) <=> Underway(m) = {}
    BY <2>3 DEF Settled, IInv, BeginInv, KindFacts, Underway, InHand, Pending
  <2>5. QED
    BY <2>1, <2>2, <2>3, <2>4 DEF KindFacts, Open, CountInv
<1>3. QED
  BY <1>1, <1>2, CountStep, Inductive, PTL DEF Spec
=============================================================================
