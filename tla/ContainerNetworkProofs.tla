----------------------- MODULE ContainerNetworkProofs -----------------------
(* What is proved about ContainerNetwork, for any number of containers,      *)
(* process ids and concurrent measurements, and any number of faults.        *)
EXTENDS ContainerNetwork, TLAPS

-----------------------------------------------------------------------------
(* Types.                                                                    *)

\* A step of a measurement or of a container keeps every variable in its type.
LEMMA TypeStep == TypeOK /\ [Next]_vars => TypeOK'
<1> SUFFICES ASSUME TypeOK, [Next]_vars PROVE TypeOK'
  OBVIOUS
<1> USE ContainerNetworkAssumption DEF TypeOK, Maps, Labels
<1>1. ASSUME NEW m \in Calls, List(m) PROVE TypeOK'
  BY <1>1 DEF List
<1>2. ASSUME NEW m \in Calls, NEW c \in Containers, Access(m, c) PROVE TypeOK'
  <2>1. View(m) \in Maps
    <3>1. CASE own[m] = Shared
      BY <3>1 DEF View
    <3>2. CASE own[m] # Shared
      BY <3>2 DEF View
    <3> QED
      BY <3>1, <3>2
  <2>2. ASSUME NEW miss \in {"scan", "idle"}, Find(m, c, miss) PROVE TypeOK'
    BY <2>1, <2>2 DEF Find
  <2>3. CASE Look(m, c)
    BY <2>2, <2>3 DEF Look
  <2>4. CASE LookAgain(m, c)
    BY <2>2, <2>4 DEF LookAgain
  <2>5. CASE Refresh(m, c)
    BY <2>5 DEF Refresh, Go, At, ContainerProcessIds
  <2>6. CASE Stats(m, c)
    BY <2>6 DEF Stats, Go, At
  <2>7. CASE Delete(m, c)
    <3>1. /\ at' \in [Calls -> [Containers -> Labels]]
          /\ pid' \in [Calls -> Maps]
          /\ \A n \in Calls, d \in Containers :
               at'[n][d] \in {"stats", "delete", "put"} => pid'[n][d] # NoPid
      BY <2>7 DEF Delete, Go, At
    <3>2. CASE own[m] = Shared
      <4>1. pids' \in Maps /\ own' = own
        BY <2>7, <3>2 DEF Delete
      <4> QED
        BY <2>7, <3>1, <4>1 DEF Delete
    <3>3. CASE own[m] # Shared
      <4>1. own[m] \in Maps /\ kind # "docker"
        BY <3>3
      <4>2. pids' = pids /\ own' = [own EXCEPT ![m] = [own[m] EXCEPT ![c] = NoPid]]
        BY <2>7, <3>3 DEF Delete
      <4>3. [own[m] EXCEPT ![c] = NoPid] \in Maps
        BY <4>1
      <4>4. own' \in [Calls -> Maps \cup {Shared}]
        BY <4>2, <4>3
      <4> QED
        BY <2>7, <3>1, <4>1, <4>2, <4>4 DEF Delete
    <3> QED
      BY <3>2, <3>3
  <2> QED
    BY <1>2, <2>3, <2>4, <2>5, <2>6, <2>7 DEF Access
<1>3. ASSUME NEW m \in Calls, NEW c \in Containers, Put(m, c) PROVE TypeOK'
  BY <1>3 DEF Put, Go, At
<1>4. ASSUME NEW m \in Calls, NEW c \in Containers, Noticed(m, c) PROVE TypeOK'
  BY <1>4 DEF Noticed
<1>5. ASSUME NEW m \in Calls, NEW c \in Containers, Skip(m, c) PROVE TypeOK'
  BY <1>5 DEF Skip, Go, At
<1>6. ASSUME NEW c \in Containers, Restart(c) PROVE TypeOK'
  BY <1>6 DEF Restart
<1>7. CASE HostProcess
  BY <1>7 DEF HostProcess
<1>8. CASE UNCHANGED vars
  BY <1>8 DEF vars
<1> QED
  BY <1>1, <1>2, <1>3, <1>4, <1>5, <1>6, <1>7, <1>8 DEF Next

\* The variables of the instruments and of the containers keep their types.
THEOREM TypeCorrect == Spec => []TypeOK
<1>1. Init => TypeOK
  <2> SUFFICES ASSUME Init PROVE TypeOK
    OBVIOUS
  <2> USE DEF Init, Maps
  <2>1. process \in Maps /\ pids \in Maps
    BY ContainerNetworkAssumption
  <2>2. /\ at \in [Calls -> [Containers -> Labels]] /\ pid \in [Calls -> Maps]
        /\ own \in [Calls -> Maps \cup {Shared}]
    BY DEF Labels
  <2>3. faults \in 0 .. MaxFaults
    BY ContainerNetworkAssumption
  <2>4. owners \in [Pids -> SUBSET Containers]
    OBVIOUS
  <2> QED
    BY <2>1, <2>2, <2>3, <2>4 DEF TypeOK
<1> QED
  BY <1>1, TypeStep, PTL DEF Spec

-----------------------------------------------------------------------------
(* A measurement by itself.                                                  *)

\* Two measurements under way at once have overlapped from the later's start,
\* and the runtime has found nothing in a Docker instrument without that.
LoneInv == /\ \A m, n \in Calls : m # n /\ Busy(m) /\ Busy(n) => overlap
           /\ LoneCallsAreSafe

\* Only List makes a measurement busy, for all other steps go on with a
\* container that the measurement is already at.
LEMMA OnlyListBegins ==
  ASSUME TypeOK, [Next]_vars, NEW n \in Calls, ~List(n), Busy(n)'
  PROVE  Busy(n)
<1>1. PICK d \in Containers : at'[n][d] # "idle"
  BY DEF Busy
<1> SUFFICES ASSUME at[n][d] = "idle" PROVE FALSE
  BY DEF Busy
<1> USE <1>1 DEF TypeOK
<1>2. ASSUME NEW m \in Calls, List(m) PROVE FALSE
  <2>1. m # n
    BY <1>2
  <2> QED
    BY <1>2, <2>1 DEF List
<1>3. ASSUME NEW m \in Calls, NEW c \in Containers, at[m][c] # "idle",
             NEW label, at' = [at EXCEPT ![m][c] = label]
      PROVE  FALSE
  BY <1>3
<1>4. ASSUME NEW m \in Calls, NEW c \in Containers, Access(m, c) PROVE FALSE
  BY <1>3, <1>4 DEF Access, Look, LookAgain, Refresh, Stats, Delete, At, Find, Go
<1>5. ASSUME NEW m \in Calls, NEW c \in Containers, Put(m, c) PROVE FALSE
  BY <1>3, <1>5 DEF Put, At, Go
<1>6. ASSUME NEW m \in Calls, NEW c \in Containers, Noticed(m, c) PROVE FALSE
  BY <1>6 DEF Noticed
<1>7. ASSUME NEW m \in Calls, NEW c \in Containers, Skip(m, c) PROVE FALSE
  BY <1>3, <1>7 DEF Skip, At, Go
<1>8. ASSUME NEW c \in Containers, Restart(c) PROVE FALSE
  BY <1>8 DEF Restart
<1>9. CASE HostProcess
  BY <1>9 DEF HostProcess
<1>10. CASE UNCHANGED vars
  BY <1>10 DEF vars
<1> QED
  BY <1>2, <1>4, <1>5, <1>6, <1>7, <1>8, <1>9, <1>10 DEF Next

\* In a Docker instrument a delete meets another access only if two
\* measurements are at work: one of them takes its containers in turn.
LEMMA WritersMeetInOverlap ==
  ASSUME TypeOK, LoneInv, NEW m \in Calls, NEW c \in Containers, Noticed(m, c)
  PROVE  kind = "kubernetes" \/ overlap
<1> SUFFICES ASSUME kind = "docker" PROVE overlap
  BY DEF TypeOK
<1>1. PICK n \in Calls, d \in Containers :
        <<n, d>> # <<m, c>> /\ at[n][d] = "delete"
  BY DEF Noticed, Writer
<1>2. n # m
  <2> SUFFICES ASSUME n = m PROVE FALSE
    OBVIOUS
  <2>1. d \in Containers \ {c}
    BY <1>1
  <2>2. at[m][d] \in {"idle", "look"}
    BY <2>1 DEF Noticed, Turn
  <2> QED
    BY <1>1, <2>2
<1>3. Busy(n) /\ Busy(m)
  BY <1>1 DEF Busy, Noticed
<1> QED
  BY <1>2, <1>3 DEF LoneInv

\* A step keeps what is said of overlapping measurements.
LEMMA LoneStep == TypeOK /\ LoneInv /\ [Next]_vars => LoneInv'
<1> SUFFICES ASSUME TypeOK, LoneInv, [Next]_vars PROVE LoneInv'
  OBVIOUS
<1>1. ASSUME NEW m \in Calls, List(m) PROVE LoneInv'
  <2>1. ASSUME NEW n \in Calls, NEW k \in Calls, n # k, Busy(n)', Busy(k)'
        PROVE  overlap'
    <3>1. ASSUME NEW l \in Calls, l # m, Busy(l)' PROVE Busy(l)
      BY <1>1, <3>1 DEF List, Busy, TypeOK
    <3> QED
      BY <1>1, <2>1, <3>1 DEF List, LoneInv
  <2>2. LoneCallsAreSafe'
    BY <1>1 DEF List, LoneInv, LoneCallsAreSafe
  <2> QED
    BY <2>1, <2>2 DEF LoneInv
<1>2. CASE \A m \in Calls : ~List(m)
  <2>1. overlap' = overlap /\ kind' = kind
    BY <1>2 DEF Next, Access, Look, Find, Refresh, LookAgain, Stats, Delete,
                Put, Noticed, Skip, Restart, HostProcess, vars
  <2>2. ASSUME NEW n \in Calls, NEW k \in Calls, n # k, Busy(n)', Busy(k)'
        PROVE  overlap'
    <3>1. Busy(n) /\ Busy(k)
      BY <1>2, <2>2, OnlyListBegins
    <3> QED
      BY <2>1, <2>2, <3>1 DEF LoneInv
  <2>3. LoneCallsAreSafe'
    <3>1. ASSUME NEW m \in Calls, NEW c \in Containers, Noticed(m, c)
          PROVE  LoneCallsAreSafe'
      BY <2>1, <3>1, WritersMeetInOverlap DEF LoneCallsAreSafe
    <3>2. CASE crashed' = crashed
      BY <2>1, <3>2 DEF LoneInv, LoneCallsAreSafe
    <3>3. \/ crashed' = crashed
          \/ \E m \in Calls, c \in Containers : Noticed(m, c)
      BY DEF Next, List, Access, Look, Find, Refresh, LookAgain, Stats, Delete,
             Put, Skip, Restart, HostProcess, vars
    <3> QED
      BY <3>1, <3>2, <3>3
  <2> QED
    BY <2>2, <2>3 DEF LoneInv
<1> QED
  BY <1>1, <1>2

-----------------------------------------------------------------------------
(* Whose process id it is.                                                   *)

\* Where a map has a process id for a container, it is or was the container's.
Belongs(map) == \A c \in Containers : map[c] # NoPid => c \in owners[map[c]]

\* So it is in every map there is, and for every process id found in one.
OwnersInv == /\ Belongs(process) /\ Belongs(pids)
             /\ \A m \in Calls : Belongs(pid[m])
             /\ \A m \in Calls : own[m] # Shared => Belongs(own[m])

\* Maps are only written from the processes there are and by taking an entry
\* out, and owners only grow.
LEMMA OwnersStep == TypeOK /\ OwnersInv /\ [Next]_vars => OwnersInv'
<1> SUFFICES ASSUME TypeOK, OwnersInv, [Next]_vars PROVE OwnersInv'
  OBVIOUS
<1> USE DEF TypeOK, Maps, OwnersInv, Belongs
<1>1. ASSUME NEW m \in Calls, List(m) PROVE OwnersInv'
  BY <1>1 DEF List
<1>2. ASSUME NEW m \in Calls, NEW c \in Containers, Access(m, c)
      PROVE  OwnersInv'
  <2>1. ASSUME NEW miss, Find(m, c, miss) PROVE OwnersInv'
    BY <2>1 DEF Find, View
  <2>2. CASE Look(m, c)
    BY <2>1, <2>2 DEF Look
  <2>3. CASE LookAgain(m, c)
    BY <2>1, <2>3 DEF LookAgain
  <2>4. CASE Refresh(m, c)
    BY <2>4 DEF Refresh, Go, ContainerProcessIds
  <2>5. CASE Stats(m, c)
    BY <2>5 DEF Stats, Go
  <2>6. CASE Delete(m, c)
    <3>1. \A n \in Calls : Belongs(pid'[n])
      BY <2>6 DEF Delete, Go
    <3>2. Belongs(pids')
      BY <2>6 DEF Delete
    <3>3. \A n \in Calls : own'[n] # Shared => Belongs(own'[n])
      <4>1. CASE own[m] = Shared
        BY <2>6, <4>1 DEF Delete
      <4>2. CASE own[m] # Shared
        <5>1. own[m] \in Maps /\ own' = [own EXCEPT ![m][c] = NoPid]
          BY <2>6, <4>2 DEF Delete
        <5> QED
          BY <4>2, <5>1
      <4> QED
        BY <4>1, <4>2
    <3> QED
      BY <2>6, <3>1, <3>2, <3>3 DEF Delete
  <2> QED
    BY <1>2, <2>2, <2>3, <2>4, <2>5, <2>6 DEF Access
<1>3. ASSUME NEW m \in Calls, NEW c \in Containers, Put(m, c) PROVE OwnersInv'
  BY <1>3 DEF Put, Go
<1>4. ASSUME NEW m \in Calls, NEW c \in Containers, Noticed(m, c)
      PROVE  OwnersInv'
  BY <1>4 DEF Noticed
<1>5. ASSUME NEW m \in Calls, NEW c \in Containers, Skip(m, c) PROVE OwnersInv'
  BY <1>5 DEF Skip, Go
<1>6. ASSUME NEW c \in Containers, Restart(c) PROVE OwnersInv'
  <2>1. \A p \in Pids : owners[p] \subseteq owners'[p]
    BY <1>6 DEF Restart
  <2>2. Belongs(process)'
    BY <1>6, <2>1 DEF Restart
  <2> QED
    BY <1>6, <2>1, <2>2 DEF Restart
<1>7. CASE HostProcess
  BY <1>7 DEF HostProcess
<1>8. CASE UNCHANGED vars
  BY <1>8 DEF vars
<1> QED
  BY <1>1, <1>2, <1>3, <1>4, <1>5, <1>6, <1>7, <1>8 DEF Next

-----------------------------------------------------------------------------
(* The theorems.                                                             *)

\* The inductive invariant.
IInv == TypeOK /\ LoneInv /\ OwnersInv

\* It holds in every state.
THEOREM Invariance == Spec => []IInv
<1>1. Init => LoneInv /\ OwnersInv
  <2> SUFFICES ASSUME Init PROVE LoneInv /\ OwnersInv
    OBVIOUS
  <2>1. LoneInv
    BY DEF Init, LoneInv, LoneCallsAreSafe, Busy
  <2>2. OwnersInv
    BY ContainerNetworkAssumption DEF Init, OwnersInv, Belongs
  <2> QED
    BY <2>1, <2>2
<1>2. TypeOK /\ LoneInv /\ OwnersInv /\ [Next]_vars => (LoneInv /\ OwnersInv)'
  BY LoneStep, OwnersStep
<1> QED
  BY <1>1, <1>2, TypeCorrect, PTL DEF Spec, IInv

\* Docker instruments are safe as long as measurements do not overlap.
THEOREM LoneCalls == Spec => []LoneCallsAreSafe
<1>1. IInv => LoneCallsAreSafe
  BY DEF IInv, LoneInv
<1> QED
  BY <1>1, Invariance, PTL

\* What is reported of a container is its own traffic, or that of a container or
\* of a process of the host which has been given an id the container once had.
THEOREM Attributed == Spec => TrafficIsAttributed
<1>1. ASSUME IInv, [Next]_vars, NEW m \in Calls, NEW c \in Containers,
             at[m][c] = "stats", at'[m][c] = "put"
      PROVE  process[c] = pid[m][c] \/ TakenOver(pid[m][c], c)
  <2> USE <1>1 DEF IInv, TypeOK
  <2>1. Stats(m, c)
    <3>1. ASSUME NEW n \in Calls, NEW d \in Containers, NEW label,
                 at' = [at EXCEPT ![n][d] = label], label # "put"
          PROVE  FALSE
      BY <3>1
    <3>2. ASSUME NEW n \in Calls, NEW d \in Containers, Access(n, d)
          PROVE  Stats(m, c)
      <4>1. Stats(n, d)
        BY <3>1, <3>2 DEF Access, Look, LookAgain, Find, Refresh, Delete, Go
      <4> QED
        BY <4>1 DEF Stats, Go
    <3>3. ASSUME NEW n \in Calls, List(n) PROVE FALSE
      BY <3>3 DEF List, Busy
    <3>4. ASSUME NEW n \in Calls, NEW d \in Containers, Put(n, d) \/ Skip(n, d)
          PROVE  FALSE
      BY <3>1, <3>4 DEF Put, Skip, Go
    <3>5. ASSUME NEW n \in Calls, NEW d \in Containers, Noticed(n, d)
          PROVE  FALSE
      BY <3>5 DEF Noticed
    <3>6. ASSUME NEW d \in Containers, Restart(d) PROVE FALSE
      BY <3>6 DEF Restart
    <3>7. CASE HostProcess
      BY <3>7 DEF HostProcess
    <3>8. CASE UNCHANGED vars
      BY <3>8 DEF vars
    <3> QED
      BY <3>2, <3>3, <3>4, <3>5, <3>6, <3>7, <3>8 DEF Next
  <2>2. pid[m][c] \in Live
    BY <2>1 DEF Stats, Go, Labels
  <2>3. c \in owners[pid[m][c]]
    BY DEF OwnersInv, Belongs
  <2> QED
    BY <2>2, <2>3 DEF TakenOver
<1>2. IInv /\ [Next]_vars =>
        [\A m \in Calls, c \in Containers :
           at[m][c] = "stats" /\ at'[m][c] = "put"
             => process[c] = pid[m][c] \/ TakenOver(pid[m][c], c)]_vars
  BY <1>1
<1> QED
  BY <1>2, Invariance, PTL DEF Spec, TrafficIsAttributed

-----------------------------------------------------------------------------
(* What is looked up and what is taken out.                                  *)

\* Only the container in hand is past the lookup, when calls do not overlap.
LEMMA OneInHand ==
  ASSUME TypeOK, LoneInv, kind = "docker", ~overlap,
         NEW m \in Calls, NEW c \in Containers, at[m][c] # "idle", Turn(m, c),
         NEW n \in Calls, NEW d \in Containers, at[n][d] \in {"stats", "delete"}
  PROVE  n = m /\ d = c
<1>1. Busy(m) /\ Busy(n)
  BY DEF Busy
<1>2. n = m
  BY <1>1 DEF LoneInv
<1> QED
  BY <1>2 DEF Turn

\* So the map is only refreshed when there is nothing in hand.
LEMMA StaleStep ==
  TypeOK /\ LoneInv /\ StaleEntriesAreTheirOwn /\ [Next]_vars => StaleEntriesAreTheirOwn'
<1> SUFFICES ASSUME TypeOK, LoneInv, StaleEntriesAreTheirOwn, [Next]_vars,
                    kind' = "docker", ~overlap',
                    NEW n \in Calls, NEW d \in Containers,
                    at'[n][d] \in {"stats", "delete"}
             PROVE  pids'[d] = pid'[n][d]
  BY DEF StaleEntriesAreTheirOwn
<1>1. kind = "docker" /\ ~overlap
  <2>1. ASSUME NEW m \in Calls, List(m) PROVE kind' = kind /\ ~overlap
    BY <2>1 DEF List
  <2>2. CASE \A m \in Calls : ~List(m)
    BY <2>2 DEF Next, Access, Look, Find, Refresh, LookAgain, Stats, Delete,
                Put, Noticed, Skip, Restart, HostProcess, vars
  <2> QED
    BY <2>1, <2>2
<1>2. at[n][d] \in {"stats", "delete"} => pids[d] = pid[n][d]
  BY <1>1 DEF StaleEntriesAreTheirOwn
<1>3. /\ own[n] = Shared /\ pids \in Maps /\ pid \in [Calls -> Maps]
      /\ at \in [Calls -> [Containers -> Labels]]
  BY <1>1 DEF TypeOK
<1>4. ASSUME NEW m \in Calls, List(m) PROVE pids'[d] = pid'[n][d]
  <2>1. n # m
    BY <1>3, <1>4 DEF List, Labels
  <2> QED
    BY <1>2, <1>3, <1>4, <2>1 DEF List
<1>5. ASSUME NEW m \in Calls, NEW c \in Containers, at[m][c] # "idle", Turn(m, c)
      PROVE  at[n][d] \in {"stats", "delete"} => n = m /\ d = c
  BY <1>1, <1>5, OneInHand
<1>6. ASSUME NEW m \in Calls, NEW c \in Containers, NEW miss \in {"scan", "idle"},
             Find(m, c, miss)
      PROVE  pids'[d] = pid'[n][d]
  <2>1. CASE n = m /\ d = c
    BY <1>3, <1>6, <2>1 DEF Find, View, Maps
  <2>2. CASE ~(n = m /\ d = c)
    <3>1. at'[n][d] = at[n][d] /\ pid'[n][d] = pid[n][d] /\ pids' = pids
      BY <1>3, <1>6, <2>2 DEF Find, Maps
    <3> QED
      BY <1>2, <3>1
  <2> QED
    BY <2>1, <2>2
<1>7. ASSUME NEW m \in Calls, NEW c \in Containers, Refresh(m, c)
      PROVE  pids'[d] = pid'[n][d]
  <2>1. at' = [at EXCEPT ![m][c] = "again"]
    BY <1>7 DEF Refresh, Go
  <2>2. ~(n = m /\ d = c) /\ at'[n][d] = at[n][d]
    BY <1>3, <2>1
  <2> QED
    BY <1>5, <1>7, <2>2 DEF Refresh, At
<1>8. ASSUME NEW m \in Calls, NEW c \in Containers, Stats(m, c)
      PROVE  pids'[d] = pid'[n][d]
  <2>1. CASE n = m /\ d = c
    <3>1. at[m][c] = "stats" /\ pids' = pids
      BY <1>8 DEF Stats, At
    <3>2. pid' = pid
      <4>1. pid[m][c] \in Live => at'[m][c] = "put"
        BY <1>3, <1>8 DEF Stats, Go
      <4> QED
        BY <1>8, <2>1, <4>1 DEF Stats, Go
    <3> QED
      BY <1>2, <2>1, <3>1, <3>2
  <2>2. CASE ~(n = m /\ d = c)
    <3>1. at'[n][d] = at[n][d]
      BY <1>3, <1>8, <2>2 DEF Stats, Go
    <3> QED
      BY <1>5, <1>8, <2>2, <3>1 DEF Stats, At
  <2> QED
    BY <2>1, <2>2
<1>9. ASSUME NEW m \in Calls, NEW c \in Containers,
             Delete(m, c) \/ Put(m, c) \/ Skip(m, c)
      PROVE  pids'[d] = pid'[n][d]
  <2>1. at' = [at EXCEPT ![m][c] = "idle"] /\ at[m][c] # "idle" /\ Turn(m, c)
    BY <1>9 DEF Delete, Put, Skip, Go, At
  <2>2. ~(n = m /\ d = c) /\ at'[n][d] = at[n][d]
    BY <1>3, <2>1
  <2> QED
    BY <1>5, <2>1, <2>2
<1>10. CASE UNCHANGED <<at, pid, pids>>
  BY <1>2, <1>10
<1> QED
  BY <1>4, <1>6, <1>7, <1>8, <1>9, <1>10
  DEF Next, Access, Look, LookAgain, Noticed, Restart, HostProcess, vars

\* However containers restart, a Docker instrument whose measurements do not
\* overlap takes out the entry that has led nowhere and no newer one.
THEOREM StaleEntries == Spec => []StaleEntriesAreTheirOwn
<1>1. Init => StaleEntriesAreTheirOwn
  BY DEF Init, StaleEntriesAreTheirOwn
<1>2. IInv => TypeOK /\ LoneInv
  BY DEF IInv
<1> QED
  BY <1>1, <1>2, StaleStep, Invariance, PTL DEF Spec
=============================================================================
