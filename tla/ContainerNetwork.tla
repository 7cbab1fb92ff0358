-------------------------- MODULE ContainerNetwork --------------------------
(* The docker_cgrp_net and kubernetes_cgrp_net instruments of                *)
(* internal/telemd/instrument.go: measurements that look up the process of   *)
(* each container in a cache of process ids, refresh the cache when they     *)
(* miss, drop an entry when its process is gone, and share all of it without *)
(* a lock.  A ticker starts a measurement whether or not the last one has    *)
(* returned, and one that reports to a stopped reporter does not return.     *)
(*                                                                           *)
(* The four instruments differ in two ways.  Docker's have pointer receivers *)
(* and go through the containers one by one; Kubernetes' have value          *)
(* receivers, so that a refresh is seen by that measurement only, and treat  *)
(* the containers concurrently.  A container has one process; what is put    *)
(* into the telemetry channel is left out, but not that Put may take long.   *)
EXTENDS Integers

CONSTANTS Containers, Pids, NoPid,
          StartPids,   \* the process ids of the containers at the start
          Calls,       \* measurements under way at once
          MaxFaults    \* bound: restarts of containers, processes of the host
                       \* that begin or end, reads and scans that fail

ASSUME ContainerNetworkAssumption ==
  /\ NoPid \notin Pids /\ MaxFaults \in Nat
  /\ StartPids \in [Containers -> Pids]
  /\ \A c, d \in Containers : c # d => StartPids[c] # StartPids[d]

VARIABLES
  kind,      \* "docker" or "kubernetes"
  process,   \* process[c]: the process id of container c, NoPid if it is down
  others,    \* the process ids of processes outside of containers
  pids,      \* the map in the instrument
  own,       \* own[m]: the map in the copy of the instrument that m has
  at,        \* at[m][c]: what measurement m does about container c
  pid,       \* pid[m][c]: the process id it has found
  crashed,   \* the Go runtime has ended the process
  faults,
  owners,    \* history: the containers a process id has belonged to
  overlap    \* history: a measurement began before another had returned

vars == <<kind, process, others, pids, own, at, pid, crashed, faults, owners, overlap>>

Maps   == [Containers -> Pids \cup {NoPid}]
Shared == [c \in {} |-> NoPid]       \* own[m] still is the instrument's map
Labels == {"idle", "look", "scan", "again", "stats", "delete", "put"}

\* Which map does measurement m work on?
View(m) == IF own[m] = Shared THEN pids ELSE own[m]

Busy(m) == \E c \in Containers : at[m][c] # "idle"

\* Mutant: a goroutine for each container in every instrument.
AllAtOnce(m, c) == m \in Calls

\* May m go on with c?
Turn(m, c) ==
  kind = "kubernetes" \/ \A d \in Containers \ {c} : at[m][d] \in {"idle", "look"}

TypeOK ==
  /\ kind \in {"docker", "kubernetes"}
  /\ process \in Maps /\ others \subseteq Pids /\ pids \in Maps
  /\ own \in [Calls -> Maps \cup {Shared}]
  /\ at \in [Calls -> [Containers -> Labels]]
  /\ pid \in [Calls -> Maps]
  /\ crashed \in BOOLEAN /\ overlap \in BOOLEAN
  /\ faults \in 0 .. MaxFaults
  /\ owners \in [Pids -> SUBSET Containers]
  /\ kind = "docker" => \A m \in Calls : own[m] = Shared
  /\ \A m \in Calls, c \in Containers :
       at[m][c] \in {"stats", "delete", "put"} => pid[m][c] # NoPid

\* The factory reads the process ids once, or fails to and starts with none.
Init ==
  /\ kind \in {"docker", "kubernetes"}
  /\ process = StartPids
  /\ others \in SUBSET {p \in Pids : \A c \in Containers : process[c] # p}
  /\ pids \in {process, [c \in Containers |-> NoPid]}
  /\ own = [m \in Calls |-> Shared]
  /\ at  = [m \in Calls |-> [c \in Containers |-> "idle"]]
  /\ pid = [m \in Calls |-> [c \in Containers |-> NoPid]]
  /\ crashed = FALSE /\ faults = 0 /\ overlap = FALSE
  /\ owners = [p \in Pids |-> {c \in Containers : process[c] = p}]

Used == {process[c] : c \in Containers} \ {NoPid}

\* The process ids that stand for a process, a container's or another.
Live == Used \cup others

-----------------------------------------------------------------------------
(* A measurement.                                                            *)

\* The ticker starts MeasureAndReport, which lists the containers.
List(m) ==
  /\ ~crashed /\ ~Busy(m) /\ Used # {}
  /\ at'  = [at EXCEPT ![m] = [c \in Containers |->
                                 IF process[c] # NoPid THEN "look" ELSE "idle"]]
  /\ own' = [own EXCEPT ![m] = Shared]
  /\ UNCHANGED pid
  /\ overlap' = (overlap \/ \E n \in Calls \ {m} : Busy(n))
  /\ UNCHANGED <<kind, process, others, pids, crashed, faults, owners>>

At(m, c, label) == ~crashed /\ at[m][c] = label /\ Turn(m, c)

\* m goes on with c, or is done with it and returns after the last.
Go(m, c, label) ==
  /\ at'  = [at EXCEPT ![m][c] = label]
  /\ pid' = IF label = "idle" THEN [pid EXCEPT ![m][c] = NoPid] ELSE pid

\* A goroutine that is in the map's delete, in the map of m.
Writer(m, c) ==
  \E n \in Calls, d \in Containers :
    /\ <<n, d>> # <<m, c>> /\ at[n][d] = "delete"
    /\ n = m \/ {own[m], own[n]} = {Shared}

\* The Go runtime may, or may not, notice an access that meets a delete.
Noticed(m, c) ==
  /\ ~crashed /\ at[m][c] \in {"look", "again", "delete"} /\ Turn(m, c)
  /\ Writer(m, c)
  /\ crashed' = TRUE
  /\ UNCHANGED <<kind, process, others, pids, own, at, pid, faults, owners, overlap>>

\* pid, ok := c.pids[containerId]
Find(m, c, miss) ==
  /\ pid' = [pid EXCEPT ![m][c] = View(m)[c]]
  /\ at' = [at EXCEPT ![m][c] = IF View(m)[c] = NoPid THEN miss ELSE "stats"]
  /\ UNCHANGED <<kind, process, others, pids, own, crashed, faults, owners, overlap>>

Look(m, c) == At(m, c, "look") /\ Find(m, c, "scan")

\* Mutant: ids are cut so short that all containers look the same.
OneForAll == [c \in Containers |-> IF Used = {} THEN NoPid
                                   ELSE CHOOSE p \in Used : TRUE]

\* containerProcessIds: the containers that have a process, and which.
ContainerProcessIds == process

\* Mutant: every kind keeps what it has read to itself.
RefreshOwn(m, c) ==
  /\ At(m, c, "scan")
  /\ own' = [own EXCEPT ![m] = ContainerProcessIds]
  /\ Go(m, c, "again")
  /\ UNCHANGED <<kind, process, others, pids, crashed, faults, owners, overlap>>

\* c.pids = pids, where c is the instrument or this measurement's copy.
Refresh(m, c) ==
  /\ At(m, c, "scan")
  /\ IF kind = "docker"
       THEN pids' = ContainerProcessIds /\ UNCHANGED own
       ELSE own' = [own EXCEPT ![m] = ContainerProcessIds] /\ UNCHANGED pids
  /\ Go(m, c, "again")
  /\ UNCHANGED <<kind, process, others, crashed, faults, owners, overlap>>

\* ... and the container is looked up again, or left for the next time.
LookAgain(m, c) == At(m, c, "again") /\ Find(m, c, "idle")

\* Mutant: an entry that leads nowhere stays.
KeepStale(m, c) ==
  /\ At(m, c, "stats")
  /\ Go(m, c, IF pid[m][c] \in Live THEN "put" ELSE "idle")
  /\ UNCHANGED <<kind, process, others, pids, own, crashed, faults, owners, overlap>>

\* readTotalProcessNetworkStats reads what the process id now stands for, be it
\* a container or not.
Stats(m, c) ==
  /\ At(m, c, "stats")
  /\ Go(m, c, IF pid[m][c] \in Live THEN "put" ELSE "delete")
  /\ UNCHANGED <<kind, process, others, pids, own, crashed, faults, owners, overlap>>

\* delete(c.pids, containerId)
Delete(m, c) ==
  /\ At(m, c, "delete")
  /\ IF own[m] = Shared
       THEN pids' = [pids EXCEPT ![c] = NoPid] /\ UNCHANGED own
       ELSE own' = [own EXCEPT ![m][c] = NoPid] /\ UNCHANGED pids
  /\ Go(m, c, "idle")
  /\ UNCHANGED <<kind, process, others, crashed, faults, owners, overlap>>

\* The reporter has taken the last value of this container.
Put(m, c) ==
  /\ At(m, c, "put")
  /\ Go(m, c, "idle")
  /\ UNCHANGED <<kind, process, others, pids, own, crashed, faults, owners, overlap>>

\* /proc cannot be listed, or the statistics not be parsed: leave it at that.
Skip(m, c) ==
  /\ At(m, c, "scan") \/ At(m, c, "stats")
  /\ faults < MaxFaults /\ faults' = faults + 1
  /\ Go(m, c, "idle")
  /\ UNCHANGED <<kind, process, others, pids, own, crashed, owners, overlap>>

-----------------------------------------------------------------------------
(* Containers stop, start, and start again; process ids are used again.      *)

Restart(c) ==
  /\ ~crashed /\ faults < MaxFaults /\ faults' = faults + 1
  /\ \E p \in (Pids \cup {NoPid}) \ Live :
       /\ process' = [process EXCEPT ![c] = p]
       /\ owners'  = IF p = NoPid THEN owners
                     ELSE [owners EXCEPT ![p] = @ \cup {c}]
  /\ UNCHANGED <<kind, others, pids, own, at, pid, crashed, overlap>>

\* Some other process begins or ends.
HostProcess ==
  /\ ~crashed /\ faults < MaxFaults /\ faults' = faults + 1
  /\ \E p \in Pids \ Used :
       others' = IF p \in others THEN others \ {p} ELSE others \cup {p}
  /\ UNCHANGED <<kind, process, pids, own, at, pid, crashed, owners, overlap>>

Access(m, c) == Look(m, c) \/ Refresh(m, c) \/ LookAgain(m, c)
                \/ Stats(m, c) \/ Delete(m, c)

Next == \/ \E m \in Calls : List(m)
        \/ \E m \in Calls, c \in Containers : Access(m, c)
        \/ \E m \in Calls, c \in Containers : Put(m, c)
        \/ \E m \in Calls, c \in Containers : Noticed(m, c)
        \/ \E m \in Calls, c \in Containers : Skip(m, c)
        \/ \E c \in Containers : Restart(c)
        \/ HostProcess

Spec == Init /\ [][Next]_vars

\* Goroutines are scheduled, the ticker ticks and the reporter takes what is
\* put.  Nothing is assumed of containers, nor of the order of the goroutines of
\* one measurement: each of them has only so much to do.
FairSpec ==
  /\ Spec
  /\ \A m \in Calls :
       WF_vars(List(m) \/ \E c \in Containers : Access(m, c) \/ Put(m, c))

-----------------------------------------------------------------------------
(* Properties.                                                               *)

\* Process id p was once that of container c, and stands for another container
\* now, or for another process of the host.
TakenOver(p, c) ==
  p # process[c] /\ p \in Live /\ c \in owners[p]

\* What is reported of a container has been read from its own process, however
\* old the entry is that led there, or from one that has been given a process
\* id that was the container's.  No interleaving of refreshes, deletions and
\* restarts mixes it up with anything else (instrument.go:542-560, 596-614,
\* 652-670, 715-733; sysparse.go:203-207).
TrafficIsAttributed ==
  [][\A m \in Calls, c \in Containers :
       at[m][c] = "stats" /\ at'[m][c] = "put"
         => process[c] = pid[m][c] \/ TakenOver(pid[m][c], c)]_vars

\* The maps are shared without a lock, yet the runtime never finds two accesses
\* at once in a Docker instrument whose measurements return within the period
\* (instrument.go:541-563).
LoneCallsAreSafe == crashed => kind = "kubernetes" \/ overlap

\* The entry that a Docker instrument takes out is the one that has led nowhere,
\* never one that a refresh has put in its place since, as long as measurements do
\* not overlap: what was looked up is still in the map when it is acted upon
\* (instrument.go:542-563).
StaleEntriesAreTheirOwn ==
  kind = "docker" /\ ~overlap =>
    \A m \in Calls, c \in Containers :
      at[m][c] \in {"stats", "delete"} => pids[c] = pid[m][c]

\* A stale entry that leads nowhere does not last: a container that is up to
\* stay has the statistics of its own process reported again and again, whatever
\* restarts came before.  An entry that has been taken over is not noticed, and
\* lasts as long as the process that it leads to (instrument.go:561-564).
RunningContainersAreMeasured ==
  \A c \in Containers :
    <>[](process[c] # NoPid /\ ~crashed /\ ~TakenOver(pids[c], c))
      => []<>(\E m \in Calls : at[m][c] = "put" /\ pid[m][c] = process[c])
=============================================================================
