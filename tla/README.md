# telemd in TLA+

`telemd` is a daemon that measures a host (CPU, network, disks, containers, ...)
and publishes each measurement to a Redis topic. Around that simple job it has a
good deal of concurrency: a goroutine for every ticker and every measurement, a
Redis client that retries for ever and tells a monitor goroutine about the state
of the connection, a command server and a reporter that the monitor stops and
starts, and a shutdown that has to bring all of that to an end. Hardly any of it
is locked and almost none of it is tested. These modules model that part of the
program, check it with TLC, and prove its safety properties with TLAPS.

Paths below are relative to the repository's root; `main.go` is
`cmd/telemd/main.go`, other Go files are in `internal/telemd/` unless they are
given with a directory.

## The system

| Component | Code | State | Operations | Must be right |
|---|---|---|---|---|
| Tickers | `ticker.go` | per instrument: the goroutine's position, the field `ticker.ticker`, channels `pause` and `done` | `Run`, `Pause`, `Unpause`, `Stop` | a ticker that was paused last does not tick; one unpaused last does; no timer is lost; nobody blocks on a ticker that has ended |
| Commands | `cmd.go` | `isPausedByCommand` | `handleCommand`, `PauseTickers`, `UnpauseTickers` | a recovery of the connection does not undo the operator's pause |
| Daemon | `daemon.go` | tickers, wait groups, telemetry channel | `Run`, `startTickers`, `Stop`, `Send`, `initInstruments`, `initTickers` | `Run` waits for the tickers, and returns after a signal |
| Limiter and client | `internal/redis/` | `connectionFailures`, `closed`, channel `ConnectionState` | `Allow`, `ReportResult`, `close`; `Close`, `IsRetrying` | reports alternate and match the count; a closed client ends its calls; no send on a closed channel |
| Monitor, shutdown | `main.go` | position only | the switch over reports, the signal handler | the monitor comes back to its channel; a shutdown ends |
| Command server | `redis.go` | `running`, channel `stopped` | `Run`, `Stop`, `UpdateNodeInfo`, `RemoveNodeInfo` | a connected daemon listens |
| Reporter | `redis.go` | `running`, buffered `stopChan` | `Run`, `Stop`, `report` | a connected daemon reports |
| Container network instruments | `instrument.go`, `sysparse.go` | map from container to process id | `MeasureAndReport` (four variants) | a container is not given another's traffic, unless its process id has changed hands; an entry that leads nowhere does not last; the map is not used by two goroutines at once |
| Data-rate instruments | `instrument.go` | wait group per measurement | `MeasureAndReport` | a measurement returns; values of a device stay in order |
| Other instruments | `instrument.go`, `sysparse.go`, `fileio.go` | none | list, read, parse, `Put` | one part that cannot be read does not cost the others; the few ways in which a part ends the daemon; the parsing |
| Configuration | `cfg.go`, `main.go`, `internal/env/` | `Config` | `LoadFromEnvironment`, `loadConfig` | the strongest layer wins (not for the port of Redis and the mount of `/proc`) |
| Node info | `info.go` | none | `SysInfo` | - |
| Telemetry | `internal/telem/` | the unbuffered channel | `Put`, `Close`, `UnixTimeString` | who may `Put` after `Close`; the time stamp is the clock's |

How they interact:

* A ticker's tick starts a measurement as a goroutine; it puts telemetry into an
  unbuffered channel, from which the reporter publishes it.
* Every Redis call - the reporter's `PUBLISH`, the server's and the monitor's
  node info, the shutdown's `DEL`, the monitor's `PING` - asks the limiter before
  each attempt and tells it the result; the limiter may send a report to the
  monitor over an unbuffered channel in the middle of the caller's call.
* The monitor pauses and unpauses all tickers, stops and starts the command
  server (a rendezvous with the server) and the reporter (a buffered token),
  writes the node info, and launches the ping that notices a recovery.
* The command server hands `pause` and `unpause` to the command loop, which
  sweeps over the same tickers as the monitor does.
* The shutdown stops the command server as the monitor does, sends `Stopped` to
  the monitor, closes the limiter and the channel, and stops reporter, command
  loop and tickers.

What is hard about it: methods on shared objects that are two or three steps and
meet in the middle; flags that are read before a blocking operation and relied on
after it; goroutines that are launched and act on a flag much later; everybody
waiting for a monitor that makes such calls itself; overlapping measurements that
nobody waits for; a wait group whose members add themselves.
`PROJECT.json` lists these hazards one by one, each at its line.

## The modules

| Module | What it models |
|---|---|
| `TickerControl` | tickers, sweeps, monitor / command loop / shutdown as far as they sweep |
| `TickerControlProofs` | its theorems |
| `TickerShutdown` | abstract: how the tickers come and go, as `TickerControl` and `Lifecycle` both have it |
| `ConnectionReports` | abstract: the order of reports that the client promises to the monitor |
| `Limiter` | limiter, `Close`, `IsRetrying`, inside go-redis' retry loop |
| `CoarseLimiter` | abstract: a limiter that counts a result in one step, as `Limiter` looks from outside and `Telemd` uses it |
| `LimiterProofs` | its theorems, with the refinements of `ConnectionReports` and `CoarseLimiter` |
| `Telemd` | main.go: monitor, command servers, reporters, pings, shutdown over `CoarseLimiter`'s steps |
| `TelemdProofs` | its theorems |
| `Lifecycle` | Daemon.Run: wait groups, the telemetry channel, measurements blocked in it, shutdown up to the end of the process |
| `LifecycleProofs` | its theorems |
| `ContainerNetwork` | the instruments that cache process ids |
| `ContainerNetworkProofs` | its theorems |
| `Measurements` | all other instruments: parts, goroutines, wait groups, errors |
| `MeasurementsProofs` | its theorems |
| `TimeString` | UnixTimeString as a function of the clock, with its theorems |
| `Config` | layers of configuration and choice of instruments |
| `ConfigProofs` | its theorems |
| `MC*` | symmetry and inputs for TLC |

Operators whose comment says *mutant* are plausible mistakes (a missing check, a
swapped order, ...). Nothing uses them; `PROJECT.json` names for each checked
property the definition to be replaced by one, after which TLC finds the property
violated.

### TickerControl

`loop[t]` is the position of `telemetryTicker.Run` (`ticker.go:37-64`): before its
first line, in the outer select, in the inner select, returned. Timers are
numbered as they are made; `cur[t]` is the one that the field points to,
`armed[t]` are those not stopped, `watch[t]` the one that the outer select has
evaluated. `Pause`, `Unpause` and `Stop` (`ticker.go:67-80`) are two steps each:
`Arm`, `Send`, `Disarm` in the order that `First` and `After` give. `Send` is a
rendezvous with a loop in one of its selects. A controller sweeps over the tickers
in any order (`range` over a map). `Report`, `Command` and `StopDaemon` are what
makes the three controllers sweep.

Between sweeps monitor and shutdown make calls that are Telemd's subject. Here they
are *away* meanwhile: the monitor in UpdateNodeInfo (`Connected`) or in
commandServer.Stop, the shutdown in commandServer.Stop, RemoveNodeInfo and Close
(`Signal`), and then in telemetryReporter.Stop (*closed*). `MonitorReturns`,
`CloseClient` and `ReachDaemon` bring them on. They may happen or not: either may hang
in these calls, and no fairness says otherwise. What is promised of the shutdown is
promised from daemon.Stop on (DaemonStopEndsAll).

A command may arrive at any time, in an outage too: the command loop may be late
with it, and a server that has been launched but has not set `running` survives
`Stop`. Reports come in any order, twice in a row too, as they do when results overlap
(see `Limiter`).

`TickerShutdown` is what is left of it without timers and sweeps: a ticker waits,
runs or has returned, the command loop runs or has returned, and daemon.Stop
(`daemon.go:138-152`) goes through the tickers one after the other. `Phase`,
`CommandLoop`, `Stopping` and `Unstopped` map to it; a sweep of the shutdown that
has a ticker in hand has not stopped it until it sends.

### Limiter, ConnectionReports and CoarseLimiter

`pc[c]` is a label in `Allow` or `ReportResult` (`internal/redis/limiter.go`):
each read, write and send of `connectionFailures` is an action of its own, since
callers share it without a lock - a data race is an interleaving of these steps.
The back-off of `Allow` is the time that passes before `Admit`'s successor, and
`Close` can fall into it. `Deliver` is the rendezvous with the monitor; the
monitor is then busy and may come back or hang (`Telemd` has what it does). Nothing
here depends on its coming back: the module states no fairness. That a call ends after
`Close` is stated as a step property: `Remaining` counts how far a call is from its
end, and on a closed client each of its steps makes that smaller. go-redis is external: a failed attempt is repeated (`MaxRetries` is
MaxInt32, `internal/redis/redis.go:27`), an error reply is not, and of a pipeline
either is possible (`GiveUp`).

`ConnectionReports` is the promise of the constants in `internal/redis/redis.go:11-16`:
Connected only first, Failed and Recovered in turn, nothing after Stopped. The
mapping takes the sequence of reports received, `told`, up to the first moment at
which two callers are in `ReportResult` together (`raced`); after that the code
promises nothing, and duplicated and swapped reports do occur.

`CoarseLimiter` is the client as `Telemd` has it: the result of an attempt is
counted in one step, and a caller is out, in an attempt, or blocked with a report.
Blocked callers may be many, and others count meanwhile, so that this covers
histories that are `raced`. `Count` and `Where` map the labels of the one caller
that is working on the count to the state before or after its step. That caller is
alone until `torn`: two of them were between a read and a write of the count, and an
increment may be lost.

### Telemd

One action per step of main.go's goroutines and of `RedisCommandServer` and
`RedisReporter`. `srvRunning` and `repRunning` are the two `running` flags, which
all goroutines of a kind share; `repStops` are the `go telemetryReporter.Stop()`
not yet scheduled, `tokens` the values in `stopChan`. `mon` and `down` are the
positions of monitor and shutdown. A server or reporter that has been told to end is
*leaving* until it resets its flag: the one who told it has gone on by then, so that the
next Stop may read the flag too late, and a goroutine started meanwhile may lose its
own. A result is counted in one step here; sends to
the monitor can still be overtaken, so reports may overlap (`inOrder` says whether
they have so far). `Place` maps each goroutine's call to CoarseLimiter. Sweeps are
left out because TickerControl shows that they return.

### Lifecycle

From `Daemon.Run` to the end of the process. `waiter` is the goroutine of
`daemon.go:127-130`: `Wait` looks at the count once and either returns or blocks;
`Done` of the last ticker wakes it; `Woken` is the check after waking, which panics
if the count is not zero any more. `ticker[t]` goes from "unborn" (before
`startTickers`) over "new" (launched) and `Added` (`wg.Add`, `daemon.go:107`) to
"left" and "done". `late` and `hasty` are history: the tickers that had not added
themselves when Wait was called, and when the signal came. A measurement is measuring
or in `Put`; `senders` is the queue of the unbuffered channel, which Go serves first
come, first served. `run` is main: it waits, sleeps for a second, closes the channel.
`stop` is the shutdown goroutine from `telemetryReporter.Stop` on (`main.go:95`).
What leads the monitor to stop and start reporters is left open (`ReporterRuns`,
`Outage`); `Telemd` has it. `Fatal` is what ends the process from elsewhere, at any
time: a measurement that panics or is found in a map with another, and log.Fatal of the
monitor. A ticker in its inner select is one that does not tick.
What it assumes of tickers and of daemon.Stop's loop is `TickerShutdown` again.

### Measurements

A behaviour is about one instrument, which a record describes: how it goes through
its parts (in turn, with goroutines it waits for, with goroutines it leaves behind),
what its parts are, how many readings and values a part has, and what an error does.
The records are read off the `MeasureAndReport` methods; `CgroupInstruments` is the
factory's choice by cgroup version. `Read` is a reading of a part (`Got`, `Missed` or
`Panicked`), `Send` the moment the reporter takes a value. Parts come and go at any
time (`Change`): devices may come back, containers do not. Some files are taken to have
fields in every line (`fields`): `io.stat`, which may for a while have a line without,
and the pressure files, which on a host without pressure information never have any
(`bare`); such a line panics. `taken[m][p]` numbers the reading that is in hand,
so that the order of values can be compared. Listing a folder, with the pods in it,
is one step. A part is read in one step although some instruments read two files for
it: what fails in between fails.

### TimeString

`UnixTimeString(t)` is the pair of numbers that `"%d.%d"` prints, `AsDecimal` what a
reader gets who takes the text for a decimal number. There is no state and no run: the
theorems are about every clock.

### ContainerNetwork

One action per access to the map of process ids in `MeasureAndReport`. `kind`
chooses between pointer receiver and sequential loop (Docker) and value receiver
and a goroutine per container (Kubernetes); `own[m]` is the map in measurement
`m`'s copy of the instrument. The Go runtime ends the process if it notices that
a map is used while it is written: `Noticed` may happen, and may not, whenever an
access meets a goroutine that is in `delete`. `others` are the process ids of host
processes outside of containers, which begin and end (`HostProcess`): `Stats` reads
whatever process has the id now, a container's or not (`Live`), and finds nothing only
if there is none.

### Config

`Load` is `LoadFromEnvironment`, all of its assignments at once; loadConfig's four
layers and `initInstruments` are five actions. A value is represented by the layer
it comes from. `Ini` is the lookup in a section of the ini file
(`internal/env/ini.go`), which is empty if the file has no such section. `Resolved` is
about the variables that follow the layers as the README says; `DocumentedLayers` is
what it says of the port and the mount of `/proc`, and does not hold.

## Runs

Every passing run explores the whole state space under the bounds in the last column.

| Run | Shows | Bounds |
|---|---|---|
| `ticker_control` | TypeOK; SweepsTakeEffect (which is SettledSweepTookEffect and PauseCommandHolds), PausedHoldsNoTimer, StoppedTickersAreLeftAlone, TimersAreLostOnlyWhenNotPaused; ShutdownInOrder (refinement of TickerShutdown); liveness SweepsReturn, DaemonStopEndsAll; no deadlock | 2 tickers (sweeps can pass each other), 4 sweeps (two that overlap, then one alone, then another) |
| `limiter` | TypeOK; RetryingMeansFailed, CloseIsOrderly (which is OneAttemptAfterClose and QuietCloseIsSafe); ReportsInOrder and CountsOneByOne (refinements of ConnectionReports and CoarseLimiter, the second until `torn`); ClosedCallsEnd; no deadlock but the modelled end | 2 callers (a race needs no more), the pings of main.go and one other call, one outage, one error reply; the count is -1, 0, 1, "2 or more", which is all the code tells apart |
| `limiter_first` | violation of FirstConnectionIsReported | as `limiter` |
| `telemd` | TypeOK; SomebodyServes, SomebodyReports, NodeInfoIsWritten | 2 servers, 2 reporters, 1 ping at once; two outages (the start may be one); two `info` commands or measurements; no shutdown, which the three do not speak of |
| `telemd_live` | MonitorComesBack, FailureIsFollowedUp, ShutdownCompletes | 1 server, 1 reporter, 1 ping; one outage, one `info` or measurement, a shutdown |
| `telemd_reports`, `telemd_listens` | violations of ConnectedHostReports, HostKeepsListening | as above |
| `container_network` | TypeOK; LoneCallsAreSafe, TrafficIsAttributed, RunningContainersAreMeasured | 2 containers, 2 process ids (so that one can be taken over, by a container or by a host process), 2 measurements, 3 faults (a take-over and the restart of both containers) |
| `lifecycle` | TypeOK; RunOutlivesTickers, CrashesHaveCauses, NothingBeginsOnClosedChannel; liveness SignalEndsProcess, BacklogDrains; no deadlock | 2 tickers (one late, one not), 2 measurements (one can wait in the queue behind the other), one start and one early stop of the reporter |
| `measurements` | TypeOK; SteadyPartsAreReported, SteadyHostsDoNotCrash; ReportsKeepOrder; liveness MeasurementsReturn | every kind of instrument; 2 measurements (overlapping or one after the other), 2 parts (one can be lost without the other), 2 folders, one change of the host while measurements run: what is gone from the start is one more |
| `config` | TypeOK; Resolved, EnvironmentChooses | 2 node names, 2 instruments and a name that is none; every combination, over environment, ini file and both sections, of the variables that meet in the code |
| `config_layers` | violation of DocumentedLayers | as `config` |

In `Telemd` a behaviour that needs more goroutines than the bounds give ends in
`proc = "bound"` (action `Bound`), so that a bound can never pass for a deadlock.
TLC's own deadlock check is off for `Telemd` (the process ends, and it has real
deadlocks, named by `Wedged`), `ContainerNetwork` (the runtime may end the
process), `Measurements` (two measurements, then nothing) and `Config` (loading
ends). `Lifecycle` has an action for the ended process, so that its deadlock check
is on.

Symmetry is used in `limiter` and in the safety runs of `Telemd`, over callers and
goroutines of a kind, which no property names; never in a run with liveness.

### Fairness

* `TickerControl`: goroutines are scheduled (weak fairness of every step of a
  loop or a sweep). The first send of daemon.Stop competes with commands for a
  command loop that is ready again and again: strong fairness, because Go selects at
  random among ready cases. No tick, report, command or signal has to come, and
  neither monitor nor shutdown has to come back from what they do between sweeps:
  nothing is assumed of `MonitorReturns`, `CloseClient` and `ReachDaemon`.
* `Limiter`: none. Its properties are invariants and properties of steps.
* `Telemd`: weak fairness of one big action, "some goroutine goes on". This is
  weaker than fairness for each of them; it is enough because the bounds leave
  finitely many calls once Redis stays reachable. The three properties suppose
  that in their antecedent, and that the monitor (the monitor and the shutdown) does not
  hang as MonitorHangs (Wedged) says.
* `ContainerNetwork`: the ticker ticks, each measurement goes on as long as one of its
  goroutines can, and the reporter takes what they put. Containers and other processes
  may do what they like.
* `Lifecycle`: weak fairness of the goroutines of Run and of the shutdown, of each
  ticker's start and end, and of the meeting of a waiting reporter with a sender:
  what the Go scheduler gives. Nothing is assumed of measurements, of Redis'
  answers, of ticks or of signals; BacklogDrains supposes a reporter whose calls
  return in its antecedent.
* `Measurements`: weak fairness of "something that can go on does". Changes and
  measurements are finitely many, so nothing is overtaken for ever; a reporter
  that takes what is put is assumed (`Lifecycle` asks when it is there).

## What is proved

Every invariant, action property and refinement of a passing run is the subject of a
theorem. All theorems hold for any number of tickers, callers, goroutines, sweeps,
containers, parts, measurements and names, with the named assumptions on constants only: bounds
are naturals, `NoTicker`, `NoPid` and `Unset` are not among the things they stand in
for, `Cap > 1`, the goroutines of `Telemd` are of one kind each, no two
containers start with the same process id, and parts and reporters, which are counted,
are finitely many.

`TickerControlProofs`: `TypeCorrect`; `SettledSweeps`, `PausedTimers`,
`StoppedTickers` for the invariants of `ticker_control`, `LostTimers` for its action
property, `OrderlyShutdown` for the refinement, and `AllStopped`. The inductive
invariant is

    IInv == TypeOK /\ TimerInv /\ PhaseInv /\ SweepInv

None of the properties is inductive by itself. *TimerInv* says which timers can be
armed at all (none newer than `cur[t]`), and that a ticker that is pausing has
either a stopped timer or a controller inside one of its methods that has made a
timer or is yet to stop one. *PhaseInv* is the order of the shutdown: once
its sweep has begun, monitor and command loop are gone and have no ticker in hand,
so that a loop can only have ended behind the shutdown's own sweep. *SweepInv* is about
the sweep that runs `alone`: every ticker it has left behind is already in the
state that the sweep establishes, and stays there until somebody begins another.

`OrderlyShutdown` (`Spec => Shutdown!Spec`) maps each step to a step of
TickerShutdown or a stutter; that a send of the shutdown finds a ticker which has not
returned is *PhaseInv*'s part. `AllStopped` says that nothing is left when
daemon.Stop has returned. It is not proved of TickerControl's steps again: its
counterpart `StoppedOneByOne` is an invariant of TickerShutdown, and the refinement
carries it over.

`LimiterProofs`: `TypeCorrect`; `Retrying`, `Closing` for the invariants of
`limiter`; `Implements` and `OneByOne`, the refinements of ConnectionReports and
CoarseLimiter; `Ending` for the action property; `Retries`. The inductive invariant is

    IInv == TypeOK /\ CleanInv /\ CloseInv

*CleanInv* describes histories without overlap: at most one caller is in
`ReportResult`, and for each label it can be at, what the count is relative to the
last report (equal when nobody is there). From it follows that the report about to
be sent is one that may follow the last - the step of the refinement - and
RetryingMeansFailed. *CloseInv* ties what happens after `Close` to calls that were
past `Allow` when it came.

`OneByOne` needs *MoverInv*: until `torn`, at most one caller is between a read and a
write of the count, however many are blocked in a send, and what it has in its
register is what it has read or stored - nobody came in between. `Retries` says that a
failure which the monitor has been told of is never forgotten: until there is a
Recovered, the Ping is the monitor's next statement, a launched goroutine or a call
that has not ended. *PingInv* closes the ways out: a Ping can end with an error only if
the server answered it with one. `Ending` needs no more than the type: `Remaining` orders
the labels so that on a closed client each step of a call, also one that another's report
or the count decides, goes down.

`LifecycleProofs`: `TypeCorrect`; `TickersOutlived`, `CrashCauses` for the two
invariants of `lifecycle` and `ChannelClosesLast` for its action property;
`OrderlyShutdown`, `NotHeldBack`, `InTurn`. The inductive invariant is

    IInv == TypeOK /\ StopInv /\ WaitInv /\ CrashesHaveCauses

*StopInv* is the order of the shutdown: Run goes on only when both goroutines have
returned, the command loop returns only when daemon.Stop says so, and no ticker
leaves before. *WaitInv* says what is known of the tickers once Wait has been called:
those launched but not added are `late`; a waiter that was woken and finds the count
above zero has been overtaken by a late ticker in a shutdown that came before that
ticker had run at all (`hasty`). CrashesHaveCauses speaks of the two panics that the
daemon's own goroutines can run into; errors of Redis and `Fatal` may end the process
at any time, and it holds beside them. RunOutlivesTickers follows from the two, and from it
that nothing ticks when the channel is closed. That the queue of the channel has no
measurement twice (`QueueStep`) is needed for the type of what Receive takes.

`OrderlyShutdown` is the refinement of TickerShutdown, which TickerControl implements
as well: what Lifecycle assumes of the tickers is what the detailed module shows of them.
From it, and from *WakeInv* (a Wait that is blocked has somebody to wait for, so that no
wake-up was lost), follows `NotHeldBack`: when daemon.Stop is done, nothing that Run
waits for is left in a select. `InTurn` is about the queue of the channel: whoever leaves
it had nobody ahead, nobody overtakes, and each value taken moves all others up. It
needs *QueuedInv*, that every measurement in Put is in the queue, and that it is in it
once.

`TimeString`: the fraction is the clock's nanoseconds if, and as long as, there have
been more seconds since 1970 than a second has nanoseconds (`StringHasClock`), so
that no two clocks share a string (`StringsDiffer`). But it is not padded with zeros:
a reader who takes the text for a decimal number gets the clock back exactly for
fractions of nine digits and for 0 (`ReaderGetsClock`), and in every second gets the
order of some clocks wrong (`ReaderMissesOrder`).

`ContainerNetworkProofs`: `TypeCorrect`; `LoneCalls` for the invariant and
`Attributed` for the action property of `container_network`; `StaleEntries`. The
inductive invariant is

    IInv == TypeOK /\ LoneInv /\ OwnersInv

*LoneInv*: two measurements are under way only in a history that has overlapped,
because List alone makes one busy (`OnlyListBegins`); a delete that meets another
access in a Docker instrument takes two of them, for one takes its containers in
turn (`WritersMeetInOverlap`). *OwnersInv*: every process id in the processes, in
the shared map, in any measurement's copy and in any measurement's hand belongs or
has belonged to the container it is filed under. If the process that is read is not
the container's own, it therefore has an id that was the container's, and belongs to
another container or to the host. TrafficIsAttributed is
not inductive because it says nothing of the maps the id came from. `StaleEntries`: in
a Docker instrument whose measurements do not overlap, the entry that is about to be
used or deleted is still the one that was looked up, because a measurement has one
container in hand (`OneInHand`).

`TelemdProofs`: `TypeCorrect`; `Served`, `Reported`, `InfoWritten` for the three
invariants of `telemd`; `ImplementsCoarse`, `Hangs`. The inductive invariant is

    IInv == TypeOK /\ ServeInv /\ RefuseInv /\ InfoInv /\ CountInv

*CountInv* is the argument why late Stops do no harm if the first report was
Connected: after a Connected or Recovered there is a reporter more than there are Stops
still owed (`Owed`: tokens in the channel, launched Stops, the one that the monitor is
about to launch), and after a Failed at least as many. A Run adds a reporter, a Stop
ends at most one, and a Failed, which adds a Stop, follows only on one of the other two.
This needs the reports in order, and it is why a daemon whose first report was Failed
is excepted: its first Stop has no reporter to end. *RefuseInv* says that before the
shutdown no call is refused, so that a reporter cannot leave by an error; *ServeInv*
and *InfoInv* follow the monitor through the case it is in.

`ImplementsCoarse` is the refinement of CoarseLimiter. Together with `OneByOne` it
says that `Telemd` and `Limiter` speak of the same client: each call that Telemd makes
is one that CoarseLimiter knows, and Limiter behaves as CoarseLimiter until two callers
tear the count. That counting is one step in `Telemd` thus costs just the
torn histories. `Hangs` bounds what `Wedged` may be before a shutdown and while reports
come in order: the monitor is in a cycle through a report, its own or that of the server
it wants to stop, and never waits for a server that has left. The flag alone does not
say so, as a server resets it after it has left; *StopInv* says it of the reports: a
Failed that finds the flag set comes after a Connected or Recovered, which has started a
server that stays. A second Failed that overtakes the Recovered between them has no such
server, reads the stale flag and waits for ever.

`MeasurementsProofs`: `TypeCorrect`; `SteadyReported`, `SteadyHostsLive` for the
invariants and `Ordered` for the action property of `measurements`; `Waits`. The
inductive invariant is

    IInv == /\ TypeOK /\ HostInv /\ BeginInv /\ SteadyInv /\ WaitInv /\ OrderInv
            /\ SteadyHostsDoNotCrash

*SteadyInv* follows a part that stays up through a measurement: it is in a directory
not listed yet, or listed, and never failed. *WaitInv*: the wait group counts at least
the goroutines under way - more, where one has left without Done. It keeps the count
from going below zero and, in *OrderInv*, means that a measurement that has waited
leaves no goroutine behind, so that without overlap a reading in hand is the newest.
`Waits` needs the count exactly (*CountInv*): the goroutines under way, and for the
network instrument those that have left without Done. So a measurement may return just
when its goroutines have ended, and never if one of a network device has failed.

`ConfigProofs`: `TypeCorrect`; `Layered`, `Environment` for the other two invariants
of `config`. The inductive invariant is

    IInv == TypeOK /\ StepInv /\ LayerInv /\ LastInv /\ EnvironmentChooses

*LayerInv* says what the properties say of the end after every layer: the strongest of
those applied so far counts (`SoFar`). It depends on the section being applied once,
under the name known by then (*StepInv*), and on the second look at the environment
finding what the first found.

## What is only model-checked

Liveness: the prover has no support for fairness. For most of these properties the part
that is not about fairness - that what they wait for is still on its way, with nothing
lost - is a theorem:

| Checked by TLC | Its safety half, proved |
|---|---|
| DaemonStopEndsAll | `AllStopped`: when daemon.Stop returns, all have ended |
| FailureIsFollowedUp | `Retries`: a Ping is due until there is a Recovered (of `Limiter`, with a monitor that may hang) |
| MonitorComesBack, ShutdownCompletes | `Hangs`: what the monitor can hang on, in order and before a shutdown |
| RunningContainersAreMeasured | `StaleEntries`: the stale entry, and no newer, is deleted (Docker, no overlap) |
| SignalEndsProcess | `NotHeldBack`: no wake-up of Run is lost |
| BacklogDrains | `InTurn`: each value taken brings all others forward |
| MeasurementsReturn | `Waits`: the wait group opens when the goroutines have ended |
| SweepsReturn | `StoppedTickers`: no sweep sends to a ticker that has ended |

So is the absence of deadlock, which is about ENABLED, and the four violations below.

`SomebodyRetries`, `HangsOnlyOnReports`, `NothingOutlivesShutdown`, `RunIsNotHeldBack`,
`ServedInTurn`, `WaitsForItsGoroutines`, `StaleEntriesAreTheirOwn` and the two
refinements `ImplementsCoarse` and `OrderlyShutdown` of Lifecycle are the other way
round: no run lists them, because a theorem covers what a run would show.

## Disagreements between code and documentation

1. *The first connection may go unreported* (`limiter_first`,
   `internal/redis/limiter.go:68`). The count starts at -1; one failed attempt
   makes it 0, for which neither failure nor success is reported, whereas
   limiter.go:62 promises a report on the first connection. After two failed
   attempts the first success is reported as Recovered, whose case writes no node
   info (README.md:79: "When a telemetry daemon starts, it writes static information
   about its host"); NodeInfoIsWritten therefore speaks of Connected only.
2. *A late Stop ends the wrong reporter* (`telemd_reports`, `main.go:66`). If the
   first report is Failed, `go telemetryReporter.Stop()` can come after Recovered
   has started the only reporter. README.md:30: "telemd reports telemetry data".
   If the first report was Connected, this cannot happen (SomebodyReports).
3. *Monitor and command server wait for each other* (`telemd_listens`,
   `main.go:65`). README.md:96: "Telemd hosts listen on the topic". In UpdateNodeInfo
   (`main.go:59`) the monitor may also wait for itself; the server then hears commands
   until an `info` has to report as well.
4. *Two variables do not follow the layers* (`config_layers`, `cfg.go:97-116`).
   README.md:131: "Environment variables will overwrite ini values". A port in the
   environment is dropped unless the host is there, too (README.md:116), and a mount
   of `/proc` in the ini file never counts (README.md:123).

Smaller ones, which passing runs show as the exception that a property has to make:

* A pause command that is obeyed between UnpauseTickers' check of
  `isPausedByCommand` and its sends is undone (`cmd.go:56`; README.md:102: "`pause`
  pauses reporting of metrics"). PauseCommandHolds holds while sweeps do not overlap.
* `daemon.Run()` "blocks until everything has shut down" (`main.go:107`) only if every
  ticker had added itself to the wait group before Wait was called, and a signal that
  comes earlier still can make Wait panic: RunOutlivesTickers, CrashesHaveCauses.
* A reply of Redis, an instrument or log.Fatal may end the daemon at any time; a pressure
  file that opens but cannot be read does so on a host that never changes
  (`sysparse.go:109`): `Fatal` in Lifecycle, SteadyHostsDoNotCrash in Measurements.
* A container is reported with another process' traffic for as long as its process id
  has been taken over (`sysparse.go:203`): TrafficIsAttributed.
* A network device that cannot be read keeps its measurement waiting for ever
  (`instrument.go:208`): MeasurementsReturn.

## What is not modelled, and why

* Parsing of kernel files, `iw` and ini syntax, topics and messages: text without
  state. Where a parser can panic it is modelled (`Panics`, `TooShort`).
* `info.go` and the device lists: the host is read once and a record filled. When
  the info is written and removed is in `Telemd`.
* `CpuInfoFrequencyInstrument` and the two unused ways to find process ids
  (`sysparse.go:311-346`): nothing calls them. The third folder of the Kubernetes
  instruments is as the other two.
* go-redis, beyond when it asks the limiter and whether it repeats an attempt.
* The retry back-off, of which a valid value is dropped and an invalid one means none
  (`cfg.go:104-109`), is in `Config`; no document says what it should be.
* Periods of zero or less, which make time.NewTicker panic (`ticker.go:35`).

## Plan

1. (done) `TickerControl`, `ConnectionReports`, `Limiter`, `Telemd`,
   `ContainerNetwork`, `Config`.
2. (done) `Lifecycle`, `Measurements`, `TimeString`.
3. (done) Proofs of all of them.
4. (done) That the coarser limiter of `Telemd` is implemented by the detailed one, up
   to the first torn count: `CoarseLimiter`; and that `TickerControl` and `Lifecycle`
   agree on the tickers: `TickerShutdown`.
5. The scan of `/proc` in `ContainerNetwork` process by process, so that a process id
   can change hands in the middle of it.
