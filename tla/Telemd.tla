------------------------------- MODULE Telemd -------------------------------
(* How cmd/telemd/main.go wires the daemon together: the monitor goroutine   *)
(* that follows the state of the Redis connection, the command servers and   *)
(* telemetry reporters it starts and stops (internal/telemd/redis.go), the   *)
(* pings it launches, and the shutdown goroutine.                            *)
(*                                                                           *)
(* All of them make Redis calls, the monitor included, and any call may have *)
(* to report a change of state to the monitor over an unbuffered channel.    *)
(* Limiter refines what happens inside a call: here a result is counted in   *)
(* one step, and only the sends to the monitor can be overtaken.  Sweeps     *)
(* over the tickers return (TickerControl) and are left out, and so are the  *)
(* pause and unpause commands; Redis does not answer with errors.            *)
EXTENDS Integers, FiniteSets

CONSTANTS Servers,     \* bound: command servers that may be alive at once
          Reporters,   \* bound: reporters that may be alive at once
          Pingers,     \* bound: pings that may be in flight at once
          MaxOutages,  \* bound: how often Redis becomes unreachable
          MaxCalls,    \* bound: `info` commands and measurements received
          MaxSignals   \* bound: 0 if the daemon is not shut down, else 1

ASSUME TelemdAssumption ==
  /\ MaxOutages \in Nat /\ MaxCalls \in Nat /\ MaxSignals \in 0 .. 1
  /\ IsFiniteSet(Reporters)
  /\ Servers \cap Reporters = {} /\ Pingers \cap (Servers \cup Reporters) = {}
  /\ {"monitor", "shutdown"} \cap (Servers \cup Reporters \cup Pingers) = {}

VARIABLES
  failures,   \* limiter.connectionFailures; 2 stands for 2 and more
  closed,     \* limiter.closed
  chan,       \* ConnectionState: "open" or "closed"
  call,       \* call[g]: where goroutine g is in a Redis call; its result
  mon,        \* the monitor
  srv,        \* srv[s]: the command server that goroutine s runs
  rep,        \* rep[r]: the reporter that goroutine r runs
  pings,      \* `go Client.Ping()` not yet begun
  srvRunning, \* RedisCommandServer.running, one flag for all its goroutines
  repRunning, \* RedisReporter.running, likewise
  repStops,   \* `go telemetryReporter.Stop()` not yet begun
  tokens,     \* values in the buffered RedisReporter.stopChan
  down,       \* the shutdown goroutine
  proc,       \* the process: "running", or how it (or the model) ended
  link, outages, calls,
  written,    \* does Redis hold the node's info?
  first,      \* history: the first report the monitor received
  handled,    \* history: the last one
  inOrder     \* history: reports have alternated as ConnectionReports says

limiter == <<failures, closed, chan>>
flags   == <<srvRunning, repRunning, repStops, tokens>>
world   == <<link, outages, calls>>
history == <<first, handled, inOrder>>
vars == <<failures, closed, chan, call, mon, srv, rep, pings, srvRunning,
          repRunning, repStops, tokens, down, proc, link, outages, calls,
          written, first, handled, inOrder>>

Goroutines == {"monitor", "shutdown"} \cup Servers \cup Reporters \cup Pingers
Sends      == {"Connected", "Failed", "Recovered"}
Results    == {"ok", "error", "refused"}

TypeOK ==
  /\ failures \in -1 .. 2
  /\ closed \in BOOLEAN
  /\ chan \in {"open", "closed"}
  /\ call \in [Goroutines -> {"none", "allow", "attempt"} \cup Sends \cup Results]
  /\ mon \in {"ready", "updating", "stop?", "stopping", "gone"}
  /\ srv \in [Servers -> {"none", "starting", "serving", "info", "leaving"}]
  /\ rep \in [Reporters -> {"none", "starting", "waiting", "publishing", "leaving"}]
  /\ pings \in Nat /\ repStops \in Nat
  /\ tokens \in 0 .. 10
  /\ srvRunning \in BOOLEAN /\ repRunning \in BOOLEAN
  /\ down \in {"up", "stop?", "stopping", "retrying?", "removing", "close",
               "limiter", "channel", "reporter", "daemon", "done"}
  /\ proc \in {"running", "exited", "fatal", "panic", "bound"}
  /\ link \in {"up", "down"}
  /\ outages \in 0 .. MaxOutages /\ calls \in 0 .. MaxCalls
  /\ written \in BOOLEAN /\ inOrder \in BOOLEAN
  /\ {first, handled} \subseteq {"none", "Stopped"} \cup Sends
  /\ \A s \in Servers : call[s] # "none" <=> srv[s] = "info"
  /\ \A r \in Reporters : call[r] # "none" <=> rep[r] = "publishing"
  /\ call["monitor"] # "none" <=> mon = "updating"
  /\ call["shutdown"] # "none" <=> down = "removing"

Init ==
  /\ failures = -1 /\ closed = FALSE /\ chan = "open"
  /\ call = [g \in Goroutines |-> "none"]
  /\ mon = "ready" /\ down = "up" /\ proc = "running"
  /\ srv = [s \in Servers |-> "none"]
  /\ rep = [r \in Reporters |-> "none"]
  /\ pings = 1
  /\ srvRunning = FALSE /\ repRunning = FALSE
  /\ repStops = 0 /\ tokens = 0
  /\ link \in {"up", "down"} /\ calls = 0
  /\ outages = (IF link = "up" THEN 0 ELSE 1) /\ outages <= MaxOutages
  /\ written = FALSE
  /\ first = "none" /\ handled = "none" /\ inOrder = TRUE

Alive == proc = "running"

Goto(g, label) == call' = [call EXCEPT ![g] = label]

-----------------------------------------------------------------------------
(* Redis calls (internal/redis/limiter.go; Limiter has the details).         *)

Allow(g) ==
  /\ Alive /\ call[g] = "allow"
  /\ Goto(g, IF closed THEN "refused" ELSE "attempt")
  /\ UNCHANGED <<limiter, mon, srv, rep, pings, flags, down, proc, world,
                 written, history>>

\* What a command does to the node's info: HSET by UpdateNodeInfo, DEL by
\* RemoveNodeInfo; PUBLISH and PING leave it alone.
InfoAfter(g) ==
  IF g = "monitor" \/ g \in Servers THEN TRUE
  ELSE IF g = "shutdown" THEN FALSE ELSE written

\* What ReportResult(nil) does first for a count of n.
OnSuccess(n) == IF n = -1 THEN "Connected" ELSE IF n > 0 THEN "Recovered" ELSE "ok"

Succeed(g) ==
  /\ Alive /\ call[g] = "attempt" /\ link = "up"
  /\ written' = InfoAfter(g)
  /\ Goto(g, OnSuccess(failures))
  /\ UNCHANGED <<limiter, mon, srv, rep, pings, flags, down, proc, world,
                 history>>

\* go-redis repeats the call; the pipeline of UpdateNodeInfo it may give up.
AfterError(g) == IF g = "monitor" \/ g \in Servers THEN {"allow", "error"}
                                                   ELSE {"allow"}

Fail(g) ==
  /\ Alive /\ call[g] = "attempt" /\ link = "down"
  /\ failures' = IF failures < 2 THEN failures + 1 ELSE 2
  /\ \E label \in AfterError(g) :
       Goto(g, IF failures' = 1 THEN "Failed" ELSE label)
  /\ UNCHANGED <<closed, chan, mon, srv, rep, pings, flags, down, proc, world,
                 written, history>>

\* A send on the closed channel, even by a sender that was blocked before.
Panic(g) ==
  /\ Alive /\ call[g] \in Sends /\ chan = "closed"
  /\ proc' = "panic"
  /\ UNCHANGED <<limiter, call, mon, srv, rep, pings, flags, down, world,
                 written, history>>

\* ReportResult goes on after its send.
Resume(g, others) ==
  CASE call[g] = "Connected" ->
         /\ call' = [others EXCEPT ![g] = IF failures > 0 THEN "Recovered" ELSE "ok"]
         /\ failures' = IF failures > 0 THEN failures ELSE 0
    [] call[g] = "Recovered" ->
         /\ call' = [others EXCEPT ![g] = "ok"]
         /\ failures' = 0
    [] OTHER ->
         /\ \E label \in AfterError(g) : call' = [others EXCEPT ![g] = label]
         /\ UNCHANGED failures

-----------------------------------------------------------------------------
(* The monitor.                                                              *)

Free(f) == {x \in DOMAIN f : f[x] = "none"}

\* go commandServer.Run(); go telemetryReporter.Run()
Start ==
  /\ \E s \in Free(srv) : srv' = [srv EXCEPT ![s] = "starting"]
  /\ \E r \in Free(rep) : rep' = [rep EXCEPT ![r] = "starting"]

Expected(r) == \/ r = "Connected" /\ handled = "none"
               \/ r = "Failed"    /\ handled # "Failed"
               \/ r = "Recovered" /\ handled = "Failed"

Receive(g, r) ==
  /\ Alive /\ mon = "ready" /\ chan = "open" /\ call[g] = r
  /\ first' = IF first = "none" THEN r ELSE first
  /\ handled' = r
  /\ inOrder' = (inOrder /\ Expected(r))
  /\ UNCHANGED <<closed, chan, pings, flags, down, proc, world, written>>

\* Connected: start server and reporter, then UpdateNodeInfo by the monitor.
OnConnected(g) ==
  /\ Receive(g, "Connected")
  /\ Start
  /\ mon' = "updating"
  /\ Resume(g, [call EXCEPT !["monitor"] = "allow"])

\* Mutant: the monitor only goes on once the info has been written.
WaitForInfo ==
  /\ Alive /\ mon = "updating" /\ call["monitor"] = "ok"
  /\ mon' = "ready"
  /\ Goto("monitor", "none")
  /\ UNCHANGED <<limiter, srv, rep, pings, flags, down, proc, world, written,
                 history>>

\* Mutant: an error of UpdateNodeInfo is logged, as it is for the info command.
LogError ==
  /\ Alive /\ mon = "updating" /\ call["monitor"] \in Results
  /\ mon' = "ready"
  /\ Goto("monitor", "none")
  /\ UNCHANGED <<limiter, srv, rep, pings, flags, down, proc, world, written,
                 history>>

\* UpdateNodeInfo has returned; log.Fatal ends the process on an error.
Updated ==
  /\ Alive /\ mon = "updating" /\ call["monitor"] \in Results
  /\ mon' = "ready"
  /\ proc' = IF call["monitor"] = "ok" THEN proc ELSE "fatal"
  /\ Goto("monitor", "none")
  /\ UNCHANGED <<limiter, srv, rep, pings, flags, down, world, written, history>>

\* Mutant: the monitor returns on Failed, as it does on Stopped.
ReturnOnFailed(g) ==
  /\ Receive(g, "Failed")
  /\ mon' = "gone"
  /\ Resume(g, call)
  /\ UNCHANGED <<srv, rep>>

\* Failed: PauseTickers, then commandServer.Stop ...
OnFailed(g) ==
  /\ Receive(g, "Failed")
  /\ mon' = "stop?"
  /\ Resume(g, call)
  /\ UNCHANGED <<srv, rep>>

\* Mutant: the monitor forgets the ping.
NoPing == /\ repStops' = repStops + 1
          /\ UNCHANGED pings

\* ... and after it go telemetryReporter.Stop() and go Client.Ping().
Launch == /\ repStops' = repStops + 1
          /\ pings' = pings + 1

MonStop ==
  /\ Alive /\ mon = "stop?"
  /\ mon' = IF srvRunning THEN "stopping" ELSE "ready"
  /\ IF srvRunning THEN UNCHANGED <<repStops, pings>> ELSE Launch
  /\ UNCHANGED <<limiter, call, srv, rep, srvRunning, repRunning, tokens, down,
                 proc, world, written, history>>

\* Mutant: Stop cuts a server off in the middle of a command.
CutOff(s) ==
  /\ Alive /\ mon = "stopping" /\ srv[s] \in {"serving", "info"}
  /\ srv' = [srv EXCEPT ![s] = "leaving"]
  /\ mon' = "ready"
  /\ Launch
  /\ UNCHANGED <<limiter, call, rep, srvRunning, repRunning, tokens, down, proc,
                 world, written, history>>

\* A server receives the `stopped` that the monitor sends; both go on.
MonStopped(s) ==
  /\ Alive /\ mon = "stopping" /\ srv[s] = "serving"
  /\ srv' = [srv EXCEPT ![s] = "leaving"]
  /\ mon' = "ready"
  /\ Launch
  /\ UNCHANGED <<limiter, call, rep, srvRunning, repRunning, tokens, down, proc,
                 world, written, history>>

\* Mutant: Recovered starts the reporter only.
RestartReporter(g) ==
  /\ Receive(g, "Recovered")
  /\ \E r \in Free(rep) : rep' = [rep EXCEPT ![r] = "starting"]
  /\ Resume(g, call)
  /\ UNCHANGED <<mon, srv>>

\* Recovered: start server and reporter again (after UnpauseTickers).
OnRecovered(g) ==
  /\ Receive(g, "Recovered")
  /\ Start
  /\ Resume(g, call)
  /\ UNCHANGED mon

\* Not the code's: a behaviour ends where it needs more goroutines than there
\* are, so that a bound is never taken for a deadlock.
Bound ==
  /\ Alive /\ mon = "ready" /\ chan = "open"
  /\ Free(srv) = {} \/ Free(rep) = {}
  /\ \E g \in Goroutines : call[g] \in {"Connected", "Recovered"}
  /\ proc' = "bound"
  /\ UNCHANGED <<limiter, call, mon, srv, rep, pings, flags, down, world,
                 written, history>>

-----------------------------------------------------------------------------
(* Command server, reporter and ping goroutines.                             *)

ServerRuns(s) ==
  /\ Alive /\ srv[s] = "starting"
  /\ srv' = [srv EXCEPT ![s] = "serving"]
  /\ srvRunning' = TRUE
  /\ UNCHANGED <<limiter, call, mon, rep, pings, repRunning, repStops, tokens,
                 down, proc, world, written, history>>

\* Only then does it reset the flag, which by now may be another server's.
ServerLeaves(s) ==
  /\ Alive /\ srv[s] = "leaving"
  /\ srv' = [srv EXCEPT ![s] = "none"]
  /\ srvRunning' = FALSE
  /\ UNCHANGED <<limiter, call, mon, rep, pings, repRunning, repStops, tokens,
                 down, proc, world, written, history>>

\* An `info` command; the server makes the call itself.
Info(s) ==
  /\ Alive /\ srv[s] = "serving" /\ link = "up" /\ calls < MaxCalls
  /\ calls' = calls + 1
  /\ srv' = [srv EXCEPT ![s] = "info"]
  /\ Goto(s, "allow")
  /\ UNCHANGED <<limiter, mon, rep, pings, flags, down, proc, link, outages,
                 written, history>>

InfoDone(s) ==
  /\ Alive /\ srv[s] = "info" /\ call[s] \in Results
  /\ srv' = [srv EXCEPT ![s] = "serving"]
  /\ Goto(s, "none")
  /\ UNCHANGED <<limiter, mon, rep, pings, flags, down, proc, world, written,
                 history>>

ReporterRuns(r) ==
  /\ Alive /\ rep[r] = "starting"
  /\ rep' = [rep EXCEPT ![r] = "waiting"]
  /\ repRunning' = TRUE
  /\ UNCHANGED <<limiter, call, mon, srv, pings, srvRunning, repStops, tokens,
                 down, proc, world, written, history>>

\* A measurement arrives and is published.
Publish(r) ==
  /\ Alive /\ rep[r] = "waiting" /\ calls < MaxCalls
  /\ calls' = calls + 1
  /\ rep' = [rep EXCEPT ![r] = "publishing"]
  /\ Goto(r, "allow")
  /\ UNCHANGED <<limiter, mon, srv, pings, flags, down, proc, link, outages,
                 written, history>>

\* On ClientClosedError the reporter returns.
Published(r) ==
  /\ Alive /\ rep[r] = "publishing" /\ call[r] \in Results
  /\ rep' = [rep EXCEPT ![r] = IF call[r] = "ok" THEN "waiting" ELSE "none"]
  /\ repRunning' = (repRunning /\ call[r] = "ok")
  /\ Goto(r, "none")
  /\ UNCHANGED <<limiter, mon, srv, pings, srvRunning, repStops, tokens, down,
                 proc, world, written, history>>

\* Mutant: Stop closes stopChan, which ends every reporter from then on.
StopForGood(r) ==
  /\ Alive /\ rep[r] = "waiting" /\ tokens > 0
  /\ rep' = [rep EXCEPT ![r] = "leaving"]
  /\ UNCHANGED <<limiter, call, mon, srv, pings, flags, down, proc, world, written,
                 history>>

\* A stop token is for whichever reporter takes it.
ReporterStops(r) ==
  /\ Alive /\ rep[r] = "waiting" /\ tokens > 0
  /\ tokens' = tokens - 1
  /\ rep' = [rep EXCEPT ![r] = "leaving"]
  /\ UNCHANGED <<limiter, call, mon, srv, pings, srvRunning, repRunning, repStops,
                 down, proc, world, written, history>>

ReporterLeaves(r) ==
  /\ Alive /\ rep[r] = "leaving"
  /\ rep' = [rep EXCEPT ![r] = "none"]
  /\ repRunning' = FALSE
  /\ UNCHANGED <<limiter, call, mon, srv, pings, srvRunning, repStops, tokens,
                 down, proc, world, written, history>>

\* RedisReporter.Stop adds a token if the reporter is running, and waits while
\* there are ten.
TokensAfterStop == IF repRunning THEN tokens + 1 ELSE tokens

StopReporter ==
  /\ Alive /\ repStops > 0 /\ TokensAfterStop <= 10
  /\ repStops' = repStops - 1
  /\ tokens' = TokensAfterStop
  /\ UNCHANGED <<limiter, call, mon, srv, rep, pings, srvRunning, repRunning,
                 down, proc, world, written, history>>

Ping(p) ==
  /\ Alive /\ call[p] = "none" /\ pings > 0
  /\ pings' = pings - 1
  /\ Goto(p, "allow")
  /\ UNCHANGED <<limiter, mon, srv, rep, flags, down, proc, world, written,
                 history>>

PingDone(p) ==
  /\ Alive /\ call[p] \in Results
  /\ Goto(p, "none")
  /\ UNCHANGED <<limiter, mon, srv, rep, pings, flags, down, proc, world,
                 written, history>>

-----------------------------------------------------------------------------
(* The shutdown goroutine.                                                   *)

Shutdown(from, to) == Alive /\ down = from /\ down' = to

Signal ==
  /\ Shutdown("up", "stop?") /\ MaxSignals > 0
  /\ UNCHANGED <<limiter, call, mon, srv, rep, pings, flags, proc, world,
                 written, history>>

DownStop ==
  /\ Shutdown("stop?", IF srvRunning THEN "stopping" ELSE "retrying?")
  /\ UNCHANGED <<limiter, call, mon, srv, rep, pings, flags, proc, world,
                 written, history>>

DownStopped(s) ==
  /\ Shutdown("stopping", "retrying?")
  /\ srv[s] = "serving"
  /\ srv' = [srv EXCEPT ![s] = "leaving"]
  /\ UNCHANGED <<limiter, call, mon, rep, pings, flags, proc, world, written,
                 history>>

\* IsRetrying is asked once; RemoveNodeInfo then is a call like any other.
RemoveInfo ==
  /\ Shutdown("retrying?", IF failures > 0 THEN "close" ELSE "removing")
  /\ IF failures > 0 THEN UNCHANGED call ELSE Goto("shutdown", "allow")
  /\ UNCHANGED <<limiter, mon, srv, rep, pings, flags, proc, world, written,
                 history>>

InfoRemoved ==
  /\ Shutdown("removing", "close")
  /\ call["shutdown"] \in Results
  /\ Goto("shutdown", "none")
  /\ UNCHANGED <<limiter, mon, srv, rep, pings, flags, proc, world, written,
                 history>>

\* reconnectingClient.Close: Stopped ends the monitor ...
SendStopped ==
  /\ Shutdown("close", "limiter")
  /\ mon = "ready"
  /\ mon' = "gone"
  /\ first' = IF first = "none" THEN "Stopped" ELSE first
  /\ handled' = "Stopped"
  /\ UNCHANGED <<limiter, call, srv, rep, pings, flags, proc, world, written,
                 inOrder>>

CloseLimiter ==
  /\ Shutdown("limiter", "channel")
  /\ closed' = TRUE
  /\ UNCHANGED <<failures, chan, call, mon, srv, rep, pings, flags, proc, world,
                 written, history>>

CloseChannel ==
  /\ Shutdown("channel", "reporter")
  /\ chan' = "closed"
  /\ UNCHANGED <<failures, closed, call, mon, srv, rep, pings, flags, proc,
                 world, written, history>>

DownStopReporter ==
  /\ Shutdown("reporter", "daemon")
  /\ TokensAfterStop <= 10
  /\ tokens' = TokensAfterStop
  /\ UNCHANGED <<limiter, call, mon, srv, rep, pings, srvRunning, repRunning,
                 repStops, proc, world, written, history>>

\* daemon.Stop lets daemon.Run, and with it main, return.
Exit ==
  /\ Shutdown("daemon", "done")
  /\ proc' = "exited"
  /\ UNCHANGED <<limiter, call, mon, srv, rep, pings, flags, world, written,
                 history>>

-----------------------------------------------------------------------------
(* Redis and the specification.                                              *)

LinkDown ==
  /\ Alive /\ link = "up" /\ outages < MaxOutages
  /\ link' = "down" /\ outages' = outages + 1
  /\ UNCHANGED <<limiter, call, mon, srv, rep, pings, flags, down, proc, calls,
                 written, history>>

LinkUp ==
  /\ Alive /\ link = "down"
  /\ link' = "up"
  /\ UNCHANGED <<limiter, call, mon, srv, rep, pings, flags, down, proc,
                 outages, calls, written, history>>

Report(g) == OnConnected(g) \/ OnFailed(g) \/ OnRecovered(g)
Call(g)   == Allow(g) \/ Succeed(g) \/ Fail(g) \/ Panic(g)
Server(s) == ServerRuns(s) \/ InfoDone(s) \/ ServerLeaves(s)
Reporter(r) == ReporterRuns(r) \/ Published(r) \/ ReporterLeaves(r)
DownStep  == \/ DownStop \/ RemoveInfo \/ InfoRemoved
             \/ CloseLimiter \/ CloseChannel \/ DownStopReporter \/ Exit

Next == \/ \E g \in Goroutines : Call(g)
        \/ \E g \in Goroutines : Report(g)
        \/ Bound
        \/ Updated
        \/ MonStop
        \/ \E s \in Servers : MonStopped(s)
        \/ \E s \in Servers : Server(s)
        \/ \E s \in Servers : Info(s)
        \/ \E r \in Reporters : Reporter(r)
        \/ \E r \in Reporters : Publish(r)
        \/ \E r \in Reporters : ReporterStops(r)
        \/ StopReporter
        \/ \E p \in Pingers : Ping(p)
        \/ \E p \in Pingers : PingDone(p)
        \/ Signal
        \/ DownStep
        \/ \E s \in Servers : DownStopped(s)
        \/ SendStopped
        \/ LinkDown
        \/ LinkUp

Spec == Init /\ [][Next]_vars

\* The scheduler runs some goroutine as long as one is able to go on.  Nothing
\* is assumed of Redis, of operators, of measurements or of signals, nor of
\* the order in which goroutines run: as the bounds leave finitely many calls,
\* none can be overtaken for ever once Redis can be reached.
Work == \/ \E g \in Goroutines : Call(g) \/ Report(g)
        \/ Bound \/ Updated \/ MonStop \/ StopReporter \/ DownStep \/ SendStopped
        \/ \E s \in Servers : Server(s) \/ MonStopped(s) \/ DownStopped(s)
        \/ \E r \in Reporters : Reporter(r) \/ ReporterStops(r)
        \/ \E p \in Pingers : Ping(p) \/ PingDone(p)

FairSpec == Spec /\ WF_vars(Work)

-----------------------------------------------------------------------------
(* Properties.                                                               *)

\* The monitor has dealt with every report it got, and the last one said that
\* Redis can be reached.
Settled == /\ Alive /\ inOrder /\ down = "up" /\ mon = "ready"
           /\ handled \in {"Connected", "Recovered"}

\* Has not ended, and has not been told to.
Staying(state) == state \notin {"none", "leaving"}

\* As long as the reports come in order, a daemon that is connected again has
\* a command server, one it is starting at least: the Stop that followed
\* Failed (main.go:64-65) never hits the server that a later Recovered starts,
\* however long the goroutine that runs it is delayed.
SomebodyServes == Settled => \E s \in Servers : Staying(srv[s])

\* The same for the reporter, although it is stopped asynchronously, by a
\* token that any reporter may take and that may come after the restart, if
\* the first report said Connected: then there has been one Run more than
\* there have been Stops, and a Stop never ends two (main.go:66, 72;
\* redis.go:148-159).
SomebodyReports ==
  Settled /\ first = "Connected" => \E r \in Reporters : Staying(rep[r])

\* The info key is written if the first report said Connected, whatever
\* outages follow: UpdateNodeInfo is retried through them, and where it gives
\* up the daemon ends.  If the first report said Recovered only an info command
\* writes it (main.go:59-62, 68-71; redis.go:53).
NodeInfoIsWritten == Settled /\ first = "Connected" => written

\* How the monitor and the shutdown can block for good.  UpdateNodeInfo by the
\* monitor has to report to the monitor; the server that Stop waits for has to
\* report to the monitor itself, or there is none: the flag was read before the
\* server that another Stop has ended could reset it (redis.go:61-62, 79).  In
\* the shutdown that other Stop is the monitor's; before it, it is that of an
\* earlier Failed, and only a report out of order brings two in a row.
Stuck(s) == ~Staying(srv[s]) \/ call[s] \in Sends
MonitorHangs == \/ mon = "updating" /\ call["monitor"] \in Sends
                \/ mon = "stopping" /\ \A s \in Servers : Stuck(s)
Wedged == MonitorHangs \/ (down = "stopping" /\ \A s \in Servers : Stuck(s))

Reachable == <>[](link = "up")

\* While Redis can be reached, nothing else keeps the monitor from its
\* channel: it deals with every report, or hangs for good (main.go:53-77).
MonitorComesBack ==
  Reachable /\ []<>~MonitorHangs =>
    [](mon \notin {"ready", "gone"} => <>(mon \in {"ready", "gone"} \/ ~Alive))

\* A failure that was reported is followed up: while Redis can be reached the
\* ping that Failed launches (main.go:67) is retried until there is a Recovered,
\* unless the monitor hangs before it has launched it, or when it should hear of
\* the recovery, or reports overtake each other.
FailureIsFollowedUp ==
  Reachable /\ []<>~MonitorHangs =>
    [](handled = "Failed" /\ inOrder => <>(handled # "Failed" \/ ~inOrder \/ ~Alive))

\* ... and nothing else keeps the shutdown from its end: after a signal the
\* process ends, be it by log.Fatal or a panic (main.go:84-99).
ShutdownCompletes ==
  Reachable /\ []<>~Wedged => [](down # "up" => <>~Alive)

\* What README.md:30 and README.md:96 promise of a daemon that is connected;
\* the code keeps neither.
\*
\* Telemetry is reported: a connected daemon has a reporter.  The late Stop of
\* a Failed that came first ends the reporter that Recovered has started
\* (main.go:66, 72).
ConnectedHostReports == Settled => \E r \in Reporters : Staying(rep[r])

\* The host listens: once a server has been there, one is there again and
\* again until the shutdown.  But the monitor waits for a server that waits for
\* the monitor (main.go:65).  If it waits for itself (main.go:59) the server
\* still hears commands, until an `info` makes it wait for the monitor, too.
Listening == \E s \in Servers : srv[s] = "serving"
HostKeepsListening ==
  Reachable => [](Listening => []<>(Listening \/ down # "up" \/ ~Alive))
=============================================================================
