------------------------------ MODULE Lifecycle ------------------------------
(* The life of the daemon from Run to the end of the process, and of the     *)
(* telemetry channel (internal/telemd/daemon.go, internal/telem/telem.go).   *)
(*                                                                           *)
(* Run starts the command loop and a goroutine that launches the tickers and *)
(* waits for them in a wait group, to which each ticker adds itself when its *)
(* goroutine is scheduled.  Ticks launch measurements that nobody waits for; *)
(* they put values into an unbuffered channel that the reporter receives     *)
(* from, and which Run closes one second after both goroutines have returned.*)
(*                                                                           *)
(* Pausing a ticker (TickerControl) is one of the reasons why it may not     *)
(* tick; how reporters are started and stopped (Telemd) is reduced to one    *)
(* that comes and goes; what a measurement does is left to Measurements.     *)
EXTENDS Naturals, Sequences

CONSTANTS Tickers,
          Calls,      \* bound: measurements under way at once
          MaxRuns     \* bound: how often a reporter is started, or stopped
                      \* before the shutdown

ASSUME LifecycleAssumption == MaxRuns \in Nat

VARIABLES
  run,      \* main, in Daemon.Run: "waiting", "sleeping", "closed"
  cmdLoop,  \* the command loop: "running" or "returned"
  waiter,   \* the goroutine that waits for the tickers: "new", "look" (about
            \* to call Wait), "blocked" in it, "woken", "returned"
  ticker,   \* ticker[t]: "unborn", "new" (launched), "running", "left" (Run
            \* has returned), "done" (wg.Done)
  stop,     \* the shutdown goroutine: "up", "reporter", "cmds", "tickers", "done"
  todo,     \* the tickers that daemon.Stop has not stopped yet
  work,     \* work[m]: measurement m is "none", "measuring" or in "put"
  senders,  \* the measurements blocked in Put, as the channel queues them
  rep,      \* the reporter: "none", "waiting" or "publishing"
  tokens,   \* values in RedisReporter.stopChan
  runs,     \* starts and early stops of reporters so far
  proc,     \* "running", "exited", or why the process has crashed
  late,     \* history: the tickers that had not added themselves at Wait
  hasty     \* history: those that had not when the signal came

tick  == <<waiter, ticker, late>>
end   == <<run, cmdLoop, stop, todo, hasty>>
vars  == <<run, cmdLoop, waiter, ticker, stop, todo, work, senders, rep, tokens,
           runs, proc, late, hasty>>

Alive == proc = "running"

\* The channel queues measurements that are in Put, each of them once.
QueueOK ==
  /\ senders \in Seq(Calls)
  /\ \A i \in 1 .. Len(senders) : work[senders[i]] = "put"
  /\ \A i, j \in 1 .. Len(senders) : senders[i] = senders[j] => i = j

RangesOK ==
  /\ run \in {"waiting", "sleeping", "closed"}
  /\ cmdLoop \in {"running", "returned"}
  /\ waiter \in {"new", "look", "blocked", "woken", "returned"}
  /\ ticker \in [Tickers -> {"unborn", "new", "running", "left", "done"}]
  /\ stop \in {"up", "reporter", "cmds", "tickers", "done"}
  /\ todo \in SUBSET Tickers
  /\ work \in [Calls -> {"none", "measuring", "put"}]
  /\ rep \in {"none", "waiting", "publishing"}
  /\ tokens \in Nat /\ runs \in 0 .. 2 * MaxRuns
  /\ proc \in {"running", "exited", "error reply", "measurement", "node info",
               "closed channel", "wait group"}
  /\ late \subseteq Tickers /\ hasty \subseteq Tickers

TypeOK == RangesOK /\ QueueOK

Init ==
  /\ run = "waiting" /\ cmdLoop = "running" /\ waiter = "new"
  /\ ticker = [t \in Tickers |-> "unborn"]
  /\ stop = "up" /\ todo = {}
  /\ work = [m \in Calls |-> "none"] /\ senders = << >>
  /\ rep = "none" /\ tokens = 0 /\ runs = 0
  /\ proc = "running"
  /\ late = {} /\ hasty = {}

-----------------------------------------------------------------------------
(* startTickers and its wait group.                                          *)

\* The tickers that the wait group counts.
Counted == {t \in Tickers : ticker[t] \in {"running", "left"}}

Launch ==
  /\ Alive /\ waiter = "new"
  /\ waiter' = "look"
  /\ ticker' = [t \in Tickers |-> "new"]
  /\ UNCHANGED <<end, work, senders, rep, tokens, runs, proc, late>>

\* wg.Add(1) and then Run, up to its first select.
Added(t) ==
  /\ Alive /\ ticker[t] = "new"
  /\ ticker' = [ticker EXCEPT ![t] = "running"]
  /\ UNCHANGED <<end, waiter, work, senders, rep, tokens, runs, proc, late>>

\* Wait returns at once if the wait group counts nothing.
Wait ==
  /\ Alive /\ waiter = "look"
  /\ waiter' = IF Counted = {} THEN "returned" ELSE "blocked"
  /\ late' = {t \in Tickers : ticker[t] = "new"}
  /\ UNCHANGED <<end, ticker, work, senders, rep, tokens, runs, proc>>

\* Mutant: a ticker that ends while Wait is blocked returns without wg.Done.
MissingDone(t) ==
  /\ Alive /\ ticker[t] = "left" /\ waiter # "blocked"
  /\ ticker' = [ticker EXCEPT ![t] = "done"]
  /\ UNCHANGED <<end, waiter, work, senders, rep, tokens, runs, proc, late>>

\* wg.Done; the one that makes the count zero releases Wait.
Done(t) ==
  /\ Alive /\ ticker[t] = "left"
  /\ ticker' = [ticker EXCEPT ![t] = "done"]
  /\ waiter' = IF waiter = "blocked" /\ Counted = {t} THEN "woken" ELSE waiter
  /\ UNCHANGED <<end, work, senders, rep, tokens, runs, proc, late>>

\* Wait panics if the count is not zero any more when it goes on.
Woken ==
  /\ Alive /\ waiter = "woken"
  /\ IF Counted = {} THEN waiter' = "returned" /\ UNCHANGED proc
                     ELSE proc' = "wait group" /\ UNCHANGED waiter
  /\ UNCHANGED <<end, ticker, work, senders, rep, tokens, runs, late>>

-----------------------------------------------------------------------------
(* Measurements and the telemetry channel.                                   *)

Closed == run = "closed"

\* go MeasureAndReport
Tick(t, m) ==
  /\ Alive /\ ticker[t] = "running" /\ work[m] = "none"
  /\ work' = [work EXCEPT ![m] = "measuring"]
  /\ UNCHANGED <<tick, end, senders, rep, tokens, runs, proc>>

\* Put: t.C <- telemetry; sending on a closed channel panics.
Put(m) ==
  /\ Alive /\ work[m] = "measuring"
  /\ IF Closed THEN proc' = "closed channel" /\ UNCHANGED <<work, senders>>
               ELSE /\ work' = [work EXCEPT ![m] = "put"]
                    /\ senders' = Append(senders, m)
                    /\ UNCHANGED proc
  /\ UNCHANGED <<tick, end, rep, tokens, runs>>

\* So it does for those that were blocked when the channel was closed.
PutFails(m) ==
  /\ Alive /\ work[m] = "put" /\ Closed
  /\ proc' = "closed channel"
  /\ UNCHANGED <<tick, end, work, senders, rep, tokens, runs>>

MeasurementEnds(m) ==
  /\ Alive /\ work[m] = "measuring"
  /\ work' = [work EXCEPT ![m] = "none"]
  /\ UNCHANGED <<tick, end, senders, rep, tokens, runs, proc>>

\* Mutant: the last to come is the first to be served.
ReceiveLast ==
  /\ Alive /\ rep = "waiting" /\ senders # << >> /\ ~Closed
  /\ rep' = "publishing"
  /\ work' = [work EXCEPT ![senders[Len(senders)]] = "measuring"]
  /\ senders' = SubSeq(senders, 1, Len(senders) - 1)
  /\ UNCHANGED <<tick, end, tokens, runs, proc>>

\* Mutant: a sender whose value is taken stays in the queue.
ReceiveKeeping ==
  /\ Alive /\ rep = "waiting" /\ senders # << >> /\ ~Closed
  /\ rep' = "publishing"
  /\ work' = [work EXCEPT ![Head(senders)] = "measuring"]
  /\ UNCHANGED <<tick, end, senders, tokens, runs, proc>>

\* t := <-reporter.channel.Channel(), from the sender that has waited longest.
\* The zero value that a closed channel gives is not reported.
Receive ==
  /\ Alive /\ rep = "waiting" /\ senders # << >> /\ ~Closed
  /\ rep' = "publishing"
  /\ work' = [work EXCEPT ![Head(senders)] = "measuring"]
  /\ senders' = Tail(senders)
  /\ UNCHANGED <<tick, end, tokens, runs, proc>>

\* A parser panics on what it reads, or an instrument on what it has parsed, or
\* the runtime finds two measurements in one map.
MeasurementPanics(m) ==
  /\ Alive /\ work[m] = "measuring"
  /\ proc' = "measurement"
  /\ UNCHANGED <<tick, end, work, senders, rep, tokens, runs>>

\* The monitor cannot write the node's info: log.Fatal.  Its call may have begun
\* before the shutdown closed the client.
NodeInfoFails ==
  /\ Alive
  /\ proc' = "node info"
  /\ UNCHANGED <<tick, end, work, senders, rep, tokens, runs>>

\* report returns: it is published, or the client has been closed, or Redis
\* has answered with an error.
Published ==
  /\ Alive /\ rep = "publishing"
  /\ \/ rep' = "waiting" /\ UNCHANGED proc
     \/ rep' = "none" /\ stop # "up" /\ UNCHANGED proc
     \/ rep' = "none" /\ proc' = "error reply"
  /\ UNCHANGED <<tick, end, work, senders, tokens, runs>>

ReporterRuns ==
  /\ Alive /\ rep = "none" /\ runs < MaxRuns
  /\ runs' = runs + 1
  /\ rep' = "waiting"
  /\ UNCHANGED <<tick, end, work, senders, tokens, proc>>

ReporterStops ==
  /\ Alive /\ rep = "waiting" /\ tokens > 0
  /\ tokens' = tokens - 1
  /\ rep' = "none"
  /\ UNCHANGED <<tick, end, work, senders, runs, proc>>

\* RedisReporter.Stop: it blocks when stopChan holds ten.
TokensAfterStop == IF rep = "none" THEN tokens ELSE tokens + 1

\* The monitor stops the reporter in an outage.
Outage ==
  /\ Alive /\ stop = "up" /\ rep # "none" /\ runs < 2 * MaxRuns
  /\ runs' = runs + 1
  /\ TokensAfterStop <= 10 /\ tokens' = TokensAfterStop
  /\ UNCHANGED <<tick, end, work, senders, rep, proc>>

-----------------------------------------------------------------------------
(* The shutdown goroutine from telemetryReporter.Stop on, and Run's end.     *)

Signal ==
  /\ Alive /\ stop = "up"
  /\ stop' = "reporter"
  /\ hasty' = {t \in Tickers : ticker[t] \in {"unborn", "new"}}
  /\ UNCHANGED <<tick, run, cmdLoop, todo, work, senders, rep, tokens, runs, proc>>

StopReporter ==
  /\ Alive /\ stop = "reporter"
  /\ stop' = "cmds"
  /\ TokensAfterStop <= 10 /\ tokens' = TokensAfterStop
  /\ UNCHANGED <<tick, run, cmdLoop, todo, work, senders, rep, runs, proc, hasty>>

\* daemon.Stop: cmds.stop <- true ...
StopCommandLoop ==
  /\ Alive /\ stop = "cmds" /\ cmdLoop = "running"
  /\ stop' = "tickers"
  /\ cmdLoop' = "returned"
  /\ todo' = Tickers
  /\ UNCHANGED <<tick, run, work, senders, rep, tokens, runs, proc, hasty>>

\* ... and ticker.Stop for each, which needs a ticker that is in its select.
StopTicker(t) ==
  /\ Alive /\ stop = "tickers" /\ t \in todo /\ ticker[t] = "running"
  /\ ticker' = [ticker EXCEPT ![t] = "left"]
  /\ todo' = todo \ {t}
  /\ UNCHANGED <<waiter, late, run, cmdLoop, stop, hasty, work, senders, rep,
                 tokens, runs, proc>>

Stopped ==
  /\ Alive /\ stop = "tickers" /\ todo = {}
  /\ stop' = "done"
  /\ UNCHANGED <<tick, run, cmdLoop, todo, hasty, work, senders, rep, tokens,
                 runs, proc>>

\* Mutant: Run waits for one of its two goroutines.
EitherReturned == cmdLoop = "returned" \/ waiter = "returned"

\* wg.Wait() of Run
BothReturned == cmdLoop = "returned" /\ waiter = "returned"

RunWaits ==
  /\ Alive /\ run = "waiting" /\ BothReturned
  /\ run' = "sleeping"
  /\ UNCHANGED <<tick, cmdLoop, stop, todo, hasty, work, senders, rep, tokens,
                 runs, proc>>

\* The second is over: daemon.telemetry.Close()
Close ==
  /\ Alive /\ run = "sleeping"
  /\ run' = "closed"
  /\ UNCHANGED <<tick, cmdLoop, stop, todo, hasty, work, senders, rep, tokens,
                 runs, proc>>

\* main returns, and with it the process ends.
Exit ==
  /\ Alive /\ run = "closed"
  /\ proc' = "exited"
  /\ UNCHANGED <<tick, end, work, senders, rep, tokens, runs>>

Terminated == ~Alive /\ UNCHANGED vars

-----------------------------------------------------------------------------
Waiting == Launch \/ Wait \/ Woken
Leaving(t) == Done(t) \/ StopTicker(t)
Fatal == NodeInfoFails \/ \E m \in Calls : MeasurementPanics(m)
Ending == \/ StopReporter \/ StopCommandLoop \/ Stopped
          \/ RunWaits \/ Close \/ Exit

Next == \/ Waiting
        \/ \E t \in Tickers : Added(t)
        \/ \E t \in Tickers : Leaving(t)
        \/ \E t \in Tickers, m \in Calls : Tick(t, m)
        \/ \E m \in Calls : Put(m)
        \/ \E m \in Calls : PutFails(m)
        \/ \E m \in Calls : MeasurementEnds(m)
        \/ Fatal
        \/ Receive
        \/ Published
        \/ ReporterRuns
        \/ ReporterStops
        \/ Outage
        \/ Signal
        \/ Ending
        \/ Terminated

Spec == Init /\ [][Next]_vars

\* Goroutines are scheduled and both ends of a ready channel meet.  Nothing is
\* assumed of timers, measurements, Redis or signals.
FairSpec ==
  /\ Spec
  /\ WF_vars(Waiting)
  /\ \A t \in Tickers : WF_vars(Added(t)) /\ WF_vars(Leaving(t))
  /\ WF_vars(Receive)
  /\ WF_vars(Ending)

-----------------------------------------------------------------------------
(* Properties.                                                               *)

\* Run goes on to close the channel only in a shutdown, and after the last
\* ticker has returned if only every ticker had added itself before Wait was
\* called; if not, nothing but the sleep keeps it behind them
\* (daemon.go:107, 132-135).
RunOutlivesTickers ==
  run # "waiting" => /\ stop \in {"tickers", "done"}
                     /\ late # {} \/ \A t \in Tickers : ticker[t] = "done"

\* The tickers come and go as TickerShutdown says, as those of TickerControl do.
Phase(t) == IF ticker[t] \in {"unborn", "new"} THEN "waiting"
            ELSE IF ticker[t] = "running" THEN "running" ELSE "returned"

\* Where daemon.Stop is in its loop over the tickers.
Stopping == IF stop = "tickers" THEN "yes" ELSE IF stop = "done" THEN "done" ELSE "no"

Shutdown == INSTANCE TickerShutdown
  WITH loop <- [t \in Tickers |-> Phase(t)],
       stopping <- Stopping
ShutdownInOrder == Shutdown!Spec

\* No measurement is launched when the channel has been closed, so that only
\* those still under way can meet it closed, unless tickers were late
\* (ticker.go:62, daemon.go:135).
NothingBeginsOnClosedChannel ==
  [][\A m \in Calls : Closed /\ work[m] = "none" /\ work'[m] # "none" => late # {}]_vars

\* Whatever else may end the process, the daemon's own goroutines do so only in
\* a shutdown: nobody meets the telemetry channel closed before daemon.Stop has
\* got to the tickers, and the wait group panics only if the signal came, and Wait
\* was called, before every ticker had been scheduled.  Errors of Redis, panics of
\* measurements and log.Fatal are not excepted: they may come at any time
\* (daemon.go:107, 128, 135; telem.go:63-69).
CrashesHaveCauses ==
  /\ proc = "closed channel" => stop \in {"tickers", "done"}
  /\ proc = "wait group" => stop # "up" /\ hasty # {} /\ late # {}

\* Run is not left waiting: no wake-up of Wait is lost, and when daemon.Stop has
\* returned the command loop has, and every ticker is on its way to wg.Done or
\* past it (daemon.go:106-112, 141-152).
RunIsNotHeldBack ==
  /\ waiter = "blocked" => Counted # {}
  /\ stop = "done" => /\ cmdLoop = "returned"
                      /\ \A t \in Tickers : ticker[t] \in {"left", "done"}

\* A signal, once the shutdown is past the command server and the client (Telemd),
\* ends the process, no matter whether measurements ever return, a
\* reporter is there to take their values, or tickers have been late
\* (main.go:95-108, daemon.go:116-136).
SignalEndsProcess == stop # "up" ~> ~Alive

\* Nobody is overtaken in the queue of the channel: whoever leaves it had nobody
\* ahead, nobody gets ahead of one that waits, and each value the reporter takes
\* brings all those that still wait a place forward (telem.go:63-65,
\* redis.go:129).
Ahead(m) == {senders[i] : i \in {i \in 1 .. Len(senders) :
                                   \E j \in i + 1 .. Len(senders) : senders[j] = m}}
Taken == rep = "waiting" /\ rep' = "publishing"

ServedInTurn ==
  [][\A m \in Calls : work[m] = "put" =>
       IF work'[m] = "put"
       THEN /\ Ahead(m)' \subseteq Ahead(m)
            /\ Taken => Ahead(m)' # Ahead(m)
       ELSE Taken /\ Ahead(m) = {}]_vars

\* Measurements that have piled up while nobody took their values get their
\* turn: where there is a reporter in the end whose calls return, no value
\* waits for ever, however many tickers go on (ticker.go:62, redis.go:129).
BacklogDrains ==
  <>[](rep # "none") /\ []<>(rep = "waiting") =>
    \A m \in Calls : work[m] = "put" ~> work[m] # "put" \/ ~Alive
=============================================================================
