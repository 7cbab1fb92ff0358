--------------------------- MODULE TickerControl ---------------------------
(* The control of telemd's tickers (internal/telemd/ticker.go, cmd.go,     *)
(* daemon.go and the wiring in cmd/telemd/main.go).                        *)
(*                                                                         *)
(* Every instrument has a ticker: a goroutine that selects over an         *)
(* unbuffered `pause` channel, an unbuffered `done` channel and the        *)
(* channel of a time.Ticker.  Three goroutines, the controllers, run       *)
(* sweeps over all tickers without any lock:                               *)
(*   monitor   PauseTickers on Failed, UnpauseTickers on Recovered         *)
(*   cmdloop   PauseTickers and UnpauseTickers on an operator's command    *)
(*   shutdown  daemon.Stop, after it has seen the other two off            *)
(* A call on one ticker is two steps, of which the one on the channel may  *)
(* block; two sweeps can meet at a ticker between these steps.             *)
(*                                                                         *)
(* What monitor and shutdown do besides, calls of Redis and of the command *)
(* server's Stop, is in Telemd.  Here they are away meanwhile, and nothing *)
(* says that they come back.                                               *)
EXTENDS Naturals

CONSTANTS Tickers,         \* the instruments' tickers (daemon.tickers)
          NoTicker,        \* no ticker
          MaxSweeps        \* bound: sweeps started by monitor and cmdloop

ASSUME TickerAssumption == NoTicker \notin Tickers /\ MaxSweeps \in Nat

Controllers == {"monitor", "cmdloop", "shutdown"}

VARIABLES
  loop,    \* loop[t]: where ticker t's Run is: "new" (goroutine not started),
           \* "run" (outer select), "pausing" (inner select), "done" (returned)
  cur,     \* cur[t]: the timer that the field ticker.ticker points to; 0 is nil
  armed,   \* armed[t]: the timers of t that have been made and not stopped
  watch,   \* watch[t]: the timer whose channel the outer select waits on
  pausedByCommand,  \* daemon.isPausedByCommand
  op,      \* op[c]: what controller c is doing
  todo,    \* todo[c]: tickers its `range daemon.tickers` has not reached
  at,      \* at[c]: the ticker whose method it is in, or NoTicker
  pc,      \* pc[c]: the step of that method it is about to take
  sweeps,  \* sweeps started so far (only to bound them)
  alone,   \* history: the controller whose sweep no other has overlapped
  settled  \* history: what the last sweep did if it ran alone and no sweep
           \* has begun since, otherwise "unknown"

chans == <<loop, cur, armed, watch>>
ctl   == <<op, todo, at, pc>>
vars  == <<loop, cur, armed, watch, pausedByCommand, op, todo, at, pc, sweeps,
           alone, settled>>

Sweeping == {"pause", "unpause", "stop"}
Phases   == {"idle", "away", "closed", "halting", "gone"}

\* Where in a method a controller can be, and which ones it can be in.
StateOfSweep(c) ==
  /\ at[c] = NoTicker <=> pc[c] = "next"
  /\ op[c] \notin Sweeping => pc[c] = "next"
  /\ pc[c] = "arm" => op[c] = "unpause"
  /\ pc[c] = "disarm" => op[c] # "unpause"
  /\ op[c] = "stop" => c = "shutdown"
  /\ op[c] \in {"pause", "unpause"} => c # "shutdown"

\* Every variable has its type, and a controller is at a step of a method only
\* in a sweep of its own that has that step.
TypeOK ==
  /\ loop \in [Tickers -> {"new", "run", "pausing", "done"}]
  /\ cur \in [Tickers -> Nat]
  /\ armed \in [Tickers -> SUBSET Nat]
  /\ watch \in [Tickers -> Nat]
  /\ pausedByCommand \in BOOLEAN
  /\ op \in [Controllers -> Sweeping \cup Phases]
  /\ \A c \in Controllers : StateOfSweep(c)
  /\ todo \in [Controllers -> SUBSET Tickers]
  /\ at \in [Controllers -> Tickers \cup {NoTicker}]
  /\ pc \in [Controllers -> {"next", "arm", "send", "disarm"}]
  /\ sweeps \in 0 .. MaxSweeps
  /\ alone \in Controllers \cup {"nobody"}
  /\ settled \in Sweeping \cup {"unknown"}

Init ==
  /\ loop = [t \in Tickers |-> "new"]
  /\ cur = [t \in Tickers |-> 0]
  /\ armed = [t \in Tickers |-> {}]
  /\ watch = [t \in Tickers |-> 0]
  /\ pausedByCommand = FALSE
  /\ op = [c \in Controllers |-> "idle"]
  /\ todo = [c \in Controllers |-> {}]
  /\ at = [c \in Controllers |-> NoTicker]
  /\ pc = [c \in Controllers |-> "next"]
  /\ sweeps = 0
  /\ alone = "nobody"
  /\ settled = "unknown"

----------------------------------------------------------------------------
(* The ticker goroutine.                                                   *)

\* Run makes its own timer, whatever an Unpause stored before it started.
LoopStart(t) ==
  /\ loop[t] = "new"
  /\ loop' = [loop EXCEPT ![t] = "run"]
  /\ cur' = [cur EXCEPT ![t] = @ + 1]
  /\ armed' = [armed EXCEPT ![t] = @ \cup {cur[t] + 1}]
  /\ watch' = [watch EXCEPT ![t] = cur[t] + 1]
  /\ UNCHANGED <<pausedByCommand, ctl, sweeps, alone, settled>>

\* The watched timer fires, a measurement is spawned and the select evaluates
\* ticker.ticker.C again.
Tick(t) ==
  /\ loop[t] = "run"
  /\ watch[t] \in armed[t]
  /\ watch' = [watch EXCEPT ![t] = cur[t]]
  /\ UNCHANGED <<loop, cur, armed, pausedByCommand, ctl, sweeps, alone,
                 settled>>

\* Where Run goes when it receives from `pause` or `done`: the outer and the
\* inner select treat each value alike, only the labels differ.
DeafWhilePausing(l, o) ==  \* mutant: the inner select has no `done` case
  IF l = "pausing" /\ o = "stop" THEN l
  ELSE CASE o = "pause" -> "pausing" [] o = "unpause" -> "run" [] OTHER -> "done"
Heard(l, o) == CASE o = "pause"   -> "pausing"
                 [] o = "unpause" -> "run"
                 [] OTHER         -> "done"

----------------------------------------------------------------------------
(* A sweep: for each ticker, in the map's random order, one method call.   *)

\* The first step of Pause and Stop is the send, of Unpause the new timer.
SendFirst(o) == "send"  \* mutant: Unpause makes its timer after the send
First(o) == IF o = "unpause" THEN "arm" ELSE "send"

\* What follows step s of the method that o calls; "next" is its return.
NoDisarm(o, s) ==  \* mutant: Pause leaves the timer running
  IF s = "arm" THEN "send"
  ELSE IF s = "send" /\ o = "stop" THEN "disarm" ELSE "next"
AlwaysDisarm(o, s) ==  \* mutant: Unpause stops the timer it has made
  IF s = "arm" THEN "send" ELSE IF s = "send" THEN "disarm" ELSE "next"
After(o, s) == IF s = "arm" THEN "send"
               ELSE IF s = "send" /\ o # "unpause" THEN "disarm" ELSE "next"

\* UnpauseTickers does nothing while the daemon is paused by command.
AlwaysSweeps(o, byCommand) == TRUE  \* mutant: no check of isPausedByCommand
Sweeps(o, byCommand) == o = "unpause" => ~byCommand

Busy(c) == op[c] \in Sweeping

Begin(c, o) ==
  /\ op' = [op EXCEPT ![c] = o]
  /\ todo' = [todo EXCEPT ![c] = Tickers]
  /\ alone' = IF \E d \in Controllers \ {c} : Busy(d) THEN "nobody" ELSE c
  /\ settled' = "unknown"

Reach(c, t) ==
  /\ Busy(c) /\ at[c] = NoTicker /\ t \in todo[c]
  /\ todo' = [todo EXCEPT ![c] = @ \ {t}]
  /\ at' = [at EXCEPT ![c] = t]
  /\ pc' = [pc EXCEPT ![c] = First(op[c])]
  /\ UNCHANGED <<chans, pausedByCommand, op, sweeps, alone, settled>>

Advance(c) ==
  LET s == After(op[c], pc[c]) IN
  /\ pc' = [pc EXCEPT ![c] = s]
  /\ at' = IF s = "next" THEN [at EXCEPT ![c] = NoTicker] ELSE at
  /\ UNCHANGED <<pausedByCommand, op, todo, sweeps, alone, settled>>

\* ticker.ticker = time.NewTicker(...); the timer it replaces is not stopped.
Arm(c, t) ==
  /\ Busy(c) /\ at[c] = t /\ pc[c] = "arm"
  /\ cur' = [cur EXCEPT ![t] = @ + 1]
  /\ armed' = [armed EXCEPT ![t] = @ \cup {cur[t] + 1}]
  /\ UNCHANGED <<loop, watch>>
  /\ Advance(c)

\* The rendezvous on `pause` or `done`; Run has to be in one of its selects.
Send(c, t) ==
  /\ Busy(c) /\ at[c] = t /\ pc[c] = "send"
  /\ loop[t] \in {"run", "pausing"}
  /\ loop' = [loop EXCEPT ![t] = Heard(@, op[c])]
  /\ watch' = [watch EXCEPT ![t] = IF loop'[t] = "run" THEN cur[t] ELSE 0]
  /\ UNCHANGED <<cur, armed>>
  /\ Advance(c)

\* ticker.ticker.Stop(): whichever timer the field points to by now.
Disarm(c, t) ==
  /\ Busy(c) /\ at[c] = t /\ pc[c] = "disarm"
  /\ armed' = [armed EXCEPT ![t] = @ \ {cur[t]}]
  /\ UNCHANGED <<loop, cur, watch>>
  /\ Advance(c)

\* The range loop is over: the shutdown ends, the monitor goes on after a pause
\* (commandServer.Stop), and otherwise the controller receives again.
AfterSweep(c) == IF op[c] = "stop" THEN "gone"
                 ELSE IF c = "monitor" /\ op[c] = "pause" THEN "away" ELSE "idle"

Finish(c) ==
  /\ Busy(c) /\ at[c] = NoTicker /\ todo[c] = {}
  /\ op' = [op EXCEPT ![c] = AfterSweep(c)]
  /\ settled' = IF alone = c THEN op[c] ELSE "unknown"
  /\ alone' = "nobody"
  /\ UNCHANGED <<chans, pausedByCommand, todo, at, pc, sweeps>>

----------------------------------------------------------------------------
(* What makes the controllers sweep.                                       *)

\* The monitor receives a report from ConnectionState, in any order: overlapping
\* Redis calls swap and repeat them (Limiter).
Report(o) ==
  /\ op["monitor"] = "idle" /\ sweeps < MaxSweeps
  /\ sweeps' = sweeps + 1
  /\ IF Sweeps(o, pausedByCommand)
     THEN Begin("monitor", o)
     ELSE UNCHANGED <<op, todo, alone, settled>>
  /\ UNCHANGED <<chans, pausedByCommand, at, pc>>

Failed    == Report("pause")
Recovered == Report("unpause")

\* Connected: the monitor calls UpdateNodeInfo.
Connected ==
  /\ op["monitor"] = "idle"
  /\ op' = [op EXCEPT !["monitor"] = "away"]
  /\ UNCHANGED <<chans, pausedByCommand, todo, at, pc, sweeps, alone, settled>>

\* It may be back from UpdateNodeInfo or commandServer.Stop, or hang there.
MonitorReturns ==
  /\ op["monitor"] = "away"
  /\ op' = [op EXCEPT !["monitor"] = "idle"]
  /\ UNCHANGED <<chans, pausedByCommand, todo, at, pc, sweeps, alone, settled>>

\* The command loop sets the flag for a command it has received, then sweeps.
\* This may be at any time, also in an outage, for which main.go stops the
\* command server: the loop may be late, and a server that has been started
\* but has not set its `running` yet survives that Stop.
Command(o) ==
  /\ op["cmdloop"] = "idle" /\ sweeps < MaxSweeps
  /\ pausedByCommand' = (o = "pause")
  /\ sweeps' = sweeps + 1
  /\ IF Sweeps(o, pausedByCommand')
     THEN Begin("cmdloop", o)
     ELSE UNCHANGED <<op, todo, alone, settled>>
  /\ UNCHANGED <<chans, at, pc>>

CmdPause   == Command("pause")
CmdUnpause == Command("unpause")

\* What shutdown does before daemon.Stop: see the monitor off.
DaemonFirst == "halting"  \* mutant: daemon.Stop before the client's Close
FirstPhase == "away"

\* A signal arrives; commandServer.Stop and RemoveNodeInfo come first, which may
\* never return.
Signal ==
  /\ op["shutdown"] = "idle"
  /\ op' = [op EXCEPT !["shutdown"] = FirstPhase]
  /\ UNCHANGED <<chans, pausedByCommand, todo, at, pc, sweeps, alone, settled>>

\* reconnectingClient.Close sends Stopped, on which the monitor returns ...
CloseClient ==
  /\ op["shutdown"] = "away" /\ op["monitor"] = "idle"
  /\ op' = [op EXCEPT !["shutdown"] = "closed", !["monitor"] = "gone"]
  /\ UNCHANGED <<chans, pausedByCommand, todo, at, pc, sweeps, alone, settled>>

\* ... and after telemetryReporter.Stop comes daemon.Stop.
ReachDaemon ==
  /\ op["shutdown"] = "closed"
  /\ op' = [op EXCEPT !["shutdown"] = "halting"]
  /\ UNCHANGED <<chans, pausedByCommand, todo, at, pc, sweeps, alone, settled>>

\* daemon.Stop: cmds.stop <- true ends the command loop, the sweep begins.
StopDaemon ==
  /\ op["shutdown"] = "halting" /\ op["cmdloop"] = "idle"
  /\ op' = [op EXCEPT !["shutdown"] = "stop", !["cmdloop"] = "gone"]
  /\ todo' = [todo EXCEPT !["shutdown"] = Tickers]
  /\ alone' = IF Busy("monitor") THEN "nobody" ELSE "shutdown"
  /\ settled' = "unknown"
  /\ UNCHANGED <<chans, pausedByCommand, at, pc, sweeps>>

\* Everything has been stopped; nothing is left to do.
Terminated ==
  /\ \A c \in Controllers : op[c] = "gone"
  /\ \A t \in Tickers : loop[t] = "done"
  /\ UNCHANGED vars

Step(c) == \/ \E t \in Tickers : Reach(c, t)
           \/ \E t \in Tickers : Arm(c, t)
           \/ \E t \in Tickers : Send(c, t)
           \/ \E t \in Tickers : Disarm(c, t)
           \/ Finish(c)

Next == \/ \E t \in Tickers : LoopStart(t)
        \/ \E t \in Tickers : Tick(t)
        \/ \E c \in Controllers : Step(c)
        \/ Failed
        \/ Recovered
        \/ Connected
        \/ MonitorReturns
        \/ CmdPause
        \/ CmdUnpause
        \/ Signal
        \/ CloseClient
        \/ ReachDaemon
        \/ StopDaemon
        \/ Terminated

Spec == Init /\ [][Next]_vars

\* Goroutines are scheduled and both ends of a ready channel meet.  The first
\* send of daemon.Stop competes with commands for a loop that is ready again
\* and again: Go selects at random among the cases.  Nothing is assumed of what
\* monitor and shutdown do while they are away.
Fairness == /\ \A t \in Tickers : WF_vars(LoopStart(t))
            /\ \A c \in Controllers : WF_vars(Step(c))
            /\ SF_vars(StopDaemon)

FairSpec == Spec /\ Fairness

----------------------------------------------------------------------------
(* Properties.                                                             *)

Quiet(t) == \A c \in Controllers : at[c] # t

Paused(t)    == loop[t] = "pausing" /\ cur[t] \notin armed[t]
Reporting(t) == /\ loop[t] = "run"
                /\ cur[t] \in armed[t]
                /\ watch[t] = cur[t]
Stopped(t)   == loop[t] = "done" /\ cur[t] \notin armed[t]

\* A sweep that no other sweep overlapped has done its work on every ticker,
\* whatever earlier, overlapping sweeps left behind: after a pause all tickers
\* wait with their timer stopped, after an unpause all run on the timer they
\* select on, after daemon.Stop all have returned with their timer stopped.
SettledSweepTookEffect ==
  \A t \in Tickers : /\ settled = "pause"   => Paused(t)
                     /\ settled = "unpause" => Reporting(t)
                     /\ settled = "stop"    => Stopped(t)

\* As long as sweeps do not overlap, a daemon paused by command does not run a
\* ticker: UnpauseTickers' check of isPausedByCommand keeps a recovery of the
\* connection from undoing the operator's pause.
PauseCommandHolds ==
  settled # "unknown" /\ pausedByCommand =>
    \A t \in Tickers : loop[t] # "run"

\* What sweeps that do not overlap achieve, and what they leave alone.
SweepsTakeEffect == SettledSweepTookEffect /\ PauseCommandHolds

\* However sweeps interleave, a paused ticker holds a running timer only while
\* some controller is inside one of its methods: none is left ticking into a
\* channel that nobody reads.
PausedHoldsNoTimer ==
  \A t \in Tickers :
    loop[t] = "pausing" /\ Quiet(t) => cur[t] \notin armed[t]

\* Pause, Unpause and Stop send to an unbuffered channel and would block for
\* ever on a ticker whose Run has returned; shutdown's order (client, command
\* loop, tickers) keeps every controller away from stopped tickers.
StoppedTickersAreLeftAlone ==
  \A c \in Controllers, t \in Tickers :
    at[c] = t /\ pc[c] \in {"arm", "send"} => loop[t] # "done"

\* A timer is lost (armed, but no longer the ticker's own, so that no Stop will
\* ever reach it) only when Unpause or Run's start meets a ticker that is not
\* paused, or one that another controller is working on.
Lost(t) == armed[t] \ {cur[t]}

TimersAreLostOnlyWhenNotPaused ==
  [][\A t \in Tickers :
       ~(Lost(t)' \subseteq Lost(t)) =>
         \/ loop[t] # "pausing"
         \/ \E c, d \in Controllers : c # d /\ at[c] = t /\ at[d] = t]_vars

\* Whatever the monitor and the command loop do meanwhile, for one who does not
\* see sweeps and timers the tickers come and go as TickerShutdown says: all
\* that Lifecycle assumes of them.
Phase(t) == IF loop[t] = "new" THEN "waiting"
            ELSE IF loop[t] = "done" THEN "returned" ELSE "running"

\* The command loop, daemon.Stop, and the tickers that have not heard from it.
CommandLoop == IF op["cmdloop"] = "gone" THEN "returned" ELSE "running"
Stopping == IF op["shutdown"] = "stop" THEN "yes"
            ELSE IF op["shutdown"] = "gone" THEN "done" ELSE "no"
Unstopped == todo["shutdown"]
               \cup IF pc["shutdown"] = "send" THEN {at["shutdown"]} ELSE {}

Shutdown == INSTANCE TickerShutdown
  WITH loop <- [t \in Tickers |-> Phase(t)],
       cmdLoop <- CommandLoop,
       stopping <- Stopping,
       todo <- Unstopped
ShutdownInOrder == Shutdown!Spec

\* When daemon.Stop has returned, every ticker has, and so has everyone who might
\* still have sent to one.
NothingOutlivesShutdown ==
  op["shutdown"] = "gone" => /\ \A t \in Tickers : loop[t] = "done"
                             /\ \A c \in Controllers : op[c] = "gone"

\* Every sweep returns: PauseTickers, UnpauseTickers and daemon.Stop never
\* leave the monitor, the command loop or the shutdown hanging on a ticker.
SweepsReturn == \A c \in Controllers : Busy(c) ~> ~Busy(c)

\* A shutdown that gets as far as daemon.Stop ends every ticker and every
\* controller.  Before that it may hang (Telemd: ShutdownCompletes).
DaemonStopEndsAll ==
  op["shutdown"] = "halting" ~> /\ \A t \in Tickers : loop[t] = "done"
                                /\ \A c \in Controllers : op[c] = "gone"
=============================================================================
