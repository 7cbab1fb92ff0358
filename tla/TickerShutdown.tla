--------------------------- MODULE TickerShutdown ---------------------------
(* How the tickers of the daemon come and go (internal/telemd/daemon.go and  *)
(* ticker.go): what TickerControl, with its sweeps and timers, and Lifecycle, *)
(* with its wait groups and measurements, both say of them.                  *)
(*                                                                           *)
(* The command loop returns before any ticker is stopped, each ticker is     *)
(* stopped once and only after its goroutine has got as far as its select,   *)
(* and daemon.Stop returns after the last of them.                           *)

CONSTANT Tickers

VARIABLES
  loop,     \* loop[t]: t's Run is "waiting" to begin, "running" or "returned"
  cmdLoop,  \* the command loop: "running" or "returned"
  stopping, \* is daemon.Stop in its loop over the tickers: "no", "yes", "done"
  todo      \* the tickers it has not stopped yet

Init ==
  /\ loop = [t \in Tickers |-> "waiting"]
  /\ cmdLoop = "running"
  /\ stopping = "no" /\ todo = {}

Run(t) ==
  /\ loop[t] = "waiting"
  /\ loop' = [loop EXCEPT ![t] = "running"]
  /\ UNCHANGED <<cmdLoop, stopping, todo>>

\* cmds.stop <- true
StopCommandLoop ==
  /\ stopping = "no" /\ cmdLoop = "running"
  /\ stopping' = "yes" /\ cmdLoop' = "returned"
  /\ todo' = Tickers
  /\ UNCHANGED loop

\* ticker.done <- true: the select takes it, paused or not.
StopTicker(t) ==
  /\ stopping = "yes" /\ t \in todo /\ loop[t] = "running"
  /\ loop' = [loop EXCEPT ![t] = "returned"]
  /\ todo' = todo \ {t}
  /\ UNCHANGED <<cmdLoop, stopping>>

Stopped ==
  /\ stopping = "yes" /\ todo = {}
  /\ stopping' = "done"
  /\ UNCHANGED <<loop, cmdLoop, todo>>

Next == \/ StopCommandLoop
        \/ Stopped
        \/ \E t \in Tickers : Run(t) \/ StopTicker(t)

Spec == Init /\ [][Next]_<<loop, cmdLoop, stopping, todo>>

\* A ticker has returned exactly if daemon.Stop has been through it, which begins
\* with the end of the command loop and ends with the last ticker.
StoppedOneByOne ==
  /\ stopping = "no" <=> cmdLoop = "running"
  /\ stopping = "no" => \A t \in Tickers : loop[t] # "returned"
  /\ stopping # "no" => \A t \in Tickers : loop[t] = "returned" <=> t \notin todo
  /\ stopping = "done" => todo = {}
=============================================================================
