------------------------ MODULE TickerControlProofs ------------------------
(* What is proved about TickerControl, for any set of tickers and any number *)
(* of sweeps, with reports in any order.                                    *)
EXTENDS TickerControl, TLAPS

----------------------------------------------------------------------------
(* Types.                                                                   *)

\* Every reachable state of the ticker control is well typed.
THEOREM TypeCorrect == Spec => []TypeOK
<1> USE TickerAssumption DEF TickerAssumption, Controllers, Sweeping, Phases, Busy
<1>1. Init => TypeOK
  <2> SUFFICES ASSUME Init PROVE TypeOK
    OBVIOUS
  <2>1. armed \in [Tickers -> SUBSET Nat] /\ todo \in [Controllers -> SUBSET Tickers]
    BY DEF Init
  <2>2. \A c \in Controllers : StateOfSweep(c)
    BY DEF Init, StateOfSweep
  <2>3. cur \in [Tickers -> Nat] /\ watch \in [Tickers -> Nat]
    BY DEF Init
  <2>4. sweeps \in 0 .. MaxSweeps
    BY DEF Init
  <2>5. /\ op \in [Controllers -> {"idle"}]
        /\ at \in [Controllers -> {NoTicker}]
        /\ pc \in [Controllers -> {"next"}]
        /\ loop \in [Tickers -> {"new"}]
    BY DEF Init
  <2>6. /\ pausedByCommand = FALSE
        /\ alone = "nobody" /\ settled = "unknown"
    BY DEF Init
  <2> QED
    BY <2>1, <2>2, <2>3, <2>4, <2>5, <2>6 DEF TypeOK
<1>2. TypeOK /\ [Next]_vars => TypeOK'
  <2> SUFFICES ASSUME TypeOK, [Next]_vars PROVE TypeOK'
    OBVIOUS
  <2> USE DEF TypeOK, StateOfSweep
  <2>1. ASSUME NEW t \in Tickers, LoopStart(t) PROVE TypeOK'
    BY <2>1 DEF LoopStart, ctl
  <2>2. ASSUME NEW t \in Tickers, Tick(t) PROVE TypeOK'
    BY <2>2 DEF Tick, ctl
  <2>3. ASSUME NEW c \in Controllers, Step(c) PROVE TypeOK'
    <3>1. ASSUME NEW t \in Tickers, Reach(c, t) PROVE TypeOK'
      BY <3>1 DEF Reach, chans, First
    <3>2. ASSUME NEW t \in Tickers, Arm(c, t) PROVE TypeOK'
      BY <3>2 DEF Arm, Advance, After
    <3>3. ASSUME NEW t \in Tickers, Send(c, t) PROVE TypeOK'
      BY <3>3 DEF Send, Advance, After, Heard
    <3>4. ASSUME NEW t \in Tickers, Disarm(c, t) PROVE TypeOK'
      BY <3>4 DEF Disarm, Advance, After
    <3>5. CASE Finish(c)
      BY <3>5 DEF Finish, AfterSweep, chans
    <3> QED
      BY <2>3, <3>1, <3>2, <3>3, <3>4, <3>5 DEF Step
  <2>4. ASSUME NEW o \in {"pause", "unpause"}, Report(o) PROVE TypeOK'
    BY <2>4 DEF Report, Begin, chans
  <2>5. ASSUME NEW o \in {"pause", "unpause"}, Command(o) PROVE TypeOK'
    BY <2>5 DEF Command, Begin, chans
  <2>6. CASE Signal \/ Connected \/ MonitorReturns \/ ReachDaemon
    BY <2>6
    DEF Signal, FirstPhase, Connected, MonitorReturns, ReachDaemon, chans
  <2>7. CASE CloseClient
    BY <2>7 DEF CloseClient, chans
  <2>8. CASE StopDaemon
    BY <2>8 DEF StopDaemon, chans
  <2>9. CASE UNCHANGED vars
    BY <2>9 DEF vars
  <2> QED
    BY <2>1, <2>2, <2>3, <2>4, <2>5, <2>6, <2>7, <2>8, <2>9
    DEF Next, Failed, Recovered, CmdPause, CmdUnpause, Terminated
<1> QED
  BY <1>1, <1>2, PTL DEF Spec

----------------------------------------------------------------------------
(* Timers.                                                                  *)

\* A paused ticker has a running timer only between the two steps of a method:
\* an Unpause about to send, or a Pause about to stop the timer.
InMethod(c, t) == /\ at[c] = t
                  /\ \/ pc[c] = "send" /\ op[c] = "unpause"
                     \/ pc[c] = "disarm"

TimerInv ==
  \A t \in Tickers :
    loop[t] = "pausing" /\ cur[t] \in armed[t] =>
      \E c \in Controllers : InMethod(c, t)

----------------------------------------------------------------------------
(* Sweeps that run alone.                                                   *)

\* What a sweep o promises for a ticker it has dealt with.
Effect(o, t) == /\ o = "pause"   => Paused(t)
                /\ o = "unpause" => Reporting(t)
                /\ o = "stop"    => Stopped(t)

\* The ticker that the sweep is at: what the steps already taken have done.
HalfDone(c) ==
  \A t \in Tickers : at[c] = t =>
    /\ pc[c] = "send" /\ op[c] = "unpause" => cur[t] \in armed[t]
    /\ pc[c] = "disarm" => loop[t] = IF op[c] = "pause" THEN "pausing" ELSE "done"

AloneInv ==
  \A c \in Controllers : alone = c =>
    /\ Busy(c)
    /\ \A d \in Controllers \ {c} : ~Busy(d)
    /\ settled = "unknown"
    /\ HalfDone(c)
    /\ \A t \in Tickers \ todo[c] : at[c] # t => Effect(op[c], t)
    /\ op[c] = "unpause" => ~pausedByCommand

SettledInv ==
  settled # "unknown" =>
    /\ \A c \in Controllers : ~Busy(c)
    /\ \A t \in Tickers : Effect(settled, t)
    /\ settled = "unpause" => ~pausedByCommand

SweepInv == AloneInv /\ SettledInv

----------------------------------------------------------------------------
(* The order in which shutdown stops things.                                *)

PhaseInv ==
  /\ \A c \in Controllers : at[c] \notin todo[c]
  /\ op["shutdown"] \in {"closed", "halting", "stop", "gone"} => op["monitor"] = "gone"
  /\ op["shutdown"] \in {"stop", "gone"} => op["cmdloop"] = "gone"
  /\ \A t \in Tickers : loop[t] = "done" =>
       /\ op["shutdown"] \in {"stop", "gone"}
       /\ t \notin todo["shutdown"]
       /\ at["shutdown"] = t => pc["shutdown"] = "disarm"

----------------------------------------------------------------------------
(* Every step keeps each of these parts.                                    *)

\* A running timer at a paused ticker is always some controller's business.
LEMMA TimerStep == TypeOK /\ TimerInv /\ [Next]_vars => TimerInv'
<1> SUFFICES ASSUME TypeOK, TimerInv, [Next]_vars PROVE TimerInv'
  OBVIOUS
<1> USE TickerAssumption DEF TickerAssumption, Controllers, Sweeping, Phases, Busy, TypeOK, StateOfSweep, TimerInv, InMethod
<1>1. ASSUME NEW t \in Tickers, LoopStart(t) PROVE TimerInv'
  BY <1>1 DEF LoopStart, ctl
<1>2. ASSUME NEW t \in Tickers, Tick(t) PROVE TimerInv'
  BY <1>2 DEF Tick, ctl
<1>3. ASSUME NEW c \in Controllers, Step(c) PROVE TimerInv'
  <2>1. ASSUME NEW t \in Tickers, Reach(c, t) PROVE TimerInv'
    BY <2>1 DEF Reach, chans, First
  <2>2. ASSUME NEW t \in Tickers, Arm(c, t) PROVE TimerInv'
    BY <2>2 DEF Arm, Advance, After
  <2>3. ASSUME NEW t \in Tickers, Send(c, t) PROVE TimerInv'
    BY <2>3 DEF Send, Advance, After, Heard
  <2>4. ASSUME NEW t \in Tickers, Disarm(c, t) PROVE TimerInv'
    BY <2>4 DEF Disarm, Advance, After
  <2>5. CASE Finish(c)
    BY <2>5 DEF Finish, AfterSweep, chans
  <2> QED
    BY <1>3, <2>1, <2>2, <2>3, <2>4, <2>5 DEF Step
<1>4. ASSUME NEW o \in {"pause", "unpause"}, Report(o) PROVE TimerInv'
  BY <1>4 DEF Report, Begin, chans
<1>5. ASSUME NEW o \in {"pause", "unpause"}, Command(o) PROVE TimerInv'
  BY <1>5 DEF Command, Begin, chans
<1>6. CASE Signal \/ Connected \/ MonitorReturns \/ ReachDaemon
  BY <1>6
  DEF Signal, FirstPhase, Connected, MonitorReturns, ReachDaemon, chans
<1>7. CASE CloseClient
  BY <1>7 DEF CloseClient, chans
<1>8. CASE StopDaemon
  BY <1>8 DEF StopDaemon, chans
<1>9. CASE UNCHANGED vars
  BY <1>9 DEF vars
<1> QED
  BY <1>1, <1>2, <1>3, <1>4, <1>5, <1>6, <1>7, <1>8, <1>9
  DEF Next, Failed, Recovered, CmdPause, CmdUnpause, Terminated

\* Shutdown stops a ticker only after monitor and command loop have gone.
LEMMA PhaseStep == TypeOK /\ PhaseInv /\ [Next]_vars => PhaseInv'
<1> SUFFICES ASSUME TypeOK, PhaseInv, [Next]_vars PROVE PhaseInv'
  OBVIOUS
<1> USE TickerAssumption DEF TickerAssumption, Controllers, Sweeping, Phases, Busy, TypeOK, StateOfSweep, PhaseInv
<1>1. ASSUME NEW t \in Tickers, LoopStart(t) PROVE PhaseInv'
  BY <1>1 DEF LoopStart, ctl
<1>2. ASSUME NEW t \in Tickers, Tick(t) PROVE PhaseInv'
  BY <1>2 DEF Tick, ctl
<1>3. ASSUME NEW c \in Controllers, Step(c) PROVE PhaseInv'
  <2>1. ASSUME NEW t \in Tickers, Reach(c, t) PROVE PhaseInv'
    BY <2>1 DEF Reach, chans, First
  <2>2. ASSUME NEW t \in Tickers, Arm(c, t) PROVE PhaseInv'
    BY <2>2 DEF Arm, Advance, After
  <2>3. ASSUME NEW t \in Tickers, Send(c, t) PROVE PhaseInv'
    <3>1. \A u \in Tickers :
            loop'[u] = "done" => loop[u] = "done" \/ (u = t /\ op[c] = "stop")
      BY <2>3 DEF Send, Heard
    <3>2. op[c] = "stop" => c = "shutdown" /\ pc'[c] = "disarm"
      BY <2>3 DEF Send, Advance, After
    <3>3. \A d \in Controllers : at'[d] \notin todo'[d]
      BY <2>3 DEF Send, Advance, After
    <3> QED
      BY <2>3, <3>1, <3>2, <3>3 DEF Send, Advance, After
  <2>4. ASSUME NEW t \in Tickers, Disarm(c, t) PROVE PhaseInv'
    BY <2>4 DEF Disarm, Advance, After
  <2>5. CASE Finish(c)
    BY <2>5 DEF Finish, AfterSweep, chans
  <2> QED
    BY <1>3, <2>1, <2>2, <2>3, <2>4, <2>5 DEF Step
<1>4. ASSUME NEW o \in {"pause", "unpause"}, Report(o) PROVE PhaseInv'
  BY <1>4 DEF Report, Begin, chans
<1>5. ASSUME NEW o \in {"pause", "unpause"}, Command(o) PROVE PhaseInv'
  BY <1>5 DEF Command, Begin, chans
<1>6. CASE Signal \/ Connected \/ MonitorReturns \/ ReachDaemon
  BY <1>6
  DEF Signal, FirstPhase, Connected, MonitorReturns, ReachDaemon, chans
<1>7. CASE CloseClient
  BY <1>7 DEF CloseClient, chans
<1>8. CASE StopDaemon
  BY <1>8 DEF StopDaemon, chans
<1>9. CASE UNCHANGED vars
  BY <1>9 DEF vars
<1> QED
  BY <1>1, <1>2, <1>3, <1>4, <1>5, <1>6, <1>7, <1>8, <1>9
  DEF Next, Failed, Recovered, CmdPause, CmdUnpause, Terminated

\* A sweep without overlap has its effect on each ticker it has dealt with.
LEMMA AloneStep == TypeOK /\ AloneInv /\ [Next]_vars => AloneInv'
<1> SUFFICES ASSUME TypeOK, AloneInv, [Next]_vars PROVE AloneInv'
  OBVIOUS
<1> USE TickerAssumption DEF TickerAssumption, Controllers, Sweeping, Phases, Busy, TypeOK, StateOfSweep, AloneInv, HalfDone, Effect, Paused, Reporting, Stopped
<1>1. ASSUME NEW t \in Tickers, LoopStart(t) PROVE AloneInv'
  BY <1>1 DEF LoopStart, ctl
<1>2. ASSUME NEW t \in Tickers, Tick(t) PROVE AloneInv'
  BY <1>2 DEF Tick, ctl
<1>3. ASSUME NEW c \in Controllers, Step(c) PROVE AloneInv'
  <2>1. ASSUME NEW t \in Tickers, Reach(c, t) PROVE AloneInv'
    BY <2>1 DEF Reach, chans, First
  <2>2. ASSUME NEW t \in Tickers, Arm(c, t) PROVE AloneInv'
    BY <2>2 DEF Arm, Advance, After
  <2>3. ASSUME NEW t \in Tickers, Send(c, t) PROVE AloneInv'
    BY <2>3 DEF Send, Advance, After, Heard
  <2>4. ASSUME NEW t \in Tickers, Disarm(c, t) PROVE AloneInv'
    BY <2>4 DEF Disarm, Advance, After
  <2>5. CASE Finish(c)
    BY <2>5 DEF Finish, AfterSweep, chans
  <2> QED
    BY <1>3, <2>1, <2>2, <2>3, <2>4, <2>5 DEF Step
<1>4. ASSUME NEW o \in {"pause", "unpause"}, Report(o) PROVE AloneInv'
  BY <1>4 DEF Report, Begin, chans, Sweeps
<1>5. ASSUME NEW o \in {"pause", "unpause"}, Command(o) PROVE AloneInv'
  BY <1>5 DEF Command, Begin, chans, Sweeps
<1>6. CASE Signal \/ Connected \/ MonitorReturns \/ ReachDaemon
  BY <1>6
  DEF Signal, FirstPhase, Connected, MonitorReturns, ReachDaemon, chans
<1>7. CASE CloseClient
  BY <1>7 DEF CloseClient, chans
<1>8. CASE StopDaemon
  BY <1>8 DEF StopDaemon, chans
<1>9. CASE UNCHANGED vars
  BY <1>9 DEF vars
<1> QED
  BY <1>1, <1>2, <1>3, <1>4, <1>5, <1>6, <1>7, <1>8, <1>9
  DEF Next, Failed, Recovered, CmdPause, CmdUnpause, Terminated

\* When such a sweep is over the effect holds for all tickers until the next.
LEMMA SettledStep == TypeOK /\ AloneInv /\ SettledInv /\ [Next]_vars => SettledInv'
<1> SUFFICES ASSUME TypeOK, AloneInv, SettledInv, [Next]_vars PROVE SettledInv'
  OBVIOUS
<1> USE TickerAssumption DEF TickerAssumption, Controllers, Sweeping, Phases, Busy, TypeOK, StateOfSweep, AloneInv, SettledInv, Effect, Paused, Reporting, Stopped
<1>1. ASSUME NEW t \in Tickers, LoopStart(t) PROVE SettledInv'
  BY <1>1 DEF LoopStart, ctl
<1>2. ASSUME NEW t \in Tickers, Tick(t) PROVE SettledInv'
  BY <1>2 DEF Tick, ctl
<1>3. ASSUME NEW c \in Controllers, Step(c) PROVE SettledInv'
  <2>1. ASSUME NEW t \in Tickers, Reach(c, t) PROVE SettledInv'
    BY <2>1 DEF Reach, chans, First
  <2>2. ASSUME NEW t \in Tickers, Arm(c, t) PROVE SettledInv'
    BY <2>2 DEF Arm, Advance, After
  <2>3. ASSUME NEW t \in Tickers, Send(c, t) PROVE SettledInv'
    BY <2>3 DEF Send, Advance, After, Heard
  <2>4. ASSUME NEW t \in Tickers, Disarm(c, t) PROVE SettledInv'
    BY <2>4 DEF Disarm, Advance, After
  <2>5. CASE Finish(c)
    BY <2>5 DEF Finish, AfterSweep, chans
  <2> QED
    BY <1>3, <2>1, <2>2, <2>3, <2>4, <2>5 DEF Step
<1>4. ASSUME NEW o \in {"pause", "unpause"}, Report(o) PROVE SettledInv'
  BY <1>4 DEF Report, Begin, chans, Sweeps
<1>5. ASSUME NEW o \in {"pause", "unpause"}, Command(o) PROVE SettledInv'
  BY <1>5 DEF Command, Begin, chans, Sweeps
<1>6. CASE Signal \/ Connected \/ MonitorReturns \/ ReachDaemon
  BY <1>6
  DEF Signal, FirstPhase, Connected, MonitorReturns, ReachDaemon, chans
<1>7. CASE CloseClient
  BY <1>7 DEF CloseClient, chans
<1>8. CASE StopDaemon
  BY <1>8 DEF StopDaemon, chans
<1>9. CASE UNCHANGED vars
  BY <1>9 DEF vars
<1> QED
  BY <1>1, <1>2, <1>3, <1>4, <1>5, <1>6, <1>7, <1>8, <1>9
  DEF Next, Failed, Recovered, CmdPause, CmdUnpause, Terminated

----------------------------------------------------------------------------
(* The theorems.                                                            *)

IInv == TypeOK /\ TimerInv /\ PhaseInv /\ SweepInv

\* The invariant the properties below follow from holds in every state.
THEOREM Invariance == Spec => []IInv
<1>1. Init => TimerInv /\ PhaseInv /\ SweepInv
  BY TickerAssumption
  DEF TickerAssumption, Init, TimerInv, PhaseInv, SweepInv, AloneInv, SettledInv,
      Controllers
<1>2. TypeOK /\ TimerInv /\ PhaseInv /\ SweepInv /\ [Next]_vars
        => TimerInv' /\ PhaseInv' /\ SweepInv'
  BY TimerStep, PhaseStep, AloneStep, SettledStep DEF SweepInv
<1> QED
  BY <1>1, <1>2, TypeCorrect, PTL DEF Spec, IInv

\* A sweep that no other overlapped has done its work on every ticker, and while
\* sweeps do not overlap a pause by command holds through recoveries.
THEOREM SettledSweeps == Spec => []SweepsTakeEffect
<1>1. IInv => SettledSweepTookEffect
  BY DEF IInv, SweepInv, SettledInv, Effect, SettledSweepTookEffect
<1>2. IInv => PauseCommandHolds
  BY DEF IInv, TypeOK, SweepInv, SettledInv, Effect, Paused, Stopped, Sweeping,
         PauseCommandHolds
<1> QED
  BY <1>1, <1>2, Invariance, PTL DEF SweepsTakeEffect

\* However sweeps interleave, no ticker is left paused with its timer running.
THEOREM PausedTimers == Spec => []PausedHoldsNoTimer
<1>1. IInv => PausedHoldsNoTimer
  BY DEF IInv, TimerInv, InMethod, PausedHoldsNoTimer, Quiet
<1> QED
  BY <1>1, Invariance, PTL

\* No controller ever blocks on a ticker that has returned.
THEOREM StoppedTickers == Spec => []StoppedTickersAreLeftAlone
<1>1. IInv => StoppedTickersAreLeftAlone
  BY TickerAssumption
  DEF TickerAssumption, IInv, TypeOK, StateOfSweep, PhaseInv, Controllers, Sweeping,
      Phases, StoppedTickersAreLeftAlone
<1> QED
  BY <1>1, Invariance, PTL

\* A timer is lost only at a ticker that is not paused, or that two controllers
\* are working on.
THEOREM LostTimers == Spec => TimersAreLostOnlyWhenNotPaused
<1> DEFINE A(t) == ~(Lost(t)' \subseteq Lost(t)) =>
                     \/ loop[t] # "pausing"
                     \/ \E c, d \in Controllers : c # d /\ at[c] = t /\ at[d] = t
<1>1. ASSUME IInv, [Next]_vars, NEW t \in Tickers PROVE A(t)
  <2> USE <1>1 DEF IInv, TypeOK, Lost
  <2>1. ASSUME NEW u \in Tickers, LoopStart(u) PROVE A(t)
    BY <2>1 DEF LoopStart
  <2>2. ASSUME NEW c \in Controllers, NEW u \in Tickers, Arm(c, u) PROVE A(t)
    <3>1. CASE u # t
      BY <2>2, <3>1 DEF Arm
    <3>2. CASE u = t /\ cur[t] \in armed[t] /\ loop[t] = "pausing"
      <4>1. PICK d \in Controllers : InMethod(d, t)
        BY <3>2 DEF TimerInv
      <4>2. d # c /\ at[c] = t /\ at[d] = t
        BY <2>2, <3>2, <4>1 DEF Arm, InMethod
      <4> QED
        BY <4>2
    <3>3. CASE u = t /\ cur[t] \notin armed[t]
      BY <2>2, <3>3 DEF Arm
    <3> QED
      BY <3>1, <3>2, <3>3
  <2>3. ASSUME NEW c \in Controllers, NEW u \in Tickers, Disarm(c, u) PROVE A(t)
    BY <2>3 DEF Disarm
  <2>4. CASE UNCHANGED <<cur, armed>>
    BY <2>4
  <2> QED
    <3>1. ASSUME NEW c \in Controllers, Step(c) PROVE A(t)
      BY <2>2, <2>3, <2>4, <3>1 DEF Step, Reach, Send, Finish, chans
    <3>2. ASSUME NEW u \in Tickers, Tick(u) PROVE A(t)
      BY <2>4, <3>2 DEF Tick
    <3>3. CASE \/ Failed \/ Recovered \/ CmdPause \/ CmdUnpause
               \/ Signal \/ Connected \/ MonitorReturns \/ ReachDaemon
               \/ CloseClient \/ StopDaemon \/ UNCHANGED vars
      BY <2>4, <3>3
      DEF Failed, Recovered, Report, CmdPause, CmdUnpause, Command, Signal,
          Connected, MonitorReturns, ReachDaemon, CloseClient, StopDaemon, chans,
          vars
    <3> QED
      BY <1>1, <2>1, <3>1, <3>2, <3>3 DEF Next, Terminated
<1>2. IInv /\ [Next]_vars =>
        [\A t \in Tickers : A(t)]_vars
  BY <1>1
<1> QED
  BY <1>2, Invariance, PTL DEF Spec, TimersAreLostOnlyWhenNotPaused

----------------------------------------------------------------------------
(* The tickers come and go as TickerShutdown says.                          *)

\* What TickerShutdown sees of a state.
Seen == <<[t \in Tickers |-> Phase(t)], CommandLoop, Stopping, Unstopped>>

\* Its variables stay if the phases of all tickers and daemon.Stop's progress do.
LEMMA Unseen ==
  ASSUME \A t \in Tickers : Phase(t)' = Phase(t),
         CommandLoop' = CommandLoop, Stopping' = Stopping, Unstopped' = Unstopped
  PROVE  UNCHANGED Seen
  BY DEF Seen

\* A step is one of TickerShutdown's or changes nothing that it sees.
LEMMA ShutdownStep ==
  TypeOK /\ PhaseInv /\ [Next]_vars => Shutdown!Next \/ UNCHANGED Seen
<1> SUFFICES ASSUME TypeOK, PhaseInv, [Next]_vars
             PROVE  Shutdown!Next \/ UNCHANGED Seen
  OBVIOUS
<1> DEFINE L == [t \in Tickers |-> Phase(t)]
<1> USE TickerAssumption DEF TickerAssumption, Controllers, Sweeping, Phases, Busy, TypeOK, StateOfSweep
<1>1. ASSUME NEW t \in Tickers, LoopStart(t) PROVE Shutdown!Run(t)
  <2>1. /\ L[t] = "waiting" /\ L' = [L EXCEPT ![t] = "running"]
    BY <1>1 DEF LoopStart, Phase
  <2>2. UNCHANGED <<CommandLoop, Stopping, Unstopped>>
    BY <1>1 DEF LoopStart, ctl, CommandLoop, Stopping, Unstopped
  <2> QED
    BY <2>1, <2>2 DEF Shutdown!Run
<1>2. ASSUME NEW t \in Tickers, Tick(t) PROVE UNCHANGED Seen
  BY <1>2, Unseen DEF Tick, ctl, Phase, CommandLoop, Stopping, Unstopped
<1>3. ASSUME NEW c \in Controllers, Step(c) PROVE Shutdown!Next \/ UNCHANGED Seen
  <2>1. ASSUME NEW t \in Tickers, Reach(c, t) PROVE UNCHANGED Seen
    <3>1. Unstopped' = Unstopped
      BY <2>1 DEF Reach, First, Unstopped
    <3> QED
      BY <2>1, <3>1, Unseen DEF Reach, chans, Phase, CommandLoop, Stopping
  <2>2. ASSUME NEW t \in Tickers, Arm(c, t) PROVE UNCHANGED Seen
    <3>1. c # "shutdown"
      BY <2>2 DEF Arm
    <3>2. Unstopped' = Unstopped
      BY <2>2, <3>1 DEF Arm, Advance, After, Unstopped
    <3> QED
      BY <2>2, <3>2, Unseen DEF Arm, Advance, Phase, CommandLoop, Stopping
  <2>3. ASSUME NEW t \in Tickers, Send(c, t), c # "shutdown" PROVE UNCHANGED Seen
    <3>1. loop[t] \in {"run", "pausing"} /\ op[c] \in {"pause", "unpause"}
      BY <2>3 DEF Send
    <3>2. loop' = [loop EXCEPT ![t] = Heard(@, op[c])]
          /\ Heard(loop[t], op[c]) \in {"run", "pausing"}
      BY <2>3, <3>1 DEF Send, Heard
    <3>3. \A u \in Tickers : Phase(u)' = Phase(u)
      BY <3>1, <3>2 DEF Phase
    <3>4. Unstopped' = Unstopped
      BY <2>3 DEF Send, Advance, After, Unstopped
    <3> QED
      BY <2>3, <3>3, <3>4, Unseen DEF Send, Advance, CommandLoop, Stopping
  <2>4. ASSUME NEW t \in Tickers, Send(c, t), c = "shutdown" PROVE Shutdown!StopTicker(t)
    <3>1. op[c] = "stop" /\ at[c] = t /\ pc[c] = "send" /\ pc'[c] = "disarm"
          /\ todo' = todo /\ op' = op
      BY <2>4 DEF Send, Advance, After
    <3>2. loop[t] \in {"run", "pausing"} /\ loop' = [loop EXCEPT ![t] = "done"]
      BY <2>4, <3>1 DEF Send, Heard
    <3>3. L[t] = "running" /\ L' = [L EXCEPT ![t] = "returned"]
      BY <3>2 DEF Phase
    <3>4. t \in Unstopped /\ Unstopped' = Unstopped \ {t}
      BY <2>4, <3>1 DEF Unstopped, PhaseInv
    <3>5. Stopping = "yes" /\ UNCHANGED <<CommandLoop, Stopping>>
      BY <2>4, <3>1 DEF Stopping, CommandLoop
    <3> QED
      BY <3>3, <3>4, <3>5 DEF Shutdown!StopTicker
  <2>5. ASSUME NEW t \in Tickers, Disarm(c, t) PROVE UNCHANGED Seen
    <3>1. Unstopped' = Unstopped
      BY <2>5 DEF Disarm, Advance, After, Unstopped
    <3> QED
      BY <2>5, <3>1, Unseen DEF Disarm, Advance, Phase, CommandLoop, Stopping
  <2>6. ASSUME Finish(c), c # "shutdown" PROVE UNCHANGED Seen
    <3>1. /\ op' = [op EXCEPT ![c] = AfterSweep(c)] /\ op[c] \in {"pause", "unpause"}
          /\ AfterSweep(c) \in {"idle", "away"}
      BY <2>6 DEF Finish, AfterSweep
    <3> QED
      BY <2>6, <3>1, Unseen DEF Finish, AfterSweep, chans, Phase, CommandLoop, Stopping, Unstopped
  <2>7. ASSUME Finish(c), c = "shutdown" PROVE Shutdown!Stopped
    <3>1. op[c] = "stop" /\ op' = [op EXCEPT ![c] = "gone"]
      BY <2>7 DEF Finish, AfterSweep
    <3>2. Stopping = "yes" /\ Stopping' = "done" /\ CommandLoop' = CommandLoop
      BY <2>7, <3>1 DEF Stopping, CommandLoop
    <3>3. Unstopped = {} /\ Unstopped' = Unstopped /\ L' = L
      BY <2>7 DEF Finish, AfterSweep, chans, Unstopped, Phase
    <3> QED
      BY <3>2, <3>3 DEF Shutdown!Stopped
  <2> QED
    BY <1>3, <2>1, <2>2, <2>3, <2>4, <2>5, <2>6, <2>7 DEF Step, Shutdown!Next
<1>4. ASSUME NEW o \in {"pause", "unpause"}, Report(o) PROVE UNCHANGED Seen
  BY <1>4, Unseen DEF Report, Begin, chans, Phase, CommandLoop, Stopping, Unstopped
<1>5. ASSUME NEW o \in {"pause", "unpause"}, Command(o) PROVE UNCHANGED Seen
  BY <1>5, Unseen DEF Command, Begin, chans, Phase, CommandLoop, Stopping, Unstopped
<1>6. CASE Signal \/ Connected \/ MonitorReturns \/ ReachDaemon
  BY <1>6, Unseen
  DEF Signal, FirstPhase, Connected, MonitorReturns, ReachDaemon, chans, Phase, CommandLoop, Stopping, Unstopped
<1>7. CASE CloseClient
  BY <1>7, Unseen DEF CloseClient, chans, Phase, CommandLoop, Stopping, Unstopped
<1>8. ASSUME StopDaemon PROVE Shutdown!StopCommandLoop
  <2>1. /\ Stopping = "no" /\ Stopping' = "yes"
        /\ CommandLoop = "running" /\ CommandLoop' = "returned"
    BY <1>8 DEF StopDaemon, Stopping, CommandLoop
  <2>2. Unstopped' = Tickers /\ L' = L
    BY <1>8 DEF StopDaemon, chans, Unstopped, Phase
  <2> QED
    BY <2>1, <2>2 DEF Shutdown!StopCommandLoop
<1>9. CASE UNCHANGED vars
  BY <1>9, Unseen DEF vars, Phase, CommandLoop, Stopping, Unstopped
<1> QED
  BY <1>1, <1>2, <1>3, <1>4, <1>5, <1>6, <1>7, <1>8, <1>9
  DEF Next, Failed, Recovered, CmdPause, CmdUnpause, Terminated, Shutdown!Next

\* However the sweeps of the monitor and the command loop interleave with the
\* shutdown, it ends the command loop first and then each ticker once.
THEOREM OrderlyShutdown == Spec => ShutdownInOrder
<1>1. Init => Shutdown!Init
  BY DEF Init, Shutdown!Init, Controllers, Phase, CommandLoop, Stopping, Unstopped
<1>2. IInv /\ [Next]_vars => Shutdown!Next \/ UNCHANGED Seen
  BY ShutdownStep DEF IInv
<1> QED
  BY <1>1, <1>2, Invariance, PTL DEF Spec, ShutdownInOrder, Shutdown!Spec, Seen

\* TickerShutdown stops the tickers one by one.
LEMMA OneByOne == Shutdown!Spec => []Shutdown!StoppedOneByOne
<1> USE DEF Shutdown!StoppedOneByOne
<1>1. Shutdown!Init => Shutdown!StoppedOneByOne
  BY DEF Shutdown!Init
<1>2. Shutdown!StoppedOneByOne /\ [Shutdown!Next]_Seen => Shutdown!StoppedOneByOne'
  <2> SUFFICES ASSUME Shutdown!StoppedOneByOne, [Shutdown!Next]_Seen
               PROVE  Shutdown!StoppedOneByOne'
    OBVIOUS
  <2>1. CASE Shutdown!StopCommandLoop
    BY <2>1 DEF Shutdown!StopCommandLoop
  <2>2. CASE Shutdown!Stopped
    BY <2>2 DEF Shutdown!Stopped
  <2>3. ASSUME NEW t \in Tickers, Shutdown!Run(t) PROVE Shutdown!StoppedOneByOne'
    BY <2>3 DEF Shutdown!Run
  <2>4. ASSUME NEW t \in Tickers, Shutdown!StopTicker(t) PROVE Shutdown!StoppedOneByOne'
    BY <2>4 DEF Shutdown!StopTicker
  <2>5. CASE UNCHANGED Seen
    BY <2>5 DEF Seen
  <2> QED
    BY <2>1, <2>2, <2>3, <2>4, <2>5 DEF Shutdown!Next
<1> QED
  BY <1>1, <1>2, PTL DEF Shutdown!Spec, Seen

\* Hence, since it is implemented, daemon.Stop leaves nobody behind.
THEOREM AllStopped == Spec => []NothingOutlivesShutdown
<1>1. IInv /\ Shutdown!StoppedOneByOne => NothingOutlivesShutdown
  <2> SUFFICES ASSUME IInv, Shutdown!StoppedOneByOne, op["shutdown"] = "gone"
               PROVE  /\ \A t \in Tickers : loop[t] = "done"
                      /\ \A c \in Controllers : op[c] = "gone"
    BY DEF NothingOutlivesShutdown
  <2>1. Stopping = "done"
    BY DEF Stopping
  <2>2. \A t \in Tickers : Phase(t) = "returned"
    BY <2>1 DEF Shutdown!StoppedOneByOne
  <2>3. \A t \in Tickers : loop[t] = "done"
    BY <2>2 DEF Phase
  <2> QED
    BY <2>3 DEF IInv, PhaseInv, Controllers
<1> QED
  BY <1>1, Invariance, OrderlyShutdown, OneByOne, PTL DEF ShutdownInOrder
=============================================================================
