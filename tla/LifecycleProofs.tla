-------------------------- MODULE LifecycleProofs ---------------------------
(* The safety properties of Lifecycle, for any number of tickers and of      *)
(* measurements, and any number of starts and stops of reporters.            *)
EXTENDS Lifecycle, TLAPS

\* The order of the shutdown: Run goes on when both its goroutines have
\* returned, and until the command loop has returned no ticker has.
StopInv ==
  /\ run # "waiting" => BothReturned
  /\ cmdLoop = "returned" => stop \in {"tickers", "done"}
  /\ \A t \in Tickers : ticker[t] \in {"left", "done"} => stop \in {"tickers", "done"}

\* What is known of the tickers when Wait has been called: those that have yet
\* to add themselves are late, and only they can be counted after the last that
\* was has gone.
WaitInv ==
  /\ \A t \in Tickers : waiter = "new" <=> ticker[t] = "unborn"
  /\ waiter \notin {"new", "look"} /\ late = {} => \A t \in Tickers : ticker[t] # "new"
  /\ waiter = "returned" /\ late = {} => \A t \in Tickers : ticker[t] = "done"
  /\ waiter = "woken" => stop # "up"
  /\ waiter = "woken" /\ Counted # {} => late # {} /\ hasty # {}
  /\ stop # "up" => hasty # {} \/ \A t \in Tickers : ticker[t] \notin {"unborn", "new"}

IInv == TypeOK /\ StopInv /\ WaitInv /\ CrashesHaveCauses

-----------------------------------------------------------------------------

\* The queue of the channel: Put appends a measurement that is not in it, and
\* Receive takes the first.
LEMMA QueueStep == TypeOK /\ [Next]_vars => QueueOK'
<1> SUFFICES ASSUME RangesOK, QueueOK, [Next]_vars
             PROVE  QueueOK'
  BY DEF TypeOK
<1>1. ASSUME UNCHANGED <<work, senders>>
      PROVE  QueueOK'
  BY <1>1 DEF QueueOK
<1>2. ASSUME Launch
      PROVE  QueueOK'
  BY <1>1, <1>2 DEF Launch, tick, end
<1>3. ASSUME Wait
      PROVE  QueueOK'
  BY <1>1, <1>3 DEF Wait, tick, end
<1>4. ASSUME Woken
      PROVE  QueueOK'
  BY <1>1, <1>4 DEF Woken, tick, end
<1>5. ASSUME NEW t \in Tickers, Added(t)
      PROVE  QueueOK'
  BY <1>1, <1>5 DEF Added, tick, end
<1>6. ASSUME NEW t \in Tickers, Done(t)
      PROVE  QueueOK'
  BY <1>1, <1>6 DEF Done, tick, end
<1>7. ASSUME NEW t \in Tickers, StopTicker(t)
      PROVE  QueueOK'
  BY <1>1, <1>7 DEF StopTicker, tick, end
<1>8. ASSUME NEW t \in Tickers, NEW m \in Calls, Tick(t, m)
      PROVE  QueueOK'
  <2>1. /\ work \in [Calls -> {"none", "measuring", "put"}] /\ work[m] # "put"
        /\ senders' = senders /\ \E w : work' = [work EXCEPT ![m] = w]
    BY <1>8 DEF Tick, RangesOK
  <2>2. \A i \in 1 .. Len(senders) : senders[i] \in Calls
    BY DEF QueueOK
  <2>3. QED
    BY <2>1, <2>2 DEF QueueOK
<1>9. ASSUME NEW m \in Calls, Put(m)
      PROVE  QueueOK'
  <2>1. CASE Closed
    BY <1>1, <1>9, <2>1 DEF Put
  <2>2. CASE ~Closed
    <3>1. /\ senders \in Seq(Calls) /\ senders' = Append(senders, m)
          /\ work \in [Calls -> {"none", "measuring", "put"}] /\ work[m] = "measuring"
          /\ work' = [work EXCEPT ![m] = "put"]
      BY <1>9, <2>2 DEF Put, RangesOK, QueueOK
    <3>2. /\ senders' \in Seq(Calls) /\ Len(senders') = Len(senders) + 1
          /\ Len(senders) \in Nat
          /\ \A i \in 1 .. Len(senders) : senders'[i] = senders[i] /\ senders[i] \in Calls
          /\ senders'[Len(senders) + 1] = m
      BY <3>1
    <3>3. \A i \in 1 .. Len(senders) : senders[i] # m
      BY <3>1 DEF QueueOK
    <3>4. \A i \in 1 .. Len(senders') : work'[senders'[i]] = "put"
      BY <3>1, <3>2 DEF QueueOK
    <3>5. \A i, j \in 1 .. Len(senders') : senders'[i] = senders'[j] => i = j
      BY <3>2, <3>3 DEF QueueOK
    <3>6. QED
      BY <3>2, <3>4, <3>5 DEF QueueOK
  <2>3. QED
    BY <2>1, <2>2
<1>10. ASSUME NEW m \in Calls, PutFails(m)
      PROVE  QueueOK'
  BY <1>1, <1>10 DEF PutFails, tick, end
<1>11. ASSUME NEW m \in Calls, MeasurementEnds(m)
      PROVE  QueueOK'
  <2>1. /\ work \in [Calls -> {"none", "measuring", "put"}] /\ work[m] # "put"
        /\ senders' = senders /\ \E w : work' = [work EXCEPT ![m] = w]
    BY <1>11 DEF MeasurementEnds, RangesOK
  <2>2. \A i \in 1 .. Len(senders) : senders[i] \in Calls
    BY DEF QueueOK
  <2>3. QED
    BY <2>1, <2>2 DEF QueueOK
<1>12. ASSUME Receive
      PROVE  QueueOK'
  <2>1. /\ senders \in Seq(Calls) /\ senders # << >> /\ senders' = Tail(senders)
        /\ work \in [Calls -> {"none", "measuring", "put"}]
        /\ work' = [work EXCEPT ![Head(senders)] = "measuring"]
    BY <1>12 DEF Receive, RangesOK, QueueOK
  <2>2. /\ senders' \in Seq(Calls) /\ Len(senders') = Len(senders) - 1
        /\ Len(senders) \in Nat \ {0} /\ Head(senders) = senders[1]
        /\ \A i \in 1 .. Len(senders') : /\ senders'[i] = senders[i + 1]
                                        /\ senders[i + 1] \in Calls
    BY <2>1
  <2>3. \A i \in 1 .. Len(senders') : i + 1 \in 1 .. Len(senders) /\ i + 1 # 1
    BY <2>2
  <2>4. 1 \in 1 .. Len(senders)
    BY <2>2
  <2>5. \A i \in 1 .. Len(senders') : senders'[i] # Head(senders)
    BY <2>2, <2>3, <2>4 DEF QueueOK
  <2>6. \A i \in 1 .. Len(senders') : work'[senders'[i]] = "put"
    BY <2>1, <2>2, <2>3, <2>5 DEF QueueOK
  <2>7. ASSUME NEW i \in 1 .. Len(senders'), NEW j \in 1 .. Len(senders'),
               senders'[i] = senders'[j]
        PROVE  i = j
    <3>1. senders[i + 1] = senders[j + 1]
      BY <2>2, <2>7
    <3>2. i + 1 = j + 1
      BY <2>3, <3>1 DEF QueueOK
    <3>3. QED
      BY <3>2
  <2>8. QED
    BY <2>2, <2>6, <2>7 DEF QueueOK
<1>13. ASSUME Published
      PROVE  QueueOK'
  BY <1>1, <1>13 DEF Published, tick, end
<1>14. ASSUME ReporterRuns
      PROVE  QueueOK'
  BY <1>1, <1>14 DEF ReporterRuns, tick, end
<1>15. ASSUME ReporterStops
      PROVE  QueueOK'
  BY <1>1, <1>15 DEF ReporterStops, tick, end
<1>16. ASSUME Outage
      PROVE  QueueOK'
  BY <1>1, <1>16 DEF Outage, tick, end
<1>17. ASSUME Signal
      PROVE  QueueOK'
  BY <1>1, <1>17 DEF Signal, tick, end
<1>18. ASSUME StopReporter
      PROVE  QueueOK'
  BY <1>1, <1>18 DEF StopReporter, tick, end
<1>19. ASSUME StopCommandLoop
      PROVE  QueueOK'
  BY <1>1, <1>19 DEF StopCommandLoop, tick, end
<1>20. ASSUME Stopped
      PROVE  QueueOK'
  BY <1>1, <1>20 DEF Stopped, tick, end
<1>21. ASSUME RunWaits
      PROVE  QueueOK'
  BY <1>1, <1>21 DEF RunWaits, tick, end
<1>22. ASSUME Close
      PROVE  QueueOK'
  BY <1>1, <1>22 DEF Close, tick, end
<1>23. ASSUME Exit
      PROVE  QueueOK'
  BY <1>1, <1>23 DEF Exit, tick, end
<1>24. CASE UNCHANGED vars
  BY <1>1, <1>24 DEF vars
<1>25. ASSUME Fatal
      PROVE  QueueOK'
  BY <1>1, <1>25 DEF Fatal, NodeInfoFails, MeasurementPanics, tick, end
<1>26. QED
  BY <1>2, <1>3, <1>4, <1>5, <1>6, <1>7, <1>8, <1>9, <1>10, <1>11, <1>12,
     <1>13, <1>14, <1>15, <1>16, <1>17, <1>18, <1>19, <1>20, <1>21, <1>22,
     <1>23, <1>24, <1>25
     DEF Next, Waiting, Leaving, Ending, Terminated

\* What a step leaves of the other variables' types.
LEMMA RangesStep == TypeOK /\ [Next]_vars => RangesOK'
<1> SUFFICES ASSUME RangesOK, QueueOK, [Next]_vars
             PROVE  RangesOK'
  BY DEF TypeOK
<1>1. ASSUME Launch
      PROVE  RangesOK'
  BY <1>1 DEF Launch, RangesOK, tick, end
<1>2. ASSUME Wait
      PROVE  RangesOK'
  BY <1>2 DEF Wait, RangesOK, tick, end
<1>3. ASSUME Woken
      PROVE  RangesOK'
  BY <1>3 DEF Woken, RangesOK, tick, end
<1>4. ASSUME NEW t \in Tickers, Added(t)
      PROVE  RangesOK'
  BY <1>4 DEF Added, RangesOK, tick, end
<1>5. ASSUME NEW t \in Tickers, Done(t)
      PROVE  RangesOK'
  BY <1>5 DEF Done, RangesOK, tick, end
<1>6. ASSUME NEW t \in Tickers, StopTicker(t)
      PROVE  RangesOK'
  BY <1>6 DEF StopTicker, RangesOK, tick, end
<1>7. ASSUME NEW t \in Tickers, NEW m \in Calls, Tick(t, m)
      PROVE  RangesOK'
  BY <1>7 DEF Tick, RangesOK, tick, end
<1>8. ASSUME NEW m \in Calls, Put(m)
      PROVE  RangesOK'
  BY <1>8 DEF Put, RangesOK, tick, end
<1>9. ASSUME NEW m \in Calls, PutFails(m)
      PROVE  RangesOK'
  BY <1>9 DEF PutFails, RangesOK, tick, end
<1>10. ASSUME NEW m \in Calls, MeasurementEnds(m)
      PROVE  RangesOK'
  BY <1>10 DEF MeasurementEnds, RangesOK, tick, end
<1>11. ASSUME Receive
      PROVE  RangesOK'
  <2>1. senders \in Seq(Calls) /\ senders # << >>
    BY <1>11 DEF Receive, RangesOK, QueueOK
  <2>2. Head(senders) \in Calls
    BY <2>1
  <2>3. QED
    BY <1>11, <2>2 DEF Receive, RangesOK, tick, end
<1>12. ASSUME Published
      PROVE  RangesOK'
  BY <1>12 DEF Published, RangesOK, tick, end
<1>13. ASSUME ReporterRuns
      PROVE  RangesOK'
  <2>1. runs' \in 0 .. 2 * MaxRuns
    <3>1. runs \in 0 .. 2 * MaxRuns /\ runs < MaxRuns /\ runs' = runs + 1
      BY <1>13 DEF ReporterRuns, RangesOK
    <3>2. QED
      BY <3>1, LifecycleAssumption
  <2>2. rep' = "waiting" /\ UNCHANGED <<tick, end, work, tokens, proc>>
    BY <1>13 DEF ReporterRuns
  <2>3. QED
    BY <2>1, <2>2 DEF RangesOK, tick, end
<1>14. ASSUME ReporterStops
      PROVE  RangesOK'
  <2>1. tokens' \in Nat
    <3>1. tokens \in Nat /\ tokens > 0 /\ tokens' = tokens - 1
      BY <1>14 DEF ReporterStops, RangesOK
    <3>2. QED
      BY <3>1
  <2>2. rep' = "none" /\ UNCHANGED <<tick, end, work, runs, proc>>
    BY <1>14 DEF ReporterStops
  <2>3. QED
    BY <2>1, <2>2 DEF RangesOK, tick, end
<1>15. ASSUME Outage
      PROVE  RangesOK'
  <2>1. runs' \in 0 .. 2 * MaxRuns /\ tokens' \in Nat
    <3>1. /\ runs \in 0 .. 2 * MaxRuns /\ runs < 2 * MaxRuns /\ runs' = runs + 1
          /\ tokens \in Nat /\ tokens' = TokensAfterStop
      BY <1>15 DEF Outage, RangesOK
    <3>2. QED
      BY <3>1, LifecycleAssumption DEF TokensAfterStop
  <2>2. UNCHANGED <<tick, end, work, rep, proc>>
    BY <1>15 DEF Outage
  <2>3. QED
    BY <2>1, <2>2 DEF RangesOK, tick, end
<1>16. ASSUME Signal
      PROVE  RangesOK'
  BY <1>16 DEF Signal, RangesOK, tick, end
<1>17. ASSUME StopReporter
      PROVE  RangesOK'
  <2>1. tokens' \in Nat
    <3>1. tokens \in Nat /\ tokens' = TokensAfterStop
      BY <1>17 DEF StopReporter, RangesOK
    <3>2. QED
      BY <3>1 DEF TokensAfterStop
  <2>2. stop' = "cmds" /\ UNCHANGED <<tick, run, cmdLoop, todo, work, rep, runs, proc, hasty>>
    BY <1>17 DEF StopReporter
  <2>3. QED
    BY <2>1, <2>2 DEF RangesOK, tick
<1>18. ASSUME StopCommandLoop
      PROVE  RangesOK'
  BY <1>18 DEF StopCommandLoop, RangesOK, tick, end
<1>19. ASSUME Stopped
      PROVE  RangesOK'
  BY <1>19 DEF Stopped, RangesOK, tick, end
<1>20. ASSUME RunWaits
      PROVE  RangesOK'
  BY <1>20 DEF RunWaits, RangesOK, tick, end
<1>21. ASSUME Close
      PROVE  RangesOK'
  BY <1>21 DEF Close, RangesOK, tick, end
<1>22. ASSUME Exit
      PROVE  RangesOK'
  BY <1>22 DEF Exit, RangesOK, tick, end
<1>23. CASE UNCHANGED vars
  BY <1>23 DEF vars, RangesOK
<1>24. ASSUME Fatal
      PROVE  RangesOK'
  BY <1>24 DEF Fatal, NodeInfoFails, MeasurementPanics, RangesOK, tick, end
<1>25. QED
  BY <1>1, <1>2, <1>3, <1>4, <1>5, <1>6, <1>7, <1>8, <1>9, <1>10, <1>11,
     <1>12, <1>13, <1>14, <1>15, <1>16, <1>17, <1>18, <1>19, <1>20, <1>21,
     <1>22, <1>23, <1>24
     DEF Next, Waiting, Leaving, Ending, Terminated

\* The order of the shutdown is kept.
LEMMA StopStep == TypeOK /\ StopInv /\ [Next]_vars => StopInv'
<1> SUFFICES ASSUME TypeOK, StopInv, [Next]_vars
             PROVE  StopInv'
  OBVIOUS
<1>1. ASSUME UNCHANGED <<run, cmdLoop, waiter, ticker, stop>>
      PROVE  StopInv'
  BY <1>1 DEF TypeOK, RangesOK, StopInv, BothReturned
<1>2. ASSUME Launch
      PROVE  StopInv'
  BY <1>2 DEF Launch, TypeOK, RangesOK, StopInv, BothReturned, tick, end
<1>3. ASSUME Wait
      PROVE  StopInv'
  BY <1>3 DEF Wait, TypeOK, RangesOK, StopInv, BothReturned, tick, end
<1>4. ASSUME Woken
      PROVE  StopInv'
  BY <1>4 DEF Woken, TypeOK, RangesOK, StopInv, BothReturned, tick, end
<1>5. ASSUME NEW t \in Tickers, Added(t)
      PROVE  StopInv'
  BY <1>5 DEF Added, TypeOK, RangesOK, StopInv, BothReturned, tick, end
<1>6. ASSUME NEW t \in Tickers, Done(t)
      PROVE  StopInv'
  BY <1>6 DEF Done, TypeOK, RangesOK, StopInv, BothReturned, tick, end
<1>7. ASSUME NEW t \in Tickers, StopTicker(t)
      PROVE  StopInv'
  BY <1>7 DEF StopTicker, TypeOK, RangesOK, StopInv, BothReturned, tick, end
<1>8. ASSUME NEW t \in Tickers, NEW m \in Calls, Tick(t, m)
      PROVE  StopInv'
  BY <1>1, <1>8 DEF Tick, tick, end
<1>9. ASSUME NEW m \in Calls, Put(m)
      PROVE  StopInv'
  BY <1>1, <1>9 DEF Put, tick, end
<1>10. ASSUME NEW m \in Calls, PutFails(m)
      PROVE  StopInv'
  BY <1>1, <1>10 DEF PutFails, tick, end
<1>11. ASSUME NEW m \in Calls, MeasurementEnds(m)
      PROVE  StopInv'
  BY <1>1, <1>11 DEF MeasurementEnds, tick, end
<1>12. ASSUME Receive
      PROVE  StopInv'
  BY <1>1, <1>12 DEF Receive, tick, end
<1>13. ASSUME Published
      PROVE  StopInv'
  BY <1>1, <1>13 DEF Published, tick, end
<1>14. ASSUME ReporterRuns
      PROVE  StopInv'
  BY <1>1, <1>14 DEF ReporterRuns, tick, end
<1>15. ASSUME ReporterStops
      PROVE  StopInv'
  BY <1>1, <1>15 DEF ReporterStops, tick, end
<1>16. ASSUME Outage
      PROVE  StopInv'
  BY <1>1, <1>16 DEF Outage, tick, end
<1>17. ASSUME Signal
      PROVE  StopInv'
  BY <1>17 DEF Signal, TypeOK, RangesOK, StopInv, BothReturned, tick, end
<1>18. ASSUME StopReporter
      PROVE  StopInv'
  BY <1>18 DEF StopReporter, TypeOK, RangesOK, StopInv, BothReturned, tick, end
<1>19. ASSUME StopCommandLoop
      PROVE  StopInv'
  BY <1>19 DEF StopCommandLoop, TypeOK, RangesOK, StopInv, BothReturned, tick, end
<1>20. ASSUME Stopped
      PROVE  StopInv'
  BY <1>20 DEF Stopped, TypeOK, RangesOK, StopInv, BothReturned, tick, end
<1>21. ASSUME RunWaits
      PROVE  StopInv'
  BY <1>21 DEF RunWaits, TypeOK, RangesOK, StopInv, BothReturned, tick, end
<1>22. ASSUME Close
      PROVE  StopInv'
  BY <1>22 DEF Close, TypeOK, RangesOK, StopInv, BothReturned, tick, end
<1>23. ASSUME Exit
      PROVE  StopInv'
  BY <1>1, <1>23 DEF Exit, tick, end
<1>24. CASE UNCHANGED vars
  BY <1>1, <1>24 DEF vars
<1>25. ASSUME Fatal
      PROVE  StopInv'
  BY <1>1, <1>25 DEF Fatal, NodeInfoFails, MeasurementPanics, tick, end
<1>26. QED
  BY <1>2, <1>3, <1>4, <1>5, <1>6, <1>7, <1>8, <1>9, <1>10, <1>11, <1>12,
     <1>13, <1>14, <1>15, <1>16, <1>17, <1>18, <1>19, <1>20, <1>21, <1>22,
     <1>23, <1>24, <1>25
     DEF Next, Waiting, Leaving, Ending, Terminated

\* What is known of the tickers after Wait is kept.
LEMMA WaitStep == TypeOK /\ StopInv /\ WaitInv /\ [Next]_vars => WaitInv'
<1> SUFFICES ASSUME TypeOK, StopInv, WaitInv, [Next]_vars
             PROVE  WaitInv'
  OBVIOUS
<1>1. ASSUME UNCHANGED <<waiter, ticker, late, stop, hasty>>
      PROVE  WaitInv'
  BY <1>1 DEF TypeOK, RangesOK, StopInv, WaitInv, Counted
<1>2. ASSUME Launch
      PROVE  WaitInv'
  <2>1. /\ waiter = "new" /\ waiter' = "look"
        /\ \A t \in Tickers : ticker'[t] = "new"
        /\ UNCHANGED <<stop, hasty, late>>
    BY <1>2 DEF Launch, end
  <2>2. stop' # "up" => hasty' # {} \/ Tickers = {}
    BY <2>1 DEF WaitInv
  <2>3. QED
    BY <2>1, <2>2 DEF WaitInv
<1>3. ASSUME Wait
      PROVE  WaitInv'
  BY <1>3 DEF Wait, TypeOK, RangesOK, StopInv, WaitInv, Counted, tick, end
<1>4. ASSUME Woken
      PROVE  WaitInv'
  BY <1>4 DEF Woken, TypeOK, RangesOK, StopInv, WaitInv, Counted, tick, end
<1>5. ASSUME NEW t \in Tickers, Added(t)
      PROVE  WaitInv'
  BY <1>5 DEF Added, TypeOK, RangesOK, StopInv, WaitInv, Counted, tick, end
<1>6. ASSUME NEW t \in Tickers, Done(t)
      PROVE  WaitInv'
  BY <1>6 DEF Done, TypeOK, RangesOK, StopInv, WaitInv, Counted, tick, end
<1>7. ASSUME NEW t \in Tickers, StopTicker(t)
      PROVE  WaitInv'
  BY <1>7 DEF StopTicker, TypeOK, RangesOK, StopInv, WaitInv, Counted, tick, end
<1>8. ASSUME NEW t \in Tickers, NEW m \in Calls, Tick(t, m)
      PROVE  WaitInv'
  BY <1>1, <1>8 DEF Tick, tick, end
<1>9. ASSUME NEW m \in Calls, Put(m)
      PROVE  WaitInv'
  BY <1>1, <1>9 DEF Put, tick, end
<1>10. ASSUME NEW m \in Calls, PutFails(m)
      PROVE  WaitInv'
  BY <1>1, <1>10 DEF PutFails, tick, end
<1>11. ASSUME NEW m \in Calls, MeasurementEnds(m)
      PROVE  WaitInv'
  BY <1>1, <1>11 DEF MeasurementEnds, tick, end
<1>12. ASSUME Receive
      PROVE  WaitInv'
  BY <1>1, <1>12 DEF Receive, tick, end
<1>13. ASSUME Published
      PROVE  WaitInv'
  BY <1>1, <1>13 DEF Published, tick, end
<1>14. ASSUME ReporterRuns
      PROVE  WaitInv'
  BY <1>1, <1>14 DEF ReporterRuns, tick, end
<1>15. ASSUME ReporterStops
      PROVE  WaitInv'
  BY <1>1, <1>15 DEF ReporterStops, tick, end
<1>16. ASSUME Outage
      PROVE  WaitInv'
  BY <1>1, <1>16 DEF Outage, tick, end
<1>17. ASSUME Signal
      PROVE  WaitInv'
  BY <1>17 DEF Signal, TypeOK, RangesOK, StopInv, WaitInv, Counted, tick, end
<1>18. ASSUME StopReporter
      PROVE  WaitInv'
  BY <1>18 DEF StopReporter, TypeOK, RangesOK, StopInv, WaitInv, Counted, tick, end
<1>19. ASSUME StopCommandLoop
      PROVE  WaitInv'
  BY <1>19 DEF StopCommandLoop, TypeOK, RangesOK, StopInv, WaitInv, Counted, tick, end
<1>20. ASSUME Stopped
      PROVE  WaitInv'
  BY <1>20 DEF Stopped, TypeOK, RangesOK, StopInv, WaitInv, Counted, tick, end
<1>21. ASSUME RunWaits
      PROVE  WaitInv'
  BY <1>1, <1>21 DEF RunWaits, tick, end
<1>22. ASSUME Close
      PROVE  WaitInv'
  BY <1>1, <1>22 DEF Close, tick, end
<1>23. ASSUME Exit
      PROVE  WaitInv'
  BY <1>1, <1>23 DEF Exit, tick, end
<1>24. CASE UNCHANGED vars
  BY <1>1, <1>24 DEF vars
<1>25. ASSUME Fatal
      PROVE  WaitInv'
  BY <1>1, <1>25 DEF Fatal, NodeInfoFails, MeasurementPanics, tick, end
<1>26. QED
  BY <1>2, <1>3, <1>4, <1>5, <1>6, <1>7, <1>8, <1>9, <1>10, <1>11, <1>12,
     <1>13, <1>14, <1>15, <1>16, <1>17, <1>18, <1>19, <1>20, <1>21, <1>22,
     <1>23, <1>24, <1>25
     DEF Next, Waiting, Leaving, Ending, Terminated

\* A step that crashes the process has one of the causes.
LEMMA CrashStep == IInv /\ [Next]_vars => CrashesHaveCauses'
<1> SUFFICES ASSUME IInv, [Next]_vars
             PROVE  CrashesHaveCauses'
  OBVIOUS
<1>1. ASSUME UNCHANGED <<proc, stop, late, hasty>>
      PROVE  CrashesHaveCauses'
  BY <1>1 DEF IInv, StopInv, WaitInv, CrashesHaveCauses, Alive, Closed, BothReturned
<1>2. ASSUME Launch
      PROVE  CrashesHaveCauses'
  BY <1>1, <1>2 DEF Launch, tick, end
<1>3. ASSUME Wait
      PROVE  CrashesHaveCauses'
  BY <1>3 DEF Wait, IInv, StopInv, WaitInv, CrashesHaveCauses, Alive, Closed, BothReturned, tick, end
<1>4. ASSUME Woken
      PROVE  CrashesHaveCauses'
  BY <1>4 DEF Woken, IInv, StopInv, WaitInv, CrashesHaveCauses, Alive, Closed, BothReturned, tick, end
<1>5. ASSUME NEW t \in Tickers, Added(t)
      PROVE  CrashesHaveCauses'
  BY <1>1, <1>5 DEF Added, tick, end
<1>6. ASSUME NEW t \in Tickers, Done(t)
      PROVE  CrashesHaveCauses'
  BY <1>1, <1>6 DEF Done, tick, end
<1>7. ASSUME NEW t \in Tickers, StopTicker(t)
      PROVE  CrashesHaveCauses'
  BY <1>1, <1>7 DEF StopTicker, tick, end
<1>8. ASSUME NEW t \in Tickers, NEW m \in Calls, Tick(t, m)
      PROVE  CrashesHaveCauses'
  BY <1>1, <1>8 DEF Tick, tick, end
<1>9. ASSUME NEW m \in Calls, Put(m)
      PROVE  CrashesHaveCauses'
  BY <1>9 DEF Put, IInv, StopInv, WaitInv, CrashesHaveCauses, Alive, Closed, BothReturned, tick, end
<1>10. ASSUME NEW m \in Calls, PutFails(m)
      PROVE  CrashesHaveCauses'
  BY <1>10 DEF PutFails, IInv, StopInv, WaitInv, CrashesHaveCauses, Alive, Closed, BothReturned, tick, end
<1>11. ASSUME NEW m \in Calls, MeasurementEnds(m)
      PROVE  CrashesHaveCauses'
  BY <1>1, <1>11 DEF MeasurementEnds, tick, end
<1>12. ASSUME Receive
      PROVE  CrashesHaveCauses'
  BY <1>1, <1>12 DEF Receive, tick, end
<1>13. ASSUME Published
      PROVE  CrashesHaveCauses'
  BY <1>13 DEF Published, IInv, StopInv, WaitInv, CrashesHaveCauses, Alive, Closed, BothReturned, tick, end
<1>14. ASSUME ReporterRuns
      PROVE  CrashesHaveCauses'
  BY <1>1, <1>14 DEF ReporterRuns, tick, end
<1>15. ASSUME ReporterStops
      PROVE  CrashesHaveCauses'
  BY <1>1, <1>15 DEF ReporterStops, tick, end
<1>16. ASSUME Outage
      PROVE  CrashesHaveCauses'
  BY <1>1, <1>16 DEF Outage, tick, end
<1>17. ASSUME Signal
      PROVE  CrashesHaveCauses'
  BY <1>17 DEF Signal, IInv, StopInv, WaitInv, CrashesHaveCauses, Alive, Closed, BothReturned, tick, end
<1>18. ASSUME StopReporter
      PROVE  CrashesHaveCauses'
  BY <1>18 DEF StopReporter, IInv, StopInv, WaitInv, CrashesHaveCauses, Alive, Closed, BothReturned, tick, end
<1>19. ASSUME StopCommandLoop
      PROVE  CrashesHaveCauses'
  BY <1>19 DEF StopCommandLoop, IInv, StopInv, WaitInv, CrashesHaveCauses, Alive, Closed, BothReturned, tick, end
<1>20. ASSUME Stopped
      PROVE  CrashesHaveCauses'
  BY <1>20 DEF Stopped, IInv, StopInv, WaitInv, CrashesHaveCauses, Alive, Closed, BothReturned, tick, end
<1>21. ASSUME RunWaits
      PROVE  CrashesHaveCauses'
  BY <1>1, <1>21 DEF RunWaits, tick, end
<1>22. ASSUME Close
      PROVE  CrashesHaveCauses'
  BY <1>1, <1>22 DEF Close, tick, end
<1>23. ASSUME Exit
      PROVE  CrashesHaveCauses'
  BY <1>23 DEF Exit, IInv, StopInv, WaitInv, CrashesHaveCauses, Alive, Closed, BothReturned, tick, end
<1>24. CASE UNCHANGED vars
  BY <1>1, <1>24 DEF vars
<1>25. ASSUME Fatal
      PROVE  CrashesHaveCauses'
  BY <1>25 DEF Fatal, NodeInfoFails, MeasurementPanics,
              CrashesHaveCauses, tick, end
<1>26. QED
  BY <1>2, <1>3, <1>4, <1>5, <1>6, <1>7, <1>8, <1>9, <1>10, <1>11, <1>12,
     <1>13, <1>14, <1>15, <1>16, <1>17, <1>18, <1>19, <1>20, <1>21, <1>22,
     <1>23, <1>24, <1>25
     DEF Next, Waiting, Leaving, Ending, Terminated
-----------------------------------------------------------------------------
\* The invariant holds when Run begins ...
LEMMA InitIInv == Init => IInv
<1> SUFFICES ASSUME Init
             PROVE  IInv
  OBVIOUS
<1>1. RangesOK
  BY LifecycleAssumption DEF Init, RangesOK
<1>2. QueueOK
  <2>1. senders \in Seq(Calls) /\ Len(senders) = 0
    BY DEF Init
  <2>2. QED
    BY <2>1 DEF QueueOK
<1>3. StopInv /\ WaitInv /\ CrashesHaveCauses
  BY DEF Init, StopInv, WaitInv, CrashesHaveCauses
<1>4. QED
  BY <1>1, <1>2, <1>3 DEF IInv, TypeOK

\* ... and every step keeps it.
LEMMA StepIInv == IInv /\ [Next]_vars => IInv'
  BY QueueStep, RangesStep, StopStep, WaitStep, CrashStep DEF IInv, TypeOK

\* Hence it always holds.
LEMMA Inductive == Spec => []IInv
  BY InitIInv, StepIInv, PTL DEF Spec

\* The invariant says when Run may go on.
LEMMA Outlived == IInv => RunOutlivesTickers
  BY DEF IInv, TypeOK, RangesOK, StopInv, WaitInv, RunOutlivesTickers, BothReturned

-----------------------------------------------------------------------------
\* Every variable keeps its type; the channel queues measurements that are
\* blocked in Put, each of them once (telem.go:63-65).
THEOREM TypeCorrect == Spec => []TypeOK
<1>1. IInv => TypeOK
  BY DEF IInv
<1>2. QED
  BY <1>1, Inductive, PTL

\* Run leaves its wait groups only in a shutdown, and only after every ticker
\* has returned unless one was late for Wait (daemon.go:107, 132-135).
THEOREM TickersOutlived == Spec => []RunOutlivesTickers
  BY Outlived, Inductive, PTL

\* Neither the telemetry channel nor the wait group panics before the signal, nor
\* in a shutdown that has yet to get to the tickers, whatever else may end the
\* process at any time; and the wait group only if a ticker was late both for the
\* signal and for Wait (daemon.go:107, 128, 135; telem.go:63-69).
THEOREM CrashCauses == Spec => []CrashesHaveCauses
<1>1. IInv => CrashesHaveCauses
  BY DEF IInv
<1>2. QED
  BY <1>1, Inductive, PTL

\* Unless a ticker was late for Wait, nothing starts a measurement when the
\* channel has been closed (ticker.go:62, daemon.go:135).
THEOREM ChannelClosesLast == Spec => NothingBeginsOnClosedChannel
<1>1. ASSUME IInv, [Next]_vars, NEW m \in Calls,
             Closed, work[m] = "none", work'[m] # "none"
      PROVE  late # {}
  <2>1. late # {} \/ \A t \in Tickers : ticker[t] # "running"
    BY <1>1, Outlived DEF RunOutlivesTickers, Closed
  <2>2. RangesOK /\ \A i \in 1 .. Len(senders) : work[senders[i]] = "put"
    BY <1>1 DEF IInv, TypeOK, QueueOK
  <2>3. CASE \E t \in Tickers, k \in Calls : Tick(t, k)
    BY <2>1, <2>3 DEF Tick
  <2>4. CASE \E k \in Calls : Put(k)
    BY <1>1, <2>2, <2>4 DEF Put, RangesOK
  <2>5. CASE \E k \in Calls : MeasurementEnds(k)
    BY <1>1, <2>2, <2>5 DEF MeasurementEnds, RangesOK
  <2>6. CASE Receive
    BY <1>1, <2>6 DEF Receive
  <2>7. CASE UNCHANGED work
    BY <1>1, <2>7
  <2>8. QED
    <3>1. CASE \/ Waiting \/ \E t \in Tickers : Added(t) \/ Leaving(t)
               \/ \E k \in Calls : PutFails(k)
      BY <2>7, <3>1 DEF Waiting, Launch, Wait, Woken, Added, Leaving, Done,
                        StopTicker, PutFails
    <3>2. CASE Fatal \/ Published \/ ReporterRuns \/ ReporterStops \/ Outage \/ Signal
      BY <2>7, <3>2 DEF Fatal, NodeInfoFails, MeasurementPanics, Published, ReporterRuns, ReporterStops, Outage, Signal
    <3>3. CASE Ending
      BY <2>7, <3>3 DEF Ending, StopReporter, StopCommandLoop, Stopped,
                        RunWaits, Close, Exit
    <3>4. CASE UNCHANGED vars
      BY <2>7, <3>4 DEF vars
    <3>5. QED
      BY <1>1, <2>3, <2>4, <2>5, <2>6, <3>1, <3>2, <3>3, <3>4
         DEF Next, Terminated
<1>2. IInv /\ [Next]_vars =>
        [\A m \in Calls : Closed /\ work[m] = "none" /\ work'[m] # "none" => late # {}]_vars
  BY <1>1
<1>3. QED
  BY <1>2, Inductive, PTL DEF Spec, NothingBeginsOnClosedChannel

-----------------------------------------------------------------------------
(* The tickers come and go as TickerShutdown says.                           *)

\* What TickerShutdown sees of a state.
Seen == <<[t \in Tickers |-> Phase(t)], cmdLoop, Stopping, todo>>

\* A step is one of TickerShutdown's or changes nothing that it sees.
LEMMA ShutdownStep ==
  TypeOK /\ WaitInv /\ [Next]_vars => Shutdown!Next \/ UNCHANGED Seen
<1> SUFFICES ASSUME RangesOK, WaitInv, [Next]_vars
             PROVE  Shutdown!Next \/ UNCHANGED Seen
  BY DEF TypeOK
<1> DEFINE L == [t \in Tickers |-> Phase(t)]
<1>1. ASSUME UNCHANGED <<ticker, cmdLoop, stop, todo>>
      PROVE  UNCHANGED Seen
  BY <1>1 DEF Seen, Phase, Stopping
<1>2. ASSUME Launch
      PROVE  UNCHANGED Seen
  <2>1. \A t \in Tickers : ticker[t] = "unborn" /\ ticker'[t] = "new"
    BY <1>2 DEF Launch, WaitInv
  <2>2. QED
    BY <1>2, <2>1 DEF Launch, end, Seen, Phase, Stopping
<1>3. ASSUME NEW t \in Tickers, Added(t)
      PROVE  Shutdown!Run(t)
  <2>1. L[t] = "waiting" /\ L' = [L EXCEPT ![t] = "running"]
    BY <1>3 DEF Added, RangesOK, Phase
  <2>2. QED
    BY <1>3, <2>1 DEF Added, end, Stopping, Shutdown!Run
<1>4. ASSUME NEW t \in Tickers, Done(t)
      PROVE  UNCHANGED Seen
  <2>1. ticker[t] = "left" /\ ticker' = [ticker EXCEPT ![t] = "done"]
    BY <1>4 DEF Done
  <2>2. \A u \in Tickers : Phase(u)' = Phase(u)
    BY <2>1 DEF RangesOK, Phase
  <2>3. QED
    BY <1>4, <2>2 DEF Done, end, Seen, Stopping
<1>5. ASSUME NEW t \in Tickers, StopTicker(t)
      PROVE  Shutdown!StopTicker(t)
  <2>1. L[t] = "running" /\ L' = [L EXCEPT ![t] = "returned"]
    BY <1>5 DEF StopTicker, RangesOK, Phase
  <2>2. QED
    BY <1>5, <2>1 DEF StopTicker, Stopping, Shutdown!StopTicker
<1>6. CASE Wait \/ Woken \/ RunWaits \/ Close \/ Exit
  BY <1>1, <1>6 DEF Wait, Woken, RunWaits, Close, Exit, tick, end
<1>7. ASSUME NEW m \in Calls,
             (\E t \in Tickers : Tick(t, m)) \/ Put(m) \/ PutFails(m) \/ MeasurementEnds(m)
      PROVE  UNCHANGED Seen
  BY <1>1, <1>7 DEF Tick, Put, PutFails, MeasurementEnds, tick, end
<1>8. CASE Fatal \/ Receive \/ Published \/ ReporterRuns \/ ReporterStops \/ Outage
  BY <1>1, <1>8 DEF Fatal, NodeInfoFails, MeasurementPanics, Receive, Published,
                    ReporterRuns, ReporterStops, Outage, tick, end
<1>9. CASE Signal \/ StopReporter
  BY <1>9 DEF Signal, StopReporter, tick, Seen, Phase, Stopping
<1>10. ASSUME StopCommandLoop
       PROVE  Shutdown!StopCommandLoop
  BY <1>10 DEF StopCommandLoop, tick, Phase, Stopping, Shutdown!StopCommandLoop
<1>11. ASSUME Stopped
       PROVE  Shutdown!Stopped
  BY <1>11 DEF Stopped, tick, Phase, Stopping, Shutdown!Stopped
<1>12. CASE UNCHANGED vars
  BY <1>1, <1>12 DEF vars
<1>13. QED
  BY <1>2, <1>3, <1>4, <1>5, <1>6, <1>7, <1>8, <1>9, <1>10, <1>11, <1>12
     DEF Next, Waiting, Leaving, Ending, Terminated, Shutdown!Next

\* Whatever measurements, reporters and Run do meanwhile, the command loop ends
\* before the first ticker, and each ticker is stopped once, when it is in its
\* select (daemon.go:141-152).
THEOREM OrderlyShutdown == Spec => ShutdownInOrder
<1>1. Init => Shutdown!Init
  BY DEF Init, Shutdown!Init, Phase, Stopping
<1>2. IInv /\ [Next]_vars => Shutdown!Next \/ UNCHANGED Seen
  BY ShutdownStep DEF IInv
<1>3. QED
  BY <1>1, <1>2, Inductive, PTL DEF Spec, ShutdownInOrder, Shutdown!Spec, Seen

\* TickerShutdown stops the tickers one by one.
LEMMA OneByOne == Shutdown!Spec => []Shutdown!StoppedOneByOne
<1> USE DEF Shutdown!StoppedOneByOne
<1>1. Shutdown!Init => Shutdown!StoppedOneByOne
  BY DEF Shutdown!Init
<1>2. Shutdown!StoppedOneByOne /\ [Shutdown!Next]_Seen => Shutdown!StoppedOneByOne'
  <2> SUFFICES ASSUME Shutdown!StoppedOneByOne, [Shutdown!Next]_Seen
               PROVE  Shutdown!StoppedOneByOne'
    OBVIOUS
  <2>1. CASE Shutdown!StopCommandLoop
    BY <2>1 DEF Shutdown!StopCommandLoop
  <2>2. CASE Shutdown!Stopped
    BY <2>2 DEF Shutdown!Stopped
  <2>3. ASSUME NEW t \in Tickers, Shutdown!Run(t) PROVE Shutdown!StoppedOneByOne'
    BY <2>3 DEF Shutdown!Run
  <2>4. ASSUME NEW t \in Tickers, Shutdown!StopTicker(t) PROVE Shutdown!StoppedOneByOne'
    BY <2>4 DEF Shutdown!StopTicker
  <2>5. CASE UNCHANGED Seen
    BY <2>5 DEF Seen
  <2>6. QED
    BY <2>1, <2>2, <2>3, <2>4, <2>5 DEF Shutdown!Next
<1>3. QED
  BY <1>1, <1>2, PTL DEF Shutdown!Spec, Seen

\* A wait group that is waited for counts a ticker until the last wakes the waiter.
WakeInv == waiter = "blocked" => Counted # {}

LEMMA WakeStep == RangesOK /\ WakeInv /\ [Next]_vars => WakeInv'
<1> SUFFICES ASSUME RangesOK, WakeInv, [Next]_vars, waiter' = "blocked"
             PROVE  Counted' # {}
  BY DEF WakeInv
<1>1. ASSUME waiter = "blocked", NEW t \in Tickers, ticker[t] \in {"running", "left"},
             ticker'[t] \in {"running", "left"}
      PROVE  Counted' # {}
  BY <1>1 DEF Counted
<1>2. CASE Wait
  <2>1. Counted # {} /\ ticker' = ticker
    BY <1>2 DEF Wait
  <2>2. QED
    BY <2>1 DEF Counted
<1>3. CASE Launch \/ Woken
  BY <1>3 DEF Launch, Woken, Counted, WakeInv
<1>4. ASSUME NEW t \in Tickers, Added(t) \/ StopTicker(t)
      PROVE  Counted' # {}
  <2>1. ticker'[t] \in {"running", "left"}
    BY <1>4 DEF Added, StopTicker, RangesOK
  <2>2. QED
    BY <2>1 DEF Counted
<1>5. ASSUME NEW t \in Tickers, Done(t)
      PROVE  Counted' # {}
  <2>1. waiter = "blocked" /\ Counted # {t} /\ ticker' = [ticker EXCEPT ![t] = "done"]
    BY <1>5 DEF Done
  <2>2. PICK u \in Tickers : u # t /\ ticker[u] \in {"running", "left"}
    <3>1. t \in Counted
      BY <1>5 DEF Done, Counted
    <3>2. QED
      BY <2>1, <3>1 DEF Counted
  <2>3. QED
    BY <2>1, <2>2 DEF Counted
<1>6. CASE UNCHANGED <<waiter, ticker>>
  BY <1>6 DEF WakeInv, Counted
<1>7. CASE \E m \in Calls : \/ \E t \in Tickers : Tick(t, m)
                            \/ Put(m) \/ PutFails(m) \/ MeasurementEnds(m)
  BY <1>6, <1>7 DEF Tick, Put, PutFails, MeasurementEnds, tick
<1>8. CASE Fatal \/ Receive \/ Published \/ ReporterRuns \/ ReporterStops \/ Outage \/ Signal
  BY <1>6, <1>8 DEF Fatal, NodeInfoFails, MeasurementPanics, Receive, Published,
                    ReporterRuns, ReporterStops, Outage, Signal, tick
<1>9. CASE Ending
  BY <1>6, <1>9 DEF Ending, StopReporter, StopCommandLoop, Stopped, RunWaits, Close,
                    Exit, tick
<1>10. QED
  BY <1>2, <1>3, <1>4, <1>5, <1>6, <1>7, <1>8, <1>9
     DEF Next, Waiting, Leaving, Terminated, vars

\* The safety half of what SignalEndsProcess says: neither Wait nor Run is left
\* behind by the shutdown (daemon.go:106-112, 141-152).
THEOREM NotHeldBack == Spec => []RunIsNotHeldBack
<1>1. Init => WakeInv
  BY DEF Init, WakeInv
<1>2. TypeOK /\ WakeInv /\ Shutdown!StoppedOneByOne => RunIsNotHeldBack
  <2> SUFFICES ASSUME RangesOK, WakeInv, Shutdown!StoppedOneByOne
               PROVE  RunIsNotHeldBack
    BY DEF TypeOK
  <2>1. ASSUME stop = "done"
        PROVE  cmdLoop = "returned" /\ \A t \in Tickers : Phase(t) = "returned"
    <3>1. Stopping = "done"
      BY <2>1 DEF Stopping
    <3>2. QED
      BY <3>1 DEF Shutdown!StoppedOneByOne, RangesOK
  <2>2. \A t \in Tickers : Phase(t) = "returned" => ticker[t] \in {"left", "done"}
    BY DEF Phase, RangesOK
  <2>3. QED
    BY <2>1, <2>2 DEF RunIsNotHeldBack, WakeInv
<1>3. TypeOK => RangesOK
  BY DEF TypeOK
<1>4. QED
  BY <1>1, <1>2, <1>3, WakeStep, TypeCorrect, OrderlyShutdown, OneByOne, PTL
     DEF Spec, ShutdownInOrder

-----------------------------------------------------------------------------
(* The queue of the channel is served in turn.                               *)

\* Every measurement in Put is in the queue.
QueuedInv ==
  \A m \in Calls : work[m] = "put" => \E i \in 1 .. Len(senders) : senders[i] = m

\* What Put does to the queue.
LEMMA Appended ==
  ASSUME TypeOK, NEW m \in Calls, Put(m), ~Closed
  PROVE  /\ work[m] = "measuring" /\ work' = [work EXCEPT ![m] = "put"]
         /\ Len(senders) \in Nat /\ Len(senders') = Len(senders) + 1
         /\ \A i \in 1 .. Len(senders) : senders'[i] = senders[i] /\ senders[i] # m
         /\ senders'[Len(senders) + 1] = m
<1>1. /\ senders \in Seq(Calls) /\ senders' = Append(senders, m)
      /\ work[m] = "measuring" /\ work' = [work EXCEPT ![m] = "put"]
  BY DEF Put, TypeOK, QueueOK
<1>2. \A i \in 1 .. Len(senders) : senders[i] # m
  BY <1>1 DEF TypeOK, QueueOK
<1>3. QED
  BY <1>1, <1>2

\* What Receive does to it.
LEMMA Removed ==
  ASSUME TypeOK, Receive
  PROVE  /\ work' = [work EXCEPT ![senders[1]] = "measuring"]
         /\ Len(senders) \in Nat \ {0} /\ Len(senders') = Len(senders) - 1
         /\ senders[1] \in Calls
         /\ \A i \in 1 .. Len(senders') :
              senders'[i] = senders[i + 1] /\ senders[i + 1] # senders[1]
<1>1. /\ senders \in Seq(Calls) /\ senders # << >> /\ senders' = Tail(senders)
      /\ work' = [work EXCEPT ![Head(senders)] = "measuring"]
  BY DEF Receive, TypeOK, QueueOK
<1>2. /\ Len(senders) \in Nat \ {0} /\ Len(senders') = Len(senders) - 1
      /\ Head(senders) = senders[1] /\ senders[1] \in Calls
      /\ \A i \in 1 .. Len(senders') : senders'[i] = senders[i + 1]
  BY <1>1
<1>3. \A i \in 1 .. Len(senders') : i + 1 \in 1 .. Len(senders) /\ i + 1 # 1
  BY <1>2
<1>4. \A i \in 1 .. Len(senders') : senders[i + 1] # senders[1]
  BY <1>2, <1>3 DEF TypeOK, QueueOK
<1>5. QED
  BY <1>1, <1>2, <1>4

\* No other step touches the queue, or has the reporter take a value.
LEMMA QueueUntouched ==
  ASSUME TypeOK, [Next]_vars, ~Receive, \A m \in Calls : Put(m) => Closed
  PROVE  /\ senders' = senders /\ ~Taken
         /\ \A m \in Calls : work'[m] = "put" <=> work[m] = "put"
<1>1. ASSUME UNCHANGED <<senders, work, rep>>
      PROVE  /\ senders' = senders /\ ~Taken
             /\ \A m \in Calls : work'[m] = "put" <=> work[m] = "put"
  BY <1>1 DEF Taken
<1>2. CASE Waiting \/ \E t \in Tickers : Added(t) \/ Leaving(t)
  BY <1>1, <1>2 DEF Waiting, Launch, Wait, Woken, Added, Leaving, Done, StopTicker
<1>3. CASE \E t \in Tickers, k \in Calls : Tick(t, k)
  BY <1>3 DEF Tick, Taken, TypeOK, RangesOK
<1>4. CASE \E k \in Calls : Put(k) \/ PutFails(k)
  BY <1>1, <1>4 DEF Put, PutFails
<1>5. CASE \E k \in Calls : MeasurementEnds(k)
  BY <1>5 DEF MeasurementEnds, Taken, TypeOK, RangesOK
<1>6. CASE Fatal \/ Published \/ ReporterRuns \/ ReporterStops \/ Outage \/ Signal
  BY <1>6 DEF Fatal, NodeInfoFails, MeasurementPanics, Published, ReporterRuns, ReporterStops, Outage, Signal, Taken
<1>7. CASE Ending
  BY <1>1, <1>7 DEF Ending, StopReporter, StopCommandLoop, Stopped, RunWaits, Close, Exit
<1>8. CASE UNCHANGED vars
  BY <1>1, <1>8 DEF vars
<1>9. QED
  BY <1>2, <1>3, <1>4, <1>5, <1>6, <1>7, <1>8 DEF Next, Terminated

\* A measurement is in the queue from Put until its value is taken.
LEMMA QueuedStep == TypeOK /\ QueuedInv /\ [Next]_vars => QueuedInv'
<1> SUFFICES ASSUME TypeOK, QueuedInv, [Next]_vars, NEW m \in Calls, work'[m] = "put"
             PROVE  \E i \in 1 .. Len(senders') : senders'[i] = m
  BY DEF QueuedInv
<1>1. work \in [Calls -> {"none", "measuring", "put"}]
  BY DEF TypeOK, RangesOK
<1>2. ASSUME NEW k \in Calls, Put(k), ~Closed
      PROVE  \E i \in 1 .. Len(senders') : senders'[i] = m
  <2>1. CASE k = m
    BY <1>2, <2>1, Appended
  <2>2. CASE k # m
    <3>1. PICK i \in 1 .. Len(senders) : senders[i] = m
      BY <1>1, <1>2, <2>2, Appended DEF QueuedInv
    <3>2. i \in 1 .. Len(senders') /\ senders'[i] = m
      BY <1>2, <3>1, Appended
    <3>3. QED
      BY <3>2
  <2>3. QED
    BY <2>1, <2>2
<1>3. CASE Receive
  <2>1. work[m] = "put" /\ m # senders[1]
    BY <1>1, <1>3, Removed
  <2>2. PICK i \in 1 .. Len(senders) : senders[i] = m
    BY <2>1 DEF QueuedInv
  <2>3. i - 1 \in 1 .. Len(senders') /\ senders'[i - 1] = senders[(i - 1) + 1]
    BY <1>3, <2>1, <2>2, Removed
  <2>4. QED
    BY <2>2, <2>3
<1>4. QED
  BY <1>2, <1>3, QueueUntouched DEF QueuedInv

\* Nobody is overtaken.
LEMMA TurnStep ==
  ASSUME TypeOK, QueuedInv, [Next]_vars, NEW m \in Calls, work[m] = "put"
  PROVE  IF work'[m] = "put"
         THEN Ahead(m)' \subseteq Ahead(m) /\ (Taken => Ahead(m)' # Ahead(m))
         ELSE Taken /\ Ahead(m) = {}
<1>1. work \in [Calls -> {"none", "measuring", "put"}]
  BY DEF TypeOK, RangesOK
<1>2. ASSUME NEW k \in Calls, Put(k), ~Closed
      PROVE  work'[m] = "put" /\ Ahead(m)' \subseteq Ahead(m) /\ ~Taken
  <2>1. work'[m] = "put" /\ k # m /\ ~Taken
    BY <1>1, <1>2, Appended DEF Put, Taken
  <2>2. ASSUME NEW i \in 1 .. Len(senders'), NEW j \in i + 1 .. Len(senders'),
               senders'[j] = m
        PROVE  senders'[i] \in Ahead(m)
    <3>1. j \in 1 .. Len(senders)
      BY <1>2, <2>1, <2>2, Appended
    <3>2. /\ i \in 1 .. Len(senders) /\ j \in i + 1 .. Len(senders)
          /\ senders'[i] = senders[i] /\ senders[j] = m
      BY <1>2, <2>2, <3>1, Appended
    <3>3. QED
      BY <3>2 DEF Ahead
  <2>3. QED
    BY <2>1, <2>2 DEF Ahead
<1>3. CASE Receive
  <2>1. Taken
    BY <1>3 DEF Receive, Taken
  <2>2. ASSUME work'[m] # "put"
        PROVE  Ahead(m) = {}
    <3>1. m = senders[1]
      BY <1>1, <1>3, <2>2, Removed
    <3>2. ASSUME NEW i \in 1 .. Len(senders), NEW j \in i + 1 .. Len(senders)
          PROVE  senders[j] # m
      <4>1. Len(senders) \in Nat /\ j \in 1 .. Len(senders) /\ j # 1 /\ 1 \in 1 .. Len(senders)
        BY <1>3, <3>2, Removed
      <4>2. QED
        BY <3>1, <4>1 DEF TypeOK, QueueOK
    <3>3. QED
      BY <3>2 DEF Ahead
  <2>3. ASSUME work'[m] = "put"
        PROVE  Ahead(m)' \subseteq Ahead(m) /\ Ahead(m)' # Ahead(m)
    <3>1. ASSUME NEW i \in 1 .. Len(senders'), NEW j \in i + 1 .. Len(senders'),
                 senders'[j] = m
          PROVE  senders'[i] \in Ahead(m)
      <4>1. /\ i + 1 \in 1 .. Len(senders) /\ j + 1 \in (i + 1) + 1 .. Len(senders)
            /\ senders'[i] = senders[i + 1] /\ senders[j + 1] = m
        BY <1>3, <3>1, Removed
      <4>2. QED
        BY <4>1 DEF Ahead
    <3>2. PICK j \in 1 .. Len(senders) : senders[j] = m
      BY DEF QueuedInv
    <3>3. m # senders[1]
      BY <1>1, <1>3, <2>3, Removed
    <3>4. 1 \in 1 .. Len(senders) /\ j \in 1 + 1 .. Len(senders)
      BY <1>3, <3>2, <3>3, Removed
    <3>5. senders[1] \in Ahead(m)
      BY <3>2, <3>4 DEF Ahead
    <3>6. senders[1] \notin Ahead(m)'
      BY <1>3, Removed DEF Ahead
    <3>7. Ahead(m)' \subseteq Ahead(m)
      BY <3>1 DEF Ahead
    <3>8. QED
      BY <3>5, <3>6, <3>7
  <2>4. QED
    BY <2>1, <2>2, <2>3
<1>4. CASE ~Receive /\ \A k \in Calls : Put(k) => Closed
  BY <1>4, QueueUntouched DEF Ahead
<1>5. QED
  BY <1>2, <1>3, <1>4

\* A value waits for those that came before it and for no other: the safety half
\* of what BacklogDrains says (telem.go:63-65, redis.go:129).
THEOREM InTurn == Spec => ServedInTurn
<1>1. Init => QueuedInv
  BY DEF Init, QueuedInv
<1>2. TypeOK /\ QueuedInv /\ [Next]_vars =>
        [\A m \in Calls : work[m] = "put" =>
           IF work'[m] = "put"
           THEN /\ Ahead(m)' \subseteq Ahead(m)
                /\ Taken => Ahead(m)' # Ahead(m)
           ELSE Taken /\ Ahead(m) = {}]_vars
  BY TurnStep
<1>3. QED
  BY <1>1, <1>2, QueuedStep, TypeCorrect, PTL DEF Spec, ServedInTurn
=============================================================================
