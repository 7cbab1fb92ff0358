---------------------------- MODULE TelemdProofs ----------------------------
(* The safety properties of Telemd, for any number of servers, reporters,    *)
(* pings and outages.                                                        *)
EXTENDS Telemd, FiniteSetTheorems, TLAPS

\* TypeOK in three parts.
Ranges ==
  /\ failures \in -1 .. 2
  /\ chan \in {"open", "closed"}
  /\ call \in [Goroutines -> {"none", "allow", "attempt"} \cup Sends \cup Results]
  /\ mon \in {"ready", "updating", "stop?", "stopping", "gone"}
  /\ srv \in [Servers -> {"none", "starting", "serving", "info", "leaving"}]
  /\ rep \in [Reporters -> {"none", "starting", "waiting", "publishing", "leaving"}]
  /\ pings \in Nat /\ repStops \in Nat
  /\ tokens \in 0 .. 10
  /\ down \in {"up", "stop?", "stopping", "retrying?", "removing", "close",
               "limiter", "channel", "reporter", "daemon", "done"}
  /\ proc \in {"running", "exited", "fatal", "panic", "bound"}
  /\ link \in {"up", "down"}
  /\ outages \in 0 .. MaxOutages /\ calls \in 0 .. MaxCalls
  /\ {first, handled} \subseteq {"none", "Stopped"} \cup Sends

Booleans ==
  /\ closed \in BOOLEAN /\ written \in BOOLEAN /\ inOrder \in BOOLEAN
  /\ srvRunning \in BOOLEAN /\ repRunning \in BOOLEAN

Callers ==
  /\ \A s \in Servers : call[s] # "none" <=> srv[s] = "info"
  /\ \A r \in Reporters : call[r] # "none" <=> rep[r] = "publishing"
  /\ call["monitor"] # "none" <=> mon = "updating"
  /\ call["shutdown"] # "none" <=> down = "removing"

\* A server ends only when the monitor deals with Failed, or in the shutdown.
ServeInv ==
  /\ mon \in {"stop?", "stopping"} => handled = "Failed"
  /\ down = "up" /\ handled \in {"Connected", "Recovered"} =>
       \E s \in Servers : Staying(srv[s])

\* Before the shutdown no call is refused, and a reporter's ends well.
RefuseInv ==
  /\ closed <=> down \in {"channel", "reporter", "daemon", "done"}
  /\ \A g \in Goroutines : call[g] = "refused" => closed
  /\ \A r \in Reporters : call[r] # "error"

\* The monitor's own call writes the info, on its way to "ok".
InfoInv ==
  Alive /\ down = "up" =>
    /\ call["monitor"] \in {"ok", "Connected", "Recovered"} => written
    /\ first = "Connected" /\ mon # "updating" => written

\* Reporters that stay, and the Stops that they may yet be ended by.
Reporting == {r \in Reporters : Staying(rep[r])}
Owed == tokens + repStops + (IF mon \in {"stop?", "stopping"} THEN 1 ELSE 0)

\* After a Failed there is a reporter for every Stop, otherwise one more.
CountInv ==
  Alive /\ down = "up" =>
    /\ handled \in {"none"} \cup Sends
    /\ handled = "none" <=> first = "none"
    /\ first = "none" => Owed = 0
    /\ inOrder /\ first = "Connected" /\ handled = "Failed" =>
         Owed <= Cardinality(Reporting)
    /\ inOrder /\ first = "Connected" /\ handled # "Failed" =>
         Owed + 1 <= Cardinality(Reporting)

IInv == TypeOK /\ ServeInv /\ RefuseInv /\ InfoInv /\ CountInv

-----------------------------------------------------------------------------

\* The three parts make up TypeOK.
LEMMA Parts == TypeOK <=> Ranges /\ Booleans /\ Callers
<1>1. TypeOK => Ranges
  BY DEF TypeOK, Ranges
<1>2. TypeOK => Booleans
  BY DEF TypeOK, Booleans
<1>3. TypeOK => Callers
  BY DEF TypeOK, Callers
<1>4. Ranges /\ Booleans /\ Callers => TypeOK
  BY DEF TypeOK, Ranges, Booleans, Callers
<1>5. QED
  BY <1>1, <1>2, <1>3, <1>4

\* And so in the next state.
LEMMA Whole == Ranges' /\ Booleans' /\ Callers' => TypeOK'
BY DEF TypeOK, Ranges, Booleans, Callers

\* The type is kept: a goroutine enters and leaves a Redis call with its step.
LEMMA TypeStep == TypeOK /\ [Next]_vars => TypeOK'
<1> SUFFICES ASSUME TypeOK, [Next]_vars
             PROVE  TypeOK'
  OBVIOUS
<1> USE TelemdAssumption DEF limiter, flags, world, history, Goto, Sends, Results, TypeOK, Goroutines
<1>1. ASSUME NEW g \in Goroutines, Allow(g)
      PROVE  TypeOK'
  BY <1>1 DEF Allow
<1>2. ASSUME NEW g \in Goroutines, Succeed(g)
      PROVE  TypeOK'
  <2>1. Ranges'
    BY <1>2 DEF Succeed, OnSuccess, InfoAfter, Ranges
  <2>2. Booleans'
    BY <1>2 DEF Succeed, OnSuccess, InfoAfter, Booleans
  <2>3. Callers'
    BY <1>2 DEF Succeed, OnSuccess, InfoAfter, Callers
  <2>4. QED
    BY <2>1, <2>2, <2>3, Whole
<1>3. ASSUME NEW g \in Goroutines, Fail(g)
      PROVE  TypeOK'
  BY <1>3 DEF Fail, AfterError
<1>4. ASSUME NEW g \in Goroutines, Panic(g)
      PROVE  TypeOK'
  BY <1>4 DEF Panic
<1>5. ASSUME NEW g \in Goroutines, OnConnected(g)
      PROVE  TypeOK'
  BY <1>5 DEF OnConnected, Receive, Resume, AfterError, Start, Free
<1>6. ASSUME NEW g \in Goroutines, OnFailed(g)
      PROVE  TypeOK'
  BY <1>6 DEF OnFailed, Receive, Resume, AfterError
<1>7. ASSUME NEW g \in Goroutines, OnRecovered(g)
      PROVE  TypeOK'
  BY <1>7 DEF OnRecovered, Receive, Resume, AfterError, Start, Free
<1>8. ASSUME Bound
      PROVE  TypeOK'
  BY <1>8 DEF Bound
<1>9. ASSUME Updated
      PROVE  TypeOK'
  BY <1>9 DEF Updated
<1>10. ASSUME MonStop
      PROVE  TypeOK'
  BY <1>10 DEF MonStop, Launch
<1>11. ASSUME NEW s \in Servers, MonStopped(s)
      PROVE  TypeOK'
  <2>1. Ranges'
    BY <1>11 DEF MonStopped, Launch, Ranges
  <2>2. Booleans'
    BY <1>11 DEF MonStopped, Launch, Booleans
  <2>3. Callers'
    BY <1>11 DEF MonStopped, Launch, Callers
  <2>4. QED
    BY <2>1, <2>2, <2>3, Whole
<1>12. ASSUME NEW s \in Servers, ServerRuns(s)
      PROVE  TypeOK'
  BY <1>12 DEF ServerRuns
<1>13. ASSUME NEW s \in Servers, InfoDone(s)
      PROVE  TypeOK'
  BY <1>13 DEF InfoDone
<1>14. ASSUME NEW s \in Servers, Info(s)
      PROVE  TypeOK'
  BY <1>14 DEF Info
<1>15. ASSUME NEW r \in Reporters, ReporterRuns(r)
      PROVE  TypeOK'
  BY <1>15 DEF ReporterRuns
<1>16. ASSUME NEW r \in Reporters, Published(r)
      PROVE  TypeOK'
  BY <1>16 DEF Published
<1>17. ASSUME NEW r \in Reporters, Publish(r)
      PROVE  TypeOK'
  BY <1>17 DEF Publish
<1>18. ASSUME NEW r \in Reporters, ReporterStops(r)
      PROVE  TypeOK'
  <2>1. Ranges'
    BY <1>18 DEF ReporterStops, Ranges
  <2>2. Booleans'
    BY <1>18 DEF ReporterStops, Booleans
  <2>3. Callers'
    BY <1>18 DEF ReporterStops, Callers
  <2>4. QED
    BY <2>1, <2>2, <2>3, Whole
<1>19. ASSUME StopReporter
      PROVE  TypeOK'
  BY <1>19 DEF StopReporter, TokensAfterStop
<1>20. ASSUME NEW p \in Pingers, Ping(p)
      PROVE  TypeOK'
  BY <1>20 DEF Ping
<1>21. ASSUME NEW p \in Pingers, PingDone(p)
      PROVE  TypeOK'
  BY <1>21 DEF PingDone
<1>22. ASSUME Signal
      PROVE  TypeOK'
  BY <1>22 DEF Signal, Shutdown
<1>23. ASSUME DownStop
      PROVE  TypeOK'
  BY <1>23 DEF DownStop, Shutdown
<1>24. ASSUME RemoveInfo
      PROVE  TypeOK'
  <2>1. /\ UNCHANGED <<failures, closed, chan, mon, srv, rep, pings, srvRunning,
                       repRunning, repStops, tokens, proc, link, outages, calls,
                       written, first, handled, inOrder>>
        /\ down = "retrying?"
        /\ \/ down' = "close" /\ call' = call
           \/ down' = "removing" /\ call' = [call EXCEPT !["shutdown"] = "allow"]
    BY <1>24 DEF RemoveInfo, Shutdown
  <2>2. Booleans'
    BY <2>1 DEF Booleans
  <2>3. CASE down' = "close" /\ call' = call
    BY <2>1, <2>3
  <2>4. CASE down' = "removing" /\ call' = [call EXCEPT !["shutdown"] = "allow"]
    <3>1. Ranges'
      BY <2>1, <2>4 DEF Ranges
    <3>2. Callers'
      BY <2>1, <2>4 DEF Callers
    <3>3. QED
      BY <2>2, <3>1, <3>2, Whole
  <2>5. QED
    BY <2>1, <2>3, <2>4
<1>25. ASSUME InfoRemoved
      PROVE  TypeOK'
  BY <1>25 DEF InfoRemoved, Shutdown
<1>26. ASSUME CloseLimiter
      PROVE  TypeOK'
  BY <1>26 DEF CloseLimiter, Shutdown
<1>27. ASSUME CloseChannel
      PROVE  TypeOK'
  BY <1>27 DEF CloseChannel, Shutdown
<1>28. ASSUME DownStopReporter
      PROVE  TypeOK'
  BY <1>28 DEF DownStopReporter, Shutdown, TokensAfterStop
<1>29. ASSUME Exit
      PROVE  TypeOK'
  BY <1>29 DEF Exit, Shutdown
<1>30. ASSUME NEW s \in Servers, DownStopped(s)
      PROVE  TypeOK'
  <2>1. Ranges'
    BY <1>30 DEF DownStopped, Shutdown, Ranges
  <2>2. Booleans'
    BY <1>30 DEF DownStopped, Shutdown, Booleans
  <2>3. Callers'
    BY <1>30 DEF DownStopped, Shutdown, Callers
  <2>4. QED
    BY <2>1, <2>2, <2>3, Whole
<1>31. ASSUME SendStopped
      PROVE  TypeOK'
  BY <1>31 DEF SendStopped, Shutdown
<1>32. ASSUME LinkDown \/ LinkUp
      PROVE  TypeOK'
  BY <1>32 DEF LinkDown, LinkUp
<1>33. ASSUME UNCHANGED vars
      PROVE  TypeOK'
  BY <1>33 DEF vars
<1>34. ASSUME NEW s \in Servers, ServerLeaves(s)
      PROVE  TypeOK'
  <2>1. Ranges'
    BY <1>34 DEF ServerLeaves, Ranges
  <2>2. Booleans'
    BY <1>34 DEF ServerLeaves, Booleans
  <2>3. Callers'
    BY <1>34 DEF ServerLeaves, Callers
  <2>4. QED
    BY <2>1, <2>2, <2>3, Whole
<1>35. ASSUME NEW r \in Reporters, ReporterLeaves(r)
      PROVE  TypeOK'
  <2>1. Ranges'
    BY <1>35 DEF ReporterLeaves, Ranges
  <2>2. Booleans'
    BY <1>35 DEF ReporterLeaves, Booleans
  <2>3. Callers'
    BY <1>35 DEF ReporterLeaves, Callers
  <2>4. QED
    BY <2>1, <2>2, <2>3, Whole
<1>36. QED
  BY <1>1, <1>2, <1>3, <1>4, <1>5, <1>6, <1>7, <1>8, <1>9, <1>10, <1>11, <1>12,
     <1>13, <1>14, <1>15, <1>16, <1>17, <1>18, <1>19, <1>20, <1>21, <1>22, <1>23,
     <1>24, <1>25, <1>26, <1>27, <1>28, <1>29, <1>30, <1>31, <1>32, <1>33, <1>34, <1>35
     DEF Next, Call, Report, Server, Reporter, DownStep

\* A server that ends does so for the monitor in Failed, or for the shutdown.
LEMMA ServeStep == TypeOK /\ ServeInv /\ [Next]_vars => ServeInv'
<1> SUFFICES ASSUME TypeOK, ServeInv, [Next]_vars
             PROVE  ServeInv'
  OBVIOUS
<1> USE TelemdAssumption DEF limiter, flags, world, history, Goto, Sends, Results,
       Alive, Staying, TypeOK, ServeInv, Goroutines
<1>1. ASSUME NEW g \in Goroutines, Allow(g)
      PROVE  ServeInv'
  BY <1>1 DEF Allow
<1>2. ASSUME NEW g \in Goroutines, Succeed(g)
      PROVE  ServeInv'
  BY <1>2 DEF Succeed, OnSuccess, InfoAfter
<1>3. ASSUME NEW g \in Goroutines, Fail(g)
      PROVE  ServeInv'
  BY <1>3 DEF Fail, AfterError
<1>4. ASSUME NEW g \in Goroutines, Panic(g)
      PROVE  ServeInv'
  BY <1>4 DEF Panic
<1>5. ASSUME NEW g \in Goroutines, OnConnected(g)
      PROVE  ServeInv'
  BY <1>5 DEF OnConnected, Receive, Resume, AfterError, Start, Free
<1>6. ASSUME NEW g \in Goroutines, OnFailed(g)
      PROVE  ServeInv'
  BY <1>6 DEF OnFailed, Receive, Resume, AfterError
<1>7. ASSUME NEW g \in Goroutines, OnRecovered(g)
      PROVE  ServeInv'
  BY <1>7 DEF OnRecovered, Receive, Resume, AfterError, Start, Free
<1>8. ASSUME Bound \/ Updated \/ MonStop
      PROVE  ServeInv'
  BY <1>8 DEF Bound, Updated, MonStop, Launch
<1>9. ASSUME NEW s \in Servers, MonStopped(s)
      PROVE  ServeInv'
  BY <1>9 DEF MonStopped, Launch
<1>10. ASSUME NEW s \in Servers, ServerRuns(s) \/ ServerLeaves(s) \/ Info(s) \/ InfoDone(s)
      PROVE  ServeInv'
  BY <1>10 DEF ServerRuns, ServerLeaves, Info, InfoDone
<1>11. ASSUME NEW r \in Reporters, ReporterRuns(r) \/ Publish(r)
      PROVE  ServeInv'
  BY <1>11 DEF ReporterRuns, Publish
<1>12. ASSUME NEW r \in Reporters, Published(r) \/ ReporterStops(r) \/ ReporterLeaves(r)
      PROVE  ServeInv'
  BY <1>12 DEF Published, ReporterStops, ReporterLeaves
<1>13. ASSUME StopReporter
      PROVE  ServeInv'
  BY <1>13 DEF StopReporter, TokensAfterStop
<1>14. ASSUME NEW p \in Pingers, Ping(p) \/ PingDone(p)
      PROVE  ServeInv'
  BY <1>14 DEF Ping, PingDone
<1>15. ASSUME Signal \/ DownStop
      PROVE  ServeInv'
  BY <1>15 DEF Signal, DownStop, Shutdown
<1>16. ASSUME NEW s \in Servers, DownStopped(s)
      PROVE  ServeInv'
  BY <1>16 DEF DownStopped, Shutdown
<1>17. ASSUME RemoveInfo \/ InfoRemoved
      PROVE  ServeInv'
  BY <1>17 DEF RemoveInfo, InfoRemoved, Shutdown
<1>18. ASSUME SendStopped \/ CloseLimiter \/ CloseChannel
      PROVE  ServeInv'
  BY <1>18 DEF SendStopped, CloseLimiter, CloseChannel, Shutdown
<1>19. ASSUME DownStopReporter \/ Exit
      PROVE  ServeInv'
  BY <1>19 DEF DownStopReporter, Exit, Shutdown, TokensAfterStop
<1>20. ASSUME LinkDown \/ LinkUp
      PROVE  ServeInv'
  BY <1>20 DEF LinkDown, LinkUp
<1>21. ASSUME UNCHANGED vars
      PROVE  ServeInv'
  BY <1>21 DEF vars
<1>22. QED
  BY <1>1, <1>2, <1>3, <1>4, <1>5, <1>6, <1>7, <1>8, <1>9, <1>10, <1>11, <1>12,
     <1>13, <1>14, <1>15, <1>16, <1>17, <1>18, <1>19, <1>20, <1>21 DEF Next, Call,
     Report, Server, Reporter, DownStep

\* Calls are refused only after the limiter has been closed.
LEMMA RefuseStep == TypeOK /\ RefuseInv /\ [Next]_vars => RefuseInv'
<1> SUFFICES ASSUME TypeOK, RefuseInv, [Next]_vars
             PROVE  RefuseInv'
  OBVIOUS
<1> USE TelemdAssumption DEF limiter, flags, world, history, Goto, Sends, Results,
       Alive, TypeOK, RefuseInv, Goroutines
<1>1. ASSUME NEW g \in Goroutines, Allow(g)
      PROVE  RefuseInv'
  BY <1>1 DEF Allow
<1>2. ASSUME NEW g \in Goroutines, Succeed(g)
      PROVE  RefuseInv'
  BY <1>2 DEF Succeed, OnSuccess, InfoAfter
<1>3. ASSUME NEW g \in Goroutines, Fail(g)
      PROVE  RefuseInv'
  BY <1>3 DEF Fail, AfterError
<1>4. ASSUME NEW g \in Goroutines, Panic(g)
      PROVE  RefuseInv'
  BY <1>4 DEF Panic
<1>5. ASSUME NEW g \in Goroutines, OnConnected(g)
      PROVE  RefuseInv'
  BY <1>5 DEF OnConnected, Receive, Resume, AfterError, Start, Free
<1>6. ASSUME NEW g \in Goroutines, OnFailed(g)
      PROVE  RefuseInv'
  BY <1>6 DEF OnFailed, Receive, Resume, AfterError
<1>7. ASSUME NEW g \in Goroutines, OnRecovered(g)
      PROVE  RefuseInv'
  BY <1>7 DEF OnRecovered, Receive, Resume, AfterError, Start, Free
<1>8. ASSUME Bound
      PROVE  RefuseInv'
  BY <1>8 DEF Bound
<1>9. ASSUME Updated
      PROVE  RefuseInv'
  BY <1>9 DEF Updated
<1>10. ASSUME MonStop
      PROVE  RefuseInv'
  BY <1>10 DEF MonStop, Launch
<1>11. ASSUME NEW s \in Servers, MonStopped(s)
      PROVE  RefuseInv'
  BY <1>11 DEF MonStopped, Launch
<1>12. ASSUME NEW s \in Servers, ServerRuns(s)
      PROVE  RefuseInv'
  BY <1>12 DEF ServerRuns
<1>13. ASSUME NEW s \in Servers, InfoDone(s)
      PROVE  RefuseInv'
  BY <1>13 DEF InfoDone
<1>14. ASSUME NEW s \in Servers, Info(s)
      PROVE  RefuseInv'
  BY <1>14 DEF Info
<1>15. ASSUME NEW r \in Reporters, ReporterRuns(r)
      PROVE  RefuseInv'
  BY <1>15 DEF ReporterRuns
<1>16. ASSUME NEW r \in Reporters, Published(r)
      PROVE  RefuseInv'
  BY <1>16 DEF Published
<1>17. ASSUME NEW r \in Reporters, Publish(r)
      PROVE  RefuseInv'
  BY <1>17 DEF Publish
<1>18. ASSUME NEW r \in Reporters, ReporterStops(r)
      PROVE  RefuseInv'
  BY <1>18 DEF ReporterStops
<1>19. ASSUME StopReporter
      PROVE  RefuseInv'
  BY <1>19 DEF StopReporter, TokensAfterStop
<1>20. ASSUME NEW p \in Pingers, Ping(p)
      PROVE  RefuseInv'
  BY <1>20 DEF Ping
<1>21. ASSUME NEW p \in Pingers, PingDone(p)
      PROVE  RefuseInv'
  BY <1>21 DEF PingDone
<1>22. ASSUME Signal
      PROVE  RefuseInv'
  BY <1>22 DEF Signal, Shutdown
<1>23. ASSUME DownStop
      PROVE  RefuseInv'
  BY <1>23 DEF DownStop, Shutdown
<1>24. ASSUME RemoveInfo
      PROVE  RefuseInv'
  <2>1. /\ UNCHANGED closed /\ down = "retrying?" /\ down' \in {"close", "removing"}
        /\ call' = call \/ call' = [call EXCEPT !["shutdown"] = "allow"]
    BY <1>24 DEF RemoveInfo, Shutdown
  <2>2. QED
    BY <2>1
<1>25. ASSUME InfoRemoved
      PROVE  RefuseInv'
  BY <1>25 DEF InfoRemoved, Shutdown
<1>26. ASSUME CloseLimiter
      PROVE  RefuseInv'
  BY <1>26 DEF CloseLimiter, Shutdown
<1>27. ASSUME CloseChannel
      PROVE  RefuseInv'
  BY <1>27 DEF CloseChannel, Shutdown
<1>28. ASSUME DownStopReporter
      PROVE  RefuseInv'
  BY <1>28 DEF DownStopReporter, Shutdown, TokensAfterStop
<1>29. ASSUME Exit
      PROVE  RefuseInv'
  BY <1>29 DEF Exit, Shutdown
<1>30. ASSUME NEW s \in Servers, DownStopped(s)
      PROVE  RefuseInv'
  BY <1>30 DEF DownStopped, Shutdown
<1>31. ASSUME SendStopped
      PROVE  RefuseInv'
  BY <1>31 DEF SendStopped, Shutdown
<1>32. ASSUME LinkDown \/ LinkUp
      PROVE  RefuseInv'
  BY <1>32 DEF LinkDown, LinkUp
<1>33. ASSUME UNCHANGED vars
      PROVE  RefuseInv'
  BY <1>33 DEF vars
<1>34. ASSUME NEW s \in Servers, ServerLeaves(s)
      PROVE  RefuseInv'
  BY <1>34 DEF ServerLeaves
<1>35. ASSUME NEW r \in Reporters, ReporterLeaves(r)
      PROVE  RefuseInv'
  BY <1>35 DEF ReporterLeaves
<1>36. QED
  BY <1>1, <1>2, <1>3, <1>4, <1>5, <1>6, <1>7, <1>8, <1>9, <1>10, <1>11, <1>12,
     <1>13, <1>14, <1>15, <1>16, <1>17, <1>18, <1>19, <1>20, <1>21, <1>22, <1>23,
     <1>24, <1>25, <1>26, <1>27, <1>28, <1>29, <1>30, <1>31, <1>32, <1>33, <1>34, <1>35
     DEF Next, Call, Report, Server, Reporter, DownStep

\* Until the shutdown, nobody undoes what the monitor has written.
LEMMA InfoStep == TypeOK /\ RefuseInv /\ InfoInv /\ [Next]_vars => InfoInv'
<1> SUFFICES ASSUME TypeOK, RefuseInv, InfoInv, [Next]_vars
             PROVE  InfoInv'
  OBVIOUS
<1> USE TelemdAssumption DEF limiter, flags, world, history, Goto, Sends, Results,
       Alive, TypeOK, RefuseInv, InfoInv, Goroutines
<1>1. ASSUME NEW g \in Goroutines, Allow(g)
      PROVE  InfoInv'
  BY <1>1 DEF Allow
<1>2. ASSUME NEW g \in Goroutines, Succeed(g)
      PROVE  InfoInv'
  BY <1>2 DEF Succeed, OnSuccess, InfoAfter
<1>3. ASSUME NEW g \in Goroutines, Fail(g)
      PROVE  InfoInv'
  BY <1>3 DEF Fail, AfterError
<1>4. ASSUME NEW g \in Goroutines, Panic(g)
      PROVE  InfoInv'
  BY <1>4 DEF Panic
<1>5. ASSUME NEW g \in Goroutines, OnConnected(g)
      PROVE  InfoInv'
  BY <1>5 DEF OnConnected, Receive, Resume, AfterError, Start, Free
<1>6. ASSUME NEW g \in Goroutines, OnFailed(g)
      PROVE  InfoInv'
  BY <1>6 DEF OnFailed, Receive, Resume, AfterError
<1>7. ASSUME NEW g \in Goroutines, OnRecovered(g)
      PROVE  InfoInv'
  BY <1>7 DEF OnRecovered, Receive, Resume, AfterError, Start, Free
<1>8. ASSUME Bound \/ Updated \/ MonStop
      PROVE  InfoInv'
  BY <1>8 DEF Bound, Updated, MonStop, Launch
<1>9. ASSUME NEW s \in Servers, MonStopped(s)
      PROVE  InfoInv'
  BY <1>9 DEF MonStopped, Launch
<1>10. ASSUME NEW s \in Servers, ServerRuns(s) \/ ServerLeaves(s) \/ Info(s) \/ InfoDone(s)
      PROVE  InfoInv'
  BY <1>10 DEF ServerRuns, ServerLeaves, Info, InfoDone
<1>11. ASSUME NEW r \in Reporters, ReporterRuns(r) \/ Publish(r)
      PROVE  InfoInv'
  BY <1>11 DEF ReporterRuns, Publish
<1>12. ASSUME NEW r \in Reporters, Published(r) \/ ReporterStops(r) \/ ReporterLeaves(r)
      PROVE  InfoInv'
  BY <1>12 DEF Published, ReporterStops, ReporterLeaves
<1>13. ASSUME StopReporter
      PROVE  InfoInv'
  BY <1>13 DEF StopReporter, TokensAfterStop
<1>14. ASSUME NEW p \in Pingers, Ping(p) \/ PingDone(p)
      PROVE  InfoInv'
  BY <1>14 DEF Ping, PingDone
<1>15. ASSUME Signal \/ DownStop
      PROVE  InfoInv'
  BY <1>15 DEF Signal, DownStop, Shutdown
<1>16. ASSUME NEW s \in Servers, DownStopped(s)
      PROVE  InfoInv'
  BY <1>16 DEF DownStopped, Shutdown
<1>17. ASSUME RemoveInfo \/ InfoRemoved
      PROVE  InfoInv'
  BY <1>17 DEF RemoveInfo, InfoRemoved, Shutdown
<1>18. ASSUME SendStopped \/ CloseLimiter \/ CloseChannel
      PROVE  InfoInv'
  BY <1>18 DEF SendStopped, CloseLimiter, CloseChannel, Shutdown
<1>19. ASSUME DownStopReporter \/ Exit
      PROVE  InfoInv'
  BY <1>19 DEF DownStopReporter, Exit, Shutdown, TokensAfterStop
<1>20. ASSUME LinkDown \/ LinkUp
      PROVE  InfoInv'
  BY <1>20 DEF LinkDown, LinkUp
<1>21. ASSUME UNCHANGED vars
      PROVE  InfoInv'
  BY <1>21 DEF vars
<1>22. QED
  BY <1>1, <1>2, <1>3, <1>4, <1>5, <1>6, <1>7, <1>8, <1>9, <1>10, <1>11, <1>12,
     <1>13, <1>14, <1>15, <1>16, <1>17, <1>18, <1>19, <1>20, <1>21 DEF Next, Call,
     Report, Server, Reporter, DownStep

\* How a start and an end change the number of reporters.
LEMMA StartsAndEnds ==
  ASSUME TypeOK
  PROVE  /\ Cardinality(Reporting) \in Nat /\ Owed \in Nat
         /\ \A r \in Reporters :
              rep[r] = "none" /\ rep' = [rep EXCEPT ![r] = "starting"] =>
                Cardinality(Reporting') = Cardinality(Reporting) + 1
         /\ \A r \in Reporters :
              Staying(rep[r]) /\ rep' = [rep EXCEPT ![r] = "leaving"] =>
                Cardinality(Reporting') = Cardinality(Reporting) - 1
<1>1. IsFiniteSet(Reporting)
  BY TelemdAssumption, FS_Subset DEF Reporting
<1>2. rep \in [Reporters -> {"none", "starting", "waiting", "publishing", "leaving"}]
  BY DEF TypeOK
<1>3. ASSUME NEW r \in Reporters, rep[r] = "none", rep' = [rep EXCEPT ![r] = "starting"]
      PROVE  Cardinality(Reporting') = Cardinality(Reporting) + 1
  <2>1. Reporting' = Reporting \cup {r} /\ r \notin Reporting
    BY <1>2, <1>3 DEF Reporting, Staying
  <2>2. QED
    BY <1>1, <2>1, FS_AddElement
<1>4. ASSUME NEW r \in Reporters, Staying(rep[r]), rep' = [rep EXCEPT ![r] = "leaving"]
      PROVE  Cardinality(Reporting') = Cardinality(Reporting) - 1
  <2>1. Reporting' = Reporting \ {r} /\ r \in Reporting
    BY <1>2, <1>4 DEF Reporting, Staying
  <2>2. QED
    BY <1>1, <2>1, FS_RemoveElement
<1>5. Cardinality(Reporting) \in Nat
  BY <1>1, FS_CardinalityType
<1>6. Owed \in Nat
  BY DEF TypeOK, Owed
<1>7. QED
  BY <1>3, <1>4, <1>5, <1>6

\* A sum of three numbers is a number.
LEMMA Sums == \A a, b, n \in Nat : a + b + n \in Nat
OBVIOUS

\* Every Run of a reporter balances one Stop.
LEMMA CountStep ==
  TypeOK /\ RefuseInv /\ CountInv /\ TypeOK' /\ [Next]_vars => CountInv'
<1> SUFFICES ASSUME TypeOK, RefuseInv, CountInv, TypeOK', [Next]_vars
             PROVE  CountInv'
  OBVIOUS
<1>1. Cardinality(Reporting) \in Nat /\ Owed \in Nat /\ Owed' \in Nat
  <2>1. tokens' \in Nat /\ repStops' \in Nat
    BY DEF TypeOK
  <2>2. \A n \in Nat : tokens' + repStops' + n \in Nat
    BY <2>1, Sums
  <2>3. Owed' \in Nat
    BY <2>2 DEF Owed
  <2>4. QED
    BY <2>3, StartsAndEnds
\* Most steps start no reporter, end none and owe no further Stop.
<1>2. ASSUME Reporting' = Reporting, Owed' <= Owed, UNCHANGED history,
             proc' = "running" /\ down' = "up" => proc = "running" /\ down = "up"
      PROVE  CountInv'
  BY <1>1, <1>2 DEF CountInv, history, Alive
<1> DEFINE Same == UNCHANGED <<rep, repStops, tokens, mon, first, handled, inOrder>>
<1>3. ASSUME Same, proc' = "running" /\ down' = "up" => proc = "running" /\ down = "up"
      PROVE  CountInv'
  BY <1>1, <1>2, <1>3 DEF Reporting, Owed, history
<1>4. CASE \E g \in Goroutines : Call(g)
  BY <1>3, <1>4 DEF Call, Allow, Succeed, Fail, Panic, flags, history, Alive
<1>5. CASE \/ \E s \in Servers : Server(s) \/ Info(s)
           \/ \E p \in Pingers : Ping(p) \/ PingDone(p)
  BY <1>3, <1>5 DEF Server, ServerRuns, ServerLeaves, InfoDone, Info, Ping, PingDone, flags, history
<1>6. CASE Signal \/ DownStep \/ SendStopped \/ \E s \in Servers : DownStopped(s)
  <2>1. down' # "up"
    BY <1>6 DEF Signal, DownStep, DownStop, RemoveInfo, InfoRemoved, CloseLimiter,
                CloseChannel, DownStopReporter, Exit, SendStopped, DownStopped, Shutdown
  <2>2. QED
    BY <2>1 DEF CountInv
<1>7. CASE Bound \/ LinkDown \/ LinkUp \/ UNCHANGED vars
  BY <1>3, <1>7 DEF Bound, LinkDown, LinkUp, vars, flags, history, Alive
<1>8. ASSUME Updated
      PROVE  CountInv'
  <2>1. /\ mon = "updating" /\ mon' = "ready" /\ Alive /\ down' = down
        /\ UNCHANGED <<rep, repStops, tokens, first, handled, inOrder>>
    BY <1>8 DEF Updated, flags, history
  <2>2. Reporting' = Reporting /\ Owed' = Owed
    BY <2>1 DEF Reporting, Owed
  <2>3. QED
    BY <1>1, <1>2, <2>1, <2>2 DEF history, Alive
<1>9. CASE MonStop \/ \E s \in Servers : MonStopped(s)
  <2>1. /\ Alive /\ UNCHANGED <<rep, tokens, first, handled, inOrder, proc, down>>
        /\ mon \in {"stop?", "stopping"}
        /\ \/ mon' \in {"stop?", "stopping"} /\ repStops' = repStops
           \/ mon' = "ready" /\ repStops' = repStops + 1
    BY <1>9 DEF MonStop, MonStopped, Launch, history
  <2>2. Reporting' = Reporting /\ Owed' = Owed
    <3>1. tokens \in Nat /\ repStops \in Nat
      BY DEF TypeOK
    <3>2. QED
      BY <2>1, <3>1 DEF Reporting, Owed
  <2>3. QED
    BY <1>1, <1>2, <2>1, <2>2 DEF history
<1>10. CASE StopReporter
  <2>1. /\ UNCHANGED <<rep, mon, first, handled, inOrder, proc, down>>
        /\ repStops' = repStops - 1 /\ tokens' \in {tokens, tokens + 1}
    BY <1>10 DEF StopReporter, TokensAfterStop, history
  <2>2. Owed' <= Owed
    <3>1. CASE tokens' = tokens
      BY <2>1, <3>1 DEF Owed, TypeOK
    <3>2. CASE tokens' = tokens + 1
      BY <2>1, <3>2 DEF Owed, TypeOK
    <3>3. QED
      BY <2>1, <3>1, <3>2
  <2>3. QED
    BY <1>2, <2>1, <2>2 DEF Reporting, history
<1>11. CASE \E r \in Reporters : ReporterRuns(r) \/ Publish(r) \/ ReporterLeaves(r)
  <2>1. /\ UNCHANGED <<mon, repStops, tokens, first, handled, inOrder, proc, down>>
        /\ \E r \in Reporters :
             \/ /\ rep[r] \in {"starting", "waiting"}
                /\ \/ rep' = [rep EXCEPT ![r] = "waiting"]
                   \/ rep' = [rep EXCEPT ![r] = "publishing"]
             \/ rep[r] = "leaving" /\ rep' = [rep EXCEPT ![r] = "none"]
    BY <1>11 DEF ReporterRuns, Publish, ReporterLeaves, flags, history
  <2>2. Reporting' = Reporting /\ Owed' = Owed
    BY <2>1 DEF Reporting, Staying, Owed, TypeOK
  <2>3. QED
    BY <1>1, <1>2, <2>1, <2>2 DEF history
<1>12. ASSUME NEW r \in Reporters, Published(r), down = "up"
       PROVE  CountInv'
  <2>1. r \in Goroutines /\ call[r] = "ok"
    BY <1>12 DEF Published, RefuseInv, Results, Goroutines
  <2>2. /\ UNCHANGED <<mon, repStops, tokens, first, handled, inOrder, proc, down>>
        /\ rep[r] = "publishing" /\ rep' = [rep EXCEPT ![r] = "waiting"]
    BY <1>12, <2>1 DEF Published, history
  <2>3. Reporting' = Reporting /\ Owed' = Owed
    BY <2>2 DEF Reporting, Staying, Owed, TypeOK
  <2>4. QED
    BY <1>1, <1>2, <2>2, <2>3 DEF history
<1>13. ASSUME NEW r \in Reporters, Published(r), down # "up"
       PROVE  CountInv'
  BY <1>13 DEF Published, CountInv
<1>14. ASSUME NEW r \in Reporters, ReporterStops(r)
       PROVE  CountInv'
  <2>1. /\ UNCHANGED <<mon, repStops, first, handled, inOrder, proc, down>>
        /\ Staying(rep[r]) /\ rep' = [rep EXCEPT ![r] = "leaving"]
        /\ tokens > 0 /\ tokens' = tokens - 1
    BY <1>14 DEF ReporterStops, Staying, history
  <2>2. Owed' = Owed - 1 /\ Owed > 0
    BY <2>1 DEF Owed, TypeOK
  <2>3. Cardinality(Reporting') = Cardinality(Reporting) - 1
    BY <2>1, StartsAndEnds
  <2>4. QED
    BY <1>1, <2>1, <2>2, <2>3 DEF CountInv, Alive
<1>15. ASSUME NEW g \in Goroutines, OnFailed(g)
       PROVE  CountInv'
  <2>1. /\ UNCHANGED <<rep, repStops, tokens, proc, down>>
        /\ mon = "ready" /\ mon' = "stop?" /\ handled' = "Failed"
        /\ first' = (IF first = "none" THEN "Failed" ELSE first)
        /\ inOrder' => inOrder /\ handled # "Failed"
    BY <1>15 DEF OnFailed, Receive, flags, Expected
  <2>2. Owed' = Owed + 1 /\ Reporting' = Reporting
    BY <2>1 DEF Owed, Reporting, TypeOK
  <2>3. QED
    BY <1>1, <2>1, <2>2 DEF CountInv, Alive, Sends
<1>16. ASSUME NEW g \in Goroutines, OnConnected(g) \/ OnRecovered(g)
       PROVE  CountInv'
  <2>1. /\ UNCHANGED <<repStops, tokens, proc, down>>
        /\ mon = "ready" /\ mon' \in {"ready", "updating"}
        /\ \/ /\ handled' = "Connected"
              /\ first' = (IF first = "none" THEN "Connected" ELSE first)
              /\ inOrder' => inOrder /\ handled = "none"
           \/ /\ handled' = "Recovered"
              /\ first' = (IF first = "none" THEN "Recovered" ELSE first)
              /\ inOrder' => inOrder /\ handled = "Failed"
    BY <1>16 DEF OnConnected, OnRecovered, Receive, flags, Expected
  <2>2. Owed' = Owed
    BY <2>1 DEF Owed
  <2>3. PICK r \in Reporters : rep[r] = "none" /\ rep' = [rep EXCEPT ![r] = "starting"]
    BY <1>16 DEF OnConnected, OnRecovered, Start, Free, TypeOK
  <2>4. Cardinality(Reporting') = Cardinality(Reporting) + 1
    BY <2>3, StartsAndEnds
  <2>5. QED
    BY <1>1, <2>1, <2>2, <2>4 DEF CountInv, Alive, Sends
<1>17. QED
  BY <1>4, <1>5, <1>6, <1>7, <1>8, <1>9, <1>10, <1>11, <1>12, <1>13, <1>14, <1>15,
     <1>16 DEF Next, Report, Reporter

\* The invariant holds when main has launched its goroutines.
LEMMA InitIInv == Init => IInv
<1> SUFFICES ASSUME Init
             PROVE  IInv
  OBVIOUS
<1>1. Ranges
  BY TelemdAssumption DEF Init, Ranges
<1>2. Booleans
  BY DEF Init, Booleans
<1>3. Callers
  BY DEF Init, Callers, Goroutines
<1>4. ServeInv
  BY DEF Init, ServeInv
<1>5. RefuseInv
  BY DEF Init, RefuseInv, Goroutines
<1>6. InfoInv
  BY DEF Init, InfoInv, Goroutines
<1>7. CountInv
  BY DEF Init, CountInv, Owed
<1>8. QED
  BY <1>1, <1>2, <1>3, <1>4, <1>5, <1>6, <1>7, Parts DEF IInv

\* The invariant holds throughout.
LEMMA Inductive == Spec => []IInv
<1>1. IInv /\ [Next]_vars => IInv'
  BY TypeStep, ServeStep, RefuseStep, InfoStep, CountStep DEF IInv
<1>2. QED
  BY <1>1, InitIInv, PTL DEF Spec

-----------------------------------------------------------------------------
(* The limiter of Telemd implements CoarseLimiter, as Limiter does until two *)
(* of its callers work on the count at once.                                 *)

\* Allow that refuses, the end of a call and whatever happens outside of calls
\* are not the limiter's business.
Place(g) == IF call[g] \in {"attempt"} \cup Sends THEN call[g] ELSE "out"

Coarse == INSTANCE CoarseLimiter
  WITH Goroutines <- Goroutines, Cap <- 2, count <- failures,
       where <- [g \in Goroutines |-> Place(g)], crashed <- (proc = "panic")

\* A call that enters, is refused or returns stays out of the limiter.
LEMMA Outside ==
  ASSUME TypeOK, NEW g \in Goroutines, NEW label, label \notin {"attempt"} \cup Sends,
         call[g] \notin {"attempt"} \cup Sends, call' = [call EXCEPT ![g] = label]
  PROVE  \A h \in Goroutines : Place(h)' = Place(h)
<1> TAKE h \in Goroutines
<1>1. CASE h = g
  BY <1>1 DEF Place, TypeOK
<1>2. CASE h # g
  BY <1>2 DEF Place, TypeOK
<1> QED
  BY <1>1, <1>2

\* A step of one call moves nobody else.
LEMMA OneMoves ==
  ASSUME TypeOK, NEW g \in Goroutines, NEW label, call' = [call EXCEPT ![g] = label]
  PROVE  /\ Place(g)' = IF label \in {"attempt"} \cup Sends THEN label ELSE "out"
         /\ \A h \in Goroutines \ {g} : Place(h)' = Place(h)
BY DEF Place, TypeOK

\* ReportResult goes on as Deliver says, also where the monitor enters a call
\* of its own in the same step.
LEMMA ResumeDelivers ==
  ASSUME TypeOK, NEW g \in Goroutines, NEW others, Alive, chan = "open",
         call[g] \in Sends, Resume(g, others),
         \/ others = call
         \/ others = [call EXCEPT !["monitor"] = "allow"] /\ call["monitor"] = "none",
         UNCHANGED <<closed, chan, proc>>
  PROVE  Coarse!Next
<1> USE DEF TypeOK
<1>1. Place(g) = call[g] /\ ~(proc = "panic") /\ ~(proc = "panic")'
  BY DEF Place, Alive
<1>2. ASSUME NEW label, call' = [others EXCEPT ![g] = label]
      PROVE  /\ Place(g)' = IF label \in {"attempt"} \cup Sends THEN label ELSE "out"
             /\ \A h \in Goroutines \ {g} : Place(h)' = Place(h)
  <2>1. CASE others = call
    BY <1>2, <2>1, OneMoves
  <2>2. CASE others = [call EXCEPT !["monitor"] = "allow"] /\ call["monitor"] = "none"
    <3>1. g # "monitor" /\ "monitor" \in Goroutines
      BY <2>2 DEF Sends, Goroutines
    <3>2. call'[g] = label /\ call'["monitor"] = "allow"
      BY <1>2, <2>2, <3>1
    <3>3. \A h \in Goroutines \ {g, "monitor"} : call'[h] = call[h]
      BY <1>2, <2>2
    <3> QED
      BY <2>2, <3>1, <3>2, <3>3 DEF Place, Sends
  <2> QED
    BY <2>1, <2>2
<1>3. ASSUME NEW place, Place(g)' = place,
             \A h \in Goroutines \ {g} : Place(h)' = Place(h)
      PROVE  Coarse!Goto(g, place)
  BY <1>3 DEF Coarse!Goto
<1>4. Coarse!Deliver(g)
  <2>1. CASE call[g] = "Connected"
    <3>1. /\ call' = [others EXCEPT ![g] = IF failures > 0 THEN "Recovered" ELSE "ok"]
          /\ failures' = IF failures > 0 THEN failures ELSE 0
      BY <2>1 DEF Resume
    <3>2. CASE failures > 0
      BY <1>1, <1>2, <1>3, <2>1, <3>1, <3>2
      DEF Coarse!Deliver, Coarse!Recover, Coarse!Sends, Sends
    <3>3. CASE ~(failures > 0)
      <4>1. call' = [others EXCEPT ![g] = "ok"] /\ failures' = 0
        BY <3>1, <3>3
      <4>2. Place(g)' = "out" /\ \A h \in Goroutines \ {g} : Place(h)' = Place(h)
        <5>1. "ok" \notin {"attempt"} \cup Sends
          BY DEF Sends
        <5> QED
          BY <1>2, <4>1, <5>1
      <4>3. Coarse!Goto(g, "out")
        BY <1>3, <4>2
      <4> QED
        BY <1>1, <2>1, <3>3, <4>1, <4>3
        DEF Coarse!Deliver, Coarse!Recover, Coarse!Sends
    <3> QED
      BY <3>2, <3>3
  <2>2. CASE call[g] = "Recovered"
    BY <1>1, <1>2, <1>3, <2>2 DEF Resume, Coarse!Deliver, Coarse!Sends, Sends
  <2>3. CASE call[g] = "Failed"
    BY <1>1, <1>2, <1>3, <2>3
    DEF Resume, AfterError, Coarse!Deliver, Coarse!Sends, Sends
  <2> QED
    BY <2>1, <2>2, <2>3 DEF Sends
<1> QED
  BY <1>1, <1>4 DEF Coarse!Next

\* Every step of the daemon is one of CoarseLimiter, or none of its business.
LEMMA CoarseStep ==
  TypeOK /\ RefuseInv /\ [Next]_vars =>
    \/ Coarse!Next
    \/ UNCHANGED <<failures, closed, chan, [g \in Goroutines |-> Place(g)], proc = "panic">>
<1> DEFINE W == [g \in Goroutines |-> Place(g)]
           Still == UNCHANGED <<failures, closed, chan, W, proc = "panic">>
<1> SUFFICES ASSUME TypeOK, RefuseInv, [Next]_vars PROVE Coarse!Next \/ Still
  OBVIOUS
<1>0. ASSUME UNCHANGED <<failures, closed, chan, call>>, Alive, proc' # "panic"
      PROVE  Still
  BY <1>0 DEF Place, Alive
<1>1. ASSUME NEW g \in Goroutines, Allow(g) PROVE Coarse!Next \/ Still
  <2>1. /\ call[g] = "allow" /\ proc = "running" /\ UNCHANGED <<failures, closed, chan, proc>>
        /\ call' = [call EXCEPT ![g] = IF closed THEN "refused" ELSE "attempt"]
    BY <1>1 DEF Allow, Alive, Goto, limiter
  <2>2. CASE closed
    BY <2>1, <2>2, Outside DEF Sends
  <2>3. CASE ~closed
    <3>0. call' = [call EXCEPT ![g] = "attempt"] /\ Place(g) = "out"
      BY <2>1, <2>3 DEF Place, Sends
    <3>1. /\ Place(g) = "out" /\ Place(g)' = "attempt"
          /\ \A h \in Goroutines \ {g} : Place(h)' = Place(h)
      BY <3>0, OneMoves
    <3>2. Coarse!Allow(g)
      BY <2>1, <2>3, <3>1 DEF Coarse!Allow, Coarse!Goto
    <3> QED
      BY <2>1, <3>2 DEF Coarse!Next
  <2> QED
    BY <2>2, <2>3
<1>2. ASSUME NEW g \in Goroutines, Succeed(g) PROVE Coarse!Next
  <2>1. /\ call[g] = "attempt" /\ proc = "running" /\ UNCHANGED <<failures, closed, chan, proc>>
        /\ call' = [call EXCEPT ![g] = OnSuccess(failures)]
    BY <1>2 DEF Succeed, Alive, Goto, limiter
  <2>2. /\ Place(g) = "attempt"
        /\ \A h \in Goroutines \ {g} : Place(h)' = Place(h)
    BY <2>1, OneMoves DEF Place
  <2>3. Coarse!Succeed(g)
    <3> USE DEF Coarse!Succeed, Coarse!Recover, Coarse!Goto
    <3>1. CASE failures = -1
      <4>1. call' = [call EXCEPT ![g] = "Connected"]
        BY <2>1, <3>1 DEF OnSuccess
      <4>2. Place(g)' = "Connected"
        BY <4>1, OneMoves DEF Sends
      <4> QED
        BY <2>1, <2>2, <3>1, <4>2
    <3>2. CASE failures > 0
      <4>0. failures # -1
        BY <3>2 DEF TypeOK
      <4>1. call' = [call EXCEPT ![g] = "Recovered"] /\ failures # -1
        BY <2>1, <3>2, <4>0 DEF OnSuccess
      <4>2. Place(g)' = "Recovered"
        BY <4>1, OneMoves DEF Sends
      <4> QED
        BY <2>1, <2>2, <3>2, <4>1, <4>2
    <3>3. CASE failures = 0
      <4>1. call' = [call EXCEPT ![g] = "ok"]
        BY <2>1, <3>3 DEF OnSuccess
      <4>2. Place(g)' = "out"
        BY <4>1, OneMoves DEF Sends
      <4>3. failures' = 0 /\ failures # -1 /\ ~(failures > 0)
        BY <2>1, <3>3
      <4> QED
        BY <2>1, <2>2, <4>2, <4>3
    <3> QED
      BY <3>1, <3>2, <3>3 DEF TypeOK
  <2> QED
    BY <2>1, <2>3 DEF Coarse!Next
<1>3. ASSUME NEW g \in Goroutines, Fail(g) PROVE Coarse!Next
  <2>1. /\ call[g] = "attempt" /\ proc = "running" /\ UNCHANGED <<closed, chan, proc>>
        /\ failures' = IF failures < 2 THEN failures + 1 ELSE 2
    BY <1>3 DEF Fail, Alive
  <2>2. PICK label \in {"allow", "error"} :
          call' = [call EXCEPT ![g] = IF failures' = 1 THEN "Failed" ELSE label]
    BY <1>3 DEF Fail, AfterError, Goto
  <2>3. /\ Place(g) = "attempt"
        /\ \A h \in Goroutines \ {g} : Place(h)' = Place(h)
    BY <2>1, <2>2, OneMoves DEF Place
  <2>4. Coarse!Fail(g)
    <3>1. CASE failures' = 1
      <4>1. Place(g)' = "Failed"
        BY <2>2, <3>1, OneMoves DEF Sends
      <4> QED
        BY <2>1, <2>3, <3>1, <4>1 DEF Coarse!Fail, Coarse!Goto
    <3>2. CASE failures' # 1
      <4>1. Place(g)' = "out"
        BY <2>2, <3>2, OneMoves DEF Sends
      <4> QED
        BY <2>1, <2>3, <3>2, <4>1 DEF Coarse!Fail, Coarse!Goto
    <3> QED
      BY <3>1, <3>2
  <2> QED
    BY <2>1, <2>4 DEF Coarse!Next
<1>4. ASSUME NEW g \in Goroutines, Panic(g) PROVE Coarse!Next
  <2>1. /\ Place(g) = call[g] /\ proc = "running" /\ proc' = "panic" /\ chan = "closed"
        /\ UNCHANGED <<failures, closed, chan, W>> /\ call[g] \in Sends
    BY <1>4 DEF Panic, Alive, limiter, Place
  <2>2. Coarse!Panic(g)
    BY <2>1 DEF Coarse!Panic, Coarse!Sends, Sends
  <2> QED
    BY <2>1, <2>2 DEF Coarse!Next
<1>5. ASSUME NEW g \in Goroutines, OnConnected(g) PROVE Coarse!Next
  <2>1. /\ Alive /\ chan = "open" /\ call[g] \in Sends /\ UNCHANGED <<closed, chan, proc>>
        /\ Resume(g, [call EXCEPT !["monitor"] = "allow"]) /\ mon = "ready"
    BY <1>5 DEF OnConnected, Receive, Sends
  <2>2. call["monitor"] = "none"
    BY <2>1 DEF TypeOK
  <2> QED
    BY <2>1, <2>2, ResumeDelivers
<1>6. ASSUME NEW g \in Goroutines, OnFailed(g) \/ OnRecovered(g) PROVE Coarse!Next
  <2>1. /\ Alive /\ chan = "open" /\ call[g] \in Sends /\ UNCHANGED <<closed, chan, proc>>
        /\ Resume(g, call)
    BY <1>6 DEF OnFailed, OnRecovered, Receive, Sends
  <2> QED
    BY <2>1, ResumeDelivers
<1>7. ASSUME NEW g \in Goroutines, Alive, proc' # "panic", UNCHANGED <<failures, closed, chan>>,
             call[g] \notin {"attempt"} \cup Sends,
             \E label \in {"allow", "none"} : call' = [call EXCEPT ![g] = label]
      PROVE  Still
  <2>1. UNCHANGED W
    BY <1>7, Outside DEF Sends
  <2> QED
    BY <1>7, <2>1 DEF Alive
<1>8. ASSUME Updated PROVE Still
  BY <1>7, <1>8 DEF Updated, Goto, Alive, limiter, Results, Sends, Goroutines
<1>9. ASSUME NEW s \in Servers, Info(s) \/ InfoDone(s) PROVE Still
  BY <1>7, <1>9 DEF Info, InfoDone, Goto, Alive, limiter, Results, Sends, Goroutines, TypeOK
<1>10. ASSUME NEW r \in Reporters, Publish(r) \/ Published(r) PROVE Still
  BY <1>7, <1>10
  DEF Publish, Published, Goto, Alive, limiter, Results, Sends, Goroutines, TypeOK
<1>11. ASSUME NEW p \in Pingers, Ping(p) \/ PingDone(p) PROVE Still
  BY <1>7, <1>11 DEF Ping, PingDone, Goto, Alive, limiter, Results, Sends, Goroutines
<1>12. ASSUME RemoveInfo \/ InfoRemoved PROVE Still
  <2>1. "shutdown" \in Goroutines /\ Alive /\ proc' # "panic"
        /\ UNCHANGED <<failures, closed, chan>>
    BY <1>12 DEF RemoveInfo, InfoRemoved, Shutdown, Alive, limiter, Goroutines
  <2>2. CASE RemoveInfo /\ failures > 0
    BY <1>0, <2>1, <2>2 DEF RemoveInfo
  <2>3. CASE RemoveInfo /\ ~(failures > 0)
    BY <1>7, <2>1, <2>3 DEF RemoveInfo, Shutdown, Goto, TypeOK, Sends
  <2>4. CASE InfoRemoved
    BY <1>7, <2>1, <2>4 DEF InfoRemoved, Goto, Results, Sends
  <2> QED
    BY <1>12, <2>2, <2>3, <2>4
<1>13. ASSUME CloseLimiter \/ CloseChannel PROVE Coarse!Next
  <2>1. /\ proc = "running" /\ UNCHANGED <<failures, call, proc>>
        /\ \/ closed' = TRUE /\ chan' = chan
           \/ closed /\ closed' = closed /\ chan' = "closed"
    <3>1. CASE CloseLimiter
      BY <3>1 DEF CloseLimiter, Shutdown, Alive
    <3>2. CASE CloseChannel
      BY <3>2 DEF CloseChannel, Shutdown, Alive, RefuseInv
    <3> QED
      BY <1>13, <3>1, <3>2
  <2>2. UNCHANGED W
    BY <2>1 DEF Place
  <2>3. Coarse!Close \/ Coarse!CloseChannel
    BY <2>1, <2>2 DEF Coarse!Close, Coarse!CloseChannel
  <2> QED
    BY <2>1, <2>3 DEF Coarse!Next
<1>14. ASSUME \/ Bound \/ MonStop \/ StopReporter \/ Signal \/ DownStop
              \/ DownStopReporter \/ Exit \/ SendStopped \/ LinkDown \/ LinkUp
              \/ \E s \in Servers : MonStopped(s) \/ DownStopped(s)
              \/ \E s \in Servers : ServerRuns(s) \/ ServerLeaves(s)
              \/ \E r \in Reporters : ReporterRuns(r) \/ ReporterStops(r)
              \/ \E r \in Reporters : ReporterLeaves(r)
       PROVE  Still
  BY <1>0, <1>14
  DEF Bound, MonStop, StopReporter, Signal, DownStop, DownStopReporter, Exit,
      SendStopped, LinkDown, LinkUp, MonStopped, ServerRuns, ServerLeaves, DownStopped,
      ReporterRuns, ReporterStops, ReporterLeaves, Shutdown, Alive, limiter
<1>15. ASSUME UNCHANGED vars PROVE Still
  BY <1>15 DEF vars, Place
<1> QED
  BY <1>1, <1>2, <1>3, <1>4, <1>5, <1>6, <1>8, <1>9, <1>10, <1>11, <1>12, <1>13,
     <1>14, <1>15 DEF Next, Call, Report, Server, Reporter, DownStep

-----------------------------------------------------------------------------
(* What the monitor can hang on.                                             *)

\* While reports come in order a Failed finds a server, or comes before any.
StopInv ==
  down = "up" /\ inOrder =>
    /\ handled = "none" => ~srvRunning /\ \A s \in Servers : srv[s] = "none"
    /\ mon = "stop?" => \/ ~srvRunning /\ \A s \in Servers : srv[s] = "none"
                       \/ \E s \in Servers : Staying(srv[s])
    /\ mon = "stopping" => \E s \in Servers : Staying(srv[s])

\* Until the shutdown, and while reports come in order, the monitor hangs only
\* on a report that nobody but itself could receive: that of its own
\* UpdateNodeInfo, or that of the server it wants to stop.  It does not wait for
\* a server that is gone, though the flag it reads is reset late; a Failed that
\* overtakes a Recovered, or is overtaken, can make it do so.
HangsOnlyOnReports ==
  Wedged /\ down = "up" /\ inOrder =>
    \/ mon = "updating" /\ call["monitor"] \in Sends
    \/ mon = "stopping" /\ \E s \in Servers : srv[s] = "info" /\ call[s] \in Sends

\* A server leaves for the monitor, which then is done with Failed.
LEMMA StopStep == IInv /\ StopInv /\ [Next]_vars => StopInv'
<1> SUFFICES ASSUME IInv, StopInv, [Next]_vars PROVE StopInv'
  OBVIOUS
<1>0. TypeOK /\ ServeInv /\ CountInv
  BY DEF IInv
<1> USE <1>0 DEF TypeOK, StopInv, Staying, flags, history
<1>1. ASSUME UNCHANGED <<srv, srvRunning, mon, down, handled, inOrder>> PROVE StopInv'
  BY <1>1
<1>2. ASSUME NEW g \in Goroutines, Call(g) PROVE StopInv'
  BY <1>1, <1>2 DEF Call, Allow, Succeed, Fail, Panic
<1>3. ASSUME NEW g \in Goroutines, OnConnected(g) \/ OnRecovered(g) PROVE StopInv'
  BY <1>3 DEF OnConnected, OnRecovered, Receive
<1>4. ASSUME NEW g \in Goroutines, OnFailed(g) PROVE StopInv'
  <2>1. /\ UNCHANGED <<srv, srvRunning, down>> /\ mon' = "stop?" /\ handled' = "Failed"
        /\ inOrder' => inOrder /\ handled # "Failed" /\ Alive
    BY <1>4 DEF OnFailed, Receive, Expected
  <2>2. CASE ~(down = "up" /\ inOrder /\ handled # "Failed" /\ Alive)
    BY <2>1, <2>2
  <2>3. CASE down = "up" /\ inOrder /\ handled = "none"
    BY <2>1, <2>3
  <2>4. CASE down = "up" /\ handled \in {"Connected", "Recovered"}
    BY <2>1, <2>4 DEF ServeInv
  <2> QED
    BY <2>2, <2>3, <2>4 DEF CountInv, Sends
<1>5. ASSUME Bound \/ Updated \/ StopReporter \/ LinkDown \/ LinkUp PROVE StopInv'
  BY <1>5 DEF Bound, Updated, StopReporter, LinkDown, LinkUp
<1>6. ASSUME MonStop PROVE StopInv'
  BY <1>6 DEF MonStop
<1>7. ASSUME NEW s \in Servers, MonStopped(s) PROVE StopInv'
  BY <1>7 DEF MonStopped
<1>8. ASSUME NEW s \in Servers, Server(s) \/ Info(s) PROVE StopInv'
  BY <1>8 DEF Server, ServerRuns, ServerLeaves, InfoDone, Info
<1>9. ASSUME NEW r \in Reporters, Reporter(r) \/ Publish(r) \/ ReporterStops(r)
      PROVE  StopInv'
  BY <1>1, <1>9 DEF Reporter, ReporterRuns, ReporterLeaves, Published, Publish,
                    ReporterStops
<1>10. ASSUME NEW p \in Pingers, Ping(p) \/ PingDone(p) PROVE StopInv'
  BY <1>1, <1>10 DEF Ping, PingDone
<1>11. ASSUME Signal \/ DownStep \/ SendStopped \/ \E s \in Servers : DownStopped(s)
       PROVE  StopInv'
  BY <1>11 DEF Signal, DownStep, DownStop, RemoveInfo, InfoRemoved, CloseLimiter,
               CloseChannel, DownStopReporter, Exit, SendStopped, DownStopped, Shutdown
<1>12. ASSUME UNCHANGED vars PROVE StopInv'
  BY <1>1, <1>12 DEF vars
<1> QED
  BY <1>2, <1>3, <1>4, <1>5, <1>6, <1>7, <1>8, <1>9, <1>10, <1>11, <1>12
  DEF Next, Report

-----------------------------------------------------------------------------

\* The state has its type: in particular the monitor, the shutdown, a server
\* or a reporter is in a Redis call exactly where its code makes one
\* (main.go:59-62, 84-93; redis.go:53, 142).
THEOREM TypeCorrect == Spec => []TypeOK
<1>1. IInv => TypeOK
  BY DEF IInv
<1>2. QED
  BY <1>1, Inductive, PTL

\* A connected daemon has a command server, however many it starts and stops
\* (main.go:64-65).
THEOREM Served == Spec => []SomebodyServes
<1>1. IInv => SomebodyServes
  BY DEF IInv, ServeInv, SomebodyServes, Settled
<1>2. QED
  BY <1>1, Inductive, PTL

\* A daemon that was connected first has a reporter whenever it is connected
\* again, however late the Stops of earlier outages run (main.go:66, 72;
\* redis.go:148-159).
THEOREM Reported == Spec => []SomebodyReports
<1>1. IInv => SomebodyReports
  <2> SUFFICES ASSUME IInv, Settled, first = "Connected"
               PROVE  \E r \in Reporters : Staying(rep[r])
    BY DEF SomebodyReports
  <2>1. Owed \in Nat /\ Cardinality(Reporting) \in Nat
    BY StartsAndEnds DEF IInv
  <2>2. Owed + 1 <= Cardinality(Reporting)
    BY DEF IInv, CountInv, Settled
  <2>3. Cardinality(Reporting) # 0
    BY <2>1, <2>2
  <2>4. Reporting # {}
    BY <2>3, FS_EmptySet
  <2>5. QED
    BY <2>4 DEF Reporting
<1>2. QED
  BY <1>1, Inductive, PTL

\* A daemon that was connected first has written its node's info
\* (main.go:59-62).
THEOREM InfoWritten == Spec => []NodeInfoIsWritten
<1>1. IInv => NodeInfoIsWritten
  BY DEF IInv, InfoInv, NodeInfoIsWritten, Settled
<1>2. QED
  BY <1>1, Inductive, PTL

\* The limiter as Telemd models it, with the result of a call counted in one
\* step, keeps to CoarseLimiter (limiter.go:41-75, redis.go:32-37).
THEOREM ImplementsCoarse == Spec => Coarse!Spec
<1>1. Init => Coarse!Init
  BY DEF Init, Coarse!Init, Place, Sends, Goroutines
<1>2. IInv => TypeOK /\ RefuseInv
  BY DEF IInv
<1>3. QED
  BY <1>1, <1>2, CoarseStep, Inductive, PTL DEF Spec, Coarse!Spec

\* Before the shutdown and while reports come in order, the monitor hangs, if at
\* all, in a cycle of itself and a report: in UpdateNodeInfo, or in the Stop of a
\* server that has to report (main.go:59, 65; redis.go:60-64, 77-81).
THEOREM Hangs == Spec => []HangsOnlyOnReports
<1>1. Init => StopInv
  BY DEF Init, StopInv
<1>2. TypeOK /\ StopInv => HangsOnlyOnReports
  <2> SUFFICES ASSUME TypeOK, StopInv, Wedged, down = "up", inOrder,
                      ~(mon = "updating" /\ call["monitor"] \in Sends)
               PROVE  mon = "stopping" /\ \E s \in Servers : srv[s] = "info" /\ call[s] \in Sends
    BY DEF HangsOnlyOnReports
  <2>1. mon = "stopping" /\ \A s \in Servers : Stuck(s)
    BY DEF Wedged, MonitorHangs
  <2>2. PICK s \in Servers : Staying(srv[s])
    BY <2>1 DEF StopInv
  <2>3. call[s] \in Sends
    BY <2>1, <2>2 DEF Stuck
  <2>4. srv[s] = "info"
    BY <2>2, <2>3 DEF TypeOK, Sends
  <2> QED
    BY <2>1, <2>3, <2>4
<1>3. IInv => TypeOK
  BY DEF IInv
<1>4. QED
  BY <1>1, <1>2, <1>3, StopStep, Inductive, PTL DEF Spec

=============================================================================
