---------------------------- MODULE LimiterProofs ----------------------------
(* What is proved about Limiter, for any number of concurrent callers, calls, *)
(* outages and error replies.                                                *)
EXTENDS Limiter, TLAPS

-----------------------------------------------------------------------------
(* Types.                                                                    *)

\* A step of the client keeps every variable in its type.
LEMMA TypeStep == TypeOK /\ [Next]_vars => TypeOK'
<1> SUFFICES ASSUME TypeOK, [Next]_vars PROVE TypeOK'
  OBVIOUS
<1> USE LimiterAssumption
    DEF LimiterAssumption, TypeOK, Labels, InReport, Succeeding, Failing, Sends, Alive
<1>1. ASSUME NEW c \in Callers, StartPing(c) PROVE TypeOK'
  BY <1>1 DEF StartPing, Goto, limits, overlaps, world, bounds
<1>2. ASSUME NEW c \in Callers, StartCall(c) PROVE TypeOK'
  BY <1>2 DEF StartCall, Goto, limits, overlaps, world, bounds
<1>3. ASSUME NEW c \in Callers, Admit(c) PROVE TypeOK'
  BY <1>3 DEF Admit, Goto, limits, overlaps, world, bounds
<1>4. ASSUME NEW c \in Callers, Succeed(c) PROVE TypeOK'
  BY <1>4 DEF Succeed, Enter, Touch, Goto, limits, overlaps, world, bounds
<1>5. ASSUME NEW c \in Callers, Fail(c) PROVE TypeOK'
  BY <1>5 DEF Fail, Enter, Touch, Goto, limits, overlaps, world, bounds
<1>6. ASSUME NEW c \in Callers, GiveUp(c) PROVE TypeOK'
  BY <1>6 DEF GiveUp, Enter, Touch, Goto, limits, overlaps, world, bounds
<1>7. ASSUME NEW c \in Callers, ErrorReply(c) PROVE TypeOK'
  BY <1>7 DEF ErrorReply, Enter, Touch, Goto, limits, overlaps, world, bounds
<1>8. ASSUME NEW c \in Callers, Look(c) PROVE TypeOK'
  BY <1>8 DEF Look, Goto, limits, overlaps, world, bounds
<1>9. ASSUME NEW c \in Callers, Reset(c) PROVE TypeOK'
  BY <1>9 DEF Reset, Goto, limits, overlaps, world, bounds
<1>10. ASSUME NEW c \in Callers, Load(c) PROVE TypeOK'
  BY <1>10 DEF Load, Goto, Increment, limits, overlaps, world, bounds
<1>11. ASSUME NEW c \in Callers, Store(c) PROVE TypeOK'
  BY <1>11 DEF Store, Goto, limits, overlaps, world, bounds
<1>12. ASSUME NEW c \in Callers, Judge(c) PROVE TypeOK'
  <2>1. CASE Leave(c)
    BY <1>12, <2>1 DEF Judge, Leave, Goto, limits, overlaps, world, bounds
  <2>2. CASE Goto(c, "Failed") /\ UNCHANGED <<ending, pinging, reg>>
    BY <1>12, <2>2 DEF Judge, Goto, limits, overlaps, world, bounds
  <2> QED
    BY <1>12, <2>1, <2>2 DEF Judge
<1>13. ASSUME NEW c \in Callers, Deliver(c) PROVE TypeOK'
  <2>1. told' \in Seq(Sends)
    BY <1>13 DEF Deliver
  <2>2. /\ pc' \in [Callers -> Labels] /\ reg' \in [Callers -> -1 .. Cap]
        /\ \A d \in Callers : pc'[d] \in {"store", "report?"} => reg'[d] >= 0
        /\ ending' \in SUBSET Callers /\ pinging' \in SUBSET Callers
    <3>1. CASE pc[c] # "Failed"
      BY <1>13, <3>1 DEF Deliver, Goto
    <3>2. CASE pc[c] = "Failed"
      <4>1. Leave(c)
        BY <1>13, <3>2 DEF Deliver
      <4> QED
        BY <4>1, <3>2 DEF Leave, Goto
    <3> QED
      BY <1>13, <3>1, <3>2
  <2> QED
    BY <1>13, <2>1, <2>2 DEF Deliver, Touch, limits, overlaps, world, bounds
<1>14. ASSUME NEW c \in Callers, Panic(c) PROVE TypeOK'
  BY <1>14 DEF Panic, limits, overlaps, world, bounds
<1>15. CASE MonitorReturns
  BY <1>15 DEF MonitorReturns, Spawns, limits, overlaps, world, bounds
<1>16. CASE SendStopped
  BY <1>16 DEF SendStopped, limits, overlaps, world, bounds
<1>17. CASE LimiterClose
  BY <1>17 DEF LimiterClose, limits, overlaps, world, bounds
<1>18. CASE CloseChannel
  BY <1>18 DEF CloseChannel, MayCloseChannel, limits, overlaps, world, bounds
<1>19. CASE LinkDown
  BY <1>19 DEF LinkDown, limits, overlaps, world, bounds
<1>20. CASE LinkUp
  BY <1>20 DEF LinkUp, limits, overlaps, world, bounds
<1>21. CASE UNCHANGED vars
  BY <1>21 DEF vars
<1> QED
  BY <1>1, <1>2, <1>3, <1>4, <1>5, <1>6, <1>7, <1>8, <1>9, <1>10, <1>11,
     <1>12, <1>13, <1>14, <1>15, <1>16, <1>17, <1>18, <1>19, <1>20, <1>21
  DEF Next, Work, Terminated

\* Every reachable state of the client is well typed.
THEOREM TypeCorrect == Spec => []TypeOK
<1>1. Init => TypeOK
  <2> SUFFICES ASSUME Init PROVE TypeOK
    OBVIOUS
  <2>1. told \in Seq(Sends) /\ failures \in -1 .. Cap
    BY LimiterAssumption DEF LimiterAssumption, Init
  <2>2. /\ pc \in [Callers -> Labels]
        /\ \A c \in Callers : pc[c] = "idle"
    BY DEF Init, Labels
  <2>3. reg \in [Callers -> -1 .. Cap] /\ late \in [Callers -> 0 .. 2]
    BY LimiterAssumption DEF LimiterAssumption, Init
  <2>4. /\ calls \in 0 .. MaxCalls /\ outages \in 0 .. MaxOutages
        /\ errorReplies \in 0 .. MaxErrorReplies /\ pings \in Nat
    BY LimiterAssumption DEF LimiterAssumption, Init
  <2> QED
    BY <2>1, <2>2, <2>3, <2>4 DEF Init, TypeOK
<1> QED
  BY <1>1, TypeStep, PTL DEF Spec

-----------------------------------------------------------------------------
(* Reports that do not overlap.                                              *)

\* The count and the last report agree.
Agree == /\ failures > 0 <=> Last = "Failed"
         /\ failures = -1 => Last = "none"

\* What c knows of the count and of the last report at each step of
\* ReportResult, if nobody else is in it.
Knows(c) ==
  /\ pc[c] \in {"first?", "load", "store"} => Agree
  /\ pc[c] = "store" => reg[c] = Increment(failures)
  /\ pc[c] = "Connected" => failures = -1 /\ Last = "none"
  /\ pc[c] = "failed?" => /\ failures > 0 <=> Last = "Failed"
                          /\ failures = -1 => Last = "Connected"
  /\ pc[c] = "Recovered" => failures > 0 /\ Last = "Failed"
  /\ pc[c] = "reset" => Last # "Failed"
  /\ pc[c] = "report?" => /\ reg[c] = failures /\ failures >= 0
                          /\ failures = 0 => Last = "none"
                          /\ failures > 1 <=> Last = "Failed"
  /\ pc[c] = "Failed" => failures = 1 /\ Last # "Failed"

CleanInv ==
  ~raced =>
    /\ \A c, d \in Callers :
         pc[c] \in InReport /\ pc[d] \in InReport => c = d
    /\ ~Overlapping => Agree
    /\ \A c \in Callers : Knows(c)

\* Only a delivery changes the last report, to the one delivered.
LEMMA LastReport ==
  ASSUME TypeOK
  PROVE  /\ UNCHANGED told => Last' = Last
         /\ \A r \in Sends : told' = Append(told, r) => Last' = r
<1>1. UNCHANGED told => Last' = Last
  BY DEF Last, Promise!LastOf
<1>2. ASSUME NEW r \in Sends, told' = Append(told, r) PROVE Last' = r
  <2>1. told \in Seq(Sends)
    BY DEF TypeOK
  <2>2. told' # << >> /\ told'[Len(told')] = r
    BY <1>2, <2>1
  <2> QED
    BY <2>2 DEF Last, Promise!LastOf
<1> QED
  BY <1>1, <1>2

\* As long as no two results are reported at once, the count and the reports
\* stay in step.
LEMMA CleanStep == TypeOK /\ CleanInv /\ [Next]_vars => CleanInv'
<1> SUFFICES ASSUME TypeOK, CleanInv, [Next]_vars, ~raced' PROVE CleanInv'
  BY DEF CleanInv
<1> USE LimiterAssumption
    DEF LimiterAssumption, TypeOK, Labels, InReport, Succeeding, Failing, Sends, Alive,
        CleanInv, Knows, Agree, Overlapping
<1>0. UNCHANGED told => Last' = Last
  BY LastReport
<1>1. ASSUME NEW c \in Callers, StartPing(c) PROVE CleanInv'
  BY <1>0, <1>1 DEF StartPing, Goto, limits, overlaps, world, bounds
<1>2. ASSUME NEW c \in Callers, StartCall(c) PROVE CleanInv'
  BY <1>0, <1>2 DEF StartCall, Goto, limits, overlaps, world, bounds
<1>3. ASSUME NEW c \in Callers, Admit(c) PROVE CleanInv'
  BY <1>0, <1>3 DEF Admit, Goto, limits, overlaps, world, bounds
<1>4. ASSUME NEW c \in Callers, Succeed(c) PROVE CleanInv'
  <2>1. Agree /\ \A d \in Callers \ {c} : pc[d] \notin InReport
    BY <1>4 DEF Succeed, Enter
  <2>2. /\ failures' = failures /\ Last' = Last /\ pc' = [pc EXCEPT ![c] = "first?"]
    BY <1>0, <1>4 DEF Succeed, Enter, Touch, Goto
  <2> QED
    BY <2>1, <2>2
<1>5. ASSUME NEW c \in Callers, Fail(c) PROVE CleanInv'
  BY <1>0, <1>5 DEF Fail, Enter, Touch, Goto, limits, overlaps, world, bounds
<1>6. ASSUME NEW c \in Callers, GiveUp(c) PROVE CleanInv'
  BY <1>0, <1>6 DEF GiveUp, Enter, Touch, Goto, limits, overlaps, world, bounds
<1>7. ASSUME NEW c \in Callers, ErrorReply(c) PROVE CleanInv'
  BY <1>0, <1>7 DEF ErrorReply, Enter, Touch, Goto, limits, overlaps, world, bounds
<1>8. ASSUME NEW c \in Callers, Look(c) PROVE CleanInv'
  BY <1>0, <1>8 DEF Look, Goto, limits, overlaps, world, bounds
<1>9. ASSUME NEW c \in Callers, Reset(c) PROVE CleanInv'
  BY <1>0, <1>9 DEF Reset, Goto, limits, overlaps, world, bounds
<1>10. ASSUME NEW c \in Callers, Load(c) PROVE CleanInv'
  BY <1>0, <1>10 DEF Load, Goto, Increment, limits, overlaps, world, bounds
<1>11. ASSUME NEW c \in Callers, Store(c) PROVE CleanInv'
  BY <1>0, <1>11 DEF Store, Goto, Increment, limits, overlaps, world, bounds
<1>12. ASSUME NEW c \in Callers, Judge(c) PROVE CleanInv'
  BY <1>0, <1>12 DEF Judge, Leave, FirstOfSeries, Goto, limits, overlaps, world, bounds
<1>13. ASSUME NEW c \in Callers, Deliver(c) PROVE CleanInv'
  <2>1. /\ Last' = pc[c] /\ failures' = failures
        /\ \A d \in Callers \ {c} : pc[d] \notin InReport
        /\ Knows(c)
    BY <1>13, LastReport DEF Deliver, limits, overlaps
  <2>2. CASE pc[c] # "Failed"
    <3>1. /\ pc' = [pc EXCEPT ![c] = IF pc[c] = "Connected" THEN "failed?" ELSE "reset"]
          /\ reg' = reg
      BY <1>13, <2>2 DEF Deliver, Goto
    <3>2. pc[c] \in {"Connected", "Recovered"}
      BY <1>13, <2>2 DEF Deliver
    <3> QED
      BY <2>1, <3>1, <3>2
  <2>3. CASE pc[c] = "Failed"
    <3>1. Leave(c)
      BY <1>13, <2>3 DEF Deliver
    <3> QED
      BY <2>1, <2>3, <3>1 DEF Leave, Goto
  <2> QED
    BY <2>2, <2>3
<1>14. ASSUME NEW c \in Callers, Panic(c) PROVE CleanInv'
  BY <1>0, <1>14 DEF Panic, limits, overlaps, world, bounds
<1>15. CASE MonitorReturns
  BY <1>0, <1>15 DEF MonitorReturns, Spawns, limits, overlaps, world, bounds
<1>16. CASE SendStopped
  BY <1>0, <1>16 DEF SendStopped, limits, overlaps, world, bounds
<1>17. CASE LimiterClose
  BY <1>0, <1>17 DEF LimiterClose, limits, overlaps, world, bounds
<1>18. CASE CloseChannel
  BY <1>0, <1>18 DEF CloseChannel, MayCloseChannel, limits, overlaps, world, bounds
<1>19. CASE LinkDown
  BY <1>0, <1>19 DEF LinkDown, limits, overlaps, world, bounds
<1>20. CASE LinkUp
  BY <1>0, <1>20 DEF LinkUp, limits, overlaps, world, bounds
<1>21. CASE UNCHANGED vars
  BY <1>0, <1>21 DEF vars
<1> QED
  BY <1>1, <1>2, <1>3, <1>4, <1>5, <1>6, <1>7, <1>8, <1>9, <1>10, <1>11,
     <1>12, <1>13, <1>14, <1>15, <1>16, <1>17, <1>18, <1>19, <1>20, <1>21
  DEF Next, Work, Terminated

-----------------------------------------------------------------------------
(* Close.                                                                    *)

\* No attempt ends twice after close; the first comes from a call that was
\* past Allow.
LateInv ==
  \A c \in Callers : /\ ~closed => late[c] = 0
                     /\ pc[c] = "attempt" => late[c] = 0
                     /\ late[c] <= 1

\* After the close of a quiet client no call gets past Allow.
QuietInv == /\ chan = "closed" => closed
            /\ closed /\ ~admitted => \A c \in Callers : pc[c] \in {"idle", "allow"}
            /\ crashed => admitted /\ closed

CloseInv == LateInv /\ QuietInv

LEMMA CloseStep == TypeOK /\ CloseInv /\ [Next]_vars => CloseInv'
<1> SUFFICES ASSUME TypeOK, CloseInv, [Next]_vars PROVE CloseInv'
  OBVIOUS
<1> USE DEF TypeOK, Labels, InReport, Succeeding, Failing, Sends, Alive, CloseInv,
            LateInv, QuietInv, Refuses
<1>1. ASSUME NEW c \in Callers, StartPing(c) PROVE CloseInv'
  BY <1>1 DEF StartPing, Goto, limits, overlaps, world, bounds
<1>2. ASSUME NEW c \in Callers, StartCall(c) PROVE CloseInv'
  BY <1>2 DEF StartCall, Goto, limits, overlaps, world, bounds
<1>3. ASSUME NEW c \in Callers, Admit(c) PROVE CloseInv'
  BY <1>3 DEF Admit, Goto, limits, overlaps, world, bounds
<1>4. ASSUME NEW c \in Callers, Succeed(c) PROVE CloseInv'
  BY <1>4 DEF Succeed, Enter, Touch, Goto, limits, overlaps, world, bounds
<1>5. ASSUME NEW c \in Callers, Fail(c) PROVE CloseInv'
  BY <1>5 DEF Fail, Enter, Touch, Goto, limits, overlaps, world, bounds
<1>6. ASSUME NEW c \in Callers, GiveUp(c) PROVE CloseInv'
  BY <1>6 DEF GiveUp, Enter, Touch, Goto, limits, overlaps, world, bounds
<1>7. ASSUME NEW c \in Callers, ErrorReply(c) PROVE CloseInv'
  BY <1>7 DEF ErrorReply, Enter, Touch, Goto, limits, overlaps, world, bounds
<1>8. ASSUME NEW c \in Callers, Look(c) PROVE CloseInv'
  BY <1>8 DEF Look, Goto, limits, overlaps, world, bounds
<1>9. ASSUME NEW c \in Callers, Reset(c) PROVE CloseInv'
  BY <1>9 DEF Reset, Goto, limits, overlaps, world, bounds
<1>10. ASSUME NEW c \in Callers, Load(c) PROVE CloseInv'
  BY <1>10 DEF Load, Goto, Increment, limits, overlaps, world, bounds
<1>11. ASSUME NEW c \in Callers, Store(c) PROVE CloseInv'
  BY <1>11 DEF Store, Goto, limits, overlaps, world, bounds
<1>12. ASSUME NEW c \in Callers, Judge(c) PROVE CloseInv'
  BY <1>12 DEF Judge, Leave, FirstOfSeries, Goto, limits, overlaps, world, bounds
<1>13. ASSUME NEW c \in Callers, Deliver(c) PROVE CloseInv'
  BY <1>13 DEF Deliver, Touch, Leave, Goto, limits, overlaps, world, bounds
<1>14. ASSUME NEW c \in Callers, Panic(c) PROVE CloseInv'
  BY <1>14 DEF Panic, limits, overlaps, world, bounds
<1>15. CASE MonitorReturns
  BY <1>15 DEF MonitorReturns, Spawns, limits, overlaps, world, bounds
<1>16. CASE SendStopped
  BY <1>16 DEF SendStopped, limits, overlaps, world, bounds
<1>17. CASE LimiterClose
  BY <1>17 DEF LimiterClose, limits, overlaps, world, bounds
<1>18. CASE CloseChannel
  BY <1>18 DEF CloseChannel, MayCloseChannel, limits, overlaps, world, bounds
<1>19. CASE LinkDown
  BY <1>19 DEF LinkDown, limits, overlaps, world, bounds
<1>20. CASE LinkUp
  BY <1>20 DEF LinkUp, limits, overlaps, world, bounds
<1>21. CASE UNCHANGED vars
  BY <1>21 DEF vars
<1> QED
  BY <1>1, <1>2, <1>3, <1>4, <1>5, <1>6, <1>7, <1>8, <1>9, <1>10, <1>11,
     <1>12, <1>13, <1>14, <1>15, <1>16, <1>17, <1>18, <1>19, <1>20, <1>21
  DEF Next, Work, Terminated

-----------------------------------------------------------------------------
(* The client counts one result after the other.                             *)

\* Until two callers work on the count at once only one does, and it has not
\* lost touch with the count.
MoverInv ==
  ~torn => /\ \A c, d \in Callers : pc[c] \in Moving /\ pc[d] \in Moving => c = d
           /\ \A c \in Callers :
                /\ pc[c] = "store" => reg[c] = Increment(failures)
                /\ pc[c] = "report?" => reg[c] = failures /\ failures >= 0

\* Goroutines blocked with a report stay out of the mover's way.
LEMMA MoverStep == TypeOK /\ MoverInv /\ [Next]_vars => MoverInv'
<1> SUFFICES ASSUME TypeOK, MoverInv, [Next]_vars, ~torn' PROVE MoverInv'
  BY DEF MoverInv
<1> USE LimiterAssumption
    DEF LimiterAssumption, TypeOK, Labels, InReport, Succeeding, Failing, Sends,
        Moving, Alive, MoverInv
<1>1. ASSUME NEW c \in Callers, StartPing(c) PROVE MoverInv'
  BY <1>1 DEF StartPing, Goto, limits, overlaps, world, bounds
<1>2. ASSUME NEW c \in Callers, StartCall(c) PROVE MoverInv'
  BY <1>2 DEF StartCall, Goto, limits, overlaps, world, bounds
<1>3. ASSUME NEW c \in Callers, Admit(c) PROVE MoverInv'
  BY <1>3 DEF Admit, Goto, limits, overlaps, world, bounds
<1>4. ASSUME NEW c \in Callers, NEW label \in {"first?", "load"}, Enter(c, label)
      PROVE  MoverInv'
  BY <1>4 DEF Enter, Touch, Goto, limits, overlaps, world, bounds
<1>5. ASSUME NEW c \in Callers, Look(c) PROVE MoverInv'
  BY <1>5 DEF Look, Goto, limits, overlaps, world, bounds
<1>6. ASSUME NEW c \in Callers, Reset(c) PROVE MoverInv'
  BY <1>6 DEF Reset, Goto, limits, overlaps, world, bounds
<1>7. ASSUME NEW c \in Callers, Load(c) PROVE MoverInv'
  BY <1>7 DEF Load, Goto, Increment, limits, overlaps, world, bounds
<1>8. ASSUME NEW c \in Callers, Store(c) PROVE MoverInv'
  BY <1>8 DEF Store, Goto, Increment, limits, overlaps, world, bounds
<1>9. ASSUME NEW c \in Callers, Judge(c) PROVE MoverInv'
  <2>1. CASE Leave(c)
    BY <1>9, <2>1 DEF Judge, Leave, Goto, limits, overlaps, world, bounds
  <2>2. CASE Goto(c, "Failed") /\ UNCHANGED <<ending, pinging, reg>>
    BY <1>9, <2>2 DEF Judge, Goto, limits, overlaps, world, bounds
  <2> QED
    BY <1>9, <2>1, <2>2 DEF Judge
<1>10. ASSUME NEW c \in Callers, Deliver(c) PROVE MoverInv'
  <2>1. CASE pc[c] = "Failed"
    <3>1. Leave(c) /\ torn' = torn /\ failures' = failures
      BY <1>10, <2>1 DEF Deliver
    <3> QED
      BY <3>1, <2>1 DEF Leave, Goto
  <2>2. CASE pc[c] # "Failed"
    <3>1. /\ pc' = [pc EXCEPT ![c] = IF pc[c] = "Connected" THEN "failed?" ELSE "reset"]
          /\ Touch(c) /\ reg' = reg /\ failures' = failures
      BY <1>10, <2>2 DEF Deliver, Goto
    <3> QED
      BY <3>1 DEF Touch
  <2> QED
    BY <2>1, <2>2
<1>11. CASE UNCHANGED <<pc, failures, reg, torn>>
  BY <1>11
<1> QED
  BY <1>1, <1>2, <1>3, <1>4, <1>5, <1>6, <1>7, <1>8, <1>9, <1>10, <1>11
  DEF Next, Work, Terminated, Succeed, Fail, GiveUp, ErrorReply, Panic,
      MonitorReturns, SendStopped, LimiterClose, CloseChannel, LinkDown, LinkUp,
      overlaps, vars

\* If only c can be at work on the count, what the count is seen to be is c's
\* affair.
LEMMA OnlyMover ==
  ASSUME NEW c \in Callers, \A d \in Callers \ {c} : pc[d] \notin Moving
  PROVE  Count = IF pc[c] \in Moving THEN Counted(c) ELSE failures
<1>1. CASE pc[c] \in Moving
  <2>1. (CHOOSE d \in Callers : pc[d] \in Moving) = c
    BY <1>1
  <2> QED
    BY <1>1, <2>1 DEF Count
<1>2. CASE pc[c] \notin Moving
  BY <1>2 DEF Count
<1> QED
  BY <1>1, <1>2

\* The same for the count after a step.
LEMMA OnlyMoverNext ==
  ASSUME NEW c \in Callers, \A d \in Callers \ {c} : pc'[d] \notin Moving
  PROVE  Count' = IF pc'[c] \in Moving THEN Counted(c)' ELSE failures'
<1>1. CASE pc'[c] \in Moving
  <2>1. (CHOOSE d \in Callers : pc'[d] \in Moving) = c
    BY <1>1
  <2> QED
    BY <1>1, <2>1 DEF Count
<1>2. CASE pc'[c] \notin Moving
  BY <1>2 DEF Count
<1> QED
  BY <1>1, <1>2

\* A step of c while nobody else is at work on the count: only c is seen to
\* move, and the count is seen as c sees it.
LEMMA AtWork ==
  ASSUME TypeOK, NEW c \in Callers, NEW label, pc' = [pc EXCEPT ![c] = label],
         \A d \in Callers \ {c} : pc[d] \notin Moving
  PROVE  /\ pc'[c] = label
         /\ \A d \in Callers \ {c} : Where(d)' = Where(d)
         /\ Count = IF pc[c] \in Moving THEN Counted(c) ELSE failures
         /\ Count' = IF label \in Moving THEN Counted(c)' ELSE failures'
<1>1. pc'[c] = label /\ \A d \in Callers \ {c} : pc'[d] = pc[d]
  BY DEF TypeOK
<1>2. ASSUME NEW d \in Callers \ {c} PROVE Where(d)' = Where(d)
  <2>1. pc[d] \notin {"first?", "failed?", "load", "store", "report?"}
    BY DEF Moving, InReport, Succeeding, Failing, Sends
  <2>2. pc'[d] = pc[d]
    BY <1>1
  <2> QED
    BY <2>1, <2>2 DEF Where
<1> QED
  BY <1>1, <1>2, OnlyMover, OnlyMoverNext

\* A step of c that is not about the count: whoever works on it is not
\* disturbed.
LEMMA Aside ==
  ASSUME TypeOK, MoverInv, ~torn, NEW c \in Callers, NEW label,
         pc' = [pc EXCEPT ![c] = label], pc[c] \notin Moving, label \notin Moving,
         failures' = failures, \A d \in Callers \ {c} : reg'[d] = reg[d]
  PROVE  /\ pc'[c] = label
         /\ \A d \in Callers \ {c} : Where(d)' = Where(d)
         /\ Count' = Count
<1>1. pc'[c] = label /\ \A d \in Callers \ {c} : pc'[d] = pc[d]
  BY DEF TypeOK
<1>2. \A d \in Callers \ {c} : Counted(d)' = Counted(d)
  BY <1>1 DEF Counted
<1>3. ASSUME NEW d \in Callers \ {c} PROVE Where(d)' = Where(d)
  <2>1. pc'[d] = pc[d] /\ reg'[d] = reg[d] /\ failures' = failures
    BY <1>1
  <2> QED
    BY <2>1 DEF Where, Counted
<1>4. ASSUME \A d \in Callers \ {c} : pc[d] \notin Moving PROVE Count' = Count
  BY <1>1, <1>4, OnlyMover, OnlyMoverNext
<1>5. ASSUME NEW d \in Callers \ {c}, pc[d] \in Moving PROVE Count' = Count
  <2>1. \A e \in Callers \ {d} : pc[e] \notin Moving /\ pc'[e] \notin Moving
    BY <1>1, <1>5 DEF MoverInv
  <2>2. Count = Counted(d) /\ Count' = Counted(d)'
    BY <1>1, <1>5, <2>1, OnlyMover, OnlyMoverNext
  <2> QED
    BY <1>2, <2>2
<1> QED
  BY <1>1, <1>3, <1>4, <1>5

\* While the count has one worker at a time, every step of the client is a step
\* of CoarseLimiter or invisible to it: a result is counted when its attempt
\* ends, and a report that was blocked is followed by the rest of ReportResult.
LEMMA CoarseStep ==
  TypeOK /\ MoverInv /\ [Next]_vars => torn' \/ Coarse!Next \/ UNCHANGED seen
<1> DEFINE W == [d \in Callers |-> Where(d)]
<1> SUFFICES ASSUME TypeOK, MoverInv, [Next]_vars, ~torn'
             PROVE  Coarse!Next \/ UNCHANGED <<Count, closed, chan, W, crashed>>
  BY DEF seen
<1> USE LimiterAssumption DEF LimiterAssumption, TypeOK
<1>1. ASSUME NEW c \in Callers, StartPing(c) \/ StartCall(c)
      PROVE  UNCHANGED <<Count, closed, chan, W, crashed>>
  <2>1. /\ pc[c] = "idle" /\ pc' = [pc EXCEPT ![c] = "allow"] /\ ~torn
        /\ UNCHANGED <<failures, reg, closed, chan, crashed>>
    BY <1>1 DEF StartPing, StartCall, Goto, limits, overlaps
  <2>2. Count' = Count /\ pc'[c] = "allow" /\ \A d \in Callers \ {c} : Where(d)' = Where(d)
    BY <2>1, Aside DEF Moving, InReport, Succeeding, Failing
  <2>3. Where(c) = "out" /\ Where(c)' = "out"
    BY <2>1, <2>2 DEF Where, Sends
  <2> QED
    BY <2>1, <2>2, <2>3
<1>2. ASSUME NEW c \in Callers, Admit(c)
      PROVE  Coarse!Next \/ UNCHANGED <<Count, closed, chan, W, crashed>>
  <2> DEFINE label == IF closed THEN "idle" ELSE "attempt"
  <2>1. /\ pc[c] = "allow" /\ pc' = [pc EXCEPT ![c] = label] /\ ~torn /\ ~crashed
        /\ UNCHANGED <<failures, reg, closed, chan, crashed>>
    BY <1>2 DEF Admit, Refuses, Goto, limits, overlaps, Alive
  <2>2. Count' = Count /\ pc'[c] = label /\ \A d \in Callers \ {c} : Where(d)' = Where(d)
    BY <2>1, Aside DEF Moving, InReport, Succeeding, Failing
  <2>3. Where(c) = "out" /\ Where(c)' = IF closed THEN "out" ELSE "attempt"
    BY <2>1, <2>2 DEF Where, Sends
  <2>4. closed => UNCHANGED <<Count, closed, chan, W, crashed>>
    BY <2>1, <2>2, <2>3
  <2>5. ~closed => Coarse!Allow(c)
    BY <2>1, <2>2, <2>3 DEF Coarse!Allow, Coarse!Goto
  <2> QED
    BY <2>1, <2>4, <2>5 DEF Coarse!Next
<1>3. ASSUME NEW c \in Callers, Enter(c, "first?") PROVE Coarse!Next
  <2>1. /\ pc[c] = "attempt" /\ pc' = [pc EXCEPT ![c] = "first?"] /\ ~crashed
        /\ \A d \in Callers \ {c} : pc[d] \notin Moving
        /\ UNCHANGED <<failures, closed, chan, crashed>>
    BY <1>3 DEF Enter, Touch, Goto, limits, Alive
  <2>2. /\ Count = failures /\ Count' = Counted(c)' /\ pc'[c] = "first?"
        /\ \A d \in Callers \ {c} : Where(d)' = Where(d)
    BY <2>1, AtWork DEF Moving, InReport, Succeeding, Failing, Sends
  <2>3. Where(c) = "attempt" /\ Count' = failures
    BY <2>1, <2>2 DEF Where, Counted, Sends
  <2>4. /\ failures = -1 => Where(c)' = "Connected"
        /\ failures > 0 => Where(c)' = "Recovered"
        /\ failures = 0 => Where(c)' = "out"
    BY <2>1, <2>2 DEF Where, Sends
  <2>5. Coarse!Succeed(c)
    <3> USE DEF Coarse!Succeed, Coarse!Recover, Coarse!Goto
    <3>1. CASE failures = -1
      BY <2>1, <2>2, <2>3, <2>4, <3>1
    <3>2. CASE failures > 0
      BY <2>1, <2>2, <2>3, <2>4, <3>2
    <3>3. CASE failures = 0
      BY <2>1, <2>2, <2>3, <2>4, <3>3
    <3> QED
      BY <3>1, <3>2, <3>3
  <2> QED
    BY <2>1, <2>5 DEF Coarse!Next
<1>4. ASSUME NEW c \in Callers, Enter(c, "load") PROVE Coarse!Next
  <2>1. /\ pc[c] = "attempt" /\ pc' = [pc EXCEPT ![c] = "load"] /\ ~crashed
        /\ \A d \in Callers \ {c} : pc[d] \notin Moving
        /\ UNCHANGED <<failures, closed, chan, crashed>>
    BY <1>4 DEF Enter, Touch, Goto, limits, Alive
  <2>2. /\ Count = failures /\ Count' = Counted(c)' /\ pc'[c] = "load"
        /\ \A d \in Callers \ {c} : Where(d)' = Where(d)
    BY <2>1, AtWork DEF Moving, InReport, Succeeding, Failing, Sends
  <2>3. /\ Where(c) = "attempt"
        /\ Count' = IF failures < Cap THEN failures + 1 ELSE Cap
        /\ Where(c)' = IF Count' = 1 THEN "Failed" ELSE "out"
    BY <2>1, <2>2 DEF Where, Counted, Sends
  <2>4. Coarse!Fail(c)
    BY <2>1, <2>2, <2>3 DEF Coarse!Fail, Coarse!Goto
  <2> QED
    BY <2>1, <2>4 DEF Coarse!Next
<1>5. ASSUME NEW c \in Callers, Look(c) \/ Reset(c) \/ Load(c) \/ Store(c) \/ Judge(c)
      PROVE  UNCHANGED <<Count, closed, chan, W, crashed>>
  <2>1. /\ pc[c] \in Moving /\ UNCHANGED <<closed, chan, crashed>> /\ ~torn
        /\ pc' = [pc EXCEPT ![c] = pc'[c]]
        /\ pc'[c] \in {"idle", "allow"} \cup InReport
    BY <1>5
    DEF Look, Reset, Load, Store, Judge, Leave, Goto, limits, overlaps, Moving,
        InReport, Succeeding, Failing, Sends
  <2>2. \A d \in Callers \ {c} : pc[d] \notin Moving
    BY <2>1 DEF MoverInv
  <2>3. /\ Count = Counted(c)
        /\ Count' = IF pc'[c] \in Moving THEN Counted(c)' ELSE failures'
        /\ \A d \in Callers \ {c} : Where(d)' = Where(d)
    BY <2>1, <2>2, AtWork
  <2>4. Where(c)' = Where(c) /\ Count' = Count
    <3> USE DEF Where, Counted, Moving, InReport, Succeeding, Failing, Sends
    <3>1. CASE Look(c)
      BY <3>1, <2>1, <2>3 DEF Look, Goto
    <3>2. CASE Reset(c)
      BY <3>2, <2>1, <2>3 DEF Reset, Goto
    <3>3. CASE Load(c)
      BY <3>3, <2>1, <2>3 DEF Load, Goto, Increment
    <3>4. CASE Store(c)
      BY <3>4, <2>1, <2>3 DEF Store, Goto
    <3>5. CASE Judge(c)
      <4>1. reg[c] = failures /\ failures' = failures /\ pc[c] = "report?"
        BY <3>5, <2>1 DEF Judge, MoverInv
      <4>2. CASE failures = 1
        BY <4>1, <4>2, <3>5, <2>1, <2>3 DEF Judge, FirstOfSeries, Goto
      <4>3. CASE failures # 1
        BY <4>1, <4>3, <3>5, <2>1, <2>3 DEF Judge, FirstOfSeries, Leave, Goto
      <4> QED
        BY <4>2, <4>3
    <3> QED
      BY <1>5, <3>1, <3>2, <3>3, <3>4, <3>5
  <2> QED
    BY <2>1, <2>3, <2>4
<1>6. ASSUME NEW c \in Callers, Deliver(c) PROVE Coarse!Next
  <2>1. /\ pc[c] \in Sends /\ chan = "open" /\ ~crashed
        /\ UNCHANGED <<failures, closed, chan, crashed>> /\ Where(c) = pc[c]
    BY <1>6 DEF Deliver, limits, Alive, Where
  <2>2. CASE pc[c] = "Failed"
    <3>1. Leave(c) /\ torn' = torn
      BY <1>6, <2>2 DEF Deliver
    <3>2. /\ pc' = [pc EXCEPT ![c] = pc'[c]] /\ pc'[c] \in {"idle", "allow"}
          /\ \A d \in Callers \ {c} : reg'[d] = reg[d]
      BY <3>1 DEF Leave, Goto
    <3>3. Count' = Count /\ \A d \in Callers \ {c} : Where(d)' = Where(d)
      BY <2>1, <2>2, <3>1, <3>2, Aside DEF Moving, InReport, Succeeding, Failing, Sends
    <3>4. Where(c)' = "out"
      BY <3>2 DEF Where, Sends
    <3>5. Coarse!Deliver(c)
      BY <2>1, <2>2, <3>3, <3>4 DEF Coarse!Deliver, Coarse!Goto, Coarse!Sends
    <3> QED
      BY <2>1, <3>5 DEF Coarse!Next
  <2>3. CASE pc[c] # "Failed"
    <3> DEFINE label == IF pc[c] = "Connected" THEN "failed?" ELSE "reset"
    <3>1. Touch(c) /\ pc' = [pc EXCEPT ![c] = label]
      BY <1>6, <2>3 DEF Deliver, Goto
    <3>2. \A d \in Callers \ {c} : pc[d] \notin Moving
      BY <3>1 DEF Touch
    <3>3. /\ Count = failures /\ Count' = Counted(c)' /\ pc'[c] = label
          /\ \A d \in Callers \ {c} : Where(d)' = Where(d)
      BY <2>1, <3>1, <3>2, AtWork DEF Moving, InReport, Succeeding, Failing, Sends
    <3>4. CASE pc[c] = "Connected"
      <4>1. /\ Count' = IF failures > 0 THEN failures ELSE 0
            /\ Where(c)' = IF failures > 0 THEN "Recovered" ELSE "out"
        BY <2>1, <3>3, <3>4 DEF Where, Counted, Sends
      <4>2. Coarse!Deliver(c)
        BY <2>1, <3>3, <3>4, <4>1
        DEF Coarse!Deliver, Coarse!Recover, Coarse!Goto, Coarse!Sends
      <4> QED
        BY <2>1, <4>2 DEF Coarse!Next
    <3>5. CASE pc[c] = "Recovered"
      <4>1. Count' = 0 /\ Where(c)' = "out"
        BY <2>1, <3>3, <3>5 DEF Where, Counted, Sends
      <4>2. Coarse!Deliver(c)
        BY <2>1, <3>3, <3>5, <4>1 DEF Coarse!Deliver, Coarse!Goto, Coarse!Sends
      <4> QED
        BY <2>1, <4>2 DEF Coarse!Next
    <3> QED
      BY <2>1, <2>3, <3>4, <3>5 DEF Sends
  <2> QED
    BY <2>2, <2>3
<1>7. ASSUME UNCHANGED <<pc, failures, reg, closed, chan, crashed>>
      PROVE  UNCHANGED <<Count, closed, chan, W, crashed>>
  BY <1>7 DEF Count, Counted, Where
<1>8. ASSUME NEW c \in Callers, Panic(c) PROVE Coarse!Next
  <2>1. /\ pc[c] \in Sends /\ chan = "closed" /\ ~crashed /\ crashed' = TRUE
        /\ UNCHANGED <<pc, failures, reg, closed, chan>>
    BY <1>8 DEF Panic, limits, Alive
  <2>2. UNCHANGED <<Count, W>> /\ Where(c) = pc[c]
    BY <2>1 DEF Count, Counted, Where
  <2>3. Coarse!Panic(c)
    BY <2>1, <2>2 DEF Coarse!Panic, Coarse!Sends, Sends
  <2> QED
    BY <2>1, <2>3 DEF Coarse!Next
<1>9. CASE LimiterClose \/ CloseChannel
  <2>1. UNCHANGED <<pc, failures, reg, crashed>> /\ ~crashed
    BY <1>9 DEF LimiterClose, CloseChannel, Alive
  <2>2. UNCHANGED <<Count, W>>
    BY <2>1 DEF Count, Counted, Where
  <2>3. Coarse!Close \/ Coarse!CloseChannel
    BY <1>9, <2>1, <2>2
    DEF LimiterClose, CloseChannel, MayCloseChannel, Coarse!Close, Coarse!CloseChannel
  <2> QED
    BY <2>1, <2>3 DEF Coarse!Next
<1>10. CASE MonitorReturns \/ SendStopped \/ LinkDown \/ LinkUp \/ UNCHANGED vars
  BY <1>7, <1>10 DEF MonitorReturns, SendStopped, LinkDown, LinkUp, limits, vars
<1> QED
  BY <1>1, <1>2, <1>3, <1>4, <1>5, <1>6, <1>8, <1>9, <1>10
  DEF Next, Work, Terminated, Succeed, Fail, GiveUp, ErrorReply

-----------------------------------------------------------------------------
(* Somebody keeps retrying.                                                  *)

\* A call ends with an error only through ReportResult; if it is a Ping, that
\* was an error reply.  The limiter is closed after the monitor has gone.
PingInv == /\ \A c \in Callers : c \in ending => pc[c] \in Failing
           /\ \A c \in pinging \cap ending : pingLost
           /\ closed => monitor = "gone"

\* While the last report is Failed a Ping is on its way: the monitor is about
\* to launch it, it has been launched, or its call has not ended.  Without one
\* a quiet host would never notice that Redis is back.
SomebodyRetries ==
  Last = "Failed" /\ ~raced /\ ~pingLost /\ monitor # "gone" =>
    monitor = "Failed" \/ pings > 0 \/ pinging # {}

RetryInv == PingInv /\ SomebodyRetries

\* Each step hands the duty to retry on, or ends it together with the failure.
LEMMA RetryStep ==
  TypeOK /\ CleanInv /\ RetryInv /\ [Next]_vars => RetryInv'
<1> SUFFICES ASSUME TypeOK, CleanInv, RetryInv, [Next]_vars PROVE RetryInv'
  OBVIOUS
<1> USE LimiterAssumption
    DEF LimiterAssumption, TypeOK, Labels, InReport, Succeeding, Failing, Sends,
        Alive, RetryInv, PingInv, SomebodyRetries
<1>0. UNCHANGED told => Last' = Last
  BY LastReport
<1>1. ASSUME NEW c \in Callers, StartPing(c) PROVE RetryInv'
  BY <1>0, <1>1 DEF StartPing, Goto, limits, overlaps, world, bounds
<1>2. ASSUME NEW c \in Callers, StartCall(c) PROVE RetryInv'
  BY <1>0, <1>2 DEF StartCall, Goto, limits, overlaps, world, bounds
<1>3. ASSUME NEW c \in Callers, Admit(c) PROVE RetryInv'
  BY <1>0, <1>3 DEF Admit, Refuses, Goto, limits, overlaps, world, bounds
<1>4. ASSUME NEW c \in Callers, Succeed(c) PROVE RetryInv'
  BY <1>0, <1>4 DEF Succeed, Enter, Touch, Goto, limits, overlaps, world, bounds
<1>5. ASSUME NEW c \in Callers, Fail(c) PROVE RetryInv'
  BY <1>0, <1>5 DEF Fail, Enter, Touch, Goto, limits, overlaps, world, bounds
<1>6. ASSUME NEW c \in Callers, GiveUp(c) PROVE RetryInv'
  BY <1>0, <1>6 DEF GiveUp, Enter, Touch, Goto, limits, overlaps, world, bounds
<1>7. ASSUME NEW c \in Callers, ErrorReply(c) PROVE RetryInv'
  BY <1>0, <1>7 DEF ErrorReply, Enter, Touch, Goto, limits, overlaps, world, bounds
<1>8. ASSUME NEW c \in Callers, Look(c) PROVE RetryInv'
  BY <1>0, <1>8 DEF Look, Goto, limits, overlaps, world, bounds
<1>9. ASSUME NEW c \in Callers, Reset(c) PROVE RetryInv'
  <2>1. ~raced => Last # "Failed"
    BY <1>9 DEF Reset, CleanInv, Knows
  <2> QED
    BY <1>0, <1>9, <2>1 DEF Reset, Goto, limits, overlaps, world, bounds
<1>10. ASSUME NEW c \in Callers, Load(c) PROVE RetryInv'
  BY <1>0, <1>10 DEF Load, Goto, limits, overlaps, world, bounds
<1>11. ASSUME NEW c \in Callers, Store(c) PROVE RetryInv'
  BY <1>0, <1>11 DEF Store, Goto, limits, overlaps, world, bounds
<1>12. ASSUME NEW c \in Callers, Judge(c) PROVE RetryInv'
  <2>1. CASE Leave(c)
    BY <1>0, <1>12, <2>1 DEF Judge, Leave, Goto, limits, overlaps, world, bounds
  <2>2. CASE Goto(c, "Failed") /\ UNCHANGED <<ending, pinging, reg>>
    BY <1>0, <1>12, <2>2 DEF Judge, Goto, limits, overlaps, world, bounds
  <2> QED
    BY <1>12, <2>1, <2>2 DEF Judge
<1>13. ASSUME NEW c \in Callers, Deliver(c) PROVE RetryInv'
  <2>1. SomebodyRetries'
    BY <1>13, LastReport DEF Deliver
  <2>2. PingInv'
    <3>1. CASE Leave(c)
      BY <1>13, <3>1 DEF Deliver, Leave, Goto, limits, world
    <3>2. CASE pc[c] # "Failed"
      BY <1>13, <3>2 DEF Deliver, Goto, limits, world
    <3> QED
      BY <1>13, <3>1, <3>2 DEF Deliver
  <2> QED
    BY <2>1, <2>2
<1>14. ASSUME NEW c \in Callers, Panic(c) PROVE RetryInv'
  BY <1>0, <1>14 DEF Panic, limits, overlaps, world, bounds
<1>15. CASE MonitorReturns
  BY <1>0, <1>15 DEF MonitorReturns, Spawns, limits, overlaps, world, bounds
<1>16. CASE SendStopped
  BY <1>0, <1>16 DEF SendStopped, limits, overlaps, world, bounds
<1>17. CASE LimiterClose
  BY <1>0, <1>17 DEF LimiterClose, overlaps, world, bounds
<1>18. CASE CloseChannel
  BY <1>0, <1>18 DEF CloseChannel, overlaps, world, bounds
<1>19. CASE LinkDown
  BY <1>0, <1>19 DEF LinkDown, limits, overlaps
<1>20. CASE LinkUp
  BY <1>0, <1>20 DEF LinkUp, limits, overlaps
<1>21. CASE UNCHANGED vars
  BY <1>0, <1>21 DEF vars
<1> QED
  BY <1>1, <1>2, <1>3, <1>4, <1>5, <1>6, <1>7, <1>8, <1>9, <1>10, <1>11,
     <1>12, <1>13, <1>14, <1>15, <1>16, <1>17, <1>18, <1>19, <1>20, <1>21
  DEF Next, Work, Terminated

-----------------------------------------------------------------------------
(* The calls that Close finds.                                               *)

\* A step of a call on a closed client brings it nearer to its end; only an
\* open client lets it begin another attempt.
Nearer(c) == closed /\ pc[c] # "idle" /\ pc'[c] # pc[c] =>
               Remaining(pc'[c]) < Remaining(pc[c])

LEMMA NearerStep == TypeOK /\ [Next]_vars => \A c \in Callers : Nearer(c)
<1> SUFFICES ASSUME TypeOK, [Next]_vars, NEW d \in Callers,
                    closed, pc[d] # "idle", pc'[d] # pc[d]
             PROVE  Remaining(pc'[d]) < Remaining(pc[d])
  BY DEF Nearer
<1> USE DEF TypeOK, Sends, Goto
<1>1. ASSUME NEW c \in Callers, StartPing(c) \/ StartCall(c)
      PROVE  FALSE
  BY <1>1 DEF StartPing, StartCall
<1>2. ASSUME NEW c \in Callers, Admit(c)
      PROVE  pc[d] = "allow" /\ pc'[d] = "idle"
  BY <1>2 DEF Admit, Refuses
<1>3. ASSUME NEW c \in Callers, Succeed(c) \/ Fail(c) \/ GiveUp(c) \/ ErrorReply(c)
      PROVE  pc[d] = "attempt" /\ pc'[d] \in {"first?", "load"}
  BY <1>3 DEF Succeed, Fail, GiveUp, ErrorReply, Enter
<1>4. ASSUME NEW c \in Callers, Look(c)
      PROVE  \/ pc[d] = "first?" /\ pc'[d] \in {"Connected", "failed?"}
             \/ pc[d] = "failed?" /\ pc'[d] \in {"Recovered", "reset"}
  BY <1>4 DEF Look
<1>5. ASSUME NEW c \in Callers, Reset(c) \/ Load(c) \/ Store(c)
      PROVE  \/ pc[d] = "reset" /\ pc'[d] = "idle"
             \/ pc[d] = "load"  /\ pc'[d] = "store"
             \/ pc[d] = "store" /\ pc'[d] = "report?"
  BY <1>5 DEF Reset, Load, Store
<1>6. ASSUME NEW c \in Callers, Judge(c)
      PROVE  pc[d] = "report?" /\ pc'[d] \in {"Failed", "idle", "allow"}
  BY <1>6 DEF Judge, Leave
<1>7. ASSUME NEW c \in Callers, Deliver(c)
      PROVE  \/ pc[d] = "Connected" /\ pc'[d] = "failed?"
             \/ pc[d] = "Recovered" /\ pc'[d] = "reset"
             \/ pc[d] = "Failed" /\ pc'[d] \in {"idle", "allow"}
  BY <1>7 DEF Deliver, Leave
<1>8. ASSUME UNCHANGED pc PROVE FALSE
  BY <1>8
<1>9. \/ pc[d] = "attempt" /\ pc'[d] \in {"first?", "load"}
      \/ pc[d] = "first?" /\ pc'[d] \in {"Connected", "failed?"}
      \/ pc[d] = "load" /\ pc'[d] = "store"
      \/ pc[d] = "Connected" /\ pc'[d] = "failed?"
      \/ pc[d] = "store" /\ pc'[d] = "report?"
      \/ pc[d] = "failed?" /\ pc'[d] \in {"Recovered", "reset"}
      \/ pc[d] = "report?" /\ pc'[d] \in {"Failed", "idle", "allow"}
      \/ pc[d] = "Recovered" /\ pc'[d] = "reset"
      \/ pc[d] = "Failed" /\ pc'[d] \in {"idle", "allow"}
      \/ pc[d] \in {"allow", "reset"} /\ pc'[d] = "idle"
  BY <1>1, <1>2, <1>3, <1>4, <1>5, <1>6, <1>7, <1>8
  DEF Next, Work, Terminated, Panic, MonitorReturns, SendStopped, LimiterClose,
      CloseChannel, LinkDown, LinkUp, vars
<1> HIDE DEF TypeOK, Sends, Goto
<1> QED
  BY <1>9 DEF Remaining

-----------------------------------------------------------------------------
(* The theorems.                                                             *)

IInv == TypeOK /\ CleanInv /\ CloseInv

\* The invariant the properties below follow from holds in every state.
THEOREM Invariance == Spec => []IInv
<1>1. Init => CleanInv /\ CloseInv
  <2> SUFFICES ASSUME Init PROVE CleanInv /\ CloseInv
    OBVIOUS
  <2>1. \A c \in Callers : pc[c] = "idle" /\ late[c] = 0
    BY DEF Init
  <2>2. Last = "none"
    BY DEF Init, Last, Promise!LastOf
  <2> QED
    BY <2>1, <2>2
    DEF Init, CleanInv, Agree, Overlapping, Knows, InReport, Succeeding, Failing,
        CloseInv, LateInv, QuietInv
<1> QED
  BY <1>1, TypeCorrect, CleanStep, CloseStep, PTL DEF Spec, IInv

\* IsRetrying agrees with the last report whenever no result is being reported.
THEOREM Retrying == Spec => []RetryingMeansFailed
<1>1. IInv => RetryingMeansFailed
  BY DEF IInv, CleanInv, Agree, RetryingMeansFailed
<1> QED
  BY <1>1, Invariance, PTL

\* A call makes at most one attempt after the limiter is closed, and closing a
\* client with no call past Allow never makes the process panic.
THEOREM Closing == Spec => []CloseIsOrderly
<1>1. IInv => OneAttemptAfterClose
  BY DEF IInv, CloseInv, LateInv, OneAttemptAfterClose
<1>2. IInv => QuietCloseIsSafe
  BY DEF IInv, CloseInv, QuietInv, QuietCloseIsSafe
<1> QED
  BY <1>1, <1>2, Invariance, PTL DEF CloseIsOrderly

\* On a closed client every call only goes towards its end, and so, being given
\* time and a result, ends, whatever other callers and Redis do.
THEOREM Ending == Spec => ClosedCallsEnd
<1>1. TypeOK /\ [Next]_vars => [\A c \in Callers : Nearer(c)]_vars
  BY NearerStep
<1> QED
  BY <1>1, TypeCorrect, PTL DEF Spec, ClosedCallsEnd, Nearer

\* Until results overlap, the client keeps the promise of ConnectionReports.
THEOREM Implements == Spec => ReportsInOrder
<1> DEFINE bar == IF monitor = "gone" THEN Append(told, "Stopped") ELSE told
<1>1. Init => Promise!Init
  BY DEF Init, Promise!Init
<1>2. IInv /\ [Next]_vars => [Promise!Next]_bar
  <2> SUFFICES ASSUME IInv, [Next]_vars PROVE Promise!Next \/ bar' = bar
    OBVIOUS
  <2> USE DEF IInv, TypeOK, Sends
  <2>1. ASSUME NEW c \in Callers, Deliver(c) PROVE Promise!Next \/ bar' = bar
    <3>1. monitor = "ready" /\ monitor' = pc[c] /\ pc[c] \in Sends
      BY <2>1 DEF Deliver
    <3>2. CASE raced
      BY <2>1, <3>1, <3>2 DEF Deliver
    <3>3. CASE ~raced
      <4>1. bar = told /\ bar' = Append(bar, pc[c])
        BY <2>1, <3>1, <3>3 DEF Deliver
      <4>2. Knows(c) /\ Last \in {"none", "Connected", "Recovered", "Failed"}
        BY <3>3 DEF CleanInv, Last, Promise!LastOf
      <4>3. Promise!Follows(pc[c], Promise!LastOf(bar))
        BY <3>1, <4>1, <4>2 DEF Knows, Promise!Follows, Last, Promise!LastOf
      <4> QED
        BY <3>1, <4>1, <4>3 DEF Promise!Next, Promise!Receive, Promise!Reports
    <3> QED
      BY <3>2, <3>3
  <2>2. CASE SendStopped
    <3>1. bar = told /\ bar' = Append(bar, "Stopped")
      BY <2>2 DEF SendStopped
    <3>2. Promise!LastOf(told) \in Sends \cup {"none"}
      BY DEF Promise!LastOf
    <3> QED
      BY <3>1, <3>2
      DEF Promise!Next, Promise!Receive, Promise!Reports, Promise!Follows
  <2>3. CASE UNCHANGED <<told, monitor>>
    BY <2>3
  <2>4. CASE MonitorReturns
    BY <2>4 DEF MonitorReturns
  <2> QED
    BY <2>1, <2>2, <2>3, <2>4
    DEF Next, Work, Terminated, StartPing, StartCall, Admit, Succeed, Fail, GiveUp,
        ErrorReply, Enter, Look, Reset, Load, Store, Judge, Panic, LimiterClose,
        CloseChannel, LinkDown, LinkUp, vars
<1> QED
  BY <1>1, <1>2, Invariance, PTL DEF Spec, ReportsInOrder, Promise!Spec

\* From every reported failure on somebody retries, up to a recovery, a race
\* of two results, an error reply to the Ping or Close.
THEOREM Retries == Spec => []SomebodyRetries
<1>1. Init => RetryInv
  BY DEF Init, RetryInv, PingInv, SomebodyRetries, Last, Promise!LastOf
<1>2. IInv => TypeOK /\ CleanInv
  BY DEF IInv
<1>3. RetryInv => SomebodyRetries
  BY DEF RetryInv
<1> QED
  BY <1>1, <1>2, <1>3, Invariance, RetryStep, PTL DEF Spec

\* Up to the first time that two callers work on the count at once the client
\* implements CoarseLimiter, in which a result is counted in one step.
THEOREM OneByOne == Spec => CountsOneByOne
<1>1. Init => MoverInv /\ Coarse!Init
  <2> SUFFICES ASSUME Init PROVE MoverInv /\ Coarse!Init
    OBVIOUS
  <2>1. \A c \in Callers : pc[c] = "idle" /\ pc[c] \notin Moving /\ Where(c) = "out"
    BY DEF Init, Moving, InReport, Succeeding, Failing, Sends, Where
  <2>2. Count = -1
    BY <2>1 DEF Init, Count
  <2> QED
    BY <2>1, <2>2 DEF Init, MoverInv, Coarse!Init
<1>2. TypeOK /\ MoverInv /\ [Next]_vars => [torn' \/ Coarse!Next]_seen
  BY CoarseStep
<1> QED
  BY <1>1, <1>2, TypeCorrect, MoverStep, PTL DEF Spec, CountsOneByOne
=============================================================================
