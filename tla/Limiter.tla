------------------------------ MODULE Limiter ------------------------------
(* The reconnecting Redis client: internal/redis/limiter.go and redis.go.   *)
(*                                                                          *)
(* Goroutines call the go-redis client concurrently.  For each attempt of a *)
(* call the client asks limiter.Allow and, after the attempt, tells         *)
(* limiter.ReportResult; a failed attempt is repeated (MaxRetries is        *)
(* MaxInt32) unless the server answered with an error or go-redis does not  *)
(* retry that command.  The limiter counts failures without a lock and      *)
(* sends what it makes of the count to the monitor goroutine of main.go     *)
(* over an unbuffered channel.  The monitor appears here only as the one    *)
(* that receives, is busy and may come back: while it is busy it can hang   *)
(* (main.go:59, 65; Telemd).                                                *)
EXTENDS Integers, Sequences

CONSTANTS Callers,         \* goroutines that can be in a Redis call
          Cap,             \* failures beyond Cap are counted as Cap
          MaxCalls,        \* bound: calls other than the pings of main.go
          MaxOutages,      \* bound: how often Redis becomes unreachable
          MaxErrorReplies  \* bound: how often Redis answers with an error

ASSUME LimiterAssumption == /\ Cap \in Nat /\ Cap > 1
                            /\ MaxCalls \in Nat
                            /\ MaxOutages \in Nat
                            /\ MaxErrorReplies \in Nat

VARIABLES
  failures,  \* limiter.connectionFailures
  closed,    \* limiter.closed
  chan,      \* the ConnectionState channel: "open" or "closed"
  monitor,   \* "ready" to receive, the report it is busy with, or "gone"
  pings,     \* `go Client.Ping()` statements whose goroutine has not called yet
  pc,        \* pc[c]: where caller c is in its call, "idle" outside
  reg,       \* reg[c]: the incremented count that c has not stored yet
  pinging,   \* the callers whose call is a Ping
  ending,    \* the callers whose call ends with the error of this attempt
  link,      \* is Redis reachable: "up" or "down"
  calls, outages, errorReplies,  \* how often these have happened
  crashed,   \* the process has panicked: send on a closed channel
  told,      \* history: the reports received before calls overlapped
  raced,     \* history: two callers have been in ReportResult at once
  torn,      \* history: two of them at once in steps on the count, not one
             \* blocked with a report
  pingLost,  \* history: a Ping has been answered with an error
  late,      \* history: c's attempts after limiter.close (2 is 2 or more)
  admitted   \* history: a call was past Allow when limiter.close came

bounds  == <<calls, outages, errorReplies>>
world   == <<link, bounds, pingLost>>
limits  == <<closed, chan, admitted>>
overlaps == <<raced, torn>>
vars == <<failures, closed, chan, monitor, pings, pc, reg, pinging, ending,
          link, calls, outages, errorReplies, crashed, told, raced, torn,
          pingLost, late, admitted>>

Sends       == {"Connected", "Recovered", "Failed"}
Succeeding  == {"first?", "Connected", "failed?", "Recovered", "reset"}
Failing     == {"load", "store", "report?", "Failed"}
InReport    == Succeeding \cup Failing
Moving      == InReport \ Sends
Labels      == {"idle", "allow", "attempt"} \cup InReport

\* Every variable has its type; the count the limiter works with starts at -1.
\* A result that has not been stored is one that has been counted up.
TypeOK ==
  /\ failures \in -1 .. Cap
  /\ closed \in BOOLEAN
  /\ chan \in {"open", "closed"}
  /\ monitor \in {"ready", "gone"} \cup Sends
  /\ pings \in Nat
  /\ pc \in [Callers -> Labels]
  /\ reg \in [Callers -> -1 .. Cap]
  /\ \A c \in Callers : pc[c] \in {"store", "report?"} => reg[c] >= 0
  /\ pinging \in SUBSET Callers /\ ending \in SUBSET Callers
  /\ link \in {"up", "down"}
  /\ calls \in 0 .. MaxCalls
  /\ outages \in 0 .. MaxOutages
  /\ errorReplies \in 0 .. MaxErrorReplies
  /\ crashed \in BOOLEAN
  /\ told \in Seq(Sends)
  /\ raced \in BOOLEAN /\ torn \in BOOLEAN /\ pingLost \in BOOLEAN
  /\ late \in [Callers -> 0 .. 2]
  /\ admitted \in BOOLEAN

\* main.go makes the client and starts the monitor and a first Ping.
Init ==
  /\ failures = -1
  /\ closed = FALSE /\ chan = "open"
  /\ monitor = "ready"
  /\ pings = 1
  /\ pc = [c \in Callers |-> "idle"]
  /\ reg = [c \in Callers |-> -1]
  /\ pinging = {} /\ ending = {}
  /\ link \in {"up", "down"}
  /\ calls = 0 /\ outages = 0 /\ errorReplies = 0
  /\ crashed = FALSE
  /\ told = << >> /\ raced = FALSE /\ torn = FALSE /\ pingLost = FALSE
  /\ late = [c \in Callers |-> 0]
  /\ admitted = FALSE

\* A panic ends the process.
Alive == ~crashed

Goto(c, label) == pc' = [pc EXCEPT ![c] = label]

\* c begins to work on the count; is somebody else at it?
Touch(c) == torn' = (torn \/ \E d \in Callers \ {c} : pc[d] \in Moving)

----------------------------------------------------------------------------
(* A call: Allow.                                                           *)

StartPing(c) ==
  /\ Alive /\ pc[c] = "idle" /\ pings > 0
  /\ pings' = pings - 1
  /\ pinging' = pinging \cup {c}
  /\ Goto(c, "allow")
  /\ UNCHANGED <<failures, limits, monitor, reg, ending, world, crashed, told,
                 overlaps, late>>

StartCall(c) ==
  /\ Alive /\ pc[c] = "idle" /\ calls < MaxCalls
  /\ calls' = calls + 1
  /\ Goto(c, "allow")
  /\ UNCHANGED <<failures, limits, monitor, pings, reg, pinging, ending, link,
                 outages, errorReplies, pingLost, crashed, told, overlaps,
                 late>>

\* A closed limiter answers with ClientClosedError, which ends the call. What
\* Allow does otherwise, a back-off after a failure, is time passing before the
\* attempt; close does not cut it short and closed is not read again after it.
NeverRefuses(isClosed) == FALSE  \* mutant: Allow does not look at closed
Refuses(isClosed) == isClosed

Admit(c) ==
  /\ Alive /\ pc[c] = "allow"
  /\ Goto(c, IF Refuses(closed) THEN "idle" ELSE "attempt")
  /\ pinging' = IF Refuses(closed) THEN pinging \ {c} ELSE pinging
  /\ UNCHANGED <<failures, limits, monitor, pings, reg, ending, world, crashed,
                 told, overlaps, late>>

----------------------------------------------------------------------------
(* The attempt, inside go-redis; its result goes to ReportResult.           *)

\* An attempt has ended and ReportResult is entered at label.
Enter(c, label) ==
  /\ Alive /\ pc[c] = "attempt"
  /\ Goto(c, label)
  /\ raced' = (raced \/ \E d \in Callers \ {c} : pc[d] \in InReport)
  /\ Touch(c)
  /\ late' = [late EXCEPT ![c] = IF closed /\ @ < 2 THEN @ + 1 ELSE @]
  /\ UNCHANGED <<failures, limits, monitor, pings, reg, pinging, link, calls,
                 outages, crashed, told>>

Succeed(c) ==
  /\ link = "up"
  /\ Enter(c, "first?")
  /\ UNCHANGED <<ending, errorReplies, pingLost>>

\* Redis cannot be reached: the call will be retried.
Fail(c) ==
  /\ link = "down"
  /\ Enter(c, "load")
  /\ UNCHANGED <<ending, errorReplies, pingLost>>

\* The same for a command that go-redis does not retry: a pipeline, such as the
\* node info, that did not get a connection.
GiveUp(c) ==
  /\ link = "down" /\ c \notin pinging
  /\ Enter(c, "load")
  /\ ending' = ending \cup {c}
  /\ UNCHANGED <<errorReplies, pingLost>>

\* Redis answers with an error: a failure too, but one that ends the call.
ErrorReply(c) ==
  /\ link = "up" /\ errorReplies < MaxErrorReplies
  /\ Enter(c, "load")
  /\ errorReplies' = errorReplies + 1
  /\ ending' = ending \cup {c}
  /\ pingLost' = (pingLost \/ c \in pinging)

----------------------------------------------------------------------------
(* ReportResult: every read and write of the count is a step of its own.    *)

\* The steps of ReportResult that only read the count.
Look(c) ==
  /\ Alive /\ pc[c] \in {"first?", "failed?"}
  /\ Goto(c, IF pc[c] = "first?"
             THEN IF failures = -1 THEN "Connected" ELSE "failed?"
             ELSE IF failures > 0 THEN "Recovered" ELSE "reset")
  /\ UNCHANGED <<failures, limits, monitor, pings, reg, pinging, ending, world,
                 crashed, told, overlaps, late>>

\* connectionFailures = 0, after which the call returns its result.
Reset(c) ==
  /\ Alive /\ pc[c] = "reset"
  /\ failures' = 0
  /\ pinging' = pinging \ {c}
  /\ Goto(c, "idle")
  /\ UNCHANGED <<limits, monitor, pings, reg, ending, world, crashed, told,
                 overlaps, late>>

\* connectionFailures++ is a load and a store.
NoIncrement(n) == n  \* mutant: the failure is not counted
Increment(n) == IF n < Cap THEN n + 1 ELSE Cap

Load(c) ==
  /\ Alive /\ pc[c] = "load"
  /\ reg' = [reg EXCEPT ![c] = Increment(failures)]
  /\ Goto(c, "store")
  /\ UNCHANGED <<failures, limits, monitor, pings, pinging, ending, world,
                 crashed, told, overlaps, late>>

Store(c) ==
  /\ Alive /\ pc[c] = "store"
  /\ failures' = reg[c]
  /\ Goto(c, "report?")
  /\ UNCHANGED <<limits, monitor, pings, reg, pinging, ending, world, crashed,
                 told, overlaps, late>>

\* ReportResult(err) is over: the call is retried or returns the error.
Leave(c) ==
  /\ Goto(c, IF c \in ending THEN "idle" ELSE "allow")
  /\ ending' = ending \ {c}
  /\ pinging' = IF c \in ending THEN pinging \ {c} ELSE pinging
  /\ reg' = [reg EXCEPT ![c] = -1]

\* Only the first failure of a series is reported.
FirstEver(n) == n = 0    \* mutant: reports the failure that makes -1 a 0
EveryFailure(n) == n > 0 \* mutant: reports each failure of a series
FirstOfSeries(n) == n = 1

\* `if connectionFailures == 1`: the compiler may use the value it has just
\* stored or read the variable again.
Judge(c) ==
  /\ Alive /\ pc[c] = "report?"
  /\ \E n \in {reg[c], failures} :
       IF FirstOfSeries(n)
       THEN Goto(c, "Failed") /\ UNCHANGED <<ending, pinging, reg>>
       ELSE Leave(c)
  /\ UNCHANGED <<failures, limits, monitor, pings, world, crashed, told, overlaps,
                 late>>

\* A sender and the monitor meet at the channel.
Deliver(c) ==
  /\ Alive /\ pc[c] \in Sends /\ chan = "open" /\ monitor = "ready"
  /\ monitor' = pc[c]
  /\ told' = IF raced THEN told ELSE Append(told, pc[c])
  /\ \/ /\ pc[c] = "Failed" /\ Leave(c) /\ UNCHANGED torn
     \/ /\ pc[c] # "Failed" /\ Touch(c)
        /\ Goto(c, IF pc[c] = "Connected" THEN "failed?" ELSE "reset")
        /\ UNCHANGED <<ending, pinging, reg>>
  /\ UNCHANGED <<failures, limits, pings, world, crashed, raced, late>>

\* A send on a closed channel panics, also for a sender that was blocked.
Panic(c) ==
  /\ Alive /\ pc[c] \in Sends /\ chan = "closed"
  /\ crashed' = TRUE
  /\ UNCHANGED <<failures, limits, monitor, pings, pc, reg, pinging, ending,
                 world, told, overlaps, late>>

----------------------------------------------------------------------------
(* The monitor, ReconnectingClient.Close and Redis itself.                  *)

\* A Failed makes the monitor launch a Ping, so that some call is retried.
Spawns(r) == IF r = "Failed" THEN 1 ELSE 0

\* It may also never return from what it does about the report.
MonitorReturns ==
  /\ Alive /\ monitor \in Sends
  /\ pings' = pings + Spawns(monitor)
  /\ monitor' = "ready"
  /\ UNCHANGED <<failures, limits, pc, reg, pinging, ending, world, crashed,
                 told, overlaps, late>>

SendStopped ==
  /\ Alive /\ monitor = "ready"
  /\ monitor' = "gone"
  /\ UNCHANGED <<failures, limits, pings, pc, reg, pinging, ending, world,
                 crashed, told, overlaps, late>>

\* The order of the last two statements of Close.
ChannelAnyTime(cl) == TRUE  \* mutant: the channel may be closed first
MayCloseChannel(cl) == cl

LimiterClose ==
  /\ Alive /\ monitor = "gone" /\ ~closed
  /\ closed' = TRUE
  /\ admitted' = \E c \in Callers : pc[c] \notin {"idle", "allow"}
  /\ UNCHANGED <<failures, chan, monitor, pings, pc, reg, pinging, ending,
                 world, crashed, told, overlaps, late>>

CloseChannel ==
  /\ Alive /\ monitor = "gone" /\ chan = "open" /\ MayCloseChannel(closed)
  /\ chan' = "closed"
  /\ UNCHANGED <<failures, closed, admitted, monitor, pings, pc, reg, pinging,
                 ending, world, crashed, told, overlaps, late>>

LinkDown ==
  /\ Alive /\ link = "up" /\ outages < MaxOutages
  /\ link' = "down" /\ outages' = outages + 1
  /\ UNCHANGED <<failures, limits, monitor, pings, pc, reg, pinging, ending,
                 calls, errorReplies, pingLost, crashed, told, overlaps,
                 late>>

LinkUp ==
  /\ Alive /\ link = "down"
  /\ link' = "up"
  /\ UNCHANGED <<failures, limits, monitor, pings, pc, reg, pinging, ending,
                 bounds, pingLost, crashed, told, overlaps, late>>

\* The process has panicked, or no call is left and the bounds are used up.
Terminated ==
  /\ crashed \/ \A c \in Callers : pc[c] = "idle"
  /\ UNCHANGED vars

Work(c) == \/ Admit(c)
           \/ Succeed(c) \/ Fail(c) \/ GiveUp(c) \/ ErrorReply(c)
           \/ Look(c) \/ Reset(c)
           \/ Load(c) \/ Store(c) \/ Judge(c)
           \/ Panic(c)

Next == \/ \E c \in Callers : StartPing(c)
        \/ \E c \in Callers : StartCall(c)
        \/ \E c \in Callers : Work(c)
        \/ \E c \in Callers : Deliver(c)
        \/ MonitorReturns
        \/ SendStopped
        \/ LimiterClose
        \/ CloseChannel
        \/ LinkDown
        \/ LinkUp
        \/ Terminated

Spec == Init /\ [][Next]_vars

----------------------------------------------------------------------------
(* Properties.                                                              *)

\* Until two results are reported at once the monitor gets what the constants
\* of ConnectionState promise: Connected only first, Failed and Recovered in
\* turn, nothing after Stopped.
Promise == INSTANCE ConnectionReports
  WITH told <- IF monitor = "gone" THEN Append(told, "Stopped") ELSE told
ReportsInOrder == Promise!Spec

\* Where a caller is, and what the count is, for one who sees results counted
\* in one step: at the moment an attempt ends, or a send is over.
Counted(c) ==
  IF pc[c] = "load" THEN IF failures < Cap THEN failures + 1 ELSE Cap
  ELSE IF pc[c] = "store" THEN reg[c]
  ELSE IF pc[c] = "reset" \/ (pc[c] = "failed?" /\ failures <= 0) THEN 0
  ELSE failures
Count == IF \E c \in Callers : pc[c] \in Moving
         THEN Counted(CHOOSE c \in Callers : pc[c] \in Moving)
         ELSE failures
Where(c) ==
  IF pc[c] \in Sends \cup {"attempt"} THEN pc[c]
  ELSE IF pc[c] = "first?" /\ failures = -1 THEN "Connected"
  ELSE IF pc[c] \in {"first?", "failed?"} /\ failures > 0 THEN "Recovered"
  ELSE IF pc[c] \in {"load", "store", "report?"} /\ Counted(c) = 1 THEN "Failed"
  ELSE "out"

Coarse == INSTANCE CoarseLimiter
  WITH Goroutines <- Callers, count <- Count, where <- [c \in Callers |-> Where(c)]
seen == <<Count, closed, chan, [c \in Callers |-> Where(c)], crashed>>

\* However many calls there are, and whatever others count while one blocks with
\* its report, results are counted one after the other, up to the first time
\* that two callers work on the unlocked count at once.
CountsOneByOne == Coarse!Init /\ [][torn' \/ Coarse!Next]_seen

Last == Promise!LastOf(told)

Overlapping == \E c \in Callers : pc[c] \in InReport

\* While no result is being reported the count agrees with what the monitor
\* was told: IsRetrying (count > 0), which shutdown uses to decide whether to
\* remove the node's info, is true exactly if the last report was Failed.
RetryingMeansFailed ==
  ~raced /\ ~Overlapping => (failures > 0 <=> Last = "Failed")

\* Closing the limiter lets a call that has passed Allow make one more attempt
\* (the back-off is not interrupted), never two.
OneAttemptAfterClose == \A c \in Callers : late[c] <= 1

\* Close can make the process panic only by calls already past Allow when it
\* closes the limiter: closing a quiet client is safe.
QuietCloseIsSafe == crashed => admitted

\* What Close leaves to the calls that are under way, and does to no others.
CloseIsOrderly == OneAttemptAfterClose /\ QuietCloseIsSafe

\* How far a call is from its end.
Remaining(label) ==
  CASE label = "idle" -> 0
    [] label \in {"allow", "reset"} -> 1
    [] label \in {"Failed", "Recovered"} -> 2
    [] label \in {"report?", "failed?"} -> 3
    [] label \in {"store", "Connected"} -> 4
    [] label \in {"load", "first?"} -> 5
    [] label = "attempt" -> 6

\* A closed client ends every call, whatever Redis does: from wherever Close
\* finds a call, and whatever the results of the attempts of others, the retry
\* loop of MaxInt32 rounds only brings it nearer to its end.
ClosedCallsEnd ==
  [][\A c \in Callers : closed /\ pc[c] # "idle" /\ pc'[c] # pc[c] =>
       Remaining(pc'[c]) < Remaining(pc[c])]_vars

\* limiter.go:62 "report only on first connection (-1) and on recovery (> 0)",
\* redis.go:12 "Connected ... // first connection": when ReportResult is done
\* with a success, the monitor has been told of some connection.
FirstConnectionIsReported ==
  \A c \in Callers : pc[c] = "reset" /\ ~raced => Last # "none"
=============================================================================
