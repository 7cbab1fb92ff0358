---------------------------- MODULE CoarseLimiter ----------------------------
(* What the reconnecting Redis client is to a program that uses it, when the *)
(* result of an attempt is counted in one step (internal/redis/limiter.go):  *)
(* a goroutine is out of the limiter's hands, between Allow and the result   *)
(* of its attempt, or it blocks with a report that nobody has received.      *)
(*                                                                           *)
(* Limiter implements this until two results are worked on at once; Telemd,  *)
(* which knows no smaller steps, implements it always.                       *)
EXTENDS Integers

CONSTANTS Goroutines,
          Cap          \* failures beyond Cap are counted as Cap

VARIABLES
  count,    \* limiter.connectionFailures
  closed,   \* limiter.closed
  chan,     \* the ConnectionState channel: "open" or "closed"
  where,    \* where[g]: "out", in an "attempt", or the report g sends
  crashed   \* a send on the closed channel has ended the process

Sends == {"Connected", "Recovered", "Failed"}

Init ==
  /\ count = -1 /\ closed = FALSE /\ chan = "open"
  /\ where = [g \in Goroutines |-> "out"]
  /\ crashed = FALSE

Goto(g, place) == where' = [where EXCEPT ![g] = place]

\* A refused call stays out, and so does one in its back-off.
Allow(g) ==
  /\ where[g] = "out" /\ ~closed
  /\ Goto(g, "attempt")
  /\ UNCHANGED <<count, closed, chan, crashed>>

\* ReportResult(nil) goes on where the count is above zero, or to its end.
Recover(g) ==
  /\ Goto(g, IF count > 0 THEN "Recovered" ELSE "out")
  /\ count' = IF count > 0 THEN count ELSE 0

Succeed(g) ==
  /\ where[g] = "attempt"
  /\ IF count = -1 THEN Goto(g, "Connected") /\ UNCHANGED count ELSE Recover(g)
  /\ UNCHANGED <<closed, chan, crashed>>

\* ReportResult(err)
Fail(g) ==
  /\ where[g] = "attempt"
  /\ count' = IF count < Cap THEN count + 1 ELSE Cap
  /\ Goto(g, IF count' = 1 THEN "Failed" ELSE "out")
  /\ UNCHANGED <<closed, chan, crashed>>

\* The monitor receives g's report; in between others may have counted.
Deliver(g) ==
  /\ where[g] \in Sends /\ chan = "open"
  /\ \/ where[g] = "Connected" /\ Recover(g)
     \/ where[g] = "Recovered" /\ Goto(g, "out") /\ count' = 0
     \/ where[g] = "Failed" /\ Goto(g, "out") /\ UNCHANGED count
  /\ UNCHANGED <<closed, chan, crashed>>

Panic(g) ==
  /\ where[g] \in Sends /\ chan = "closed"
  /\ crashed' = TRUE
  /\ UNCHANGED <<count, closed, chan, where>>

Close ==
  /\ closed' = TRUE
  /\ UNCHANGED <<count, chan, where, crashed>>

CloseChannel ==
  /\ closed
  /\ chan' = "closed"
  /\ UNCHANGED <<count, closed, where, crashed>>

Next ==
  /\ ~crashed
  /\ \/ Close
     \/ CloseChannel
     \/ \E g \in Goroutines :
          Allow(g) \/ Succeed(g) \/ Fail(g) \/ Deliver(g) \/ Panic(g)

Spec == Init /\ [][Next]_<<count, closed, chan, where, crashed>>
=============================================================================
