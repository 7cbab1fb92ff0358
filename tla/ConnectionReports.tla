------------------------- MODULE ConnectionReports -------------------------
(* What the states of a reconnecting Redis client promise to the one that   *)
(* receives them (the ConnectionState constants of internal/redis/redis.go  *)
(* and the switch in cmd/telemd/main.go): Connected can only come first,    *)
(* failures and recoveries alternate, nothing follows Stopped.              *)
EXTENDS Sequences, Naturals

VARIABLE told   \* the states received so far, in order

Reports == {"Connected", "Failed", "Recovered", "Stopped"}

LastOf(s) == IF s = << >> THEN "none" ELSE s[Len(s)]

\* Which reports may come after l.
Follows(r, l) ==
  \/ r = "Connected" /\ l = "none"
  \/ r = "Failed"    /\ l \in {"none", "Connected", "Recovered"}
  \/ r = "Recovered" /\ l = "Failed"
  \/ r = "Stopped"   /\ l # "Stopped"

Init == told = << >>

Receive(r) == /\ Follows(r, LastOf(told))
              /\ told' = Append(told, r)

Next == \E r \in Reports : Receive(r)

Spec == Init /\ [][Next]_told
=============================================================================
