------------------------------ MODULE MCConfig ------------------------------
EXTENDS Config

\* A layer that sets nothing.
Blank == [name |-> Unset, url |-> FALSE, host |-> FALSE, port |-> FALSE,
          proc |-> FALSE, devices |-> FALSE, backoff |-> Unset,
          period |-> Unset, enable |-> Nothing, disable |-> Nothing]

\* Variables that meet in the code vary together, the others one at a time.
NameAndDevices == {[Blank EXCEPT !.name = n, !.devices = d] :
                     n \in Names \cup {Unset}, d \in BOOLEAN}
Redis == {[Blank EXCEPT !.url = u, !.host = h, !.port = p] :
            u, h, p \in BOOLEAN}
Durations == {[Blank EXCEPT !.backoff = b, !.period = p, !.proc = m] :
                b \in {Unset, "valid", "invalid"},
                p \in {Unset, "valid", "invalid"}, m \in {FALSE}}
             \cup {[Blank EXCEPT !.proc = TRUE]}
Choice == {[Blank EXCEPT !.enable = e, !.disable = d] :
             e \in {Nothing, {}, Instruments, {Strange}},
             d \in {Nothing, {}} \cup {{i} : i \in Instruments}}

MCGroups == {NameAndDevices, Redis, Durations, Choice}
=============================================================================
