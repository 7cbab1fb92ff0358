SPECIFICATION FairSpec
CONSTANTS
  c1 = c1
  c2 = c2
  p1 = p1
  p2 = p2
  m1 = m1
  m2 = m2
  NoPid = NoPid
  Containers = {c1, c2}
  Pids = {p1, p2}
  Calls = {m1, m2}
  StartPids <- MCStartPids
  MaxFaults = 3
\* The runtime may end the process (Noticed).
CHECK_DEADLOCK FALSE
INVARIANTS
  TypeOK
  LoneCallsAreSafe
PROPERTIES
  TrafficIsAttributed
  RunningContainersAreMeasured
