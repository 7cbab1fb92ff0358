SPECIFICATION Spec
CONSTANTS
  s1 = s1
  s2 = s2
  r1 = r1
  r2 = r2
  p1 = p1
  Servers = {s1, s2}
  Reporters = {r1, r2}
  Pingers = {p1}
  MaxOutages = 1
  MaxCalls = 1
  MaxSignals = 0
SYMMETRY Symmetry
\* The process ends, and real deadlocks are there to be found (Wedged).
CHECK_DEADLOCK FALSE
INVARIANT ConnectedHostReports
