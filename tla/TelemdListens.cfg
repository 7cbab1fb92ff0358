SPECIFICATION FairSpec
CONSTANTS
  s1 = s1
  r1 = r1
  p1 = p1
  Servers = {s1}
  Reporters = {r1}
  Pingers = {p1}
  MaxOutages = 1
  MaxCalls = 1
  MaxSignals = 1
\* The process ends, and real deadlocks are there to be found (Wedged).
CHECK_DEADLOCK FALSE
PROPERTIES
  HostKeepsListening
