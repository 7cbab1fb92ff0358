\* Two measurements can overlap or follow each other; two parts can be lost
\* one by one; two directories are listed at different times.  One change is enough
\* for each way in which a part comes or goes: it may be gone from the start.
SPECIFICATION FairSpec
CONSTANTS
  Calls = {1, 2}
  Parts = {p1, p2}
  Dirs = {1, 2}
  MaxChanges = 1
\* Measurements and changes are finitely many, and a crash ends everything.
CHECK_DEADLOCK FALSE
INVARIANTS
  TypeOK
  SteadyPartsAreReported
  SteadyHostsDoNotCrash
PROPERTIES
  ReportsKeepOrder
  MeasurementsReturn
