\* Two callers are enough for every lost update and every race of two reports;
\* the count distinguishes -1, 0, 1 and more.
SPECIFICATION Spec
CONSTANTS
  c1 = c1
  c2 = c2
  Callers = {c1, c2}
  Cap = 2
  MaxCalls = 1
  MaxOutages = 1
  MaxErrorReplies = 1
SYMMETRY CallerSymmetry
INVARIANTS
  TypeOK
  RetryingMeansFailed
  CloseIsOrderly
PROPERTIES
  ReportsInOrder
  CountsOneByOne
  ClosedCallsEnd
