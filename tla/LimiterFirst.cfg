SPECIFICATION Spec
CONSTANTS
  c1 = c1
  Callers = {c1}
  Cap = 2
  MaxCalls = 1
  MaxOutages = 0
  MaxErrorReplies = 0
INVARIANT FirstConnectionIsReported
