SPECIFICATION Spec
CONSTANTS
  n1 = n1
  n2 = n2
  i1 = i1
  i2 = i2
  Names = {n1, n2}
  Instruments = {i1, i2}
  Strange = strange
  Groups <- MCGroups
\* Loading the configuration ends.
CHECK_DEADLOCK FALSE
INVARIANT DocumentedLayers
