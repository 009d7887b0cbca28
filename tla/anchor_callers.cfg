SPECIFICATION Spec
CONSTANTS
  Assets = {artifact}
  Manifested = {artifact}
  Callers = {c1, c2}
  Depth <- MCDepth
  QueueCap = 1
  MaxItems = 1
  ListLimit = 1
  MaxBlocks = 3
  MaxEpoch = 2
SYMMETRY CallerSymmetry
INVARIANTS
  RecordsConsistent
  DeposedIsObserved
PROPERTIES
  ConfirmedOnlyWhenDeep
CHECK_DEADLOCK FALSE
