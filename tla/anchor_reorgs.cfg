SPECIFICATION FairSpec
CONSTANTS
  Assets = {artifact}
  Manifested = {artifact}
  Callers = {c1}
  Depth <- MCDepth
  QueueCap = 1
  MaxItems = 2
  ListLimit = 1
  MaxBlocks = 5
  MaxEpoch = 2
INVARIANT AcceptedIsAnchored
PROPERTIES
  LifecycleOrShallow
  ObservationsKept
  DeepIsConfirmed
CHECK_DEADLOCK FALSE
