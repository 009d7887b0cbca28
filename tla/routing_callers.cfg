SPECIFICATION Spec
CONSTANTS
  Gateways = {g1, g2}
  MeshSecret = TRUE
  RequireAuth = FALSE
  MaxEntries = 1
  MaxSequence = 1
  Lifetimes = {1}
  MeshGateways = {g1}
  TransportOf <- MCTransportOf
  EgressOf <- MCEgressOf
  Nodes = {n1}
  RouteTTL = 2
  HoldTime = 1
  MaxBackoff = 1
  Senders = {c1}
  Probers = {c2}
  MaxRetries = 1
  LossAfter = 1
  ConfirmAfter = 2
  MaxMessages = 2
  MaxOverlapping = 1
  MaxFailures = 1
  TimeSteps = {1}
INVARIANTS
  RoutesRestOnAds
  DeliveredArrived
PROPERTIES
  SequencesRise
  FailedRoutesRest
CHECK_DEADLOCK FALSE
