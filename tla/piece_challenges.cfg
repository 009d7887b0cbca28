SPECIFICATION Spec
CONSTANTS
    self = self
    n1 = n1
    n2 = n2
    n3 = n3
    Nodes = {self, n1, n2, n3}
    Self = self
    NameOrder <- MCNameOrder
    Policy <- MCPolicy
    Sited <- MCSited
    Publishers <- MCPublishers
    FirstHolders = {n1, n3}
    Pieces = {1}
    MaxChallenges = 2
    MaxRepairs = 1
    MaxAges = 1
    MaxSpoils = 1
INVARIANTS
    VerifiedWasProved
    
    PlansServeThePolicy
CHECK_DEADLOCK FALSE
