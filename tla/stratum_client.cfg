\* The Stratum client's four threads against a pool that closes and is reconnected.
SPECIFICATION Spec
CONSTANTS
    MaxConns = 2
    MaxJobs = 2
    BadJobs <- MCBadJobs
    MaxRetargets = 1
    MaxFinds = 2
    HitsMax = 1
    InboxMax = 1
INVARIANTS
    CountedWasJudged
    
    
PROPERTY
    Reconnects
CHECK_DEADLOCK FALSE
