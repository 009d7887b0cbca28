SPECIFICATION Spec
CONSTANTS
    EventIds = {"created", "invoked", "forged", "started"}
    EventOf <- MCEventOf
    Workers = {"w"}
    Caps = {"t"}
    NoActor = NoActor
    QueueMax = 3
    MaxSeen = 3
    QuarantineFor = 1
    ToolLimitFor = 0
    MaxTime = 2
    MaxAppends = 4
    MaxRecords = 3
INVARIANTS
    AcceptedOnce
    QuarantineHolds
    IntegrityIsExact
CHECK_DEADLOCK FALSE
