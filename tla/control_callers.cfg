SPECIFICATION Spec
CONSTANTS
    Entities = {a, b}
    Adapters = {"lamp"}
    Actions = {"switch", "dim"}
    ActionsOf <- MCActionsOf
    NullAdapter = "null"
    Extends <- NoExtension
    Readers = {"r"}
    Keys = {"k1", "k2"}
    Values = {"v", "w"}
    StaleAfter = 1
    MaxTime = 4
    MaxCalls = 2
INVARIANTS
    ListedWasHeard
PROPERTIES
    OutUntilRegistered
    RetriesChangeNothing
SYMMETRY EntitySymmetry
CHECK_DEADLOCK FALSE
