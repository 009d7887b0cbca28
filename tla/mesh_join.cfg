SPECIFICATION JoinSpec
CONSTANTS
    Ranks <- MCRanks
    Settings <- MCSettings
    MaxFaults <- MCMaxFaults
INVARIANT MovesLeadOneWay
PROPERTY ConvergesUnlessInCompany
CHECK_DEADLOCK FALSE
