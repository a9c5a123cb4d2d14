CONSTANTS
    Settings <- WellUsed
    MaxBlocks = 3
    MaxFrames = 2
    MaxRows = 2
SPECIFICATION Spec
INVARIANTS
    TypeOK
    LookupsAgree
    NamespacesReplay
    OnlyReassignUnbalances
    CleanedIsClean
    WarningsAccountForLosses
PROPERTY ImplementsDocument
CHECK_DEADLOCK FALSE
