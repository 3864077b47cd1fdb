SPECIFICATION FairSpec
CONSTANTS
    Scheduled = s0
    Manual = {m1}
    Users = {u1}
    Neighbours = FALSE
    Organizations = 1
    PickLimit = 2
    MaxChanges = 1
    MaxFaults = 1
INVARIANTS
    StateOK
PROPERTIES
    DecisionsKept
    ScansCatchUp
