SPECIFICATION FairSpec
CONSTANTS
    Scheduled = s0
    Manual = {m1}
    Users = {}
    Neighbours = TRUE
    Organizations = 1
    PickLimit = 2
    MaxChanges = 1
    MaxFaults = 0
PROPERTY
    ComplianceFollows
