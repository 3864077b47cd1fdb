SPECIFICATION FairSpec
CONSTANTS
    Ingesters = {i1, i2}
    Users = {u1}
    MaxFaults = 1
INVARIANTS
    TypeOK
    RecordsFollow
PROPERTIES
    CaseIsKept
    ViolationIsActedOn
