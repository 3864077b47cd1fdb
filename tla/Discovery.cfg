SPECIFICATION FairSpec
CONSTANTS
    Resources = {r1, r2}
    Syncs = {s1}
    Threshold = 3
    MaxChanges = 2
    Faults = {"partialList", "failedList", "failedUpsert", "failedSweep", "lostEvent", "crash"}
    MaxFaults = 2
INVARIANTS
    TypeOK
    FreshnessOK
PROPERTIES
    DeletedAfterGrace
    ForgottenDuly
    Converges
CHECK_DEADLOCK FALSE
