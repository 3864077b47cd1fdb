SPECIFICATION FairSpec
CONSTANTS
    Procs = {p1}
    Slots = {s1}
    Outcomes = {"ok", "partial", "auth"}
    AuthThreshold = 2
    MaxCrashes = 1
    MayPatch = TRUE
    MayRotate = TRUE
    Overruns = TRUE
    KeyExpires = TRUE
    RedisMayFail = TRUE
    IsAws = FALSE
INVARIANTS
    TypeOK
    LockIsOurs
PROPERTIES
    SyncsAsPromised
    SchedulerKeepsUp
CHECK_DEADLOCK FALSE
