SPECIFICATION FairSpec
CONSTANTS
    Callers = {c1, c2, c3}
    MinRequests = 2
    ThresholdNum = 1
    ThresholdDen = 2
    RecoveryTimeout = 2
    MaxRetries = 1
    MaxRequests = 4
    MaxRejected = 2
INVARIANT TypeOK
PROPERTIES
    OpenProtects
    OpenIsLeft
