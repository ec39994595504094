CONSTANTS
    NPools = 2
    RotateAfter = 2
    FailureCap = 2
    RotationCap = 2
    Readers = {r1, r2}
    MaxBackoff = 2
    MaxRestarts = 1
    none = none
    r1 = r1
    r2 = r2
SPECIFICATION FairSpec
INVARIANTS
    TypeOK
    NoHotReconnect
    BlamesTheRightPool
    SurplusReadersComeFromRestart
    JobIsOfThisConnection
    RotationIsFair
PROPERTIES
    Failover
    StopEndsThreads
    RestartReconnects
