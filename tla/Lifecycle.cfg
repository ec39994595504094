CONSTANTS
    QueueMax = 2
    MaxUpdates = 2
    MaxInputs = 4
SPECIFICATION FairSpec
INVARIANTS
    TypeOK
    EachCommandIsHandled
    DrainedBeforeEnd
PROPERTY StopEndsProcess
CHECK_DEADLOCK FALSE
