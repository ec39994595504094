CONSTANTS
    NWorkers = 2
    NonceSpace = 5
    HashesPerTick = 2
    PipeCap = 1
    DrainCap = 1
    none = none
SPECIFICATION FairSpec
INVARIANTS TypeOK TestedOnce CounterExact StopLatency HolderIsAlive
PROPERTY PoolStops
