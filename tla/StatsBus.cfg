CONSTANTS
    Publishers = {mine, reader}
    Streams = {s1, s2}
    QueueMax = 2
    MaxEvents = 3
    MaxBlind = 1
    mine = mine
    reader = reader
    s1 = s1
    s2 = s2
SPECIFICATION FairSpec
INVARIANTS
    TypeOK
    StreamIsComplete
PROPERTY BrokenStreamsEnd
CHECK_DEADLOCK FALSE
