CONSTANTS
    JobIds = {j1, j2}
    Pairs <- MCPairs
    Diffs = {1, 2}
    InitDiff = 1
    none = none
SPECIFICATION FairSpec
INVARIANTS TypeOK HeaderMatchesOffer NoForeignExtranonce NoWorkTwice
PROPERTY WorkersFollow
