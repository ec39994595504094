CONSTANTS
    Shares = {s1, s2}
    JobIds = {j1}
    SuggestDiff = FALSE
    MaxSessions = 2
    MaxRepeats = 0
    none = none
    s1 = s1
    s2 = s2
    j1 = j1
SPECIFICATION Spec
INVARIANT NoFindIsDropped
