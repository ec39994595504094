CONSTANTS
    Shares = {s1}
    JobIds = {j1}
    SuggestDiff = TRUE
    MaxSessions = 2
    MaxRepeats = 1
    none = none
    s1 = s1
    j1 = j1
SPECIFICATION Spec
INVARIANT OwnVerdictInSession
