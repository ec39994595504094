CONSTANTS
    Tmpl <- MainnetTemplates
    IdLength = 2
    Extranonces = {66051}
    Nonces = {67305985}
    Readers = {r1, r2}
    supervisor = supervisor
    MaxRestarts = 1
    ByMine = FALSE
    none = none
    r1 = r1
    r2 = r2
    t1 = t1
    t2 = t2
    t3 = t3
    t4 = t4
    t5 = t5
    t6 = t6
SPECIFICATION Spec
INVARIANT JobIsOfTip
