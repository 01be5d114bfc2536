SPECIFICATION Spec
CONSTANTS
    Conns = {c1}
    Values = {v1, v2}
    Default = v1
    MaxRowid = 0
    MaxSnapshot = 2
    MaxExpired = 0
INVARIANT ReadersExact
CHECK_DEADLOCK FALSE
