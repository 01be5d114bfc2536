SPECIFICATION Spec
CONSTANTS
    Conns = {c1, c2}
    Values = {v1, v2}
    Default = v1
    MaxRowid = 0
    MaxSnapshot = 4
    MaxExpired = 1
SYMMETRY ConnSymmetry
INVARIANTS LakeExact CoveredPosted OneIndex CoverGrows
CHECK_DEADLOCK FALSE
