SPECIFICATION Spec
CONSTANTS
    Connections = {c1, c2}
    Lengths = {2}
    MaxTxn = 4
SYMMETRY Symmetry
INVARIANTS FenceHeld HandlesFound NothingLeft CreationFenced
CHECK_DEADLOCK FALSE
