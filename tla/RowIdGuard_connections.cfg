SPECIFICATION Spec
CONSTANTS
    Indexes = {i1, i2}
    Txns = {q1, q2}
    Writers = {}
    InMemory = FALSE
    MaxRowid = 0
    MaxIteration = 0
    MaxToken = 2
    MaxAppend = 1
SYMMETRY TxnSymmetry
INVARIANT OneUsableGuard
