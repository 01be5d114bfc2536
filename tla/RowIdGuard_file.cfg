SPECIFICATION Spec
CONSTANTS
    Indexes = {i1}
    Txns = {q1}
    Writers = {w1}
    InMemory = FALSE
    MaxRowid = 1
    MaxIteration = 2
    MaxToken = 2
    MaxAppend = 2
INVARIANTS TypeOK SearchExact UsableIsComplete NoFalseAlarm
PROPERTIES CheckpointKeepsUsable ImplementsSnapshotSearch
