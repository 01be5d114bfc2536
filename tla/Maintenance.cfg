SPECIFICATION Spec
CONSTANTS
    Conns = {c1, c2}
    MaxRowid = 2
    MaxDeleted = 1
    MaxRows = {1, 2}
    SEGMENT_ROWS = 2
    MAX_ROW_ID = 20
SYMMETRY ConnSymmetry
INVARIANTS NoBuriedRow PostingsUnderMark
PROPERTIES MergeComplete NoSpin ImplementsPostedIndex
CHECK_DEADLOCK FALSE
