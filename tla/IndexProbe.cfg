SPECIFICATION Spec
CONSTANTS
    SEGMENT_ROWS = 3
    RANGE_ROWS_PER_FETCH = 2
    FETCH_BATCH_ROWS = 1
    SCRATCH = 1
    Keys = {1, 2, 3}
    Postings <- TwoKeys
    Boundaries = {0, 2}
    ColumnRows = {1, 3}
    Budgets = {15, 20}
    Workers = {w1, w2}
    MAX_GRAMS = 3
    STANDARD_VECTOR_SIZE = 2
    ROW_GROUP_ROWS = 4
    PREFLIGHT_FIXED = 1
    PREFLIGHT_PER_KEY = 1
    PREFLIGHT_PER_WORKER = 2
    MANIFEST_PER_ROW = 1
    HardWorkLimit = 20
    CandidatePercent = 100
    ExtraColumns = 0
SYMMETRY WorkerSymmetry
INVARIANTS CandidatesExact NeverMalformed WithinBudget ReservationCovers
CHECK_DEADLOCK FALSE
