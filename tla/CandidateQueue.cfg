SPECIFICATION FairSpec
CONSTANTS
    FETCH_BATCH_ROWS = 1
    RANGE_BATCH_ROWS = 2
    RANGE_ROWS_PER_FETCH = 2
    RANGE_SCAN_MIN_ROWS = 2
    STANDARD_VECTOR_SIZE = 2
    SEGMENT_ROWS = 4
    Workers = {w1, w2, w3}
    MaxThreads = 2
    Decoded <- MixedSegments
    Hwm = 15
    TailEnd = 19
    TailUnitRows = 2
    Matches <- MixedMatches
    PeakWorker = 1
    PeakCandidates = 1
INVARIANTS OrderRestored WithinWorkspace VectorsReadOnce
PROPERTIES BatchOrder AllStop
CHECK_DEADLOCK FALSE
