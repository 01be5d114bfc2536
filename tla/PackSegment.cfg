CONSTANTS
    States = {s1, s2, s3}
    Rowids = {0, 3, 9, 16}
    SEGMENT_ROWS = 16
    VARINT_VALUES = 4
    INLINE_BYTES = 2
    FIRST_BLOCK_BYTES = 5
    MAX_BLOCK_BYTES = 6
    MaxUpdates = 5
    MaxCombines = 2
SYMMETRY Symmetry
SPECIFICATION Spec
CHECK_DEADLOCK FALSE
INVARIANTS TypeOK StreamFaithful OneOwner PayloadFromSet
