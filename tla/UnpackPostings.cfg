CONSTANTS
    Chunks <- SmallChunks
    STANDARD_VECTOR_SIZE = 2
SPECIFICATION Spec
CHECK_DEADLOCK FALSE
PROPERTY AllDelivered
