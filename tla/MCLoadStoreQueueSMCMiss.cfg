\* Self-modifying code with the caches that -O2 really has.
SPECIFICATION StaleSpec
CONSTANTS
    LOAD_QUEUE_SIZE = 2
    STORE_QUEUE_SIZE = 2
    Instrs <- MCWordInstrs
    TextEnd = 4
    MayMiss = TRUE
    MaxSeq = 3
INVARIANTS
    SquashSparesCommitted
