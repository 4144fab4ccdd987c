\* Accesses of different sizes to the same word.
SPECIFICATION StaleSpec
CONSTANTS
    LOAD_QUEUE_SIZE = 2
    STORE_QUEUE_SIZE = 2
    Instrs <- MCMixedInstrs
    TextEnd = 0
    MayMiss = FALSE
    MaxSeq = 3
INVARIANTS
    LoadsFollowProgramOrder
