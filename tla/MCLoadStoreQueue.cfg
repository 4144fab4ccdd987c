\* Word accesses, stores into the text, caches that miss.
SPECIFICATION StaleSpec
CONSTANTS
    LOAD_QUEUE_SIZE = 2
    STORE_QUEUE_SIZE = 2
    Instrs <- MCWordInstrs
    TextEnd = 4
    MayMiss = TRUE
    MaxSeq = 4
INVARIANTS
    TypeOK QueuesFollowWindow LoadsFollowProgramOrder MemoryFollowsProgramOrder
    OnlyMissesUndoCommits StaleTextIsSquashed
