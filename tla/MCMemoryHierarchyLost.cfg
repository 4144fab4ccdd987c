\* More blocks than L2 holds, and the promise without the exception.
SPECIFICATION Spec
CONSTANTS
    L1_SETS = 1
    L2_SETS = 2
    ASSOC = 2
    NUM_MSHRS = 2
    MISS_PENALTY = 1
    Blocks <- MCOverflowL2
    TextBlocks <- MCText
    Loads <- MCLoads
    MaxWrites = 2
INVARIANTS
    HierarchyIsFlatMemory
