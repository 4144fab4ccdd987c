\* One block more than an L1 set holds: stores to two of them, fetch from the third.
SPECIFICATION FairSpec
CONSTANTS
    L1_SETS = 1
    L2_SETS = 2
    ASSOC = 2
    NUM_MSHRS = 1
    MISS_PENALTY = 2
    Blocks <- MCOverflowL1
    TextBlocks <- MCText
    Loads <- MCNoLoads
    MaxWrites = 2
PROPERTIES
    StoresDrain
