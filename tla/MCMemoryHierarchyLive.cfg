\* All blocks fit in L1, and there is one MSHR for two loads.
SPECIFICATION FairSpec
CONSTANTS
    L1_SETS = 1
    L2_SETS = 2
    ASSOC = 2
    NUM_MSHRS = 1
    MISS_PENALTY = 2
    Blocks <- MCFitL1
    TextBlocks <- MCTextOfTwoBlocks
    Loads <- MCLoads
    MaxWrites = 2
PROPERTIES
    EveryMissAnswered StoresDrain FetchProceeds
