\* Whether every instruction is executed once.
SPECIFICATION FairSpec
CONSTANTS
    WORD_BITS = 3
    IMM_BITS = 2
    REGISTERS = 3
    L1_SETS = 1
    L2_SETS = 2
    ASSOC = 2
    L1_PENALTY = 2
    L2_PENALTY = 3
    TEXT_WORDS = 2
    MAX_LENGTH = 4
    Programs <- MCPrograms
    InitialData <- MCData
PROPERTIES
    RunsLikeSingleCycle
