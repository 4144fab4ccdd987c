SPECIFICATION FairSpec
CONSTANTS
    WORD_BITS = 3
    IMM_BITS = 3
    REGISTERS = 3
    PIPELINE_WIDTH = 2
    NUM_ALUS = 2
    REORDER_BUFFER_SIZE = 4
    INSTRUCTION_QUEUE_SIZE = 3
    LOAD_QUEUE_SIZE = 2
    STORE_QUEUE_SIZE = 2
    NUM_PHYSICAL_REGISTERS = 6
    NUM_MSHRS = 1
    BTB_BITS = 1
    Programs <- MCPrograms
    InitialData <- MCData
INVARIANTS
    TypeOK NoLostWakeup TakenPredictionsKnowTheTarget
PROPERTIES
    CommitsTheProgram NoSquashOfTakenPrediction CommitsUntilDrained
