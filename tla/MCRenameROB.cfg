\* Two spare physical registers for three entries: rename stalls on either.
SPECIFICATION FairSpec
CONSTANTS
    NUM_ARCHITECTURAL_REGISTERS = 3
    NUM_PHYSICAL_REGISTERS = 5
    REORDER_BUFFER_SIZE = 3
    MaxSeq = 4
    Instrs <- MCInstrs
INVARIANTS
    TypeOK
    AgeOrdered
    InflightNamesLiveEntry
    RegistersConserved
    MapsPrecise
    ReadyMeansProduced
    FreeListSuffices
PROPERTIES
    SquashExact
    RetiresInOrder
    EveryEntryLeaves
