\* Packet ids of two bytes: uint16_t is promoted to int.
CONSTANTS
    Lowest = 1
    Highest = 7
    TypeMax = 7
    Promotes = TRUE
SPECIFICATION AllocatorSpec
INVARIANT Separated
INVARIANT Ledger
PROPERTY ImplementsIdPool
