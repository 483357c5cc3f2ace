SPECIFICATION FairSpec
CONSTANTS
    Key = {H1, H2, H3, H4}
    Cell = {P1, P2, P3}
    NULL = NULL
    NUM_RETRIES = 1
    MaxStores = 3
INVARIANTS
    TypeOK
    WellFormed
    NoDangling
PROPERTIES
    ImplementsTable
    HeldEnds
