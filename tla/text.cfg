SPECIFICATION Spec
CONSTANTS
    Chunks <- ShortAndLong
    Junk <- Leftovers
    REQUEST_ROOM = 12
    BROADCAST_ROOM = 10
INVARIANTS
    TypeOK
    PrintedAsTyped
    BeginsAsTyped
