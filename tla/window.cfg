SPECIFICATION WindowSpec
CONSTANTS
    A = A
    B = B
    C = C
    Nobody = Nobody
    Node = {A, B, C}
    Nick <- Names
    Founders <- CThenA
    HEARTBEAT_INTERVAL = 1
    VICTORY_WAIT_MILLIS = 1
    RESTART_WAIT_MILLIS = 2
    MaxAttempts = 2
    Windowed = {A, C}
    MaxTyped = 0
    MaxFaults <- TwoCrashes
INVARIANTS
    WindowTypeOK
    ListingInvariant
    KnownUnlessMissed
    PointerFollows
    ReaderGoesOn
    RosterFollows
    LeaderIsShown
