SPECIFICATION Spec
CONSTANTS
    A = A
    B = B
    C = C
    D = D
    Nobody = Nobody
    Node = {A, B, C, D}
    Nick <- SameNames
    Founders <- AThenC
    HEARTBEAT_INTERVAL = 1
    VICTORY_WAIT_MILLIS = 1
    RESTART_WAIT_MILLIS = 2
    MaxAttempts = 2
    Windowed = {A}
    MaxTyped = 0
    MaxFaults <- OneCrash
INVARIANTS
    TypeOK
    GroupInvariant
    SelfListed
    LiveAreListed
    LeaderLeads
    DistinctNames
