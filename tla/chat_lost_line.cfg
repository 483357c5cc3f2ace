SPECIFICATION Spec
CONSTANTS
    A = A
    B = B
    C = C
    D = D
    Nobody = Nobody
    Node = {A, B, C}
    Nick <- Names
    Founders <- LedByB
    HEARTBEAT_INTERVAL = 1
    VICTORY_WAIT_MILLIS = 1
    RESTART_WAIT_MILLIS = 2
    MaxAttempts = 2
    Windowed = {}
    MaxTyped = 1
    MaxFaults <- OneCrash
INVARIANTS
    LineSurvives
