SPECIFICATION Spec
CONSTANTS
    A = A
    B = B
    C = C
    H1 = H1
    H2 = H2
    H3 = H3
    Node = {A, B, C}
    Host = {H1, H2}
    HostOf <- SameHosts
    NUM_RETRIES = 2
    Budget <- Listening
    FaultKinds <- NoFaults
    MaxFaults = 0
INVARIANTS
    Attribution
CHECK_DEADLOCK FALSE
