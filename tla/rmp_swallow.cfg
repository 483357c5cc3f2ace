SPECIFICATION Spec
CONSTANTS
    A = A
    B = B
    C = C
    H1 = H1
    H2 = H2
    H3 = H3
    Node = {A, B}
    Host = {H1, H2}
    HostOf <- OwnHosts
    NUM_RETRIES = 2
    Budget <- OneOne
    FaultKinds <- NoFaults
    MaxFaults = 0
INVARIANTS
    OkMeansDelivered
CHECK_DEADLOCK FALSE
