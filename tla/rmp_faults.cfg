SPECIFICATION FairSpec
CONSTANTS
    A = A
    B = B
    C = C
    H1 = H1
    H2 = H2
    H3 = H3
    Node = {A, B, C}
    Host = {H1, H2, H3}
    HostOf <- ThreeHosts
    NUM_RETRIES = 1
    Budget <- OneOneNone
    FaultKinds <- AllFaultKinds
    MaxFaults = 2
INVARIANTS
    TypeOK
    Attribution
PROPERTIES
    SendReturns
    ListenerGetsAll
CHECK_DEADLOCK FALSE
