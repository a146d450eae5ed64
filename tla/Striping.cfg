\* Every interleaving of two tunReader threads, two udpReader threads
\* and the clock on a Conn of three slots.
SPECIFICATION Spec
CONSTANTS
    N = 3
    Srcs = {0, 1}
    SrcOf <- MCSrcOf
    TunReaders = {t1, t2}
    Timeout = 1
    StartMs = 1
    U64 = 16
    USO_PARTS = 2
    BATCH = 1
    MaxClock = 3
    MaxPackets = 2
SYMMETRY MCSymmetry
INVARIANTS
    ChosenWasHeard
    FallbackExplained
    StripeEven
PROPERTIES
    LastSeenMonotone
CHECK_DEADLOCK FALSE
