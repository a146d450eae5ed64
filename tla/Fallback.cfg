\* The claim of conn.cpp on the fallback of Conn::next, against every
\* interleaving of its threads.
SPECIFICATION Spec
CONSTANTS
    N = 3
    Srcs = {0, 1}
    SrcOf <- MCSrcOf
    TunReaders = {t1, t2}
    Timeout = 1
    StartMs = 1
    U64 = 16
    USO_PARTS = 2
    BATCH = 1
    MaxClock = 3
    MaxPackets = 2
INVARIANTS
    FallbackMeansAllDead
CHECK_DEADLOCK FALSE
