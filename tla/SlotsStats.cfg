\* All threads of a Conn: a tunReader, two udpReaders, slotsStats, and the clock.
SPECIFICATION StatsFairSpec
CONSTANTS
    N = 3
    Srcs = {0, 1}
    SrcOf <- MCSrcOf
    TunReaders = {t1}
    Timeout = 1
    StartMs = 1
    U64 = 16
    USO_PARTS = 2
    BATCH = 1
    MaxClock = 3
    MaxPackets = 1
INVARIANTS
    StatsExplained
PROPERTIES
    PacketSent
CHECK_DEADLOCK FALSE
