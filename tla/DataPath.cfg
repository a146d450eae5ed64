\* Two paths with probes between: a super-packet and a plain packet, and every
\* boundary of the segmentation alone.  Checksums over bytes of four values.
\* A checksum ends.
SPECIFICATION MCSpec
CONSTANTS
    Vips = {1}
    Workloads <- MCWorkloads
    Paths = {p1, p2}
    MAX_SEGS = 3
    USO_PARTS = 2
    BATCH = 2
    HdrLen = 2
    MinLen = 1
    U16 = 8
    U32 = 16
    Byte <- MCByte
    Jobs <- MCJobs
SYMMETRY MCSymmetry
INVARIANTS
    TypeOK
    Conservation
    ReceiverAccepts
    SumHonest
PROPERTIES
    LinkImplemented
CHECK_DEADLOCK FALSE
