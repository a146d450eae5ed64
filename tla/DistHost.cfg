\* A connection that may break at any time, and the one made after it.
SPECIFICATION FairSpec
CONSTANTS
    Jobs = {1, 2}
    Digests <- SharedDigests
    Inputs <- SharedInputs
    Output <- SharedOutput
    BadJobs = {}
    MaxConns = 2
    None = None
INVARIANTS NoWorkerForgotten OutputArrives LedgerHonest BlobsCrossRight
PROPERTIES EveryJobEnds
CHECK_DEADLOCK FALSE
