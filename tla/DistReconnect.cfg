\* What a reconnect does to a job of the service that came before.
SPECIFICATION Spec
CONSTANTS
    Jobs = {1, 2}
    Digests <- SharedDigests
    Inputs <- SharedInputs
    Output <- SharedOutput
    BadJobs = {}
    MaxConns = 2
    None = None
INVARIANTS FailsOnlyByCommand
CHECK_DEADLOCK FALSE
