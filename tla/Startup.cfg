\* Three instances on one host, which has two addresses of its own, and files
\* of three blocks.  A file that is only read ends.
SPECIFICATION MCSpec
CONSTANTS
    Procs = {1, 2, 3}
    Configs <- MCConfigs
    Files <- MCAllFiles
    Cidrs <- MCCidrs
    Endpoints = {"a", "b", "c"}
INVARIANTS
    OneInstance
    ServesAsWritten
    PrivsDropped
    RootWhileNeeded
    Merged
    RaisedForCause
    LoadAgrees
CHECK_DEADLOCK FALSE
