\* This machine alone, with --keep-going: what is reported of the targets.
SPECIFICATION Spec
CONSTANTS
    Nodes <- MCNodes
    Deps <- MCDeps
    Roots = {"test", "tool"}
    LocalNodes = {"test"}
    Jobs = 2
    Hosts = {}
    MaxCores = 1
    Here = Here
    MaxRequeues = 0
INVARIANTS BrokenTargetsReported
CHECK_DEADLOCK FALSE
