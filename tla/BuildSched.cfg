\* One slot here and two hosts that come and go, with and without --keep-going;
\* two builds on one cache.
SPECIFICATION MCSpec
CONSTANTS
    Nodes <- MCNodes
    Deps <- MCDeps
    Roots = {"test", "tool"}
    LocalNodes = {"test"}
    Jobs = 1
    Hosts = {h1, h2}
    MaxCores = 1
    Here = Here
    MaxRequeues = 2
    Builds = {b1, b2}
    Uids <- MCUids
    DepsOf <- MCDepsOf
    OutputsOf <- MCOutputsOf
    Targets = {"prog"}
    NoBuild = NoBuild
    NoDir = NoDir
INVARIANTS
    DepsFirst OnePlace SlotsRight KeepsGoing
    CacheTypeOK ManifestBacked Hermetic RunsOnlyMissing NothingLeftBehind FailsForCause
PROPERTIES BuildEnds
CHECK_DEADLOCK FALSE
