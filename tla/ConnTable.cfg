\* Two nodes whose sections list a cluster in any order.
SPECIFICATION Spec
CONSTANTS
    Vips = {1, 2, 3}
    Nodes = {1, 2}
    Configs <- MCConfigs
    Endpoints <- MCEndpoints
    MaxNet = 1
INVARIANTS
    SlotGrid
    HeardIsReverse
    EverySlotReached
