\* The claim of conn.h on lookupSlot, for endpoints that share an IP.
SPECIFICATION Spec
CONSTANTS
    Vips = {1, 2, 3}
    Nodes = {1, 2}
    Configs <- MCSharedIp
    Endpoints <- MCSharedEndpoints
    MaxNet = 1
INVARIANTS
    HeardIsReverse
