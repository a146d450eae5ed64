\* Three slots, the second of another Conn; a sendto and a datagram may take a unit longer.
SPECIFICATION Spec
CONSTANTS
    N = 3
    Slots = {1, 3}
    IntervalMs = 1
    USeconds = 8
    Late = 0
    Block = 1
    Delay = 1
    Walk = 1
    Timeout = 5
INVARIANTS NoFlap GivenUp Failover
