\* Capacity of two tokens, half a token per tick, so that fractions of a token
\* are left over; the clock runs long enough for two passes of reap_idle.
CONSTANTS
    c1 = c1  c2 = c2
    Clients = {c1, c2}
    Shards = 2
    ShardOf <- TwoShards
    Capacity = 4
    Rate = 1
    Unit = 2
    IdleThreshold = 4
    MaxTime = 7
SPECIFICATION Spec
PROPERTIES
    ImplementsTokenBucket
    ReapComplete
