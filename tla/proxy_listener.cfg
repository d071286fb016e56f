CONSTANTS
    k1 = k1
    NConns = 2
    ClientOf <- OneClient
    Clients = {k1}
    Scrapes = {}
    ReapPeriod = 2
    Shards = 1
    ShardOf <- OneShard
    Capacity = 2
    Rate = 1
    Unit = 2
    IdleThreshold = 2
    MaxTime = 1
SPECIFICATION FairSpec
\* A signal stops the proxy for good.
CHECK_DEADLOCK FALSE
PROPERTY EveryConnectionTaken
