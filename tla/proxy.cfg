\* Two connections of one client, whose bucket holds one token and is idle
\* after it is full again; a scraper; passes of the reaper at 2 and 4.
CONSTANTS
    k1 = k1
    NConns = 2
    ClientOf <- OneClient
    Clients = {k1}
    Scrapes = {m1}
    ReapPeriod = 2
    Shards = 1
    ShardOf <- OneShard
    Capacity = 2
    Rate = 1
    Unit = 2
    IdleThreshold = 2
    MaxTime = 5
SPECIFICATION FairSpec
\* A signal stops the proxy for good.
CHECK_DEADLOCK FALSE
INVARIANTS
    TypeOK
    Accounted
    WindowBound
    ForgottenInTime
    PageConsistent
PROPERTIES
    AcceptedEnds
    QueuedTaken
    ScrapeAnswered
