\* Four packets, one of them queued and two handled at a time.
SPECIFICATION FairSpec
CONSTANTS
    Arrivals = 4
    PacketJobLimit = 1
    PacketWorkerLimit = 2
    None = None
INVARIANTS
    TypeOK
    TokensCountWorkers
PROPERTY
    ListenerReturns
