\* Three fetches, two at a time, one from an honest peer.
SPECIFICATION FairSpec
CONSTANTS
    r1 = r1
    r2 = r2
    r3 = r3
    a1 = a1
    a2 = a2
    Requests = {r1, r2, r3}
    Honest = {r1}
    AddrOf <- MCAddrOf
    Size <- MCSize
    BLOCK = 2
    RequestQueueSize = 1
    WorkerQueueSize = 2
    ResponseQueueSize = 1
    BlackListSize = 1
    None = None
INVARIANTS
    TypeOK
    ResponsesAreGenuine
PROPERTIES
    HonestNotRefused
    RequestsEnd
\* All requests end and no more come.
CHECK_DEADLOCK FALSE
