\* An honest peer whose metadata fills its last piece.
SPECIFICATION Spec
CONSTANTS
    r1 = r1
    r2 = r2
    r3 = r3
    a1 = a1
    a2 = a2
    Requests = {r1}
    Honest = {r1}
    AddrOf <- MCAddrOf
    Size <- MCWholeSize
    BLOCK = 2
    RequestQueueSize = 1
    WorkerQueueSize = 1
    ResponseQueueSize = 1
    BlackListSize = 1
    None = None
PROPERTY
    HonestNotRefused
\* All requests end and no more come.
CHECK_DEADLOCK FALSE
