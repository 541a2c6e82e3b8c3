\* A packet arrives before the last one is decoded.
SPECIFICATION Spec
CONSTANTS
    Arrivals = 2
    PacketJobLimit = 1
    PacketWorkerLimit = 1
    None = None
INVARIANT
    HandledAsReceived
