\* Two queries of one node, more answers than trans.response holds.
SPECIFICATION FairSpec
CONSTANTS
    a = a
    b = b
    self = self
    ip1 = ip1
    ip2 = ip2
    Nodes <- MCTwoNodes
    Ips <- MCIps
    IpOf <- MCTwoIpOf
    Self = self
    PrimeNodes <- MCPrimeNodes
    Main = main
    Callers = {}
    Handlers = {h1}
    Try = 1
    ChanSize = 1
    MaxCursor = 3
    K = 2
    MaxNodes = 1
    BlackListMaxSize = 2
    MaxQueries = 2
    MaxPackets = 3
INVARIANTS
    TransactionsMatchGoroutines
    IndexedIsLive
PROPERTIES
    QueriesEnd
    CallersReturn
    KeysAreFreed
    WorkersLostOnlyToLateAnswers
\* The run ends when the bounds are used up.
CHECK_DEADLOCK FALSE
