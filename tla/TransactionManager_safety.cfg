\* Run, a caller and two workers, a table of one node.
SPECIFICATION Spec
CONSTANTS
    a = a
    b = b
    self = self
    ip1 = ip1
    ip2 = ip2
    Nodes <- MCNodes
    Ips <- MCIps
    IpOf <- MCIpOf
    Self = self
    PrimeNodes <- MCPrimeNodes
    Main = main
    Callers = {caller}
    Handlers = {h1, h2}
    Try = 1
    ChanSize = 1
    MaxCursor = 3
    K = 2
    MaxNodes = 1
    BlackListMaxSize = 2
    MaxQueries = 1
    MaxPackets = 2
INVARIANTS
    TypeOK
    TableWithinMaxNodes
\* The run ends when the bounds are used up.
CHECK_DEADLOCK FALSE
