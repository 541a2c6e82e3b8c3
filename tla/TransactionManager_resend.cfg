\* Two tries, one answer. The run ends when the bounds are used up.
SPECIFICATION Spec
CONSTANTS
    a = a
    b = b
    self = self
    ip1 = ip1
    ip2 = ip2
    Nodes <- MCNodes
    Ips <- MCIps
    IpOf <- MCIpOf
    Self = self
    PrimeNodes <- MCPrimeNodes
    Main = main
    Callers = {}
    Handlers = {h1}
    Try = 2
    ChanSize = 1
    MaxCursor = 3
    K = 2
    MaxNodes = 1
    BlackListMaxSize = 2
    MaxQueries = 1
    MaxPackets = 1
CHECK_DEADLOCK FALSE
PROPERTY
    NoResendAfterAnswer
