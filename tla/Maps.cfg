\* Workers and the goroutine of New insert at the bound; three tokens.
SPECIFICATION MapsSpec
CONSTANTS
    ip1 = ip1
    ip2 = ip2
    a1 = a1
    a2 = a2
    a3 = a3
    IPs = {ip1, ip2}
    Addrs = {a1, a2, a3}
    IPOf <- MCIPOf
    BlockedIPs = {ip2}
    LocalIPs = {ip1}
    Workers = {w1, w2}
    Finder = finder
    MaxSize = 2
    None = None
    Askers = {ip1, ip2}
    Handlers = {w1, w2}
    MaxTokens = 3
    NoToken = NoToken
INVARIANTS
    TypeOK
    Overshoot
    TokensTypeOK
    UsesBounded
PROPERTIES
    ExpiredItemsGo
    ExpiredTokensGo
\* When all tokens are made and used or gone, nothing is left to do.
CHECK_DEADLOCK FALSE
