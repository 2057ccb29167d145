CONSTANTS
    c1 = c1
    c2 = c2
    p1 = p1
    p2 = p2
    NoClient = NoClient
    Clients = {c1}
    Ports = {p1, p2}
    ReqPort <- MCReqPortDistinct
    IdRange = 2
    MaxConns = 1
    PeerMayReset = TRUE
    NStray = 0
SPECIFICATION FairSpec
PROPERTY PendingResolved
CHECK_DEADLOCK FALSE
