CONSTANTS
    c1 = c1
    c2 = c2
    p1 = p1
    p2 = p2
    NoClient = NoClient
    Clients = {c1, c2}
    Ports = {p1, p2}
    ReqPort <- MCReqPortSame
    IdRange = 2
    MaxConns = 2
    PeerMayReset = TRUE
    NStray = 1
SPECIFICATION Spec
INVARIANT TypeOK
INVARIANT PausedUntilBound
INVARIANT ServerCascade
INVARIANT NoMisroute
PROPERTY TunnelPortsRefined
CHECK_DEADLOCK FALSE
