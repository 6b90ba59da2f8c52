SPECIFICATION Spec
CONSTANTS
    n1 = n1
    n2 = n2
    a1 = a1
    a2 = a2
    a3 = a3
    lo = lo
    p1 = p1
    p2 = p2
    me = me
    e1 = e1
    Addrs = {a1, a2, a3, lo}
    Loopback = {lo}
    LocalIp = {}
    AllowLocalIp = FALSE
    WhiteLimit = 1
    GrayLimit = 1
    HandshakeDepth = 0
    Nodes = {n1, n2}
    Skew <- MCSkew
    CmdPeers <- MCCmdPeers
    Reach <- MCReach
    IdOf <- MCIdOf
    Start = 1
    MaxTime = 2
INVARIANTS  ConnectionsKept
PROPERTIES OwnSightingsKept MakerReturns
