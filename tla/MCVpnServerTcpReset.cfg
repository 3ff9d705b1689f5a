SPECIFICATION TcpSpec
CONSTANTS
    Sids = {1, 2, 3}
    PeerSids = {1}
    Certs = {}
    TrustedCerts = {}
    Pool = {10, 11}
    a1 = a1
    a2 = a2
    Addrs = {a1, a2}
    ClientIds = {a1, a2}
    ServerConf <- MCDevConf
    ServerRoot = TRUE
    KeepaliveInterval = 0
    HandshakeTimeout = 0
    KeepaliveTimeout = 1
PROPERTIES OnlyStopEnds
