SPECIFICATION MCServerSpec
CONSTANTS
    Sids = {1, 2, 3}
    PeerSids = {1}
    Certs = {1}
    TrustedCerts = {1}
    Pool = {10}
    a1 = a1
    a2 = a2
    Addrs = {a1, a2}
    ClientIds = {a1, a2}
    ServerConf <- MCConf
    ServerRoot = TRUE
    KeepaliveInterval = 1
    HandshakeTimeout = 0
    KeepaliveTimeout = 1
INVARIANTS ServerTypeOK TablesAgree PoolConserved RoutesMatch
PROPERTIES SilentReclaimed BegunHandshakesEnd
