SPECIFICATION TunnelSpec
CONSTANTS
    Sids = {1, 2, 3, 4, 5, 6, 7, 8}
    PeerSids = {}
    Certs = {1, 2}
    TrustedCerts = {1, 2}
    Pool = {10, 11}
    Ips = {10, 11}
    Addrs = {1, 2, 3}
    ClientIds = {1, 2, 3}
    ServerConf <- MCConf
    ClientConf <- MCClientConf
    ServerRoot = TRUE
    KeepaliveInterval = 1
    HandshakeTimeout = 2
    KeepaliveTimeout = 3
    ClientTimeout = 3
    ReconnectDelay = 1
    RedirectGateway = TRUE
    DropUser = FALSE
    StatusFile = FALSE
    Scenarios <- OnlyServerCrash
    Prompt = TRUE
    QuickRestart = FALSE
    ReuseAddr = FALSE
PROPERTY Reconnects
