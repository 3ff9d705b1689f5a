SPECIFICATION FairClientSpec
CONSTANTS
    Sids = {1, 2}
    PeerSids = {1}
    Certs = {1}
    TrustedCerts = {1}
    Addrs = {1}
    Ips = {10, 11}
    ClientConf <- MCConf
    ClientTimeout = 2
    ReconnectDelay = 1
    RedirectGateway = TRUE
    DropUser = FALSE
    StatusFile = TRUE
PROPERTIES StopHonoured
