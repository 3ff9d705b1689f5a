SPECIFICATION HostSpec
CONSTANTS
    p1 = p1
    p2 = p2
    eth0 = eth0
    wlan0 = wlan0
    Procs = {p1, p2}
    Uplinks = {eth0, wlan0}
    Ports = {443, 70000}
    DefaultPort = 1194
    Users = {"nobody", "nobdy"}
    KnownUsers = {"nobody"}
    None = None
    MaxRules = 3
SYMMETRY HostSymmetry
INVARIANTS HostTypeOK NatHeld NoStrayRules
