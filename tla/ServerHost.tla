----------------------------- MODULE ServerHost -----------------------------
(***************************************************************************)
(* What server processes do to the host they run on, from main() to the    *)
(* end of run(): src/app.py, src/cli.py, src/config.py, src/server.py,     *)
(* src/tun.py, src/routing.py and src/privileges.py.  Several processes    *)
(* may be started with the same device name and subnet, each may be killed *)
(* between any two of its steps, and none knows of the others but through  *)
(* the host: the tun device they name alike, the NAT table, the port.      *)
(*                                                                         *)
(* Up to its main loop, and after it, nothing else of a process runs: pc   *)
(* is the step of run() that comes next.  A step is at most one call that  *)
(* changes the NAT table; the calls that put the device up (address, link, *)
(* mtu, ip_forward) are one step.  The subnet route is left out: it comes  *)
(* with the device's address, goes with it, and whether add_route and      *)
(* delete_route succeed is ignored.                                        *)
(***************************************************************************)
EXTENDS Integers, FiniteSets

CONSTANTS
    Procs,       \* the processes
    Uplinks,     \* the interfaces a default route may name
    Ports,       \* what "port" in the file and --port may be
    DefaultPort, \* Config.port
    Users,       \* what --user may be
    KnownUsers,  \* those getpwnam finds, root not among them
    None,        \* a Python None
    MaxRules     \* bound: nobody adds a rule to an interface that has as many

ValidPorts == 1..65535
PrivilegedPorts == 1..1023   \* only root may bind these

ASSUME HostConstants ==
    /\ IsFiniteSet(Procs)
    /\ DefaultPort \in ValidPorts
    /\ KnownUsers \subseteq Users
    /\ None \notin Procs /\ None \notin Uplinks /\ None \notin Users
    /\ None \notin Ports \cup {DefaultPort}
    /\ MaxRules \in Nat

VARIABLES
    pc,          \* the step of run() each process comes to next
    conf,        \* its Config
    root,        \* its effective uid is 0
    nat_iface,   \* run()'s local of that name, until it is used
    nat_if,      \* its _nat_interface
    device,      \* the process that has the named tun device open
    addressed,   \* that device has the server's address and is up
    forwarding,  \* /proc/sys/net/ipv4/ip_forward
    nat,         \* the number of MASQUERADE rules of each interface
    uplink,      \* the interface of the default route
    left         \* history: the rules left behind on each interface by
                 \* processes that ended and did not delete theirs

procVars == <<pc, conf, root, nat_iface, nat_if>>
netVars == <<addressed, forwarding, nat, uplink>>
hvars == <<procVars, device, netVars, left>>

Steps == {"off", "open", "set_ip", "find", "nat", "drop", "listen", "loop", "cleanup", "close"}

Configs == [port : Ports \cup {DefaultPort}, user : Users \cup {None}]

HostTypeOK ==
    /\ pc \in [Procs -> Steps]
    /\ conf \in [Procs -> Configs]
    /\ root \in [Procs -> BOOLEAN]
    /\ nat_iface \in [Procs -> Uplinks \cup {None}]
    /\ nat_if \in [Procs -> Uplinks \cup {None}]
    /\ device \in Procs \cup {None}
    /\ addressed \in BOOLEAN /\ forwarding \in BOOLEAN
    /\ nat \in [Uplinks -> 0..MaxRules]
    /\ uplink \in Uplinks \cup {None}
    /\ left \in [Uplinks -> Nat]

\* The Config of the defaults; a process that is off has none to speak of.
NoConf == [port |-> DefaultPort, user |-> None]

HostInit ==
    /\ pc = [p \in Procs |-> "off"]
    /\ conf = [p \in Procs |-> NoConf]
    /\ root = [p \in Procs |-> TRUE]
    /\ nat_iface = [p \in Procs |-> None]
    /\ nat_if = [p \in Procs |-> None]
    /\ device = None
    /\ addressed = FALSE /\ forwarding = FALSE
    /\ nat = [u \in Uplinks |-> 0]
    /\ uplink \in Uplinks \cup {None}
    /\ left = [u \in Uplinks |-> 0]

-----------------------------------------------------------------------------
\* Config.__post_init__ checks the file's values, or the defaults; what the
\* command line overrides later is not checked again.
Accepted(filePort) == filePort \in ValidPorts \cup {None}

\* Mutant: the file's "port" is taken, there or not.
ChosenNoDefault(filePort, cliPort) == IF cliPort # None THEN cliPort ELSE filePort

\* The command line over the file over the default.
Chosen(filePort, cliPort) ==
    IF cliPort # None THEN cliPort ELSE IF filePort # None THEN filePort ELSE DefaultPort

\* main() with a "server" directive or --server.
Launch(p, filePort, cliPort, user) ==
    /\ pc[p] = "off"
    /\ Accepted(filePort)
    /\ pc' = [pc EXCEPT ![p] = "open"]
    /\ conf' = [conf EXCEPT ![p] = [port |-> Chosen(filePort, cliPort), user |-> user]]
    /\ UNCHANGED <<root, nat_iface, nat_if, device, netVars, left>>

\* The next step of a process that changes nothing but itself.
GoesOn(p, from, to) == pc[p] = from /\ pc' = [pc EXCEPT ![p] = to]

\* TunInterface.open: whatever device has the name is deleted, a running
\* server's too, and a new one is attached to the descriptor.
OpenTun(p) ==
    /\ GoesOn(p, "open", "set_ip")
    /\ device' = p
    /\ addressed' = FALSE
    /\ UNCHANGED <<conf, root, nat_iface, nat_if, forwarding, nat, uplink, left>>

\* "ip addr add" names the device, and fails when it is gone or has the
\* address; then set_mtu and enable_ip_forward.
SetIpWorks == device # None /\ ~addressed

SetIp(p) ==
    /\ GoesOn(p, "set_ip", "find")
    /\ SetIpWorks
    /\ addressed' = TRUE
    /\ forwarding' = TRUE
    /\ UNCHANGED <<conf, root, nat_iface, nat_if, device, nat, uplink, left>>

\* get_default_interface: what the default route names at this moment, None
\* also when "ip route" fails.
FindUplink(p) ==
    /\ GoesOn(p, "find", "nat")
    /\ nat_iface' \in {[nat_iface EXCEPT ![p] = u] : u \in {uplink, None}}
    /\ UNCHANGED <<conf, root, nat_if, device, netVars, left>>

\* run() is done with setting NAT up.
NatDone(p) ==
    /\ GoesOn(p, "nat", "drop")
    /\ nat_iface' = [nat_iface EXCEPT ![p] = None]

\* Mutant: a rule that is there already is not added again.
SetupNatOnce(p) ==
    /\ NatDone(p)
    /\ nat_iface[p] # None
    /\ nat[nat_iface[p]] < MaxRules
    /\ nat' = [nat EXCEPT ![nat_iface[p]] = 1]
    /\ nat_if' = [nat_if EXCEPT ![p] = nat_iface[p]]
    /\ UNCHANGED <<conf, root, device, addressed, forwarding, uplink, left>>

\* setup_nat on the interface that was found: the outcome of "iptables -C"
\* is not looked at, and "-A" adds a rule beside one that is there.  To die
\* before _nat_interface is assigned is to die after it.
SetupNat(p) ==
    /\ NatDone(p)
    /\ nat_iface[p] # None
    /\ nat[nat_iface[p]] < MaxRules
    /\ nat' = [nat EXCEPT ![nat_iface[p]] = @ + 1]
    /\ nat_if' = [nat_if EXCEPT ![p] = nat_iface[p]]
    /\ UNCHANGED <<conf, root, device, addressed, forwarding, uplink, left>>

\* There was no default route, or iptables fails: a warning, and no more.
SkipNat(p) ==
    /\ NatDone(p)
    /\ UNCHANGED <<conf, root, nat_if, device, netVars, left>>

MayDrop(p) == conf[p].user \in KnownUsers \cup {None}

DropPrivileges(p) ==
    /\ GoesOn(p, "drop", "listen")
    /\ MayDrop(p)
    /\ root' = [root EXCEPT ![p] = conf[p].user = None]
    /\ UNCHANGED <<conf, nat_iface, nat_if, device, netVars, left>>

\* The port can be bound: it is one, no other server listens on it, and the
\* privileges that it may take have not been dropped.
MayListen(p) ==
    /\ conf[p].port \in ValidPorts
    /\ conf[p].port \in PrivilegedPorts => root[p]
    /\ \A q \in Procs \ {p} :
          pc[q] \in {"loop", "cleanup", "close"} => conf[q].port # conf[p].port

Listen(p) ==
    /\ GoesOn(p, "listen", "loop")
    /\ MayListen(p)
    /\ UNCHANGED <<conf, root, nat_iface, nat_if, device, netVars, left>>

\* SIGINT or SIGTERM: the main loop ends, and so does run()'s try.
Stop(p) ==
    /\ GoesOn(p, "loop", "cleanup")
    /\ UNCHANGED <<conf, root, nat_iface, nat_if, device, netVars, left>>

-----------------------------------------------------------------------------
\* p ends, or forgets its interface, with its rule in place.
LeavesRule(p) ==
    left' = [u \in Uplinks |-> IF u = nat_if[p] THEN left[u] + 1 ELSE left[u]]

\* "iptables -D" deletes one matching rule, if there is one and root asks.
RulesWithout(p) ==
    [u \in Uplinks |-> IF u = nat_if[p] /\ root[p] /\ nat[u] > 0 THEN nat[u] - 1 ELSE nat[u]]

\* Mutant: the rule of today's default interface is deleted.
CleanupUplink(p) ==
    /\ GoesOn(p, "cleanup", "close")
    /\ nat' = [u \in Uplinks |->
                  IF u = uplink /\ nat_if[p] # None /\ root[p] /\ nat[u] > 0
                  THEN nat[u] - 1 ELSE nat[u]]
    /\ nat_if' = [nat_if EXCEPT ![p] = None]
    /\ IF root[p] THEN UNCHANGED left ELSE LeavesRule(p)
    /\ UNCHANGED <<conf, root, nat_iface, device, addressed, forwarding, uplink>>

\* _cleanup: teardown_nat on the interface of setup_nat.  After a privilege
\* drop it fails silently.
HostCleanup(p) ==
    /\ GoesOn(p, "cleanup", "close")
    /\ nat' = RulesWithout(p)
    /\ nat_if' = [nat_if EXCEPT ![p] = None]
    /\ IF root[p] THEN UNCHANGED left ELSE LeavesRule(p)
    /\ UNCHANGED <<conf, root, nat_iface, device, addressed, forwarding, uplink>>

\* TunInterface.close: the descriptor's device goes, and then whichever
\* device has the name, if the process may still delete one.
CloseTun(p) ==
    /\ GoesOn(p, "close", "off")
    /\ device' = IF root[p] \/ device = p THEN None ELSE device
    /\ addressed' = (addressed /\ device' # None)
    /\ conf' = [conf EXCEPT ![p] = NoConf]
    /\ root' = [root EXCEPT ![p] = TRUE]
    /\ UNCHANGED <<nat_iface, nat_if, forwarding, nat, uplink, left>>

\* The process ends before or inside its try, without _cleanup: the kernel
\* closes the descriptor and with it the device, the rule stays.
Dies(p) ==
    /\ pc' = [pc EXCEPT ![p] = "off"]
    /\ nat_iface' = [nat_iface EXCEPT ![p] = None]
    /\ nat_if' = [nat_if EXCEPT ![p] = None]
    /\ device' = IF device = p THEN None ELSE device
    /\ addressed' = (addressed /\ device # p)
    /\ LeavesRule(p)
    /\ conf' = [conf EXCEPT ![p] = NoConf]
    /\ root' = [root EXCEPT ![p] = TRUE]
    /\ UNCHANGED <<forwarding, nat, uplink>>

\* An exception nobody catches: open() or "ip addr add" fails, getpwnam does
\* not know the user, the port cannot be bound.
StartFails(p) ==
    /\ \/ pc[p] = "open"
       \/ pc[p] = "set_ip" /\ ~SetIpWorks
       \/ pc[p] = "drop" /\ ~MayDrop(p)
       \/ pc[p] = "listen" /\ ~MayListen(p)
    /\ Dies(p)

Kill(p) == pc[p] # "off" /\ Dies(p)

\* The host's default route changes.
Reroute(u) ==
    /\ uplink' = u
    /\ UNCHANGED <<procVars, device, addressed, forwarding, nat, left>>

HostNext ==
    \/ \E p \in Procs :
          \/ \E filePort, cliPort \in Ports \cup {None}, user \in Users \cup {None} :
                Launch(p, filePort, cliPort, user)
          \/ OpenTun(p)
          \/ SetIp(p)
          \/ FindUplink(p)
          \/ SetupNat(p)
          \/ SkipNat(p)
          \/ DropPrivileges(p)
          \/ Listen(p)
          \/ Stop(p)
          \/ HostCleanup(p)
          \/ CloseTun(p)
          \/ StartFails(p)
          \/ Kill(p)
    \/ \E u \in Uplinks \cup {None} : Reroute(u)

HostSpec == HostInit /\ [][HostNext]_hvars

-----------------------------------------------------------------------------
Holders(u) == {p \in Procs : nat_if[p] = u}

(***************************************************************************)
(* No server loses the NAT rule it relies on: however servers start, stop, *)
(* crash and fail to start beside it, and whatever becomes of the default  *)
(* route, an interface has a rule for each server that set one up on it.   *)
(***************************************************************************)
NatHeld == \A u \in Uplinks : Cardinality(Holders(u)) <= nat[u]

(***************************************************************************)
(* docs/ARCHITECTURE_AS_IS.md: the NAT rule is removed on shutdown.  Each  *)
(* rule is that of a living server or was left by one that was killed,     *)
(* failed to start or stopped without root: a server that stops with root  *)
(* leaves no rule of its own and takes no other's, whatever lies about     *)
(* from servers before it.                                                 *)
(***************************************************************************)
NoStrayRules == \A u \in Uplinks : nat[u] = Cardinality(Holders(u)) + left[u]
=============================================================================
