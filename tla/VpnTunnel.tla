----------------------------- MODULE VpnTunnel -----------------------------
(***************************************************************************)
(* One VpnClient and one VpnServer over UDP: every datagram a handler      *)
(* receives is one the other side sent.  Either process may crash and be   *)
(* started again, datagrams may be lost or delivered twice, each within a  *)
(* budget.                                                                 *)
(***************************************************************************)
EXTENDS VpnServer, VpnClient

CONSTANTS
    Scenarios,     \* each gives the kinds of faults that may happen their number
    Prompt,        \* TRUE: datagrams arrive within the second they are sent in
    QuickRestart,  \* TRUE: a dead server is started again within the second
    ReuseAddr      \* TRUE: a new socket may get an address the server knows

FaultKinds == {"loss", "dup", "server", "client", "stop"}

ASSUME PoolAssigned == Ips = Pool
ASSUME FaultsAssumption ==
    /\ \A m \in Scenarios : \E kinds \in SUBSET FaultKinds : m \in [kinds -> Nat]
    /\ Prompt \in BOOLEAN /\ QuickRestart \in BOOLEAN /\ ReuseAddr \in BOOLEAN

VARIABLE faults    \* how many faults of each kind may still happen

tvars == <<net, serverVars, clientVars, faults>>

TunnelInit ==
    /\ ServerInit
    /\ ClientInit
    /\ net = {}
    /\ faults \in Scenarios

-----------------------------------------------------------------------------
\* os.urandom: the least token nothing in the system refers to any more.
TokensInUse ==
    UNION {SidsInUse, SessionSids(session), DataSids(data), UNION {PacketSids(p) : p \in net}}

Unused(sid) ==
    /\ sid \in Sids \ TokensInUse
    /\ \A other \in Sids \ TokensInUse : sid <= other

\* The kernel picks the port of a new socket; behind a NAT it may come out
\* as an address the server still has a session for.
NewAddr(a) ==
    ReuseAddr \/ a \notin DOMAIN clients \cup {p.addr : p \in net} \cup {addr}

ServerHandles(p, rx) ==
    /\ p.to = "server"
    /\ \/ /\ p.type = "HARD_RESET_CLIENT"
          /\ \/ \E fresh \in Sids : Unused(fresh) /\ HandleResetNew(p.addr, p.sid, fresh, rx)
             \/ HandleResetKnown(p.addr, p.sid, rx)
       \/ p.type = "CLIENT_HELLO" /\ HandleClientHello(p.addr, p.cert, p.sid, rx)
       \/ p.type = "CLIENT_FINISHED" /\ HandleClientFinished(p.addr, p.sig, rx)
       \/ p.type = "KEEPALIVE" /\ HandleTraffic(p.addr, rx)
       \/ p.type # "HARD_RESET_CLIENT" /\ HandleUnknown(p.addr, rx)
       \/ ServerUnreachable(rx)
    /\ UNCHANGED clientVars

ClientHandles(p, rx) ==
    /\ p.to = "client"
    /\ p.addr = addr
    /\ \/ p.type = "HARD_RESET_SERVER" /\ RecvResetAck(p.sid, rx)
       \/ p.type = "SERVER_HELLO" /\ RecvServerHello(p.cert, p.sid, p.sig, rx)
       \/ p.type = "IP_ASSIGN" /\ (RecvIpAssign(p.ip, rx) \/ RecvIpAssignRaises(p.ip, rx))
       \/ p.type = "KEEPALIVE" /\ RecvKeepalive(rx)
       \/ ClientUnreachable(rx)
    /\ UNCHANGED serverVars

\* The socket the datagram was for no longer exists.
Undeliverable(p, rx) ==
    /\ p.to = "client"
    /\ p.addr # addr
    /\ net' = rx
    /\ UNCHANGED <<serverVars, clientVars>>

Delivery(p, rx) == ServerHandles(p, rx) \/ ClientHandles(p, rx) \/ Undeliverable(p, rx)

Fault(kind) ==
    /\ kind \in DOMAIN faults
    /\ faults[kind] > 0
    /\ faults' = [faults EXCEPT ![kind] = @ - 1]

Deliver == \E p \in net : Delivery(p, net \ {p}) /\ UNCHANGED faults

Duplicate == \E p \in net : Delivery(p, net) /\ Fault("dup")

Lose ==
    /\ Fault("loss")
    /\ \E p \in net : net' = net \ {p}
    /\ UNCHANGED <<serverVars, clientVars>>

-----------------------------------------------------------------------------
ServerStep == MainLoop(net) /\ UNCHANGED <<clientVars, faults>>

ServerDies == CrashServer /\ Fault("server") /\ UNCHANGED clientVars

ServerStarts == StartServer /\ UNCHANGED <<clientVars, faults>>

ClientStep ==
    /\ \/ \E a \in Addrs, fresh \in Sids :
             NewAddr(a) /\ Unused(fresh) /\ Attempt(a, fresh, net)
       \/ LoopWaits(net)
       \/ LoopStops(net)
       \/ LoopTimesOut(net)
       \/ WakeUp
    /\ UNCHANGED <<serverVars, faults>>

ClientRestarts == RestartClient /\ Fault("client") /\ UNCHANGED serverVars

ClientStopped == StopClient /\ Fault("stop") /\ UNCHANGED serverVars

Tick ==
    /\ Prompt => net = {}
    /\ QuickRestart => srv # "down"
    /\ ServerTick
    /\ ClientTick
    /\ UNCHANGED <<net, faults>>

TunnelNext ==
    \/ Deliver
    \/ Duplicate
    \/ Lose
    \/ ServerStep
    \/ ServerDies
    \/ ServerStarts
    \/ ClientStep
    \/ ClientRestarts
    \/ ClientStopped
    \/ Tick

\* Both event loops run what is ready, a datagram that is not lost arrives,
\* a dead server is started again, and time passes.
TunnelSpec ==
    /\ TunnelInit
    /\ [][TunnelNext]_tvars
    /\ WF_tvars(Deliver)
    /\ WF_tvars(ServerStep)
    /\ WF_tvars(ServerStarts)
    /\ WF_tvars(ClientStep)
    /\ WF_tvars(Tick)

-----------------------------------------------------------------------------
\* Both ends hold the same data channel and agree on the virtual address.
Connected ==
    /\ pc = "loop"
    /\ connected
    /\ addr \in DOMAIN clients
    /\ IsReady(clients[addr])
    /\ data.open
    /\ clients[addr].data = data
    /\ clients[addr].virtual_ip = assigned_ip

\* ... and the client's tun device and routes are set up for it.
Working ==
    /\ Connected
    /\ assigned_ip \in tun_ips
    /\ os_routes = Wanted

\* Kinds of faults the scenario rules out; DOMAIN faults never changes.
Lossless == "loss" \notin DOMAIN faults
ServerLives == "server" \notin DOMAIN faults

(***************************************************************************)
(* Once a client is past its handshake, a crash and restart of the server  *)
(* or of the client is survived if no datagram is lost on the way: the two *)
(* ends agree on a new data channel and address, unless the client is      *)
(* stopped.                                                                *)
(***************************************************************************)
Reconnects == Lossless => (handshake_done ~> (Connected \/ stop_asked))

(***************************************************************************)
(* Sessions a client left behind, by crashing, reconnecting or stopping,   *)
(* are removed: the server again and again holds at most the session of    *)
(* the live client, and has every other address back in its pool.          *)
(***************************************************************************)
OnlyLiveSession ==
    []<>(/\ DOMAIN clients \subseteq {addr}
         /\ pc = "done" => available = Pool)

(***************************************************************************)
(* README.md: "the peer detects the loss via keepalive timeout, tears the  *)
(* session down, and the client auto-reconnects": a client that may be     *)
(* killed at any point of the handshake, and started again, is again and   *)
(* again connected while the server lives.                                 *)
(***************************************************************************)
AutoReconnects == Lossless /\ ServerLives => []<>(Connected \/ stop_asked)

(***************************************************************************)
(* docs/DEPLOYMENT.md: the client "receives a virtual IP from the pool,    *)
(* configures its TUN device, and installs the route", also when it        *)
(* reconnects.                                                             *)
(***************************************************************************)
ReconnectsConfigured == handshake_done ~> (Working \/ stop_asked)

(***************************************************************************)
(* Whenever both ends have a data channel for the current attempt they     *)
(* have the same one.                                                      *)
(***************************************************************************)
ChannelsAgree ==
    pc = "loop" /\ data.open /\ addr \in DOMAIN clients /\ clients[addr].data.open
        => clients[addr].data = data

(***************************************************************************)
(* A client that thinks itself connected uses the virtual address the      *)
(* server routes to it, whatever was lost or delivered twice on the way.   *)
(***************************************************************************)
AddressesAgree ==
    pc = "loop" /\ connected /\ addr \in DOMAIN clients
        => clients[addr].virtual_ip = assigned_ip
=============================================================================
