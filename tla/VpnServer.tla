----------------------------- MODULE VpnServer -----------------------------
(***************************************************************************)
(* The UDP server of src/server.py: its client table, the address          *)
(* pool, the per-client routes and the once-a-second main loop.            *)
(*                                                                         *)
(* Everything runs on one asyncio loop and no handler suspends in UDP mode *)
(* so a handler, and an iteration of the main loop, is one step.  A        *)
(* handler takes the datagram's client address, its contents, and rx, the  *)
(* datagrams that stay in flight when it has been received; it adds its    *)
(* replies to rx.                                                          *)
(*                                                                         *)
(* Time is counted in iterations of the main loop.  last_seen, created and *)
(* last_keepalive hold the age of the source's time stamps, and stop       *)
(* counting one past the largest value any comparison tells apart.         *)
(***************************************************************************)
EXTENDS Control, IpPool

CONSTANTS
    ServerConf,        \* what configure() loads into every server session
    ServerRoot,        \* FALSE when --user dropped the right to add routes
    KeepaliveInterval, \* keepalive_interval
    KeepaliveTimeout,  \* keepalive_timeout
    HandshakeTimeout   \* HANDSHAKE_TIMEOUT

ASSUME ClientIdsAssumption == ClientIds = Addrs
ASSUME ServerConfAssumption == ServerConf \in Confs /\ ServerRoot \in BOOLEAN
ASSUME TimeoutsAssumption ==
    KeepaliveInterval \in Nat /\ KeepaliveTimeout \in Nat /\ HandshakeTimeout \in Nat

VARIABLES
    clients,     \* clients: address -> ClientSession
    ip_to_addr,  \* ip_to_addr: virtual address -> client address
    routes,      \* the host routes through the tun device
    srv,         \* "running", "stopping" (stop() was called) or "down"
    due          \* the main loop has slept its second out

serverVars == <<clients, ip_to_addr, routes, srv, due, available, allocated, allocatedByInt>>

ClientSessions ==
    [session : Sessions, data : DataChannels, virtual_ip : Pool \cup {None},
     last_seen : Nat, last_keepalive : Nat]

ServerTypeOK ==
    /\ PoolTypeOK
    /\ DOMAIN clients \subseteq Addrs
    /\ \A a \in DOMAIN clients : clients[a] \in ClientSessions
    /\ DOMAIN ip_to_addr \subseteq Pool
    /\ \A ip \in DOMAIN ip_to_addr : ip_to_addr[ip] \in Addrs
    /\ routes \in SUBSET Pool
    /\ srv \in {"running", "stopping", "down"}
    /\ due \in BOOLEAN

ServerInit ==
    /\ PoolInit
    /\ clients = EmptyDict
    /\ ip_to_addr = EmptyDict
    /\ routes = {}
    /\ srv = "running"
    /\ due = TRUE

-----------------------------------------------------------------------------
\* ClientSession.__init__: last_keepalive is 0.0, older than any interval.
NewClientSession(session) ==
    [session |-> session, data |-> NoData, virtual_ip |-> None,
     last_seen |-> 0, last_keepalive |-> KeepaliveInterval]

IsReady(cs) == IsEstablished(cs.session) /\ cs.data.open

SidsInUse ==
    UNION {SessionSids(clients[a].session) \cup DataSids(clients[a].data) : a \in DOMAIN clients}

\* _get_or_create_session: a known address keeps its own.
GetOrCreateSession(a, fresh) ==
    IF a \in DOMAIN clients THEN clients ELSE Put(clients, a, NewClientSession(NewSession(fresh)))

\* A HARD_RESET_CLIENT shorter than its header: the session is in the table
\* when decode_packet raises, and stays there as it is.
HandleResetRaises(a, fresh, rx) ==
    /\ srv # "down"
    /\ clients' = GetOrCreateSession(a, fresh)
    /\ net' = rx
    /\ UNCHANGED <<ip_to_addr, routes, srv, due, poolVars>>

\* Only HARD_RESET_CLIENT creates a session.
HandleResetNew(a, sid, fresh, rx) ==
    /\ srv # "down"
    /\ a \notin DOMAIN clients
    /\ LET s == ServerHandleReset(NewSession(fresh), sid)
       IN  /\ clients' = Put(clients, a, NewClientSession(s))
           /\ net' = rx \cup {ResetAckPacket(a, s)}
    /\ UNCHANGED <<ip_to_addr, routes, srv, due, poolVars>>

\* last_seen is not touched here.
HandleResetKnown(a, sid, rx) ==
    /\ srv # "down"
    /\ a \in DOMAIN clients
    /\ LET s == ServerHandleReset(clients[a].session, sid)
       IN  /\ clients' = [clients EXCEPT ![a].session = s]
           /\ net' = rx \cup {ResetAckPacket(a, s)}
    /\ UNCHANGED <<ip_to_addr, routes, srv, due, poolVars>>

\* Any other datagram of an unknown address is dropped.
HandleUnknown(a, rx) ==
    /\ srv # "down"
    /\ a \notin DOMAIN clients
    /\ net' = rx
    /\ UNCHANGED serverVars

Heard(a, session) == [clients[a] EXCEPT !.session = session, !.last_seen = 0]

HandleClientHello(a, cert, pub, rx) ==
    /\ srv # "down"
    /\ a \in DOMAIN clients
    /\ LET s == ServerHandleClientHello(clients[a].session, ServerConf, cert, pub)
       IN  /\ clients' = [clients EXCEPT ![a] = Heard(a, s)]
           /\ net' = rx \cup IF s.st = "HELLO_SENT"
                             THEN {ServerHelloPacket(a, s, ServerConf)} ELSE {}
    /\ UNCHANGED <<ip_to_addr, routes, srv, due, poolVars>>

\* A CLIENT_HELLO or CLIENT_FINISHED that does not parse.
HandleUnparsable(a, cert, pub, rx) ==
    /\ srv # "down"
    /\ a \in DOMAIN clients
    /\ \E s \in ServerParseFails(clients[a].session, cert, pub) :
          clients' = [clients EXCEPT ![a] = Heard(a, s)]
    /\ net' = rx
    /\ UNCHANGED <<ip_to_addr, routes, srv, due, poolVars>>

Finished(a, sig) == ServerHandleClientFinished(clients[a].session, sig)

\* Mutant: a repeated CLIENT_FINISHED opens the channel, and allocates, again.
OpensDataAgain(a, sig) == IsEstablished(Finished(a, sig))

\* The data channel is built once per ClientSession, however many handshakes
\* it goes through.
OpensData(a, sig) == IsEstablished(Finished(a, sig)) /\ ~clients[a].data.open

\* A rejected CLIENT_FINISHED, or one for a client that has its channel.
FinishedOnly(a, sig, rx) ==
    /\ srv # "down"
    /\ a \in DOMAIN clients
    /\ ~OpensData(a, sig)
    /\ clients' = [clients EXCEPT ![a] = Heard(a, Finished(a, sig))]
    /\ net' = rx
    /\ UNCHANGED <<ip_to_addr, routes, srv, due, poolVars>>

\* _assign_ip_to_client with an address left: IP_ASSIGN is sent once, and the
\* route is added after it.
FinishedAssigned(a, sig, ip, rx) ==
    /\ srv # "down"
    /\ a \in DOMAIN clients
    /\ OpensData(a, sig)
    /\ Allocate(a, ip)
    /\ LET s == Finished(a, sig)
       IN  clients' = [clients EXCEPT ![a] =
               [Heard(a, s) EXCEPT !.data = NewDataChannel(s), !.virtual_ip = ip]]
    /\ ip_to_addr' = Put(ip_to_addr, ip, a)
    /\ net' = rx \cup {[Packet("client", a, "IP_ASSIGN") EXCEPT !.ip = ip]}
    /\ routes' = IF ServerRoot THEN routes \cup {ip} ELSE routes
    /\ UNCHANGED <<srv, due>>

\* _assign_ip_to_client with the pool exhausted: the client is ready all the
\* same, and is told nothing.
FinishedExhausted(a, sig, rx) ==
    /\ srv # "down"
    /\ a \in DOMAIN clients
    /\ OpensData(a, sig)
    /\ Exhausted
    /\ LET s == Finished(a, sig)
       IN  clients' = [clients EXCEPT ![a] = [Heard(a, s) EXCEPT !.data = NewDataChannel(s)]]
    /\ net' = rx
    /\ UNCHANGED <<ip_to_addr, routes, srv, due>>

HandleClientFinished(a, sig, rx) ==
    \/ FinishedOnly(a, sig, rx)
    \/ \E ip \in Pool : FinishedAssigned(a, sig, ip, rx)
    \/ FinishedExhausted(a, sig, rx)

\* KEEPALIVE and DATA of a known client refresh last_seen, and so does a
\* CONTROL datagram that is cut short or of no known type; the tunnelled
\* packet itself is not part of this module.
HandleTraffic(a, rx) ==
    /\ srv # "down"
    /\ a \in DOMAIN clients
    /\ clients' = [clients EXCEPT ![a].last_seen = 0]
    /\ net' = rx
    /\ UNCHANGED <<ip_to_addr, routes, srv, due, poolVars>>

-----------------------------------------------------------------------------
\* Mutant: sessions that never finished their handshake are kept.
StaleEstablished(a) ==
    IsEstablished(clients[a].session) /\ clients[a].last_seen > KeepaliveTimeout

\* Mutant: established sessions never go stale.
StaleHandshakes(a) ==
    ~IsEstablished(clients[a].session) /\ IsExpired(clients[a].session, HandshakeTimeout)

Stale(a) ==
    \/ IsEstablished(clients[a].session) /\ clients[a].last_seen > KeepaliveTimeout
    \/ ~IsEstablished(clients[a].session) /\ IsExpired(clients[a].session, HandshakeTimeout)

Removed == {a \in DOMAIN clients : Stale(a)}

VirtualIps(as) == {clients[a].virtual_ip : a \in as} \ {None}

\* Mutant: the client goes, the route to its address stays.
RemoveClientsRoutesKept(as) ==
    /\ ip_to_addr' = PopAll(ip_to_addr, VirtualIps(as))
    /\ UNCHANGED routes
    /\ ReleaseAll({a \in as : clients[a].virtual_ip # None})

\* Mutant: the client goes, its address stays mapped to it.
RemoveClientsMapped(as) ==
    /\ UNCHANGED <<ip_to_addr, routes>>
    /\ ReleaseAll({a \in as : clients[a].virtual_ip # None})

\* _remove_client for each of as: the address is unmapped, its route deleted
\* (if the process still may), and the pool gets it back.
RemoveClients(as) ==
    /\ ip_to_addr' = PopAll(ip_to_addr, VirtualIps(as))
    /\ routes' = IF ServerRoot THEN routes \ (VirtualIps(as) \cap DOMAIN ip_to_addr) ELSE routes
    /\ ReleaseAll({a \in as : clients[a].virtual_ip # None})

KeepaliveDue(a) ==
    IsReady(clients[a]) /\ clients[a].last_keepalive >= KeepaliveInterval

\* One iteration: _cleanup_stale, then _send_keepalives to who is left.
MainLoop(rx) ==
    /\ srv = "running"
    /\ due
    /\ RemoveClients(Removed)
    /\ clients' = [a \in DOMAIN clients \ Removed |->
                      IF KeepaliveDue(a) THEN [clients[a] EXCEPT !.last_keepalive = 0]
                                         ELSE clients[a]]
    /\ net' = rx \cup {Packet("client", a, "KEEPALIVE") :
                          a \in {b \in DOMAIN clients \ Removed : KeepaliveDue(b)}}
    /\ due' = FALSE
    /\ UNCHANGED srv

-----------------------------------------------------------------------------
\* SIGINT or SIGTERM: stop().
StopServer ==
    /\ srv = "running"
    /\ srv' = "stopping"
    /\ UNCHANGED <<net, clients, ip_to_addr, routes, due, poolVars>>

\* The loop ends: _cleanup deletes the clients' routes and clears the table;
\* tun.close() deletes the device, and any route left through it, and the
\* pool goes with the process.
ExitServer(rx) ==
    /\ srv = "stopping"
    /\ due
    /\ routes' = {}
    /\ clients' = EmptyDict
    /\ ip_to_addr' = EmptyDict
    /\ available' = Pool /\ allocated' = EmptyDict /\ allocatedByInt' = EmptyDict
    /\ srv' = "down"
    /\ due' = FALSE
    /\ net' = rx

\* The process dies: its memory and the tun device with its routes are gone.
CrashServer ==
    /\ srv # "down"
    /\ srv' = "down"
    /\ due' = FALSE
    /\ routes' = {}
    /\ clients' = EmptyDict
    /\ ip_to_addr' = EmptyDict
    /\ available' = Pool /\ allocated' = EmptyDict /\ allocatedByInt' = EmptyDict
    /\ UNCHANGED net

\* A new process: VpnServer.__init__ and run() up to the main loop.
StartServer ==
    /\ srv = "down"
    /\ srv' = "running"
    /\ due' = TRUE
    /\ UNCHANGED <<net, clients, ip_to_addr, routes, poolVars>>

\* Nobody listens on the port.
ServerUnreachable(rx) ==
    /\ srv = "down"
    /\ net' = rx
    /\ UNCHANGED serverVars

Older(age, cap) == IF age < cap THEN age + 1 ELSE age

\* One second passes; the loop must have taken its turn of the last one.
ServerTick ==
    /\ srv # "down" => ~due
    /\ due' = (srv # "down")
    /\ clients' = [a \in DOMAIN clients |->
          [clients[a] EXCEPT
              !.session.created = Older(@, HandshakeTimeout + 1),
              !.last_seen = Older(@, KeepaliveTimeout + 1),
              !.last_keepalive = Older(@, KeepaliveInterval)]]
    /\ UNCHANGED <<ip_to_addr, routes, srv, poolVars>>

-----------------------------------------------------------------------------
(***************************************************************************)
(* The server on its own: any client address may send any datagram at any  *)
(* time, well-formed or not, and every reply is taken off the network at   *)
(* once.                                                                   *)
(***************************************************************************)
ServerReceives(a) ==
    \/ \E sid \in PeerSids, fresh \in Sids \ (PeerSids \cup SidsInUse) :
          HandleResetNew(a, sid, fresh, {})
    \/ \E sid \in PeerSids : HandleResetKnown(a, sid, {})
    \/ \E cert \in Certs \cup {None}, pub \in PeerSids :
          HandleClientHello(a, cert, pub, {}) \/ HandleUnparsable(a, cert, pub, {})
    \/ \E sig \in {NoSig} \cup [by : Certs, over : PeerSids \X Sids] :
          HandleClientFinished(a, sig, {})
    \/ HandleTraffic(a, {})
    \/ HandleUnknown(a, {})

ServerNext ==
    \/ \E a \in Addrs : ServerReceives(a)
    \/ \E a \in Addrs, fresh \in Sids \ (PeerSids \cup SidsInUse) :
          HandleResetRaises(a, fresh, {})
    \/ MainLoop({})
    \/ StopServer
    \/ ExitServer({})
    \/ CrashServer
    \/ StartServer
    \/ ServerUnreachable({})
    \/ ServerTick /\ net' = {}

svars == <<net, serverVars>>

ServerAloneInit == ServerInit /\ net = {}

ServerSpec == ServerAloneInit /\ [][ServerNext]_svars

\* The asyncio loop keeps running and time passes.
FairServerSpec ==
    /\ ServerSpec
    /\ WF_svars(MainLoop({}))
    /\ WF_svars(ExitServer({}))
    /\ WF_svars(ServerTick /\ net' = {})

-----------------------------------------------------------------------------
(***************************************************************************)
(* The client table, ip_to_addr and the two dictionaries of the pool say   *)
(* the same, whatever datagrams arrive in whatever order: a client's       *)
(* virtual address maps back to it, is allocated to it and to nobody else, *)
(* and only clients with a data channel hold one.                          *)
(***************************************************************************)
TablesAgree ==
    /\ \A a \in DOMAIN clients : clients[a].virtual_ip # None =>
          /\ clients[a].data.open
          /\ clients[a].virtual_ip \in DOMAIN ip_to_addr
          /\ ip_to_addr[clients[a].virtual_ip] = a
    /\ \A ip \in DOMAIN ip_to_addr :
          ip_to_addr[ip] \in DOMAIN clients /\ clients[ip_to_addr[ip]].virtual_ip = ip
    /\ DOMAIN allocated = {a \in DOMAIN clients : clients[a].virtual_ip # None}
    /\ \A a \in DOMAIN allocated : allocated[a] = clients[a].virtual_ip
    /\ allocatedByInt = ip_to_addr

(***************************************************************************)
(* No address is lost or handed out twice: each one is in the pool or held *)
(* by a client of the table, never both.                                   *)
(***************************************************************************)
PoolConserved ==
    /\ available \cap VirtualIps(DOMAIN clients) = {}
    /\ available \cup VirtualIps(DOMAIN clients) = Pool

(***************************************************************************)
(* The host routes are those of the clients in the table, so removing a    *)
(* client or stopping the server leaves none behind.                       *)
(***************************************************************************)
RoutesMatch == ServerRoot => routes = DOMAIN ip_to_addr

(***************************************************************************)
(* While a client stays in the table, the address it was told in its only  *)
(* IP_ASSIGN stays its own, through every later handshake.                 *)
(***************************************************************************)
AddressKept ==
    [][\A a \in DOMAIN clients \cap DOMAIN clients' :
          clients[a].virtual_ip # None => clients'[a].virtual_ip = clients[a].virtual_ip]_svars

(***************************************************************************)
(* The client table and ip_to_addr implement the abstract lease, through   *)
(* restarts of the process too: the least free address, one per client,    *)
(* back exactly when _remove_client, or the end of the process, takes the  *)
(* client out of the table.                                                *)
(***************************************************************************)
Lease == INSTANCE AddressLease WITH
    Holders <- Addrs,
    members <- DOMAIN clients,
    lease <- ip_to_addr
ImplementsLease == Lease!LeaseSpec

(***************************************************************************)
(* A client whose handshake has begun is heard from again and again or     *)
(* removed: its table entry cannot outlive it, at whatever message its     *)
(* handshake stopped, also at one that did not parse.  Only an entry that  *)
(* never left IDLE stays for ever (HandleResetRaises, is_expired).         *)
(***************************************************************************)
SilentReclaimed ==
    \A a \in Addrs :
        []<>(a \in DOMAIN clients /\ clients[a].session.st # "IDLE" => clients[a].last_seen = 0)

(***************************************************************************)
(* A handshake that has begun ends, in ESTABLISHED or with its entry: not  *)
(* even a client that starts over again and again, and is heard from all   *)
(* the while, keeps an unfinished handshake in the table.                  *)
(***************************************************************************)
BegunHandshakesEnd ==
    \A a \in Addrs :
        []<>(a \in DOMAIN clients =>
                IsEstablished(clients[a].session) \/ clients[a].session.st = "IDLE")
=============================================================================
