----------------------------- MODULE VpnClient -----------------------------
(***************************************************************************)
(* The UDP client of src/client.py: the outer loop of run(), one           *)
(* connection attempt of _connect(), the datagram handlers and what they   *)
(* do to the tun device and the routing table.                             *)
(*                                                                         *)
(* The client is one asyncio task plus callbacks of the same loop, so a    *)
(* callback, or the code between two sleeps, is one step.  pc says where   *)
(* the task is: "attempt" (about to run _connect), "loop" (in the          *)
(* sleep(1) of its loop), "sleep" (in the sleep(5) between attempts),      *)
(* "done" (run() returned) or "failed" (run() raised).  As in VpnServer,   *)
(* rx is what stays in flight and time stamps are kept as ages.            *)
(***************************************************************************)
EXTENDS Control

CONSTANTS
    ClientConf,         \* what configure() loads into every client session
    ClientTimeout,      \* keepalive_timeout of the client's configuration
    ReconnectDelay,     \* the sleep(5) of run(), in seconds of the model
    RedirectGateway,    \* redirect_gateway
    DropUser,           \* --user is given: privileges go after IP_ASSIGN
    StatusFile,         \* --status is given
    Ips                 \* the virtual addresses a server may assign

ASSUME ClientConfAssumption ==
    /\ ClientConf \in Confs
    /\ RedirectGateway \in BOOLEAN /\ DropUser \in BOOLEAN /\ StatusFile \in BOOLEAN
ASSUME ClientTimesAssumption == ClientTimeout \in Nat /\ ReconnectDelay \in Nat
ASSUME IpsAssumption == Ips \subseteq Nat \ {0}

VARIABLES
    pc,              \* where the task is
    running,         \* _running
    connected,       \* _connected
    handshake_done,  \* _handshake_done
    assigned_ip,     \* _assigned_ip
    data,            \* data
    session,         \* session
    addr,            \* the local end of the current UDP socket
    last_seen,       \* age of _last_seen
    tick_due,        \* the sleep(1) of _connect is over
    wait,            \* what is left of the sleep(5) of run()
    tun_ips,         \* addresses configured on the tun device
    routes_added,    \* _routes_added
    os_routes,       \* routes through the tun device in the kernel
    root,            \* the process may still configure the network
    status,          \* the address in the status file, None for its "N/A"
    attempt_age,     \* history: how long ago the current attempt started
    stop_asked       \* history: stop() was called

taskVars == <<pc, running, connected, wait, tick_due>>
sessionVars == <<handshake_done, assigned_ip, data, session, addr>>
hostVars == <<tun_ips, routes_added, os_routes, root, status>>
historyVars == <<attempt_age, stop_asked>>
clientVars == <<taskVars, sessionVars, hostVars, last_seen, historyVars>>

RouteSet == {"subnet", "default"}

Absent == -1       \* there is no status file

ClientTypeOK ==
    /\ pc \in {"attempt", "loop", "sleep", "done", "failed"}
    /\ running \in BOOLEAN /\ connected \in BOOLEAN /\ handshake_done \in BOOLEAN
    /\ assigned_ip \in Ips \cup {None}
    /\ data \in DataChannels
    /\ session \in Sessions
    /\ addr \in Addrs \cup {None}
    /\ last_seen \in 0..(ClientTimeout + 1)
    /\ tick_due \in BOOLEAN
    /\ wait \in 0..ReconnectDelay
    /\ tun_ips \in SUBSET Ips
    /\ routes_added \in SUBSET RouteSet /\ os_routes \in SUBSET RouteSet
    /\ root \in BOOLEAN
    /\ status \in Ips \cup {None, Absent}
    /\ attempt_age \in 0..(ClientTimeout + 1)
    /\ stop_asked \in BOOLEAN

\* __init__; its first Session is replaced before it is used.
ClientInit ==
    /\ pc = "attempt"
    /\ running = FALSE /\ connected = FALSE /\ handshake_done = FALSE
    /\ assigned_ip = None
    /\ data = NoData
    /\ session = NewSession(None)
    /\ addr = None
    /\ last_seen = 0
    /\ tick_due = FALSE
    /\ wait = 0
    /\ tun_ips = {} /\ routes_added = {} /\ os_routes = {}
    /\ root = TRUE
    /\ status = Absent
    /\ attempt_age = 0
    /\ stop_asked = FALSE

-----------------------------------------------------------------------------
\* StatusFile.maybe_write, forced: os.replace puts the new file in place of
\* the old one, and fails silently in a directory of root's.
WriteStatus(ip) == status' = IF StatusFile /\ root THEN ip ELSE status

\* The same unforced: nothing before ten seconds have passed since the last.
MaybeWriteStatus(ip) == WriteStatus(ip) \/ status' = status

\* StatusFile.close.
RemoveStatus == status' = IF StatusFile /\ root THEN Absent ELSE status

\* Mutant: a new attempt keeps _handshake_done and the data channel.
AttemptNotReset(a, fresh, rx) ==
    /\ pc = "attempt"
    /\ pc' = "loop"
    /\ running' = TRUE
    /\ assigned_ip' = None
    /\ session' = ClientStartHandshake(NewSession(fresh))
    /\ addr' = a
    /\ net' = rx \cup {ResetPacket(a, session')}
    /\ tick_due' = FALSE
    /\ attempt_age' = 0
    /\ UNCHANGED <<connected, wait, handshake_done, data, last_seen, hostVars, stop_asked>>

\* The body of run() up to the first sleep of _connect: everything of the
\* last attempt is reset except last_seen and the tun device, and
\* HARD_RESET_CLIENT is sent once.  A process's first attempt (addr is None)
\* always writes the status file.
Attempt(a, fresh, rx) ==
    /\ pc = "attempt"
    /\ pc' = "loop"
    /\ running' = TRUE
    /\ handshake_done' = FALSE
    /\ assigned_ip' = None
    /\ data' = NoData
    /\ session' = ClientStartHandshake(NewSession(fresh))
    /\ addr' = a
    /\ net' = rx \cup {ResetPacket(a, session')}
    /\ tick_due' = FALSE
    /\ attempt_age' = 0
    /\ IF addr = None THEN WriteStatus(None) ELSE MaybeWriteStatus(None)
    /\ UNCHANGED <<connected, wait, last_seen, tun_ips, routes_added, os_routes, root, stop_asked>>

\* create_datagram_endpoint raises (no name service, no route): nothing
\* catches it, run() closes the tun device and ends.
AttemptRaises(rx) ==
    /\ pc = "attempt"
    /\ pc' = "failed"
    /\ running' = TRUE
    /\ handshake_done' = FALSE
    /\ assigned_ip' = None
    /\ data' = NoData
    /\ session' = NewSession(None)
    /\ tun_ips' = {} /\ os_routes' = {}
    /\ net' = rx
    /\ UNCHANGED <<connected, wait, tick_due, addr, routes_added, root, status, last_seen, historyVars>>

\* Mutant: _cleanup forgets the default route it added.
CleanupDefaultKept ==
    /\ os_routes' = IF root THEN os_routes \ (routes_added \ {"default"}) ELSE os_routes
    /\ routes_added' = {}

\* _cleanup: every recorded route is deleted, which fails without root.
Cleanup ==
    /\ os_routes' = IF root THEN os_routes \ routes_added ELSE os_routes
    /\ routes_added' = {}

\* The loop sees _running FALSE: _connect cleans up, run() breaks and closes
\* the tun device, and with it every route through it.
LoopStops(rx) ==
    /\ pc = "loop" /\ tick_due
    /\ ~running
    /\ routes_added' = {}
    /\ pc' = "done"
    /\ tick_due' = FALSE
    /\ tun_ips' = {} /\ os_routes' = {}
    /\ RemoveStatus
    /\ net' = rx
    /\ UNCHANGED <<running, connected, wait, sessionVars, root, last_seen, historyVars>>

\* Mutant: the timeout no longer waits for the handshake.
TimedOutAlways == last_seen > ClientTimeout

\* Both timeout branches: neither is taken before the handshake is done.
TimedOut == (handshake_done \/ IsEstablished(session)) /\ last_seen > ClientTimeout

DataOpened == ~handshake_done /\ IsEstablished(session)

OpenData ==
    /\ handshake_done' = (handshake_done \/ IsEstablished(session))
    /\ data' = IF DataOpened THEN NewDataChannel(session) ELSE data

\* Mutant: the loop no longer tests _running.
LoopWaitsStopped(rx) ==
    /\ pc = "loop" /\ tick_due
    /\ ~TimedOut
    /\ OpenData
    /\ tick_due' = FALSE
    /\ net' = rx
    /\ MaybeWriteStatus(assigned_ip)
    /\ UNCHANGED <<pc, running, connected, wait, assigned_ip, session, addr, tun_ips,
                   routes_added, os_routes, root, last_seen, historyVars>>

LoopWaits(rx) ==
    /\ pc = "loop" /\ tick_due
    /\ running
    /\ ~TimedOut
    /\ OpenData
    /\ tick_due' = FALSE
    /\ net' = rx
    /\ MaybeWriteStatus(assigned_ip)
    /\ UNCHANGED <<pc, running, connected, wait, assigned_ip, session, addr, tun_ips,
                   routes_added, os_routes, root, last_seen, historyVars>>

\* Mutant: the timeout leaves _connected set.
LoopTimesOutConnected(rx) ==
    /\ pc = "loop" /\ tick_due
    /\ running
    /\ TimedOut
    /\ OpenData
    /\ Cleanup
    /\ RemoveStatus
    /\ pc' = "sleep"
    /\ wait' = ReconnectDelay
    /\ tick_due' = FALSE
    /\ net' = rx
    /\ UNCHANGED <<running, connected, assigned_ip, session, addr, tun_ips, root,
                   last_seen, historyVars>>

\* The server was silent for too long: _connect cleans up and closes the
\* socket, run() goes to sleep.
LoopTimesOut(rx) ==
    /\ pc = "loop" /\ tick_due
    /\ running
    /\ TimedOut
    /\ OpenData
    /\ connected' = FALSE
    /\ Cleanup
    /\ RemoveStatus
    /\ pc' = "sleep"
    /\ wait' = ReconnectDelay
    /\ tick_due' = FALSE
    /\ net' = rx
    /\ UNCHANGED <<running, assigned_ip, session, addr, tun_ips, root, last_seen, historyVars>>

\* The sleep(5) is over and run() tests its loop condition.
WakeUp ==
    /\ pc = "sleep"
    /\ wait = 0
    /\ pc' = IF running \/ ~connected THEN "attempt" ELSE "done"
    /\ UNCHANGED <<net, running, connected, wait, tick_due, sessionVars, hostVars,
                   last_seen, historyVars>>

\* SIGINT or SIGTERM, once _connect has installed the handlers.
StopClient ==
    /\ pc \in {"loop", "sleep"}
    /\ running
    /\ running' = FALSE
    /\ connected' = FALSE
    /\ stop_asked' = TRUE
    /\ UNCHANGED <<net, pc, wait, tick_due, sessionVars, hostVars, last_seen, attempt_age>>

\* The process dies, the tun device with it, and is started again; its
\* status file stays.
RestartClient ==
    /\ pc \notin {"done", "failed"}
    /\ pc' = "attempt"
    /\ running' = FALSE /\ connected' = FALSE /\ handshake_done' = FALSE
    /\ assigned_ip' = None
    /\ data' = NoData
    /\ session' = NewSession(None)
    /\ addr' = None
    /\ last_seen' = 0
    /\ tick_due' = FALSE
    /\ wait' = 0
    /\ tun_ips' = {} /\ routes_added' = {} /\ os_routes' = {}
    /\ root' = TRUE
    /\ stop_asked' = FALSE
    /\ UNCHANGED <<net, status, attempt_age>>

-----------------------------------------------------------------------------
\* Every datagram refreshes _last_seen before it is looked at.
Receives == pc = "loop" /\ last_seen' = 0

RecvResetAck(sid, rx) ==
    /\ Receives
    /\ session' = ClientHandleResetAck(session, sid)
    /\ net' = rx \cup {ClientHelloPacket(addr, session', ClientConf)}
    /\ UNCHANGED <<taskVars, handshake_done, assigned_ip, data, addr, hostVars, historyVars>>

RecvServerHello(cert, pub, sig, rx) ==
    /\ Receives
    /\ session' = ClientHandleServerHello(session, ClientConf, cert, pub, sig)
    /\ net' = rx \cup IF IsEstablished(session')
                      THEN {FinishedPacket(addr, session', ClientConf)} ELSE {}
    /\ UNCHANGED <<taskVars, handshake_done, assigned_ip, data, addr, hostVars, historyVars>>

SetIpWorks(ip) == root /\ ip \notin tun_ips

\* Mutant: a route to the server is recorded as well.
WantedServerToo == RouteSet \cup {"server"}

\* The routes _handle_ip_assign adds and records.
Wanted == IF RedirectGateway THEN RouteSet ELSE {"subnet"}

\* Mutant: the write on IP_ASSIGN waits for its interval.
ShowIpLater(ip) == MaybeWriteStatus(ip)

ShowIp(ip) == WriteStatus(ip)

\* _handle_ip_assign: the status file, set_ip, the routes, then the
\* privilege drop.
RecvIpAssign(ip, rx) ==
    /\ Receives
    /\ SetIpWorks(ip)
    /\ assigned_ip' = ip
    /\ connected' = TRUE
    /\ ShowIp(ip)
    /\ tun_ips' = tun_ips \cup {ip}
    /\ os_routes' = os_routes \cup Wanted
    /\ routes_added' = routes_added \cup Wanted
    /\ root' = (root /\ ~DropUser)
    /\ net' = rx
    /\ UNCHANGED <<pc, running, wait, tick_due, handshake_done, data, session, addr, historyVars>>

\* set_ip raises (the address is there already, or root is gone): what
\* _handle_ip_assign set before stays, what comes after is skipped.
RecvIpAssignRaises(ip, rx) ==
    /\ Receives
    /\ ~SetIpWorks(ip)
    /\ assigned_ip' = ip
    /\ connected' = TRUE
    /\ ShowIp(ip)
    /\ net' = rx
    /\ UNCHANGED <<pc, running, wait, tick_due, handshake_done, data, session, addr,
                   tun_ips, routes_added, os_routes, root, historyVars>>

RecvKeepalive(rx) ==
    /\ Receives
    /\ net' = rx \cup {Packet("server", addr, "KEEPALIVE")}
    /\ UNCHANGED <<taskVars, sessionVars, hostVars, historyVars>>

RecvData(rx) ==
    /\ Receives
    /\ net' = rx
    /\ UNCHANGED <<taskVars, sessionVars, hostVars, historyVars>>

\* A datagram for a socket that is closed.
ClientUnreachable(rx) ==
    /\ pc # "loop"
    /\ net' = rx
    /\ UNCHANGED clientVars

Aged(age) == IF age <= ClientTimeout THEN age + 1 ELSE age

\* One second passes; the loop must have taken its turn of the last one.
ClientTick ==
    /\ pc = "loop" => ~tick_due
    /\ pc # "attempt"
    /\ pc = "sleep" => wait > 0
    /\ tick_due' = (pc = "loop")
    /\ wait' = IF wait > 0 THEN wait - 1 ELSE 0
    /\ last_seen' = Aged(last_seen)
    /\ attempt_age' = Aged(attempt_age)
    /\ UNCHANGED <<pc, running, connected, sessionVars, hostVars, stop_asked>>

-----------------------------------------------------------------------------
(***************************************************************************)
(* The client on its own: any datagram may arrive at its socket at any     *)
(* time, and everything it sends is taken off the network at once.         *)
(***************************************************************************)
ClientReceives ==
    \/ \E sid \in PeerSids : RecvResetAck(sid, {})
    \/ \E cert \in Certs \cup {None}, pub \in PeerSids :
          \E sig \in {NoSig} \cup [by : Certs, over : {session.sid} \X PeerSids] :
              RecvServerHello(cert, pub, sig, {})
    \/ \E ip \in Ips : RecvIpAssign(ip, {}) \/ RecvIpAssignRaises(ip, {})
    \/ RecvKeepalive({})
    \/ RecvData({})
    \/ ClientUnreachable({})

ClientSteps ==
    \/ \E a \in Addrs, fresh \in Sids \ PeerSids : Attempt(a, fresh, {})
    \/ LoopStops({})
    \/ LoopWaits({})
    \/ LoopTimesOut({})
    \/ WakeUp

ClientNext ==
    \/ ClientSteps
    \/ ClientReceives
    \/ AttemptRaises({})
    \/ StopClient
    \/ RestartClient
    \/ ClientTick /\ net' = {}

cvars == <<net, clientVars>>

ClientAloneInit == ClientInit /\ net = {}

ClientSpec == ClientAloneInit /\ [][ClientNext]_cvars

\* The asyncio loop runs what is ready, and time passes.
FairClientSpec ==
    ClientSpec /\ WF_cvars(ClientSteps) /\ WF_cvars(ClientTick /\ net' = {})

-----------------------------------------------------------------------------
(***************************************************************************)
(* "Connected" always speaks of the current attempt: between attempts the  *)
(* client is not connected (run() would return instead of retrying), and a *)
(* connected client knows its virtual address.                             *)
(***************************************************************************)
ConnectedThisAttempt == connected => pc \in {"loop", "done"} /\ assigned_ip # None

(***************************************************************************)
(* While the client may configure the network, the kernel's routes through *)
(* the tunnel are exactly those _cleanup will delete, so none outlives an  *)
(* attempt, on whatever path it ends and however often IP_ASSIGN arrives.  *)
(***************************************************************************)
RoutesTracked ==
    root => /\ os_routes = routes_added
            /\ pc # "loop" => os_routes = {}

(***************************************************************************)
(* The status file never shows another attempt's address: what a crash     *)
(* left is overwritten before the first sleep, a new address is written at *)
(* once, and no file outlives the attempt while it may be removed.         *)
(***************************************************************************)
StatusCurrent ==
    root => /\ pc = "loop" => status \in {assigned_ip, Absent}
            /\ pc \in {"sleep", "done"} => status = Absent

(***************************************************************************)
(* An attempt is never cut short by silence from before it: _last_seen is  *)
(* not reset on reconnect, and yet a timeout needs a full timeout's worth  *)
(* of silence within the attempt.                                          *)
(***************************************************************************)
NoEarlyTimeout ==
    [][pc = "loop" /\ pc' = "sleep" => attempt_age > ClientTimeout]_cvars

(***************************************************************************)
(* stop() called while an attempt is under way ends the client, unless it  *)
(* is killed and started again before.                                     *)
(***************************************************************************)
StopEndsAttempt == pc = "loop" /\ ~running ~> pc \in {"done", "attempt"}

(***************************************************************************)
(* docs/ARCHITECTURE_AS_IS.md: "signal handlers (SIGINT/SIGTERM) stop the  *)
(* loops": stop() ends the client whenever it is called.                   *)
(***************************************************************************)
StopHonoured == stop_asked ~> pc \in {"done", "failed"} \/ ~stop_asked
=============================================================================
