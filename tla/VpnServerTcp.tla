---------------------------- MODULE VpnServerTcp ----------------------------
(***************************************************************************)
(* The server of src/server.py in TCP mode (proto tcp): a handler task per *)
(* connection next to the main loop.  Frames go through the same           *)
(* handle_udp_data as datagrams, so the session handlers are VpnServer's.  *)
(* What is new is that a connection brings its session with it and takes   *)
(* it away, and that the main loop awaits drain() on connections whose     *)
(* handlers have not noticed yet that they are gone.                       *)
(*                                                                         *)
(* asyncio's streams are external.  drain() never waits here: the server   *)
(* writes a handshake reply and an 11-byte keepalive now and then, far     *)
(* below the 64 KiB at which asyncio pauses a writer.                      *)
(***************************************************************************)
EXTENDS VpnServer

\* The connection of each address: "none"; "open", its handler awaiting the
\* next frame; "lost", reset while its handler still sleeps; or "closed" by
\* _remove_client, with frames in its buffer for the handler yet.
VARIABLE conns

tcpVars == <<net, serverVars, conns>>

ConnStates == {"none", "open", "lost", "closed"}

TcpTypeOK == ServerTypeOK /\ conns \in [Addrs -> ConnStates]

TcpInit ==
    /\ ServerInit
    /\ net = {}
    /\ conns = [a \in Addrs |-> "none"]

-----------------------------------------------------------------------------
\* A connection is accepted: _get_or_create_session, before any frame.  The
\* new session stays IDLE until a HARD_RESET comes, and IDLE ones never
\* expire.
Accept(a, fresh) ==
    /\ srv = "running"
    /\ conns[a] = "none"
    /\ conns' = [conns EXCEPT ![a] = "open"]
    /\ clients' = GetOrCreateSession(a, fresh)
    /\ net' = {}
    /\ UNCHANGED <<ip_to_addr, routes, srv, due, poolVars>>

\* read_frame returns a frame, and handle_udp_data takes it.  On a closed
\* connection a HARD_RESET may make a session anew, one without a writer.
Frame(a) ==
    /\ srv = "running"
    /\ conns[a] \in {"open", "closed"}
    /\ ServerReceives(a)
    /\ UNCHANGED conns

\* Mutant: the client leaves the table, but its address is not unmapped.
HandlerEndsMapped(a) ==
    /\ srv # "down"
    /\ conns[a] # "none"
    /\ conns' = [conns EXCEPT ![a] = "none"]
    /\ clients' = PopAll(clients, {a})
    /\ net' = {}
    /\ UNCHANGED <<ip_to_addr, routes, srv, due, poolVars>>

\* Mutant: the handler ends without the finally.
HandlerEndsOnly(a) ==
    /\ srv # "down"
    /\ conns[a] # "none"
    /\ conns' = [conns EXCEPT ![a] = "none"]
    /\ net' = {}
    /\ UNCHANGED serverVars

\* The handler ends: end of stream, also in the middle of a frame, an
\* exception, or _running found FALSE, if need be after a last frame; also a
\* frame that makes handle_udp_data raise, as a HARD_RESET cut short.  The
\* finally removes the session its address has by now, if any.
HandlerEnds(a) ==
    /\ srv # "down"
    /\ conns[a] # "none"
    /\ conns' = [conns EXCEPT ![a] = "none"]
    /\ RemoveClients({a} \cap DOMAIN clients)
    /\ clients' = PopAll(clients, {a})
    /\ net' = {}
    /\ UNCHANGED <<srv, due>>

\* The peer resets the connection, or a send on it fails: its transport is
\* closed, its handler will be woken.
ConnectionLost(a) ==
    /\ conns[a] = "open"
    /\ conns' = [conns EXCEPT ![a] = "lost"]
    /\ net' = {}
    /\ UNCHANGED serverVars

\* The clients whose keepalive would raise: write() is ignored on a lost
\* connection, and the drain() after it raises ConnectionResetError.
Undrainable == {a \in DOMAIN clients \ Removed : KeepaliveDue(a) /\ conns[a] = "lost"}

\* An iteration of the main loop: _remove_client also closes the writer.
TcpMainLoop ==
    /\ MainLoop({})
    /\ Undrainable = {}
    /\ conns' = [a \in Addrs |->
                    IF a \in Removed /\ conns[a] = "open" THEN "closed" ELSE conns[a]]

\* The end of the process takes the connections along; the handlers are
\* cancelled and find the table empty.
ProcessEnds ==
    /\ srv' = "down"
    /\ due' = FALSE
    /\ routes' = {}
    /\ clients' = EmptyDict /\ ip_to_addr' = EmptyDict
    /\ available' = Pool /\ allocated' = EmptyDict /\ allocatedByInt' = EmptyDict
    /\ conns' = [a \in Addrs |-> "none"]
    /\ net' = {}

\* The drain() in _send_keepalives raises: run() handles no exception but
\* KeyboardInterrupt, so its finally cleans up and the server ends.
TcpMainLoopRaises ==
    /\ srv = "running"
    /\ due
    /\ Undrainable # {}
    /\ ProcessEnds

TcpExit ==
    /\ srv = "stopping"
    /\ due
    /\ ProcessEnds

TcpNext ==
    \/ \E a \in Addrs :
          \/ \E fresh \in Sids \ (PeerSids \cup SidsInUse) : Accept(a, fresh)
          \/ Frame(a)
          \/ HandlerEnds(a)
          \/ ConnectionLost(a)
    \/ TcpMainLoop
    \/ TcpMainLoopRaises
    \/ StopServer /\ UNCHANGED conns
    \/ TcpExit
    \/ StartServer /\ UNCHANGED conns
    \/ ServerTick /\ net' = {} /\ UNCHANGED conns

\* Woken handlers run, the main loop takes its turns and time passes.
TcpSafe == TcpInit /\ [][TcpNext]_tcpVars

TcpSpec ==
    /\ TcpSafe
    /\ \A a \in Addrs : WF_tcpVars(conns[a] \in {"lost", "closed"} /\ HandlerEnds(a))
    /\ WF_tcpVars(TcpMainLoop \/ TcpMainLoopRaises \/ TcpExit)
    /\ WF_tcpVars(ServerTick /\ net' = {} /\ UNCHANGED conns)

-----------------------------------------------------------------------------
(***************************************************************************)
(* Sessions and connections come and go together although the main loop    *)
(* removes sessions and the handlers remove them again: an open connection *)
(* has a session, and a session has a connection whose handler will remove *)
(* it.                                                                     *)
(***************************************************************************)
SessionsConnected ==
    /\ {a \in Addrs : conns[a] = "open"} \subseteq DOMAIN clients
    /\ DOMAIN clients \subseteq {a \in Addrs : conns[a] # "none"}

(***************************************************************************)
(* README.md: the multi-client server "manages client sessions (handshake  *)
(* -> data -> disconnect)": a client that disconnects ends its own session *)
(* and not the server, which ends when stop() was called.                  *)
(***************************************************************************)
OnlyStopEnds == [][srv = "running" => srv' # "down"]_tcpVars
=============================================================================
