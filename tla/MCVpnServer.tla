---------------------------- MODULE MCVpnServer ----------------------------
(***************************************************************************)
(* VpnServer on two client addresses.  a1 sends whatever it likes; what a2 *)
(* sends parses and is signed as it should be, but comes in any order too. *)
(* A keepalive interval and a keepalive timeout of 1 iteration and a       *)
(* handshake timeout of 0 keep "before" and "after" apart (10 s, 120 s and *)
(* 30 s by default).                                                       *)
(***************************************************************************)
EXTENDS VpnServer

CONSTANTS a1, a2   \* the two client addresses

MCConf == [auth |-> TRUE, cert |-> 1, canSign |-> TRUE]

\* Nothing that a2 sends leaves its session in IDLE or in ERROR.
Sound == a2 \in DOMAIN clients => clients[a2].session.st \notin {"IDLE", "ERROR"}

\* The actions with fairness never break Sound, so it asks nothing of them.
MCServerSpec ==
    /\ ServerAloneInit
    /\ [][ServerNext /\ Sound']_svars
    /\ WF_svars(MainLoop({}))
    /\ WF_svars(ExitServer({}))
    /\ WF_svars(ServerTick /\ net' = {})
=============================================================================
