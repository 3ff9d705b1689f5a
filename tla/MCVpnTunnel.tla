---------------------------- MODULE MCVpnTunnel ----------------------------
(***************************************************************************)
(* VpnTunnel in several scenarios.  The keepalive interval, the handshake  *)
(* timeout and the keepalive timeout (10 s, 30 s and 120 s) keep their     *)
(* order as 1, 2 and 3 seconds.                                            *)
(***************************************************************************)
EXTENDS VpnTunnel

MCConf == [auth |-> TRUE, cert |-> 1, canSign |-> TRUE]
MCClientConf == [auth |-> TRUE, cert |-> 2, canSign |-> TRUE]

ServerCrash == [server |-> 1]
ClientCrash == [client |-> 1, stop |-> 1]
Lossy == [loss |-> 2, dup |-> 2]

EachFault == {ServerCrash, ClientCrash, Lossy}
OnlyServerCrash == {ServerCrash}
=============================================================================
