--------------------------- MODULE MCVpnServerTcp ---------------------------
(***************************************************************************)
(* VpnServerTcp on two connections, without certificates.  A keepalive is  *)
(* due in every iteration, and the timeouts are those of MCVpnServer.      *)
(***************************************************************************)
EXTENDS VpnServerTcp, TLC

CONSTANTS a1, a2   \* the two client addresses

AddrSymmetry == Permutations(Addrs)
MCDevConf == [auth |-> FALSE, cert |-> None, canSign |-> TRUE]
=============================================================================
