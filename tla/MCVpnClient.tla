---------------------------- MODULE MCVpnClient ----------------------------
(***************************************************************************)
(* VpnClient against a server that may send anything: right and wrong      *)
(* signatures, any assignment, any order.  The keepalive timeout is scaled *)
(* to 2 seconds and the reconnect delay to 1.                              *)
(***************************************************************************)
EXTENDS VpnClient

MCConf == [auth |-> TRUE, cert |-> 1, canSign |-> TRUE]
=============================================================================
