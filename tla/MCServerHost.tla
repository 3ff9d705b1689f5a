---------------------------- MODULE MCServerHost ----------------------------
(***************************************************************************)
(* Two server processes on a host with two interfaces that the default     *)
(* route may name, two ports and one number that is none, one user that    *)
(* exists and one that does not.                                           *)
(***************************************************************************)
EXTENDS ServerHost, TLC

CONSTANTS p1, p2, eth0, wlan0

HostSymmetry == Permutations(Procs) \cup Permutations(Uplinks)
=============================================================================
