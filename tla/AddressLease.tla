---------------------------- MODULE AddressLease ----------------------------
(***************************************************************************)
(* What the server promises of virtual addresses, without sessions, tables *)
(* or a pool: a member is granted at most one address, the least that      *)
(* nobody holds, and holds it until it leaves, when nobody holds it any    *)
(* more.  VpnServer, in UDP and in TCP mode, implements this.              *)
(***************************************************************************)
EXTENDS Integers

CONSTANTS
    Pool,       \* the addresses
    Holders     \* who may become a member

VARIABLES
    members,    \* who is known at present
    lease       \* who holds each address that somebody holds

leaseVars == <<members, lease>>

Free == Pool \ DOMAIN lease

LeaseInit ==
    /\ members = {}
    /\ DOMAIN lease = {}

Join(h) ==
    /\ h \notin members
    /\ members' = members \cup {h}
    /\ UNCHANGED lease

Grant(h, ip) ==
    /\ h \in members
    /\ \A held \in DOMAIN lease : lease[held] # h
    /\ ip \in Free
    /\ \A other \in Free : ip <= other
    /\ lease' = [i \in DOMAIN lease \cup {ip} |-> IF i = ip THEN h ELSE lease[i]]
    /\ UNCHANGED members

Leave(hs) ==
    /\ members' = members \ hs
    /\ lease' = [ip \in {i \in DOMAIN lease : lease[i] \notin hs} |-> lease[ip]]

LeaseNext ==
    \/ \E h \in Holders : Join(h)
    \/ \E h \in Holders, ip \in Pool : Grant(h, ip)
    \/ \E hs \in SUBSET members : Leave(hs)

LeaseSpec == LeaseInit /\ [][LeaseNext]_leaseVars
=============================================================================
