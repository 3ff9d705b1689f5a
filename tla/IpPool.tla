------------------------------- MODULE IpPool -------------------------------
(***************************************************************************)
(* The virtual address pool of src/routing.py (class IpPool).  Its two     *)
(* dictionaries are functions on the keys they hold.  Every operation runs *)
(* under POOL_LOCK, and the server calls them from one event loop, so each *)
(* is one step.                                                            *)
(***************************************************************************)
EXTENDS Integers

CONSTANTS
    Pool,        \* range(start, end + 1): the addresses handed out
    ClientIds    \* the client ids the server allocates for

ASSUME PoolAssumption == Pool \subseteq Nat \ {0}

VARIABLES
    available,         \* _available
    allocated,         \* _allocated: client id -> address
    allocatedByInt     \* _allocated_by_int: address -> client id

poolVars == <<available, allocated, allocatedByInt>>

\* d[k] = v, and d.pop(k, None) for every key in ks.
Put(d, k, v) == [x \in DOMAIN d \cup {k} |-> IF x = k THEN v ELSE d[x]]
PopAll(d, ks) == [x \in DOMAIN d \ ks |-> d[x]]
EmptyDict == [x \in {} |-> x]

PoolTypeOK ==
    /\ available \in SUBSET Pool
    /\ DOMAIN allocated \subseteq ClientIds
    /\ \A c \in DOMAIN allocated : allocated[c] \in Pool
    /\ DOMAIN allocatedByInt \subseteq Pool
    /\ \A ip \in DOMAIN allocatedByInt : allocatedByInt[ip] \in ClientIds

\* Mutant: the range runs one address too far.
PoolInitTooLong ==
    /\ available = Pool \cup {ip + 1 : ip \in Pool}
    /\ allocated = EmptyDict
    /\ allocatedByInt = EmptyDict

PoolInit ==
    /\ available = Pool
    /\ allocated = EmptyDict
    /\ allocatedByInt = EmptyDict

\* Mutant: any available address instead of the least.
AllocateAny(client, ip) ==
    /\ ip \in available
    /\ available' = available \ {ip}
    /\ allocated' = Put(allocated, client, ip)
    /\ allocatedByInt' = Put(allocatedByInt, ip, client)

\* allocate() returning min(_available); a client that already holds an
\* address is not looked up.
Allocate(client, ip) ==
    /\ ip \in available
    /\ \A other \in available : ip <= other
    /\ available' = available \ {ip}
    /\ allocated' = Put(allocated, client, ip)
    /\ allocatedByInt' = Put(allocatedByInt, ip, client)

\* allocate() returning None.
Exhausted ==
    /\ available = {}
    /\ UNCHANGED poolVars

\* Mutant: the address is forgotten instead of returned.
ReleaseAllLeaked(clients) ==
    LET freed == {allocated[c] : c \in clients \cap DOMAIN allocated}
    IN  /\ allocated' = PopAll(allocated, clients)
        /\ allocatedByInt' = PopAll(allocatedByInt, freed)
        /\ UNCHANGED available

\* release() called for each of clients, in any order.
ReleaseAll(clients) ==
    LET freed == {allocated[c] : c \in clients \cap DOMAIN allocated}
    IN  /\ allocated' = PopAll(allocated, clients)
        /\ allocatedByInt' = PopAll(allocatedByInt, freed)
        /\ available' = available \cup freed
=============================================================================
