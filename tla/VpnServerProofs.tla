-------------------------- MODULE VpnServerProofs --------------------------
(***************************************************************************)
(* The server's tables agree, for every set of addresses, every pool,      *)
(* every configuration and every timeout, whatever datagrams arrive.       *)
(*                                                                         *)
(* The invariant is inductive with the types: every action either leaves   *)
(* the virtual addresses of the clients alone (TablesFramed), hands one    *)
(* out (TablesAssigned), takes some back (TablesRemoved), or empties       *)
(* everything (TablesWiped).  In the same cases the client table and       *)
(* ip_to_addr do what AddressLease allows (the lemmas on LeaseStep).       *)
(***************************************************************************)
EXTENDS VpnServer, TLAPS

Tables == TablesAgree /\ PoolConserved /\ RoutesMatch

IInv == ServerTypeOK /\ Tables

-----------------------------------------------------------------------------
\* The handlers of the control channel map sessions to sessions.
LEMMA HandlersTyped ==
    ASSUME NEW s \in Sessions, NEW sid \in Sids, NEW cert \in Certs \cup {None}, NEW sig,
           NEW conf \in Confs
    PROVE  /\ ServerHandleReset(s, sid) \in Sessions
           /\ ServerHandleClientHello(s, conf, cert, sid) \in Sessions
           /\ ServerHandleClientFinished(s, sig) \in Sessions
<1>1. ServerHandleReset(s, sid) \in Sessions
  BY DEF ServerHandleReset, Sessions, States
<1>2. DeriveKey(s, sid) \in Keys
  BY DEF DeriveKey, HandshakeSalt, Keys, Sessions
<1>3. ServerHandleClientHello(s, conf, cert, sid) \in Sessions
  BY <1>2 DEF ServerHandleClientHello, Sessions, States
<1>4. ServerHandleClientFinished(s, sig) \in Sessions
  BY DEF ServerHandleClientFinished, Sessions, States
<1> QED BY <1>1, <1>3, <1>4

\* So is what __init__ makes, and a data channel of a session has its type.
LEMMA NewTyped ==
    /\ \A sid \in Sids : NewSession(sid) \in Sessions
    /\ \A s \in Sessions : NewClientSession(s) \in ClientSessions
    /\ \A s \in Sessions : NewDataChannel(s) \in DataChannels
<1> USE SidsAssumption, TimeoutsAssumption
<1>0. NoKey \in Keys
  BY DEF NoKey, Keys
<1>1. NoData \in DataChannels
  BY <1>0 DEF NoData, DataChannels
<1>2. \A sid \in Sids : NewSession(sid) \in Sessions
  BY <1>0 DEF NewSession, Sessions, States
<1>3. \A s \in Sessions : NewClientSession(s) \in ClientSessions
  BY <1>1 DEF NewClientSession, ClientSessions
<1>4. ASSUME NEW s \in Sessions PROVE NewDataChannel(s) \in DataChannels
  <2>1. DeriveSessionId(s.sid, s.peer) \in SUBSET (Sids \cup {None})
    BY <1>4 DEF DeriveSessionId, Sessions, None
  <2>2. s.key \in Keys
    BY DEF Sessions
  <2> QED BY <2>1, <2>2 DEF NewDataChannel, DataChannels
<1> QED BY <1>2, <1>3, <1>4

\* A ClientSession with its session, and possibly more, replaced.
LEMMA HeardTyped ==
    ASSUME ServerTypeOK, NEW a \in DOMAIN clients, NEW s \in Sessions
    PROVE  /\ clients[a] \in ClientSessions /\ clients[a].session \in Sessions
           /\ Heard(a, s) \in ClientSessions
           /\ Heard(a, s).virtual_ip = clients[a].virtual_ip
           /\ Heard(a, s).data = clients[a].data
BY DEF ServerTypeOK, ClientSessions, Heard

-----------------------------------------------------------------------------
\* With the tables in agreement, the mapped addresses are the clients' own.
LEMMA MappedIsHeld ==
    ASSUME ServerTypeOK, TablesAgree
    PROVE  VirtualIps(DOMAIN clients) = DOMAIN ip_to_addr
<1>1. ASSUME NEW ip \in VirtualIps(DOMAIN clients) PROVE ip \in DOMAIN ip_to_addr
  BY DEF TablesAgree, VirtualIps
<1>2. ASSUME NEW ip \in DOMAIN ip_to_addr PROVE ip \in VirtualIps(DOMAIN clients)
  <2>1. ip # None
    BY PoolAssumption DEF ServerTypeOK, None
  <2>2. ip_to_addr[ip] \in DOMAIN clients /\ clients[ip_to_addr[ip]].virtual_ip = ip
    BY DEF TablesAgree
  <2> QED BY <2>1, <2>2 DEF VirtualIps
<1> QED BY <1>1, <1>2

\* A step that may add a client without an address, but touches no virtual
\* address and no table, keeps the agreement.
LEMMA TablesFramed ==
    ASSUME IInv,
           DOMAIN clients \subseteq DOMAIN clients',
           \A a \in DOMAIN clients :
               /\ clients'[a].virtual_ip = clients[a].virtual_ip
               /\ clients[a].data.open => clients'[a].data.open,
           \A a \in DOMAIN clients' \ DOMAIN clients : clients'[a].virtual_ip = None,
           UNCHANGED <<ip_to_addr, routes, available, allocated, allocatedByInt>>
    PROVE  Tables'
<1>1. TablesAgree'
  BY DEF IInv, Tables, TablesAgree
<1>2. VirtualIps(DOMAIN clients)' = VirtualIps(DOMAIN clients)
  BY DEF VirtualIps
<1>3. PoolConserved'
  BY <1>2 DEF IInv, Tables, PoolConserved
<1>4. RoutesMatch'
  BY DEF IInv, Tables, RoutesMatch
<1> QED BY <1>1, <1>3, <1>4 DEF Tables

\* A step that leaves every table empty and the pool full.
LEMMA TablesWiped ==
    ASSUME clients' = EmptyDict, ip_to_addr' = EmptyDict, allocated' = EmptyDict,
           allocatedByInt' = EmptyDict, available' = Pool, ServerRoot => routes' = {}
    PROVE  Tables'
BY DEF Tables, TablesAgree, PoolConserved, RoutesMatch, VirtualIps, EmptyDict

\* Handing the address ip to the client a, which holds none.
LEMMA TablesAssigned ==
    ASSUME IInv, NEW a \in DOMAIN clients, clients[a].virtual_ip = None,
           NEW ip \in available,
           DOMAIN clients' = DOMAIN clients,
           clients'[a].virtual_ip = ip, clients'[a].data.open,
           \A b \in DOMAIN clients \ {a} : clients'[b] = clients[b],
           ip_to_addr' = Put(ip_to_addr, ip, a),
           available' = available \ {ip},
           allocated' = Put(allocated, a, ip),
           allocatedByInt' = Put(allocatedByInt, ip, a),
           routes' = IF ServerRoot THEN routes \cup {ip} ELSE routes
    PROVE  Tables'
<1>0. /\ ServerTypeOK /\ TablesAgree /\ PoolConserved /\ RoutesMatch
      /\ VirtualIps(DOMAIN clients) = DOMAIN ip_to_addr
  BY MappedIsHeld DEF IInv, Tables
<1>1. ip # None /\ ip \notin DOMAIN ip_to_addr
  BY <1>0, PoolAssumption DEF PoolConserved, ServerTypeOK, PoolTypeOK, None
<1>2. /\ DOMAIN ip_to_addr' = DOMAIN ip_to_addr \cup {ip}
      /\ ip_to_addr'[ip] = a
      /\ \A i \in DOMAIN ip_to_addr : ip_to_addr'[i] = ip_to_addr[i]
      /\ DOMAIN allocated' = DOMAIN allocated \cup {a}
      /\ allocated'[a] = ip
      /\ \A b \in DOMAIN allocated \ {a} : allocated'[b] = allocated[b]
  BY <1>1 DEF Put
<1>3. a \notin DOMAIN allocated /\ \A i \in DOMAIN ip_to_addr : ip_to_addr[i] # a
  BY <1>0, <1>1, PoolAssumption DEF TablesAgree, ServerTypeOK, None
<1>4. TablesAgree'
  <2>1. allocatedByInt' = ip_to_addr'
    BY <1>0 DEF TablesAgree
  <2>2. \A b \in DOMAIN clients' : clients'[b].virtual_ip # None =>
           /\ clients'[b].data.open
           /\ clients'[b].virtual_ip \in DOMAIN ip_to_addr'
           /\ ip_to_addr'[clients'[b].virtual_ip] = b
    BY <1>0, <1>1, <1>2 DEF TablesAgree
  <2>3. \A i \in DOMAIN ip_to_addr' :
           ip_to_addr'[i] \in DOMAIN clients' /\ clients'[ip_to_addr'[i]].virtual_ip = i
    BY <1>0, <1>1, <1>2, <1>3 DEF TablesAgree
  <2>4. DOMAIN allocated' = {b \in DOMAIN clients' : clients'[b].virtual_ip # None}
    BY <1>0, <1>1, <1>2 DEF TablesAgree
  <2>5. \A b \in DOMAIN allocated' : allocated'[b] = clients'[b].virtual_ip
    BY <1>0, <1>2, <1>3 DEF TablesAgree
  <2> QED BY <2>1, <2>2, <2>3, <2>4, <2>5 DEF TablesAgree
<1>5. VirtualIps(DOMAIN clients)' = VirtualIps(DOMAIN clients) \cup {ip}
  BY <1>1 DEF VirtualIps
<1>6. PoolConserved'
  BY <1>0, <1>1, <1>5 DEF PoolConserved
<1>7. RoutesMatch'
  BY <1>0, <1>2 DEF RoutesMatch
<1> QED BY <1>4, <1>6, <1>7 DEF Tables

\* Removing the clients as: what they held goes back.
LEMMA TablesRemoved ==
    ASSUME IInv, NEW as \in SUBSET (DOMAIN clients), RemoveClients(as),
           DOMAIN clients' = DOMAIN clients \ as,
           \A b \in DOMAIN clients' :
               /\ clients'[b].virtual_ip = clients[b].virtual_ip
               /\ clients'[b].data = clients[b].data
    PROVE  Tables'
<1>0. /\ ServerTypeOK /\ TablesAgree /\ PoolConserved /\ RoutesMatch
      /\ VirtualIps(DOMAIN clients) = DOMAIN ip_to_addr
  BY MappedIsHeld DEF IInv, Tables
<1> DEFINE held == {b \in as : clients[b].virtual_ip # None}
           freed == {allocated[c] : c \in held \cap DOMAIN allocated}
<1>1. held \subseteq DOMAIN allocated /\ freed = VirtualIps(as)
  <2>1. \A b \in held : b \in DOMAIN allocated /\ allocated[b] = clients[b].virtual_ip
    BY <1>0 DEF TablesAgree
  <2>2. VirtualIps(as) = {clients[b].virtual_ip : b \in held}
    BY DEF VirtualIps
  <2>3. held \subseteq DOMAIN allocated
    BY <2>1
  <2>4. freed = {allocated[b] : b \in held}
    BY <2>3
  <2>5. {allocated[b] : b \in held} = {clients[b].virtual_ip : b \in held}
    <3> HIDE DEF held
    <3> QED BY <2>1
  <2> QED BY <2>2, <2>3, <2>4, <2>5
<1>2. /\ ip_to_addr' = PopAll(ip_to_addr, VirtualIps(as))
      /\ allocated' = PopAll(allocated, held)
      /\ allocatedByInt' = PopAll(allocatedByInt, VirtualIps(as))
      /\ available' = available \cup VirtualIps(as)
      /\ routes' = IF ServerRoot THEN routes \ (VirtualIps(as) \cap DOMAIN ip_to_addr) ELSE routes
  BY <1>1 DEF RemoveClients, ReleaseAll
<1>3. /\ DOMAIN ip_to_addr' = DOMAIN ip_to_addr \ VirtualIps(as)
      /\ \A i \in DOMAIN ip_to_addr' : ip_to_addr'[i] = ip_to_addr[i]
      /\ DOMAIN allocated' = DOMAIN allocated \ held
      /\ \A b \in DOMAIN allocated' : allocated'[b] = allocated[b]
  BY <1>2 DEF PopAll
<1>4. \A b \in DOMAIN clients : clients[b].virtual_ip # None =>
          (b \in as <=> clients[b].virtual_ip \in VirtualIps(as))
  <2> SUFFICES ASSUME NEW b \in DOMAIN clients, clients[b].virtual_ip # None,
                      clients[b].virtual_ip \in VirtualIps(as), b \notin as
               PROVE FALSE
    BY DEF VirtualIps
  <2>1. PICK c \in as : clients[c].virtual_ip = clients[b].virtual_ip
    BY DEF VirtualIps
  <2>2. ip_to_addr[clients[b].virtual_ip] = b /\ ip_to_addr[clients[c].virtual_ip] = c
    BY <1>0, <2>1 DEF TablesAgree
  <2> QED BY <2>1, <2>2
<1>5. TablesAgree'
  <2>1. allocatedByInt' = ip_to_addr'
    BY <1>0, <1>2 DEF TablesAgree
  <2>2. \A b \in DOMAIN clients' : clients'[b].virtual_ip # None =>
           /\ clients'[b].data.open
           /\ clients'[b].virtual_ip \in DOMAIN ip_to_addr'
           /\ ip_to_addr'[clients'[b].virtual_ip] = b
    <3> SUFFICES ASSUME NEW b \in DOMAIN clients', clients'[b].virtual_ip # None
                 PROVE  /\ clients'[b].data.open
                        /\ clients'[b].virtual_ip \in DOMAIN ip_to_addr'
                        /\ ip_to_addr'[clients'[b].virtual_ip] = b
      OBVIOUS
    <3>1. /\ b \in DOMAIN clients /\ b \notin as
          /\ clients'[b].virtual_ip = clients[b].virtual_ip
          /\ clients'[b].data = clients[b].data
      OBVIOUS
    <3>2. /\ clients[b].data.open
          /\ clients[b].virtual_ip \in DOMAIN ip_to_addr
          /\ ip_to_addr[clients[b].virtual_ip] = b
      BY <1>0, <3>1 DEF TablesAgree
    <3>3. clients[b].virtual_ip \notin VirtualIps(as)
      BY <1>4, <3>1
    <3> QED BY <1>3, <3>1, <3>2, <3>3
  <2>3. ASSUME NEW i \in DOMAIN ip_to_addr'
        PROVE ip_to_addr'[i] \in DOMAIN clients' /\ clients'[ip_to_addr'[i]].virtual_ip = i
    <3>1. i \in DOMAIN ip_to_addr /\ i \notin VirtualIps(as) /\ i # None
      BY <1>0, <1>3, PoolAssumption DEF ServerTypeOK, None
    <3>2. ip_to_addr[i] \in DOMAIN clients /\ clients[ip_to_addr[i]].virtual_ip = i
      BY <1>0, <3>1 DEF TablesAgree
    <3> QED BY <1>3, <1>4, <3>1, <3>2
  <2>4. DOMAIN allocated' = {b \in DOMAIN clients' : clients'[b].virtual_ip # None}
    <3>1. DOMAIN allocated = {b \in DOMAIN clients : clients[b].virtual_ip # None}
      BY <1>0 DEF TablesAgree
    <3>2. \A b \in DOMAIN clients' : clients'[b].virtual_ip = clients[b].virtual_ip
      OBVIOUS
    <3> QED BY <1>3, <3>1, <3>2
  <2>5. \A b \in DOMAIN allocated' : allocated'[b] = clients'[b].virtual_ip
    BY <1>0, <1>3, <2>4 DEF TablesAgree
  <2> QED BY <2>1, <2>2, <2>3, <2>4, <2>5 DEF TablesAgree
<1>6. VirtualIps(DOMAIN clients)' = VirtualIps(DOMAIN clients) \ VirtualIps(as)
  <2>1. VirtualIps(DOMAIN clients)' =
            {clients[b].virtual_ip : b \in DOMAIN clients \ as} \ {None}
    BY DEF VirtualIps
  <2>2. \A ip \in VirtualIps(DOMAIN clients) \ VirtualIps(as) :
            ip \in {clients[b].virtual_ip : b \in DOMAIN clients \ as} \ {None}
    BY DEF VirtualIps
  <2>3. \A ip \in {clients[b].virtual_ip : b \in DOMAIN clients \ as} \ {None} :
            ip \in VirtualIps(DOMAIN clients) \ VirtualIps(as)
    <3> SUFFICES ASSUME NEW b \in DOMAIN clients \ as, clients[b].virtual_ip # None
                 PROVE  clients[b].virtual_ip \in VirtualIps(DOMAIN clients) \ VirtualIps(as)
      OBVIOUS
    <3>1. clients[b].virtual_ip \notin VirtualIps(as)
      BY <1>4
    <3> QED BY <3>1 DEF VirtualIps
  <2> QED BY <2>1, <2>2, <2>3
<1>7. VirtualIps(as) \subseteq VirtualIps(DOMAIN clients)
  BY DEF VirtualIps
<1>8. PoolConserved'
  BY <1>0, <1>2, <1>6, <1>7 DEF PoolConserved
<1>9. RoutesMatch'
  BY <1>0, <1>2, <1>3, <1>7 DEF RoutesMatch
<1> QED BY <1>5, <1>8, <1>9 DEF Tables

-----------------------------------------------------------------------------
\* A datagram that only changes one known client's entry keeps everything,
\* when the new entry is well typed and keeps the address.
LEMMA EntryChanged ==
    ASSUME IInv, NEW a \in DOMAIN clients, NEW c \in ClientSessions,
           c.virtual_ip = clients[a].virtual_ip,
           clients[a].data.open => c.data.open,
           clients' = [clients EXCEPT ![a] = c],
           UNCHANGED <<ip_to_addr, routes, srv, due, poolVars>>
    PROVE  IInv'
<1>1. ServerTypeOK'
  BY DEF IInv, ServerTypeOK, PoolTypeOK, poolVars
<1>2. Tables'
  <2>1. /\ DOMAIN clients' = DOMAIN clients
        /\ \A b \in DOMAIN clients : b # a => clients'[b] = clients[b]
        /\ clients'[a] = c
    OBVIOUS
  <2>2. UNCHANGED <<ip_to_addr, routes, available, allocated, allocatedByInt>>
    BY DEF poolVars
  <2> QED BY <2>1, <2>2, TablesFramed
<1> QED BY <1>1, <1>2 DEF IInv

\* A step that changes no variable of the server.
LEMMA UntouchedKeeps ==
    ASSUME IInv, UNCHANGED serverVars
    PROVE  IInv'
<1>1. UNCHANGED <<clients, ip_to_addr, routes, srv, due, available, allocated, allocatedByInt>>
  BY DEF serverVars
<1>2. Tables'
  BY <1>1, TablesFramed
<1> QED BY <1>1, <1>2 DEF IInv, ServerTypeOK, PoolTypeOK

\* HARD_RESET_CLIENT, from a new or a known address.
LEMMA ResetKeeps ==
    ASSUME IInv, NEW a \in Addrs, NEW sid \in Sids, NEW fresh \in Sids, NEW rx,
           HandleResetNew(a, sid, fresh, rx) \/ HandleResetKnown(a, sid, rx)
    PROVE  IInv'
<1>1. CASE HandleResetNew(a, sid, fresh, rx)
  <2> DEFINE c == NewClientSession(ServerHandleReset(NewSession(fresh), sid))
  <2>1. c \in ClientSessions /\ c.virtual_ip = None
    BY NewTyped, HandlersTyped, ServerConfAssumption, CertsAssumption
       DEF NewClientSession
  <2>2. /\ a \notin DOMAIN clients
        /\ clients' = Put(clients, a, c)
        /\ UNCHANGED <<ip_to_addr, routes, srv, due, poolVars>>
    BY <1>1 DEF HandleResetNew
  <2>3. /\ DOMAIN clients' = DOMAIN clients \cup {a}
        /\ clients'[a] = c
        /\ \A b \in DOMAIN clients : clients'[b] = clients[b]
    BY <2>2 DEF Put
  <2>4. ServerTypeOK'
    BY <2>1, <2>2, <2>3 DEF IInv, ServerTypeOK, PoolTypeOK, poolVars
  <2>5. Tables'
    BY <2>1, <2>2, <2>3, TablesFramed DEF poolVars
  <2> QED BY <2>4, <2>5 DEF IInv
<1>2. CASE HandleResetKnown(a, sid, rx)
  <2> DEFINE s == ServerHandleReset(clients[a].session, sid)
             c == [clients[a] EXCEPT !.session = s]
  <2>1. a \in DOMAIN clients /\ clients' = [clients EXCEPT ![a] = c]
        /\ UNCHANGED <<ip_to_addr, routes, srv, due, poolVars>>
    BY <1>2 DEF HandleResetKnown
  <2>2. clients[a] \in ClientSessions /\ clients[a].session \in Sessions
    BY <2>1 DEF IInv, ServerTypeOK, ClientSessions
  <2>3. s \in Sessions
    BY <2>2 DEF ServerHandleReset, Sessions, States
  <2>4. /\ c \in ClientSessions /\ c.virtual_ip = clients[a].virtual_ip
        /\ c.data = clients[a].data
    BY <2>2, <2>3 DEF ClientSessions
  <2> HIDE DEF c
  <2> QED BY <2>1, <2>4, EntryChanged
<1> QED BY <1>1, <1>2

\* CLIENT_HELLO of a known client.
LEMMA HelloKeeps ==
    ASSUME IInv, NEW a \in Addrs, NEW cert \in Certs \cup {None}, NEW pub \in Sids, NEW rx,
           HandleClientHello(a, cert, pub, rx)
    PROVE  IInv'
<1> DEFINE s == ServerHandleClientHello(clients[a].session, ServerConf, cert, pub)
           c == Heard(a, s)
<1>1. a \in DOMAIN clients /\ clients' = [clients EXCEPT ![a] = c]
      /\ UNCHANGED <<ip_to_addr, routes, srv, due, poolVars>>
  BY DEF HandleClientHello
<1>2. s \in Sessions
  BY <1>1, HandlersTyped, ServerConfAssumption DEF IInv, ServerTypeOK, ClientSessions
<1>3. /\ c \in ClientSessions /\ c.virtual_ip = clients[a].virtual_ip
      /\ c.data = clients[a].data
  BY <1>1, <1>2, HeardTyped DEF IInv
<1> HIDE DEF c
<1> QED BY <1>1, <1>3, EntryChanged

\* A CLIENT_HELLO or CLIENT_FINISHED that does not parse.
LEMMA UnparsableKeeps ==
    ASSUME IInv, NEW a \in Addrs, NEW cert \in Certs \cup {None}, NEW pub \in Sids, NEW rx,
           HandleUnparsable(a, cert, pub, rx)
    PROVE  IInv'
<1>1. PICK s \in ServerParseFails(clients[a].session, cert, pub) :
          clients' = [clients EXCEPT ![a] = Heard(a, s)]
  BY DEF HandleUnparsable
<1>2. a \in DOMAIN clients /\ UNCHANGED <<ip_to_addr, routes, srv, due, poolVars>>
  BY DEF HandleUnparsable
<1>3. clients[a].session \in Sessions
  BY <1>2 DEF IInv, ServerTypeOK, ClientSessions
<1> DEFINE old == clients[a].session
<1>4. s \in Sessions
  <2>1. \/ s = [old EXCEPT !.st = "ERROR"]
        \/ s = [old EXCEPT !.st = "ERROR", !.peerPub = pub]
        \/ s = [old EXCEPT !.st = "ERROR", !.peerPub = pub, !.peerCert = cert]
    <3> HIDE DEF old
    <3>1. s \in {[x EXCEPT !.st = "ERROR"] :
                    x \in {old, [old EXCEPT !.peerPub = pub],
                           [old EXCEPT !.peerPub = pub, !.peerCert = cert]}}
      BY <1>1 DEF ServerParseFails, old
    <3>2. PICK x \in {old, [old EXCEPT !.peerPub = pub],
                      [old EXCEPT !.peerPub = pub, !.peerCert = cert]} :
              s = [x EXCEPT !.st = "ERROR"]
      BY <3>1
    <3>3. old \in Sessions
      BY <1>3 DEF old
    <3> QED BY <3>2, <3>3 DEF Sessions
  <2>2. old \in Sessions
    BY <1>3
  <2> HIDE DEF old
  <2> QED BY <2>1, <2>2 DEF Sessions, States
<1> DEFINE c == Heard(a, s)
<1>5. /\ c \in ClientSessions /\ c.virtual_ip = clients[a].virtual_ip
      /\ c.data = clients[a].data
  BY <1>2, <1>4, HeardTyped DEF IInv
<1>6. clients' = [clients EXCEPT ![a] = c]
  BY <1>1
<1> HIDE DEF c
<1> QED BY <1>2, <1>5, <1>6, EntryChanged

\* _get_or_create_session, and nothing after it.
LEMMA GetOrCreateKeeps ==
    ASSUME IInv, NEW a \in Addrs, NEW fresh \in Sids,
           clients' = GetOrCreateSession(a, fresh),
           UNCHANGED <<ip_to_addr, routes, srv, due, poolVars>>
    PROVE  IInv' /\ DOMAIN clients' = DOMAIN clients \cup {a}
<1> DEFINE c == NewClientSession(NewSession(fresh))
<1>1. c \in ClientSessions /\ c.virtual_ip = None
  BY NewTyped DEF NewClientSession
<1>2. clients' = IF a \in DOMAIN clients THEN clients ELSE Put(clients, a, c)
  BY DEF GetOrCreateSession
<1> HIDE DEF c
<1>3. /\ DOMAIN clients' = DOMAIN clients \cup {a}
      /\ \A b \in DOMAIN clients : clients'[b] = clients[b]
      /\ \A b \in DOMAIN clients' \ DOMAIN clients : clients'[b] = c
  BY <1>2 DEF Put
<1>4. ServerTypeOK'
  BY <1>1, <1>3 DEF IInv, ServerTypeOK, PoolTypeOK, poolVars
<1>5. Tables'
  BY <1>1, <1>3, TablesFramed DEF poolVars
<1> QED BY <1>3, <1>4, <1>5 DEF IInv

\* KEEPALIVE or DATA of a known client.
LEMMA TrafficKeeps ==
    ASSUME IInv, NEW a \in Addrs, NEW rx, HandleTraffic(a, rx)
    PROVE  IInv'
<1> DEFINE c == [clients[a] EXCEPT !.last_seen = 0]
<1>1. a \in DOMAIN clients /\ clients' = [clients EXCEPT ![a] = c]
      /\ UNCHANGED <<ip_to_addr, routes, srv, due, poolVars>>
  BY DEF HandleTraffic
<1>2. /\ c \in ClientSessions /\ c.virtual_ip = clients[a].virtual_ip
      /\ c.data = clients[a].data
  BY <1>1 DEF IInv, ServerTypeOK, ClientSessions
<1> HIDE DEF c
<1> QED BY <1>1, <1>2, EntryChanged

\* CLIENT_FINISHED on its three paths.
LEMMA FinishedKeeps ==
    ASSUME IInv, NEW a \in Addrs, NEW sig, NEW rx, HandleClientFinished(a, sig, rx)
    PROVE  IInv'
<1> DEFINE s == Finished(a, sig)
           h == Heard(a, s)
<1>0. a \in DOMAIN clients
  BY DEF HandleClientFinished, FinishedOnly, FinishedAssigned, FinishedExhausted
<1>1. s \in Sessions /\ NewDataChannel(s) \in DataChannels
  <2>1. clients[a].session \in Sessions
    BY <1>0 DEF IInv, ServerTypeOK, ClientSessions
  <2>2. s \in Sessions
    BY <2>1 DEF Finished, ServerHandleClientFinished, Sessions, States
  <2> QED BY <2>2, NewTyped
<1>2. /\ h \in ClientSessions /\ h.virtual_ip = clients[a].virtual_ip
      /\ h.data = clients[a].data
  BY <1>0, <1>1, HeardTyped DEF IInv
<1>3. CASE FinishedOnly(a, sig, rx)
  <2>1. clients' = [clients EXCEPT ![a] = h]
        /\ UNCHANGED <<ip_to_addr, routes, srv, due, poolVars>>
    BY <1>3 DEF FinishedOnly
  <2> HIDE DEF h
  <2> QED BY <1>0, <1>2, <2>1, EntryChanged
<1>4. CASE FinishedExhausted(a, sig, rx)
  <2> DEFINE c == [h EXCEPT !.data = NewDataChannel(s)]
  <2>1. clients' = [clients EXCEPT ![a] = c]
        /\ UNCHANGED <<ip_to_addr, routes, srv, due, poolVars>>
    BY <1>4 DEF FinishedExhausted, Exhausted
  <2>2. c \in ClientSessions /\ c.virtual_ip = clients[a].virtual_ip /\ c.data = NewDataChannel(s)
    <3> HIDE DEF h, s
    <3> QED BY <1>1, <1>2 DEF ClientSessions
  <2>3. c.data.open
    BY <2>2 DEF NewDataChannel
  <2> HIDE DEF c
  <2> QED BY <1>0, <2>1, <2>2, <2>3, EntryChanged
<1>5. ASSUME NEW ip \in Pool, FinishedAssigned(a, sig, ip, rx) PROVE IInv'
  <2> DEFINE c == [h EXCEPT !.data = NewDataChannel(s), !.virtual_ip = ip]
  <2>1. /\ clients' = [clients EXCEPT ![a] = c]
        /\ ip \in available
        /\ ip_to_addr' = Put(ip_to_addr, ip, a)
        /\ available' = available \ {ip}
        /\ allocated' = Put(allocated, a, ip)
        /\ allocatedByInt' = Put(allocatedByInt, ip, a)
        /\ routes' = IF ServerRoot THEN routes \cup {ip} ELSE routes
        /\ UNCHANGED <<srv, due>>
        /\ ~clients[a].data.open
    BY <1>5 DEF FinishedAssigned, Allocate, OpensData
  <2>2. c \in ClientSessions /\ c.virtual_ip = ip /\ c.data = NewDataChannel(s)
    <3> HIDE DEF h, s
    <3> QED BY <1>1, <1>2 DEF ClientSessions
  <2>3. c.data.open
    BY <2>2 DEF NewDataChannel
  <2>4. clients[a].virtual_ip = None
    BY <1>0, <2>1 DEF IInv, Tables, TablesAgree
  <2> HIDE DEF c, h, s
  <2>5. /\ DOMAIN clients' = DOMAIN clients /\ clients'[a] = c
        /\ \A b \in DOMAIN clients \ {a} : clients'[b] = clients[b]
    BY <1>0, <2>1
  <2>6. Tables'
    BY <1>0, <2>1, <2>2, <2>3, <2>4, <2>5, TablesAssigned
  <2>7. ServerTypeOK'
    <3>1. PoolTypeOK'
      BY <2>1, ClientIdsAssumption DEF IInv, ServerTypeOK, PoolTypeOK, Put
    <3>2. DOMAIN clients' \subseteq Addrs /\ \A b \in DOMAIN clients' : clients'[b] \in ClientSessions
      BY <2>2, <2>5 DEF IInv, ServerTypeOK
    <3>3. DOMAIN ip_to_addr' \subseteq Pool /\ \A i \in DOMAIN ip_to_addr' : ip_to_addr'[i] \in Addrs
      BY <2>1 DEF IInv, ServerTypeOK, Put
    <3> QED BY <2>1, <3>1, <3>2, <3>3 DEF IInv, ServerTypeOK
  <2> QED BY <2>6, <2>7 DEF IInv
<1> QED BY <1>3, <1>4, <1>5 DEF HandleClientFinished

\* One iteration of the main loop.
LEMMA MainLoopKeeps ==
    ASSUME IInv, NEW rx, MainLoop(rx)
    PROVE  IInv'
<1>1. Removed \in SUBSET (DOMAIN clients)
  BY DEF Removed
<1>2. /\ RemoveClients(Removed)
      /\ DOMAIN clients' = DOMAIN clients \ Removed
      /\ \A b \in DOMAIN clients' :
            clients'[b] = IF KeepaliveDue(b) THEN [clients[b] EXCEPT !.last_keepalive = 0]
                                             ELSE clients[b]
      /\ due' = FALSE /\ srv' = srv
  BY DEF MainLoop
<1>3. \A b \in DOMAIN clients' :
          /\ clients'[b] \in ClientSessions
          /\ clients'[b].virtual_ip = clients[b].virtual_ip
          /\ clients'[b].data = clients[b].data
  BY <1>2 DEF IInv, ServerTypeOK, ClientSessions
<1>4. Tables'
  BY <1>1, <1>2, <1>3, TablesRemoved
<1>5. ServerTypeOK'
  <2> DEFINE held == {a \in Removed : clients[a].virtual_ip # None}
             freed == {allocated[c] : c \in held \cap DOMAIN allocated}
  <2>1. freed \subseteq Pool
    BY DEF IInv, ServerTypeOK, PoolTypeOK
  <2>2. PoolTypeOK'
    BY <1>2, <2>1 DEF RemoveClients, ReleaseAll, PopAll, IInv, ServerTypeOK, PoolTypeOK
  <2>3. DOMAIN ip_to_addr' \subseteq Pool /\ \A i \in DOMAIN ip_to_addr' : ip_to_addr'[i] \in Addrs
    BY <1>2 DEF RemoveClients, PopAll, IInv, ServerTypeOK
  <2>4. routes' \in SUBSET Pool
    BY <1>2 DEF RemoveClients, IInv, ServerTypeOK
  <2> QED BY <1>2, <1>3, <2>2, <2>3, <2>4 DEF IInv, ServerTypeOK
<1> QED BY <1>4, <1>5 DEF IInv

\* Leaving, dying and starting again.
LEMMA LifecycleKeeps ==
    ASSUME IInv, NEW rx, StopServer \/ ExitServer(rx) \/ CrashServer \/ StartServer
    PROVE  IInv'
<1>1. CASE StopServer \/ StartServer
  <2>1. /\ UNCHANGED <<clients, ip_to_addr, routes, available, allocated, allocatedByInt>>
        /\ srv' \in {"running", "stopping", "down"} /\ due' \in BOOLEAN
    BY <1>1 DEF StopServer, StartServer, poolVars, IInv, ServerTypeOK
  <2>2. Tables'
    BY <2>1, TablesFramed
  <2> QED BY <2>1, <2>2 DEF IInv, ServerTypeOK, PoolTypeOK
<1>2. CASE ExitServer(rx) \/ CrashServer
  <2>1. /\ clients' = EmptyDict /\ ip_to_addr' = EmptyDict /\ allocated' = EmptyDict
        /\ allocatedByInt' = EmptyDict /\ available' = Pool
        /\ srv' = "down" /\ due' = FALSE
    BY <1>2 DEF ExitServer, CrashServer
  <2>2. routes' \in SUBSET Pool /\ (ServerRoot => routes' = {})
    <3>1. VirtualIps(DOMAIN clients) = DOMAIN ip_to_addr
      BY MappedIsHeld DEF IInv, Tables
    <3> QED BY <1>2, <3>1 DEF ExitServer, CrashServer, IInv, ServerTypeOK, Tables, RoutesMatch
  <2>3. Tables'
    BY <2>1, <2>2, TablesWiped
  <2>4. ServerTypeOK'
    BY <2>1, <2>2 DEF ServerTypeOK, PoolTypeOK, EmptyDict
  <2> QED BY <2>3, <2>4 DEF IInv
<1> QED BY <1>1, <1>2

\* A second passes.
LEMMA TickKeeps ==
    ASSUME IInv, ServerTick
    PROVE  IInv'
<1>1. /\ DOMAIN clients' = DOMAIN clients
      /\ \A a \in DOMAIN clients : clients'[a] =
            [clients[a] EXCEPT !.session.created = Older(@, HandshakeTimeout + 1),
                               !.last_seen = Older(@, KeepaliveTimeout + 1),
                               !.last_keepalive = Older(@, KeepaliveInterval)]
      /\ UNCHANGED <<ip_to_addr, routes, srv, available, allocated, allocatedByInt>>
      /\ due' \in BOOLEAN
  BY DEF ServerTick, poolVars
<1>2. ASSUME NEW a \in DOMAIN clients
      PROVE  /\ clients'[a] \in ClientSessions
             /\ clients'[a].virtual_ip = clients[a].virtual_ip
             /\ clients'[a].data = clients[a].data
  <2>1. clients[a] \in ClientSessions
    BY DEF IInv, ServerTypeOK
  <2>2. \A n \in Nat, cap \in Nat : Older(n, cap) \in Nat
    BY DEF Older
  <2> DEFINE created == Older(clients[a].session.created, HandshakeTimeout + 1)
             seen == Older(clients[a].last_seen, KeepaliveTimeout + 1)
             kept == Older(clients[a].last_keepalive, KeepaliveInterval)
             s == [clients[a].session EXCEPT !.created = created]
  <2>3. /\ clients[a].session \in Sessions
        /\ clients[a].last_seen \in Nat /\ clients[a].last_keepalive \in Nat
    BY <2>1 DEF ClientSessions
  <2>4. clients[a].session.created \in Nat
    BY <2>3 DEF Sessions
  <2>5. /\ HandshakeTimeout + 1 \in Nat /\ KeepaliveTimeout + 1 \in Nat
        /\ KeepaliveInterval \in Nat
    BY TimeoutsAssumption
  <2>6. created \in Nat /\ seen \in Nat /\ kept \in Nat
    BY <2>2, <2>3, <2>4, <2>5
  <2>7. clients'[a] = [clients[a] EXCEPT !.session = s, !.last_seen = seen,
                                         !.last_keepalive = kept]
    BY <1>1
  <2> HIDE DEF created, seen, kept
  <2>8. s \in Sessions
    BY <2>3, <2>6 DEF Sessions
  <2> HIDE DEF s
  <2> QED BY <2>1, <2>6, <2>7, <2>8 DEF ClientSessions
<1>3. Tables'
  BY <1>1, <1>2, TablesFramed
<1>4. ServerTypeOK'
  BY <1>1, <1>2 DEF IInv, ServerTypeOK, PoolTypeOK
<1> QED BY <1>3, <1>4 DEF IInv

\* Every step of the server keeps the invariant.
LEMMA StepKeeps == IInv /\ [ServerNext]_svars => IInv'
<1> SUFFICES ASSUME IInv, [ServerNext]_svars PROVE IInv'
  OBVIOUS
<1>1. ASSUME UNCHANGED serverVars PROVE IInv'
  BY <1>1, UntouchedKeeps
<1>2. ASSUME NEW a \in Addrs, ServerReceives(a) PROVE IInv'
  <2>0. PeerSids \subseteq Sids
    BY SidsAssumption
  <2>1. ASSUME NEW sid \in PeerSids, NEW fresh \in Sids \ (PeerSids \cup SidsInUse),
               HandleResetNew(a, sid, fresh, {})
        PROVE  IInv'
    BY <2>1, ResetKeeps, <2>0
  <2>2. ASSUME NEW sid \in PeerSids, HandleResetKnown(a, sid, {}) PROVE IInv'
    BY <2>2, ResetKeeps, <2>0
  <2>3. ASSUME NEW cert \in Certs \cup {None}, NEW pub \in PeerSids,
               HandleClientHello(a, cert, pub, {})
        PROVE  IInv'
    BY <2>3, HelloKeeps, <2>0
  <2>4. ASSUME NEW sig, HandleClientFinished(a, sig, {}) PROVE IInv'
    BY <2>4, FinishedKeeps
  <2>5. CASE HandleTraffic(a, {})
    BY <2>5, TrafficKeeps
  <2>6. CASE HandleUnknown(a, {})
    BY <1>1, <2>6 DEF HandleUnknown
  <2>7. ASSUME NEW cert \in Certs \cup {None}, NEW pub \in PeerSids,
               HandleUnparsable(a, cert, pub, {})
        PROVE  IInv'
    BY <2>7, UnparsableKeeps, <2>0
  <2> QED BY <1>2, <2>1, <2>2, <2>3, <2>4, <2>5, <2>6, <2>7 DEF ServerReceives
<1>3. CASE ServerUnreachable({})
  BY <1>1, <1>3 DEF ServerUnreachable
<1>4. CASE UNCHANGED svars
  BY <1>1, <1>4 DEF svars
<1>5. ASSUME NEW a \in Addrs, NEW fresh \in Sids \ (PeerSids \cup SidsInUse),
             HandleResetRaises(a, fresh, {})
      PROVE  IInv'
  BY <1>5, GetOrCreateKeeps DEF HandleResetRaises
<1> QED
  BY <1>2, <1>3, <1>4, <1>5, MainLoopKeeps, LifecycleKeeps, TickKeeps DEF ServerNext

\* The server starts with empty tables and a full pool.
LEMMA InitKeeps == ServerInit => IInv
<1> SUFFICES ASSUME ServerInit PROVE IInv
  OBVIOUS
<1>1. ServerTypeOK
  BY DEF ServerInit, PoolInit, EmptyDict, ServerTypeOK, PoolTypeOK
<1>2. Tables
  BY DEF ServerInit, PoolInit, EmptyDict, Tables, TablesAgree, PoolConserved, RoutesMatch,
         VirtualIps
<1> QED BY <1>1, <1>2 DEF IInv

LEMMA InvariantHolds == ServerSpec => []IInv
BY InitKeeps, StepKeeps, PTL DEF ServerSpec, ServerAloneInit

(***************************************************************************)
(* Every variable of the server keeps its type.                            *)
(***************************************************************************)
THEOREM ServerTyped == ServerSpec => []ServerTypeOK
<1>1. IInv => ServerTypeOK
  BY DEF IInv
<1> QED BY <1>1, InvariantHolds, PTL

(***************************************************************************)
(* The client table, ip_to_addr and the pool's dictionaries always agree.  *)
(***************************************************************************)
THEOREM TablesAlwaysAgree == ServerSpec => []TablesAgree
<1>1. IInv => TablesAgree
  BY DEF IInv, Tables
<1> QED BY <1>1, InvariantHolds, PTL

(***************************************************************************)
(* No virtual address is ever lost or held twice.                          *)
(***************************************************************************)
THEOREM PoolIsConserved == ServerSpec => []PoolConserved
<1>1. IInv => PoolConserved
  BY DEF IInv, Tables
<1> QED BY <1>1, InvariantHolds, PTL

(***************************************************************************)
(* The host routes are always those of the mapped addresses.               *)
(***************************************************************************)
THEOREM RoutesAlwaysMatch == ServerSpec => []RoutesMatch
<1>1. IInv => RoutesMatch
  BY DEF IInv, Tables
<1> QED BY <1>1, InvariantHolds, PTL

-----------------------------------------------------------------------------
\* What a datagram of a can make the server do, whatever it holds.
Handles(a, rx) ==
    \/ \E sid, fresh : HandleResetNew(a, sid, fresh, rx)
    \/ \E sid : HandleResetKnown(a, sid, rx)
    \/ \E fresh : HandleResetRaises(a, fresh, rx)
    \/ \E cert, pub : HandleClientHello(a, cert, pub, rx) \/ HandleUnparsable(a, cert, pub, rx)
    \/ \E sig : HandleClientFinished(a, sig, rx)
    \/ HandleTraffic(a, rx)
    \/ HandleUnknown(a, rx)

LEMMA ReceivesHandles ==
    ASSUME NEW a, ServerReceives(a)
    PROVE  Handles(a, {})
<1>1. ASSUME NEW sid, NEW fresh, HandleResetNew(a, sid, fresh, {}) PROVE Handles(a, {})
  BY <1>1 DEF Handles
<1>2. ASSUME NEW sid, HandleResetKnown(a, sid, {}) PROVE Handles(a, {})
  BY <1>2 DEF Handles
<1>3. ASSUME NEW cert, NEW pub,
             HandleClientHello(a, cert, pub, {}) \/ HandleUnparsable(a, cert, pub, {})
      PROVE  Handles(a, {})
  BY <1>3 DEF Handles
<1>4. ASSUME NEW sig, HandleClientFinished(a, sig, {}) PROVE Handles(a, {})
  BY <1>4 DEF Handles
<1>5. HandleTraffic(a, {}) \/ HandleUnknown(a, {}) => Handles(a, {})
  BY DEF Handles
<1> QED BY <1>1, <1>2, <1>3, <1>4, <1>5 DEF ServerReceives

LEMMA DatagramsHandled ==
    /\ \A a \in Addrs : ServerReceives(a) => Handles(a, {})
    /\ \A a \in Addrs : \A fresh : HandleResetRaises(a, fresh, {}) => Handles(a, {})
BY ReceivesHandles DEF Handles

\* An action leaves the address of every client that stays as it was.
KeepsAddresses ==
    \A a \in DOMAIN clients \cap DOMAIN clients' :
        clients[a].virtual_ip # None => clients'[a].virtual_ip = clients[a].virtual_ip

\* Only CLIENT_FINISHED writes a virtual address, and only over None.
LEMMA DatagramKeepsAddresses ==
    ASSUME IInv, NEW a, NEW rx, Handles(a, rx)
    PROVE  KeepsAddresses
<1>0. \A b \in DOMAIN clients : clients[b] \in ClientSessions
  BY DEF IInv, ServerTypeOK
<1>1. ASSUME NEW sid, NEW fresh, HandleResetNew(a, sid, fresh, rx) PROVE KeepsAddresses
  BY <1>1 DEF HandleResetNew, Put, KeepsAddresses
<1>2. ASSUME NEW sid, HandleResetKnown(a, sid, rx) PROVE KeepsAddresses
  BY <1>0, <1>2 DEF HandleResetKnown, KeepsAddresses, ClientSessions
<1>3. ASSUME NEW cert, NEW pub, HandleClientHello(a, cert, pub, rx) PROVE KeepsAddresses
  BY <1>0, <1>3 DEF HandleClientHello, Heard, KeepsAddresses, ClientSessions
<1>4. ASSUME NEW sig, HandleClientFinished(a, sig, rx) PROVE KeepsAddresses
  <2>1. CASE FinishedOnly(a, sig, rx)
    BY <1>0, <2>1 DEF FinishedOnly, Heard, KeepsAddresses, ClientSessions
  <2>2. CASE FinishedExhausted(a, sig, rx)
    BY <1>0, <2>2 DEF FinishedExhausted, Heard, KeepsAddresses, ClientSessions
  <2>3. ASSUME NEW ip \in Pool, FinishedAssigned(a, sig, ip, rx) PROVE KeepsAddresses
    <3>1. a \in DOMAIN clients /\ clients[a].virtual_ip = None
      BY <2>3 DEF FinishedAssigned, OpensData, IInv, Tables, TablesAgree
    <3>2. \A b \in DOMAIN clients : b # a => clients'[b] = clients[b]
      BY <2>3 DEF FinishedAssigned
    <3> QED BY <3>1, <3>2 DEF KeepsAddresses
  <2> QED BY <1>4, <2>1, <2>2, <2>3 DEF HandleClientFinished
<1>5. CASE HandleTraffic(a, rx)
  BY <1>0, <1>5 DEF HandleTraffic, KeepsAddresses, ClientSessions
<1>6. CASE HandleUnknown(a, rx)
  BY <1>6 DEF HandleUnknown, serverVars, KeepsAddresses
<1>7. ASSUME NEW cert, NEW pub, HandleUnparsable(a, cert, pub, rx) PROVE KeepsAddresses
  BY <1>0, <1>7 DEF HandleUnparsable, Heard, KeepsAddresses, ClientSessions
<1>8. ASSUME NEW fresh, HandleResetRaises(a, fresh, rx) PROVE KeepsAddresses
  BY <1>8 DEF HandleResetRaises, GetOrCreateSession, Put, KeepsAddresses
<1> QED BY <1>1, <1>2, <1>3, <1>4, <1>5, <1>6, <1>7, <1>8 DEF Handles

\* Nothing else does.
LEMMA OtherwiseKeepsAddresses ==
    ASSUME IInv, NEW rx,
           \/ MainLoop(rx) \/ StopServer \/ StartServer \/ ServerUnreachable(rx)
           \/ ExitServer(rx) \/ CrashServer \/ ServerTick \/ UNCHANGED serverVars
    PROVE  KeepsAddresses
<1>0. \A b \in DOMAIN clients : clients[b] \in ClientSessions
  BY DEF IInv, ServerTypeOK
<1>1. CASE MainLoop(rx)
  BY <1>0, <1>1 DEF MainLoop, KeepsAddresses, ClientSessions
<1>2. CASE StopServer \/ StartServer \/ ServerUnreachable(rx) \/ UNCHANGED serverVars
  BY <1>2 DEF StopServer, StartServer, ServerUnreachable, serverVars, KeepsAddresses
<1>3. CASE ExitServer(rx) \/ CrashServer
  BY <1>3 DEF ExitServer, CrashServer, EmptyDict, KeepsAddresses
<1>4. CASE ServerTick
  BY <1>0, <1>4 DEF ServerTick, KeepsAddresses, ClientSessions
<1> QED BY <1>1, <1>2, <1>3, <1>4

(***************************************************************************)
(* The address a client was told in its IP_ASSIGN stays its own for as     *)
(* long as the server knows the client.                                    *)
(***************************************************************************)
THEOREM AddressIsKept == ServerSpec => AddressKept
<1>1. IInv /\ [ServerNext]_svars => [KeepsAddresses]_svars
  BY DatagramsHandled, DatagramKeepsAddresses, OtherwiseKeepsAddresses DEF ServerNext
<1>2. [][KeepsAddresses]_svars => AddressKept
  BY DEF KeepsAddresses, AddressKept
<1> QED BY <1>1, <1>2, InvariantHolds, PTL DEF ServerSpec

-----------------------------------------------------------------------------
\* The refinement of AddressLease: what a step does to the client table and
\* ip_to_addr is joining, a grant, leaving, or nothing.
LeaseStep == [Lease!LeaseNext]_(Lease!leaseVars)

LEMMA LeaseStarts == ServerInit => Lease!LeaseInit
BY DEF ServerInit, EmptyDict, Lease!LeaseInit

LEMMA LeaseFramed ==
    ASSUME DOMAIN clients' = DOMAIN clients, ip_to_addr' = ip_to_addr
    PROVE  LeaseStep
BY DEF LeaseStep, Lease!leaseVars

LEMMA LeaseJoined ==
    ASSUME NEW a \in Addrs, a \notin DOMAIN clients,
           DOMAIN clients' = DOMAIN clients \cup {a}, ip_to_addr' = ip_to_addr
    PROVE  LeaseStep
<1>1. Lease!Join(a)
  BY DEF Lease!Join
<1> QED BY <1>1 DEF LeaseStep, Lease!LeaseNext

\* A session is made, or was there.
LEMMA GetOrCreateLeases ==
    ASSUME NEW a \in Addrs, NEW fresh, clients' = GetOrCreateSession(a, fresh),
           ip_to_addr' = ip_to_addr
    PROVE  LeaseStep
<1>1. CASE a \in DOMAIN clients
  BY <1>1, LeaseFramed DEF GetOrCreateSession
<1>2. CASE a \notin DOMAIN clients
  BY <1>2, LeaseJoined DEF GetOrCreateSession, Put
<1> QED BY <1>1, <1>2

\* allocate() takes the least of what nobody holds.
LEMMA LeaseGranted ==
    ASSUME IInv, NEW a \in DOMAIN clients, ~clients[a].data.open,
           NEW ip \in Pool, Allocate(a, ip), ip_to_addr' = Put(ip_to_addr, ip, a),
           DOMAIN clients' = DOMAIN clients
    PROVE  LeaseStep
<1>1. a \in Addrs /\ TablesAgree /\ PoolConserved
      /\ VirtualIps(DOMAIN clients) = DOMAIN ip_to_addr
  BY MappedIsHeld DEF IInv, Tables, ServerTypeOK
<1>2. \A held \in DOMAIN ip_to_addr : ip_to_addr[held] # a
  BY <1>1, PoolAssumption DEF TablesAgree, IInv, ServerTypeOK, None
<1>3. Lease!Free = available
  BY <1>1 DEF Lease!Free, PoolConserved
<1>4. Lease!Grant(a, ip)
  BY <1>2, <1>3 DEF Lease!Grant, Allocate, Put
<1> QED BY <1>1, <1>4 DEF LeaseStep, Lease!LeaseNext

\* _remove_client: the address goes with the client.
LEMMA LeaseLeft ==
    ASSUME IInv, NEW as \in SUBSET (DOMAIN clients),
           ip_to_addr' = PopAll(ip_to_addr, VirtualIps(as)),
           DOMAIN clients' = DOMAIN clients \ as
    PROVE  LeaseStep
<1>1. TablesAgree
  BY DEF IInv, Tables
<1>2. DOMAIN ip_to_addr \ VirtualIps(as) = {ip \in DOMAIN ip_to_addr : ip_to_addr[ip] \notin as}
  <2>1. ASSUME NEW ip \in DOMAIN ip_to_addr
        PROVE  ip \in VirtualIps(as) <=> ip_to_addr[ip] \in as
    <3>1. ip # None /\ clients[ip_to_addr[ip]].virtual_ip = ip
      BY <1>1, <2>1, PoolAssumption DEF TablesAgree, IInv, ServerTypeOK, None
    <3>2. \A b \in as : clients[b].virtual_ip = ip => ip_to_addr[ip] = b
      BY <1>1, <3>1 DEF TablesAgree
    <3> QED BY <3>1, <3>2 DEF VirtualIps
  <2> QED BY <2>1
<1>3. Lease!Leave(as)
  BY <1>2 DEF Lease!Leave, PopAll
<1> QED BY <1>3 DEF LeaseStep, Lease!LeaseNext

\* The end of the process takes every client along.
LEMMA LeaseWiped ==
    ASSUME IInv, clients' = EmptyDict, ip_to_addr' = EmptyDict
    PROVE  LeaseStep
<1>1. {ip \in DOMAIN ip_to_addr : ip_to_addr[ip] \notin DOMAIN clients} = {}
  BY DEF IInv, Tables, TablesAgree
<1>2. Lease!Leave(DOMAIN clients)
  BY <1>1 DEF Lease!Leave, EmptyDict
<1> QED BY <1>2 DEF LeaseStep, Lease!LeaseNext

LEMMA DatagramLeases ==
    ASSUME IInv, NEW a \in Addrs, NEW rx, Handles(a, rx)
    PROVE  LeaseStep
<1>1. ASSUME NEW sid, NEW fresh, HandleResetNew(a, sid, fresh, rx) PROVE LeaseStep
  BY <1>1, LeaseJoined DEF HandleResetNew, Put
<1>2. ASSUME NEW sid, HandleResetKnown(a, sid, rx) PROVE LeaseStep
  BY <1>2, LeaseFramed DEF HandleResetKnown
<1>3. ASSUME NEW cert, NEW pub, HandleClientHello(a, cert, pub, rx) PROVE LeaseStep
  BY <1>3, LeaseFramed DEF HandleClientHello
<1>4. ASSUME NEW sig, HandleClientFinished(a, sig, rx) PROVE LeaseStep
  <2>1. ASSUME NEW ip \in Pool, FinishedAssigned(a, sig, ip, rx) PROVE LeaseStep
    <3>1. /\ a \in DOMAIN clients /\ ~clients[a].data.open /\ Allocate(a, ip)
          /\ ip_to_addr' = Put(ip_to_addr, ip, a)
      BY <2>1 DEF FinishedAssigned, OpensData
    <3>2. DOMAIN clients' = DOMAIN clients
      BY <2>1 DEF FinishedAssigned
    <3> QED BY <3>1, <3>2, LeaseGranted
  <2>2. CASE FinishedOnly(a, sig, rx) \/ FinishedExhausted(a, sig, rx)
    BY <2>2, LeaseFramed DEF FinishedOnly, FinishedExhausted
  <2> QED BY <1>4, <2>1, <2>2 DEF HandleClientFinished
<1>5. CASE HandleTraffic(a, rx) \/ HandleUnknown(a, rx)
  BY <1>5, LeaseFramed DEF HandleTraffic, HandleUnknown, serverVars
<1>6. ASSUME NEW cert, NEW pub, HandleUnparsable(a, cert, pub, rx) PROVE LeaseStep
  BY <1>6, LeaseFramed DEF HandleUnparsable
<1>7. ASSUME NEW fresh, HandleResetRaises(a, fresh, rx) PROVE LeaseStep
  BY <1>7, GetOrCreateLeases DEF HandleResetRaises
<1> QED BY <1>1, <1>2, <1>3, <1>4, <1>5, <1>6, <1>7 DEF Handles

LEMMA OtherwiseLeases ==
    ASSUME IInv, NEW rx,
           \/ MainLoop(rx) \/ StopServer \/ StartServer \/ ServerUnreachable(rx)
           \/ ExitServer(rx) \/ CrashServer \/ ServerTick \/ UNCHANGED serverVars
    PROVE  LeaseStep
<1>1. CASE MainLoop(rx)
  <2>1. /\ ip_to_addr' = PopAll(ip_to_addr, VirtualIps(Removed))
        /\ DOMAIN clients' = DOMAIN clients \ Removed
        /\ Removed \in SUBSET (DOMAIN clients)
    BY <1>1 DEF MainLoop, RemoveClients, Removed
  <2> QED BY <2>1, LeaseLeft
<1>2. CASE \/ StopServer \/ StartServer \/ ServerUnreachable(rx) \/ ServerTick
           \/ UNCHANGED serverVars
  BY <1>2, LeaseFramed DEF StopServer, StartServer, ServerUnreachable, ServerTick, serverVars
<1>3. CASE ExitServer(rx) \/ CrashServer
  BY <1>3, LeaseWiped DEF ExitServer, CrashServer
<1> QED BY <1>1, <1>2, <1>3

(***************************************************************************)
(* The server implements the abstract lease of addresses: the least free   *)
(* address, one per client, held until _remove_client or the end of the    *)
(* process takes the client out of the table, and no longer.               *)
(***************************************************************************)
THEOREM ServerLeases == ServerSpec => ImplementsLease
<1>1. ServerAloneInit => Lease!LeaseInit
  BY LeaseStarts DEF ServerAloneInit
<1>2. IInv /\ [ServerNext]_svars => LeaseStep
  <2>1. UNCHANGED svars => UNCHANGED serverVars
    BY DEF svars
  <2> QED BY <2>1, DatagramsHandled, DatagramLeases, OtherwiseLeases DEF ServerNext
<1> QED BY <1>1, <1>2, InvariantHolds, PTL DEF ServerSpec, ImplementsLease, Lease!LeaseSpec, LeaseStep
=============================================================================
