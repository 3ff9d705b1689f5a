------------------------ MODULE VpnServerTcpProofs ------------------------
(***************************************************************************)
(* The server in TCP mode, for any number of connections, any pool, any    *)
(* timeouts and any configuration.  What handle_udp_data and the main loop *)
(* do to the tables is VpnServerProofs'; new are the handler's removal,    *)
(* which meets an address that may have no session any more, and that      *)
(* sessions and connections come and go together.                          *)
(***************************************************************************)
EXTENDS VpnServerTcp, VpnServerProofs

ConnsTyped == conns \in [Addrs -> ConnStates]

TcpInv == IInv /\ ConnsTyped /\ SessionsConnected

-----------------------------------------------------------------------------
\* A datagram, or frame, of a leaves the other entries of the table there.
LEMMA ReceivingDomain ==
    ASSUME IInv, NEW a \in Addrs, ServerReceives(a)
    PROVE  /\ DOMAIN clients' = DOMAIN clients \/ DOMAIN clients' = DOMAIN clients \cup {a}
           /\ IInv'
<1>1. IInv'
  BY StepKeeps DEF ServerNext
<1>2. DOMAIN clients' = DOMAIN clients \/ DOMAIN clients' = DOMAIN clients \cup {a}
  BY DEF ServerReceives, HandleResetNew, HandleResetKnown, HandleUnknown, HandleClientHello,
         HandleUnparsable,
         HandleClientFinished, FinishedOnly, FinishedAssigned, FinishedExhausted, HandleTraffic,
         Put, serverVars
<1> QED BY <1>1, <1>2

-----------------------------------------------------------------------------
\* A new connection: its session, if new, has no address.
LEMMA AcceptKeeps ==
    ASSUME TcpInv, NEW a \in Addrs, NEW fresh \in Sids, Accept(a, fresh)
    PROVE  TcpInv'
<1>1. IInv /\ ConnsTyped /\ SessionsConnected
  BY DEF TcpInv
<1>2. /\ conns' = [conns EXCEPT ![a] = "open"]
      /\ UNCHANGED <<ip_to_addr, routes, srv, due, poolVars>>
  BY DEF Accept
<1>3. IInv' /\ DOMAIN clients' = DOMAIN clients \cup {a}
  BY <1>1, <1>2, GetOrCreateKeeps DEF Accept
<1>4. ConnsTyped'
  BY <1>1, <1>2 DEF ConnsTyped, ConnStates
<1>5. SessionsConnected'
  BY <1>1, <1>2, <1>3 DEF SessionsConnected, ConnsTyped
<1> QED BY <1>3, <1>4, <1>5 DEF TcpInv

\* A frame makes no session where there is no connection.
LEMMA FrameKeeps ==
    ASSUME TcpInv, NEW a \in Addrs, Frame(a)
    PROVE  TcpInv'
<1>1. IInv /\ ConnsTyped /\ SessionsConnected
  BY DEF TcpInv
<1>2. ServerReceives(a) /\ conns' = conns /\ conns[a] \in {"open", "closed"}
  BY DEF Frame
<1>3. DOMAIN clients \subseteq DOMAIN clients' /\ DOMAIN clients' \subseteq DOMAIN clients \cup {a}
      /\ IInv'
  BY <1>1, <1>2, ReceivingDomain
<1>4. SessionsConnected'
  BY <1>1, <1>2, <1>3 DEF SessionsConnected
<1> QED BY <1>1, <1>2, <1>3, <1>4 DEF TcpInv, ConnsTyped

\* _remove_client for a client of the table, or for none.
LEMMA HandlerEndKeeps ==
    ASSUME TcpInv, NEW a \in Addrs, HandlerEnds(a)
    PROVE  TcpInv'
<1>1. IInv /\ ConnsTyped /\ SessionsConnected
  BY DEF TcpInv
<1> DEFINE as == {a} \cap DOMAIN clients
<1>2. as \in SUBSET (DOMAIN clients)
  OBVIOUS
<1>3. /\ conns' = [conns EXCEPT ![a] = "none"] /\ RemoveClients(as)
      /\ clients' = PopAll(clients, {a}) /\ UNCHANGED <<srv, due>>
  BY DEF HandlerEnds
<1>4. /\ DOMAIN clients' = DOMAIN clients \ as
      /\ DOMAIN clients' = DOMAIN clients \ {a}
      /\ \A b \in DOMAIN clients' : clients'[b] = clients[b]
  BY <1>3 DEF PopAll
<1>5. RemoveClients(as) /\ \A b \in DOMAIN clients' : clients'[b] \in ClientSessions
  BY <1>1, <1>3, <1>4 DEF IInv, ServerTypeOK
<1> HIDE DEF as
<1>6. Tables'
  BY <1>1, <1>2, <1>4, <1>5, TablesRemoved
<1>7. ServerTypeOK'
  <2> DEFINE held == {b \in as : clients[b].virtual_ip # None}
             freed == {allocated[c] : c \in held \cap DOMAIN allocated}
  <2>1. freed \subseteq Pool
    BY <1>1 DEF IInv, ServerTypeOK, PoolTypeOK
  <2>2. PoolTypeOK'
    BY <1>1, <1>5, <2>1 DEF RemoveClients, ReleaseAll, PopAll, IInv, ServerTypeOK, PoolTypeOK
  <2>3. DOMAIN ip_to_addr' \subseteq Pool /\ \A i \in DOMAIN ip_to_addr' : ip_to_addr'[i] \in Addrs
    BY <1>1, <1>5 DEF RemoveClients, PopAll, IInv, ServerTypeOK
  <2>4. routes' \in SUBSET Pool
    BY <1>1, <1>5 DEF RemoveClients, IInv, ServerTypeOK
  <2> QED BY <1>1, <1>3, <1>4, <1>5, <2>2, <2>3, <2>4 DEF IInv, ServerTypeOK
<1>8. ConnsTyped'
  BY <1>1, <1>3 DEF ConnsTyped, ConnStates
<1>9. SessionsConnected'
  BY <1>1, <1>3, <1>4 DEF SessionsConnected, ConnsTyped
<1> QED BY <1>6, <1>7, <1>8, <1>9 DEF TcpInv, IInv

\* The main loop closes the connections of the sessions it removes.
LEMMA TcpMainLoopKeeps ==
    ASSUME TcpInv, TcpMainLoop
    PROVE  TcpInv'
<1>1. IInv /\ ConnsTyped /\ SessionsConnected
  BY DEF TcpInv
<1>2. /\ MainLoop({})
      /\ conns' = [a \in Addrs |->
                      IF a \in Removed /\ conns[a] = "open" THEN "closed" ELSE conns[a]]
  BY DEF TcpMainLoop
<1>3. IInv'
  BY <1>1, <1>2, MainLoopKeeps
<1>4. DOMAIN clients' = DOMAIN clients \ Removed
  BY <1>2 DEF MainLoop
<1>5. ConnsTyped'
  BY <1>1, <1>2 DEF ConnsTyped, ConnStates
<1>6. SessionsConnected'
  BY <1>1, <1>2, <1>4 DEF SessionsConnected, ConnsTyped, ConnStates
<1> QED BY <1>3, <1>5, <1>6 DEF TcpInv

\* Losing a connection, the end of the process, and what is VpnServer's.
LEMMA OtherStepsKeep ==
    ASSUME TcpInv,
           \/ \E a \in Addrs : ConnectionLost(a)
           \/ ProcessEnds
           \/ StopServer /\ UNCHANGED conns
           \/ StartServer /\ UNCHANGED conns
           \/ ServerTick /\ net' = {} /\ UNCHANGED conns
    PROVE  TcpInv'
<1>1. IInv /\ ConnsTyped /\ SessionsConnected
  BY DEF TcpInv
<1>2. ASSUME NEW a \in Addrs, ConnectionLost(a) PROVE TcpInv'
  <2>1. /\ UNCHANGED serverVars /\ conns[a] = "open"
        /\ conns' = [conns EXCEPT ![a] = "lost"] /\ clients' = clients
    BY <1>2 DEF ConnectionLost, serverVars
  <2>2. IInv'
    BY <1>1, <2>1, UntouchedKeeps
  <2>3. ConnsTyped' /\ SessionsConnected'
    BY <1>1, <2>1 DEF ConnsTyped, ConnStates, SessionsConnected
  <2> QED BY <2>2, <2>3 DEF TcpInv
<1>3. ASSUME ProcessEnds PROVE TcpInv'
  <2>1. Tables'
    BY <1>3, TablesWiped DEF ProcessEnds
  <2>2. ServerTypeOK'
    BY <1>3 DEF ProcessEnds, EmptyDict, ServerTypeOK, PoolTypeOK
  <2>3. ConnsTyped' /\ SessionsConnected'
    BY <1>3 DEF ProcessEnds, EmptyDict, ConnsTyped, ConnStates, SessionsConnected
  <2> QED BY <2>1, <2>2, <2>3 DEF TcpInv, IInv
<1>4. ASSUME StopServer \/ StartServer \/ ServerTick, UNCHANGED conns PROVE TcpInv'
  <2>1. IInv'
    BY <1>1, <1>4, LifecycleKeeps, TickKeeps
  <2>2. DOMAIN clients' = DOMAIN clients
    BY <1>4 DEF StopServer, StartServer, ServerTick
  <2>3. ConnsTyped' /\ SessionsConnected'
    BY <1>1, <1>4, <2>2 DEF ConnsTyped, SessionsConnected
  <2> QED BY <2>1, <2>3 DEF TcpInv
<1> QED BY <1>2, <1>3, <1>4

-----------------------------------------------------------------------------
LEMMA TcpInvariant == TcpSafe => []TcpInv
<1>1. TcpInit => TcpInv
  <2> SUFFICES ASSUME TcpInit PROVE TcpInv
    OBVIOUS
  <2>1. IInv
    BY InitKeeps DEF TcpInit
  <2>2. ConnsTyped /\ SessionsConnected
    BY DEF TcpInit, ServerInit, EmptyDict, ConnsTyped, ConnStates, SessionsConnected
  <2> QED BY <2>1, <2>2 DEF TcpInv
<1>2. TcpInv /\ [TcpNext]_tcpVars => TcpInv'
  <2> SUFFICES ASSUME TcpInv, [TcpNext]_tcpVars PROVE TcpInv'
    OBVIOUS
  <2>1. ASSUME TcpMainLoopRaises \/ TcpExit PROVE TcpInv'
    BY <2>1, OtherStepsKeep DEF TcpMainLoopRaises, TcpExit
  <2>2. CASE UNCHANGED tcpVars
    <3>1. UNCHANGED serverVars /\ clients' = clients /\ conns' = conns
      BY <2>2 DEF tcpVars, serverVars
    <3>2. IInv'
      BY <3>1, UntouchedKeeps DEF TcpInv
    <3> QED BY <3>1, <3>2 DEF TcpInv, ConnsTyped, SessionsConnected
  <2> QED BY <2>1, <2>2, AcceptKeeps, FrameKeeps, HandlerEndKeeps, TcpMainLoopKeeps,
             OtherStepsKeep DEF TcpNext
<1> QED BY <1>1, <1>2, PTL DEF TcpSafe

(***************************************************************************)
(* Every variable of the server in TCP mode keeps its type.                *)
(***************************************************************************)
THEOREM TcpTyped == TcpSafe => []TcpTypeOK
<1>1. TcpInv => TcpTypeOK
  BY DEF TcpInv, IInv, TcpTypeOK, ConnsTyped
<1> QED BY <1>1, TcpInvariant, PTL

(***************************************************************************)
(* An open connection has a session, and a session a connection whose      *)
(* handler will remove it, although the main loop, the handlers and the    *)
(* frames left in a closed connection's buffer all make or remove sessions.*)
(***************************************************************************)
THEOREM SessionsStayConnected == TcpSafe => []SessionsConnected
<1>1. TcpInv => SessionsConnected
  BY DEF TcpInv
<1> QED BY <1>1, TcpInvariant, PTL

(***************************************************************************)
(* The tables and the pool stay consistent in TCP mode too.                *)
(***************************************************************************)
THEOREM TcpTablesAgree == TcpSafe => [](TablesAgree /\ PoolConserved)
<1>1. TcpInv => TablesAgree /\ PoolConserved
  BY DEF TcpInv, IInv, Tables
<1> QED BY <1>1, TcpInvariant, PTL

-----------------------------------------------------------------------------
\* What is TCP's own does to addresses what the rest of the server does.
LEMMA TcpOwnSteps ==
    ASSUME TcpInv,
           \/ \E a \in Addrs : \/ \E fresh \in Sids : Accept(a, fresh)
                               \/ HandlerEnds(a)
                               \/ ConnectionLost(a)
           \/ ProcessEnds
    PROVE  KeepsAddresses /\ LeaseStep
<1>0. IInv
  BY DEF TcpInv
<1>1. ASSUME NEW a \in Addrs, NEW fresh \in Sids, Accept(a, fresh)
      PROVE  KeepsAddresses /\ LeaseStep
  <2>1. KeepsAddresses
    BY <1>1 DEF Accept, GetOrCreateSession, Put, KeepsAddresses
  <2> QED BY <1>1, <2>1, GetOrCreateLeases DEF Accept
<1>2. ASSUME NEW a \in Addrs, HandlerEnds(a) PROVE KeepsAddresses /\ LeaseStep
  <2> DEFINE as == {a} \cap DOMAIN clients
  <2>1. /\ as \in SUBSET (DOMAIN clients)
        /\ ip_to_addr' = PopAll(ip_to_addr, VirtualIps(as))
        /\ clients' = PopAll(clients, {a})
    BY <1>2 DEF HandlerEnds, RemoveClients
  <2>2. /\ DOMAIN clients' = DOMAIN clients \ as
        /\ \A b \in DOMAIN clients' : clients'[b] = clients[b]
    BY <2>1 DEF PopAll
  <2> HIDE DEF as
  <2> QED BY <1>0, <2>1, <2>2, LeaseLeft DEF KeepsAddresses
<1>3. ASSUME NEW a \in Addrs, ConnectionLost(a) PROVE KeepsAddresses /\ LeaseStep
  BY <1>0, <1>3, OtherwiseKeepsAddresses, OtherwiseLeases DEF ConnectionLost
<1>4. CASE ProcessEnds
  BY <1>0, <1>4, LeaseWiped DEF ProcessEnds, KeepsAddresses, EmptyDict
<1> QED BY <1>1, <1>2, <1>3, <1>4

LEMMA TcpSteps ==
    TcpInv /\ [TcpNext]_tcpVars => KeepsAddresses /\ LeaseStep
<1> SUFFICES ASSUME TcpInv, [TcpNext]_tcpVars PROVE KeepsAddresses /\ LeaseStep
  OBVIOUS
<1>0. IInv
  BY DEF TcpInv
<1>1. ASSUME NEW a \in Addrs, Frame(a) PROVE KeepsAddresses /\ LeaseStep
  BY <1>0, <1>1, ReceivesHandles, DatagramKeepsAddresses, DatagramLeases DEF Frame
<1>2. CASE TcpMainLoop \/ StopServer \/ StartServer \/ ServerTick
  BY <1>0, <1>2, OtherwiseKeepsAddresses, OtherwiseLeases DEF TcpMainLoop
<1>3. CASE TcpMainLoopRaises \/ TcpExit
  BY <1>3, TcpOwnSteps DEF TcpMainLoopRaises, TcpExit
<1>4. CASE UNCHANGED tcpVars
  <2>1. UNCHANGED serverVars
    BY <1>4 DEF tcpVars
  <2> QED BY <1>0, <2>1, OtherwiseKeepsAddresses, OtherwiseLeases
<1>5. ASSUME NEW a \in Addrs, NEW fresh \in Sids \ (PeerSids \cup SidsInUse), Accept(a, fresh)
      PROVE  KeepsAddresses /\ LeaseStep
  BY <1>5, TcpOwnSteps
<1>6. ASSUME NEW a \in Addrs, HandlerEnds(a) \/ ConnectionLost(a)
      PROVE  KeepsAddresses /\ LeaseStep
  BY <1>6, TcpOwnSteps
<1> QED BY <1>1, <1>2, <1>3, <1>4, <1>5, <1>6 DEF TcpNext

(***************************************************************************)
(* As long as a connection's session is in the table it keeps the address  *)
(* of its IP_ASSIGN, also over handshakes on frames that were still in a   *)
(* closed connection's buffer.                                             *)
(***************************************************************************)
THEOREM TcpAddressIsKept == TcpSafe => AddressKept
<1>1. TcpInv /\ [TcpNext]_tcpVars => [KeepsAddresses]_svars
  BY TcpSteps
<1>2. [][KeepsAddresses]_svars => AddressKept
  BY DEF KeepsAddresses, AddressKept
<1> QED BY <1>1, <1>2, TcpInvariant, PTL DEF TcpSafe

(***************************************************************************)
(* The server in TCP mode implements the same abstract lease: a session is *)
(* there from accept on, the end of its handler, the main loop and the end *)
(* of the process return its address, and each of them only once.          *)
(***************************************************************************)
THEOREM TcpServerLeases == TcpSafe => ImplementsLease
<1>1. TcpInit => Lease!LeaseInit
  BY LeaseStarts DEF TcpInit
<1> QED BY <1>1, TcpSteps, TcpInvariant, PTL
        DEF TcpSafe, ImplementsLease, Lease!LeaseSpec, LeaseStep
=============================================================================
