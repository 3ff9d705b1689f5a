-------------------------- MODULE VpnTunnelProofs --------------------------
(***************************************************************************)
(* The two ends of the tunnel together: for every set of addresses, tokens *)
(* and certificates, every pool, every timeout and any number of losses,   *)
(* duplications, crashes, restarts and stops, each end keeps its own       *)
(* invariants; and whenever both have a data channel or a virtual address  *)
(* for an attempt they have the same, as long as the attempt cannot make   *)
(* two sessions (SessionOnce).                                             *)
(*                                                                         *)
(* The two ends' own invariants are VpnServerProofs' and VpnClientProofs'. *)
(* What is new is what the datagrams of the current attempt, the server's  *)
(* session for its address and the client's session have in common         *)
(* (Paired), and that no attempt meets a second session (FirstSession).    *)
(***************************************************************************)
EXTENDS VpnTunnel, VpnServerProofs, VpnClientProofs

-----------------------------------------------------------------------------
(***************************************************************************)
(* What keeps the one HARD_RESET_CLIENT of an attempt from making a second *)
(* session for it after the first one is gone: it is delivered once, or no *)
(* copy of it outlives the second in which no session can expire and the   *)
(* server does not die.  A socket's address is new to the server.          *)
(***************************************************************************)
PromptlyServed == Prompt /\ "server" \notin DOMAIN faults

SessionOnce == ~ReuseAddr /\ ("dup" \notin DOMAIN faults \/ PromptlyServed)

\* The datagrams in flight from or to the client's current socket.
OfAttempt == {p \in net : p.addr = addr}

ResetInFlight == \E p \in OfAttempt : p.type = "HARD_RESET_CLIENT"

\* The key and the channel both ends derive when the client's session c and
\* the server's session s have heard of each other.
AgreedKey(c, s) == [ecdh |-> {c, s}, salt |-> {c, s}]
AgreedData(c, s) == [open |-> TRUE, key |-> AgreedKey(c, s), id |-> {c, s}]

\* The server's entry cs was made for the client's session c.
ServerPaired(c, cs) ==
    /\ cs.session.peer = c
    /\ cs.session.key \in {NoKey, AgreedKey(c, cs.session.sid)}
    /\ cs.data.open => cs.data = AgreedData(c, cs.session.sid)

\* The client has heard of no session but that of the server's entry cs.
ClientPaired(cs) ==
    /\ session.peer \in {None, cs.session.sid}
    /\ IsEstablished(session) =>
          /\ session.peer = cs.session.sid
          /\ session.key = AgreedKey(session.sid, cs.session.sid)
    /\ data.open => data = AgreedData(session.sid, cs.session.sid)
    /\ connected => cs.data.open /\ assigned_ip = cs.virtual_ip

\* The datagram p belongs to the handshake of session and cs.
PacketPaired(p, cs) ==
    /\ p.type = "HARD_RESET_SERVER" => p.sid = cs.session.sid
    /\ p.type = "CLIENT_HELLO" => p.sid = session.sid /\ session.peer = cs.session.sid
    /\ p.type = "SERVER_HELLO" =>
          /\ p.sid = cs.session.sid
          /\ session.peer = cs.session.sid
          /\ cs.session.key = AgreedKey(session.sid, cs.session.sid)
    /\ p.type = "CLIENT_FINISHED" =>
          cs.session.key = AgreedKey(session.sid, cs.session.sid)
    /\ p.type = "IP_ASSIGN" => cs.data.open /\ p.ip = cs.virtual_ip

Paired(cs) ==
    /\ ServerPaired(session.sid, cs)
    /\ ClientPaired(cs)
    /\ \A p \in OfAttempt : PacketPaired(p, cs)

\* The server has not answered the attempt yet.
Unanswered ==
    /\ \A p \in OfAttempt : p.type = "HARD_RESET_CLIENT"
    /\ session.peer = None
    /\ ~IsEstablished(session) /\ ~data.open /\ ~connected

\* Neither timeout of the server can have run for this entry.
Young(cs) == PromptlyServed /\ cs.session.created = 0 /\ cs.last_seen = 0

\* The reset that is still in flight is the attempt's own; it finds either
\* no trace of a session, or a session that cannot go away before it.
FirstSession ==
    /\ \A p \in OfAttempt : p.type = "HARD_RESET_CLIENT" => p = ResetPacket(addr, session)
    /\ ResetInFlight =>
          IF addr \in DOMAIN clients THEN Young(clients[addr]) ELSE Unanswered

AttemptInv ==
    pc = "loop" => /\ FirstSession
                   /\ addr \in DOMAIN clients => Paired(clients[addr])

-----------------------------------------------------------------------------
\* What the datagrams in flight may hold, and that every session on either
\* side, once there is one, has drawn its token.
PacketTyped(p) ==
    /\ p.addr \in Addrs
    /\ p.cert \in Certs \cup {None}
    /\ p.type \in {"HARD_RESET_CLIENT", "HARD_RESET_SERVER", "CLIENT_HELLO", "SERVER_HELLO"}
          => p.sid \in Sids
    /\ p.type = "IP_ASSIGN" => p.ip \in Pool

NetTyped == \A p \in net : PacketTyped(p)

SessionsDrawn ==
    /\ \A a \in DOMAIN clients : clients[a].session.sid \in Sids
    /\ pc = "loop" => session.sid \in Sids /\ addr \in Addrs

EndsInv == IInv /\ ClientInv /\ NetTyped /\ SessionsDrawn

TunnelInv == EndsInv /\ (SessionOnce => AttemptInv)

-----------------------------------------------------------------------------
\* A step of the server leaves the client's variables alone, one of the
\* client the server's; either may take datagrams off the network and put
\* well-typed ones on it.
LEMMA ServerActs ==
    ASSUME EndsInv, IInv', UNCHANGED clientVars, \A q \in net' \ net : PacketTyped(q),
           \A a \in DOMAIN clients' : clients'[a].session.sid \in Sids
    PROVE  EndsInv'
<1>1. ClientInv'
  BY ClientUntouched DEF EndsInv
<1>2. NetTyped'
  BY DEF EndsInv, NetTyped, PacketTyped
<1>3. SessionsDrawn'
  BY DEF EndsInv, SessionsDrawn, clientVars, taskVars, sessionVars
<1> QED BY <1>1, <1>2, <1>3 DEF EndsInv

LEMMA ClientActs ==
    ASSUME EndsInv, ClientInv', UNCHANGED serverVars, \A q \in net' \ net : PacketTyped(q),
           pc' = "loop" => session'.sid \in Sids /\ addr' \in Addrs
    PROVE  EndsInv'
<1>1. IInv'
  BY UntouchedKeeps DEF EndsInv
<1>2. NetTyped'
  BY DEF EndsInv, NetTyped, PacketTyped
<1>3. SessionsDrawn'
  BY DEF EndsInv, SessionsDrawn, serverVars
<1> QED BY <1>1, <1>2, <1>3 DEF EndsInv

\* A datagram the server handles.
LEMMA ServerHandlingTyped ==
    ASSUME EndsInv, NEW p \in net, NEW rx \in SUBSET net, ServerHandles(p, rx)
    PROVE  EndsInv'
<1>0. /\ IInv /\ PacketTyped(p) /\ UNCHANGED clientVars
      /\ \A b \in DOMAIN clients :
            /\ clients[b] \in ClientSessions /\ clients[b].session \in Sessions
            /\ clients[b].session.sid \in Sids
      /\ ServerConf.cert \in Certs \cup {None}
  BY ServerConfAssumption
     DEF EndsInv, NetTyped, SessionsDrawn, ServerHandles, IInv, ServerTypeOK, ClientSessions, Confs
<1>1. ASSUME p.type = "HARD_RESET_CLIENT", NEW fresh \in Sids, HandleResetNew(p.addr, p.sid, fresh, rx)
      PROVE  EndsInv'
  <2> DEFINE s == ServerHandleReset(NewSession(fresh), p.sid)
  <2>1. IInv'
    BY <1>0, <1>1, ResetKeeps DEF PacketTyped
  <2>2. NewSession(fresh) \in Sessions /\ NewSession(fresh).sid = fresh
    BY NewTyped DEF NewSession
  <2>3. s.sid = fresh
    BY <2>2 DEF ServerHandleReset, Sessions
  <2>4. /\ clients' = Put(clients, p.addr, NewClientSession(s))
        /\ net' = rx \cup {ResetAckPacket(p.addr, s)}
    BY <1>1 DEF HandleResetNew
  <2> HIDE DEF s
  <2>5. NewClientSession(s).session = s
    BY DEF NewClientSession
  <2>6. \A a \in DOMAIN clients' : clients'[a].session.sid \in Sids
    BY <1>0, <2>3, <2>4, <2>5 DEF Put
  <2>7. PacketTyped(ResetAckPacket(p.addr, s))
    BY <1>0, <2>3 DEF PacketTyped, ResetAckPacket, Packet
  <2>8. \A q \in net' \ net : PacketTyped(q)
    BY <2>4, <2>7
  <2> QED BY <1>0, <2>1, <2>6, <2>8, ServerActs
<1>2. ASSUME p.type = "HARD_RESET_CLIENT", HandleResetKnown(p.addr, p.sid, rx) PROVE EndsInv'
  <2> DEFINE s == ServerHandleReset(clients[p.addr].session, p.sid)
  <2>1. IInv'
    BY <1>0, <1>2, ResetKeeps DEF PacketTyped
  <2>2. /\ p.addr \in DOMAIN clients
        /\ clients' = [clients EXCEPT ![p.addr].session = s]
        /\ net' = rx \cup {ResetAckPacket(p.addr, s)}
    BY <1>2 DEF HandleResetKnown
  <2>3. s.sid = clients[p.addr].session.sid
    BY <1>0, <2>2 DEF ServerHandleReset, Sessions
  <2> HIDE DEF s
  <2>4. \A a \in DOMAIN clients' : clients'[a].session.sid \in Sids
    BY <1>0, <2>2, <2>3 DEF ClientSessions
  <2>5. PacketTyped(ResetAckPacket(p.addr, s))
    BY <1>0, <2>2, <2>3 DEF PacketTyped, ResetAckPacket, Packet
  <2>6. \A q \in net' \ net : PacketTyped(q)
    BY <2>2, <2>5
  <2> QED BY <1>0, <2>1, <2>4, <2>6, ServerActs
<1>3. ASSUME p.type = "CLIENT_HELLO", HandleClientHello(p.addr, p.cert, p.sid, rx) PROVE EndsInv'
  <2> DEFINE s == ServerHandleClientHello(clients[p.addr].session, ServerConf, p.cert, p.sid)
  <2>1. IInv'
    BY <1>0, <1>3, HelloKeeps DEF PacketTyped
  <2>2. /\ p.addr \in DOMAIN clients
        /\ clients' = [clients EXCEPT ![p.addr] = Heard(p.addr, s)]
        /\ net' = rx \cup IF s.st = "HELLO_SENT" THEN {ServerHelloPacket(p.addr, s, ServerConf)} ELSE {}
    BY <1>3 DEF HandleClientHello
  <2>3. s.sid = clients[p.addr].session.sid
    BY <1>0, <2>2 DEF ServerHandleClientHello, Sessions
  <2> HIDE DEF s
  <2>4. \A a \in DOMAIN clients' : clients'[a].session.sid \in Sids
    BY <1>0, <2>2, <2>3 DEF ClientSessions, Heard
  <2>5. PacketTyped(ServerHelloPacket(p.addr, s, ServerConf))
    BY <1>0, <2>2, <2>3 DEF PacketTyped, ServerHelloPacket, Packet
  <2>6. \A q \in net' \ net : PacketTyped(q)
    BY <2>2, <2>5
  <2> QED BY <1>0, <2>1, <2>4, <2>6, ServerActs
<1>4. ASSUME p.type = "CLIENT_FINISHED", HandleClientFinished(p.addr, p.sig, rx) PROVE EndsInv'
  <2> DEFINE s == Finished(p.addr, p.sig)
  <2>1. IInv'
    BY <1>0, <1>4, FinishedKeeps DEF PacketTyped
  <2>2. p.addr \in DOMAIN clients
    BY <1>4 DEF HandleClientFinished, FinishedOnly, FinishedAssigned, FinishedExhausted
  <2>3. s.sid \in Sids
    BY <1>0, <2>2 DEF Finished, ServerHandleClientFinished, Sessions
  <2> HIDE DEF s
  <2>4. CASE FinishedOnly(p.addr, p.sig, rx)
    <3>1. clients' = [clients EXCEPT ![p.addr] = Heard(p.addr, s)] /\ net' = rx
      BY <2>4 DEF FinishedOnly, s
    <3>2. \A a \in DOMAIN clients' : clients'[a].session.sid \in Sids
      BY <1>0, <2>2, <2>3, <3>1 DEF ClientSessions, Heard
    <3> QED BY <1>0, <2>1, <3>1, <3>2, ServerActs
  <2>5. CASE FinishedExhausted(p.addr, p.sig, rx)
    <3>1. /\ clients' = [clients EXCEPT ![p.addr] =
                            [Heard(p.addr, s) EXCEPT !.data = NewDataChannel(s)]]
          /\ net' = rx
      BY <2>5 DEF FinishedExhausted, s
    <3>2. \A a \in DOMAIN clients' : clients'[a].session.sid \in Sids
      BY <1>0, <2>2, <2>3, <3>1 DEF ClientSessions, Heard
    <3> QED BY <1>0, <2>1, <3>1, <3>2, ServerActs
  <2>6. ASSUME NEW ip \in Pool, FinishedAssigned(p.addr, p.sig, ip, rx) PROVE EndsInv'
    <3> DEFINE m == [Packet("client", p.addr, "IP_ASSIGN") EXCEPT !.ip = ip]
    <3>1. /\ clients' = [clients EXCEPT ![p.addr] =
                [Heard(p.addr, s) EXCEPT !.data = NewDataChannel(s), !.virtual_ip = ip]]
          /\ net' = rx \cup {m}
      BY <2>6 DEF FinishedAssigned, s
    <3>2. \A a \in DOMAIN clients' : clients'[a].session.sid \in Sids
      BY <1>0, <2>2, <2>3, <3>1 DEF ClientSessions, Heard
    <3>3. PacketTyped(m)
      BY <1>0 DEF PacketTyped, Packet
    <3> HIDE DEF m
    <3>4. \A q \in net' \ net : PacketTyped(q)
      BY <3>1, <3>3
    <3> QED BY <1>0, <2>1, <3>2, <3>4, ServerActs
  <2> QED BY <1>4, <2>4, <2>5, <2>6 DEF HandleClientFinished
<1>5. CASE HandleTraffic(p.addr, rx)
  <2>1. IInv'
    BY <1>0, <1>5, TrafficKeeps DEF PacketTyped
  <2>2. \A a \in DOMAIN clients' : clients'[a].session.sid \in Sids
    BY <1>0, <1>5 DEF HandleTraffic, ClientSessions
  <2>3. net' = rx
    BY <1>5 DEF HandleTraffic
  <2> QED BY <1>0, <2>1, <2>2, <2>3, ServerActs
<1>6. CASE HandleUnknown(p.addr, rx) \/ ServerUnreachable(rx)
  <2>1. UNCHANGED serverVars /\ net' = rx
    BY <1>6 DEF HandleUnknown, ServerUnreachable
  <2>2. IInv' /\ clients' = clients
    BY <1>0, <2>1, UntouchedKeeps DEF serverVars
  <2> QED BY <1>0, <2>1, <2>2, ServerActs
<1> QED BY <1>1, <1>2, <1>3, <1>4, <1>5, <1>6 DEF ServerHandles

\* The server's own steps.
LEMMA ServerStepTyped ==
    ASSUME EndsInv, UNCHANGED clientVars, MainLoop(net) \/ CrashServer \/ StartServer
    PROVE  EndsInv'
<1>0. /\ IInv
      /\ \A b \in DOMAIN clients :
            /\ b \in Addrs /\ clients[b] \in ClientSessions
            /\ clients[b].session.sid \in Sids
  BY DEF EndsInv, SessionsDrawn, IInv, ServerTypeOK
<1>1. IInv'
  BY <1>0, MainLoopKeeps, LifecycleKeeps
<1>2. CASE MainLoop(net)
  <2>1. \A a \in DOMAIN clients' : clients'[a].session.sid \in Sids
    BY <1>0, <1>2 DEF MainLoop, ClientSessions
  <2>2. \A q \in net' \ net : PacketTyped(q)
    BY <1>0, <1>2 DEF MainLoop, PacketTyped, Packet
  <2> QED BY <1>1, <2>1, <2>2, ServerActs
<1>3. CASE CrashServer \/ StartServer
  <2>1. \A a \in DOMAIN clients' : clients'[a].session.sid \in Sids
    BY <1>0, <1>3 DEF CrashServer, StartServer, EmptyDict
  <2>2. net' = net
    BY <1>3 DEF CrashServer, StartServer
  <2> QED BY <1>1, <2>1, <2>2, ServerActs
<1> QED BY <1>2, <1>3

\* A datagram the client handles.
LEMMA ClientHandlingTyped ==
    ASSUME EndsInv, NEW p \in net, NEW rx \in SUBSET net, ClientHandles(p, rx)
    PROVE  EndsInv'
<1>0. /\ ClientInv /\ PacketTyped(p) /\ UNCHANGED serverVars
      /\ session \in Sessions
      /\ pc = "loop" => session.sid \in Sids /\ addr \in Addrs
      /\ ClientConf.cert \in Certs \cup {None}
  BY ClientConfAssumption
     DEF EndsInv, NetTyped, SessionsDrawn, ClientHandles, ClientInv, ClientTypeOK, Confs
<1>1. ASSUME p.type = "HARD_RESET_SERVER", RecvResetAck(p.sid, rx) PROVE EndsInv'
  <2>1. ClientInv'
    BY <1>0, <1>1, HandshakeKeeps DEF PacketTyped
  <2>2. /\ pc = "loop" /\ addr' = addr
        /\ session' = ClientHandleResetAck(session, p.sid)
        /\ net' = rx \cup {ClientHelloPacket(addr, session', ClientConf)}
    BY <1>1 DEF RecvResetAck, Receives
  <2>3. session'.sid = session.sid
    BY <1>0, <2>2 DEF ClientHandleResetAck, Sessions
  <2>4. PacketTyped(ClientHelloPacket(addr, session', ClientConf))
    BY <1>0, <2>2, <2>3 DEF PacketTyped, ClientHelloPacket, Packet
  <2>5. \A q \in net' \ net : PacketTyped(q)
    BY <2>2, <2>4
  <2> QED BY <1>0, <2>1, <2>2, <2>3, <2>5, ClientActs
<1>2. ASSUME p.type = "SERVER_HELLO", RecvServerHello(p.cert, p.sid, p.sig, rx) PROVE EndsInv'
  <2>1. ClientInv'
    BY <1>0, <1>2, HandshakeKeeps DEF PacketTyped
  <2>2. /\ pc = "loop" /\ addr' = addr
        /\ session' = ClientHandleServerHello(session, ClientConf, p.cert, p.sid, p.sig)
        /\ net' = rx \cup IF IsEstablished(session')
                          THEN {FinishedPacket(addr, session', ClientConf)} ELSE {}
    BY <1>2 DEF RecvServerHello, Receives
  <2>3. session'.sid = session.sid
    BY <1>0, <2>2 DEF ClientHandleServerHello, Sessions
  <2>4. PacketTyped(FinishedPacket(addr, session', ClientConf))
    BY <1>0, <2>2 DEF PacketTyped, FinishedPacket, Packet
  <2>5. \A q \in net' \ net : PacketTyped(q)
    BY <2>2, <2>4
  <2> QED BY <1>0, <2>1, <2>2, <2>3, <2>5, ClientActs
<1>3. ASSUME p.type = "IP_ASSIGN", RecvIpAssign(p.ip, rx) \/ RecvIpAssignRaises(p.ip, rx)
      PROVE  EndsInv'
  <2>1. ClientInv'
    BY <1>0, <1>3, IpAssignKeeps, PoolAssigned DEF PacketTyped
  <2>2. pc = "loop" /\ addr' = addr /\ session' = session /\ net' = rx
    BY <1>3 DEF RecvIpAssign, RecvIpAssignRaises, Receives
  <2> QED BY <1>0, <2>1, <2>2, ClientActs
<1>4. CASE RecvKeepalive(rx)
  <2>1. ClientInv'
    BY <1>0, <1>4, SessionKeeps DEF RecvKeepalive, sessionVars
  <2>2. /\ pc = "loop" /\ addr' = addr /\ session' = session
        /\ net' = rx \cup {Packet("server", addr, "KEEPALIVE")}
    BY <1>4 DEF RecvKeepalive, Receives, sessionVars
  <2>3. PacketTyped(Packet("server", addr, "KEEPALIVE"))
    BY <1>0, <2>2 DEF PacketTyped, Packet
  <2>4. \A q \in net' \ net : PacketTyped(q)
    BY <2>2, <2>3
  <2> QED BY <1>0, <2>1, <2>2, <2>4, ClientActs
<1>5. CASE ClientUnreachable(rx)
  <2>1. net' = rx /\ pc' = pc /\ session' = session /\ addr' = addr /\ UNCHANGED clientVars
    BY <1>5 DEF ClientUnreachable, clientVars, taskVars, sessionVars
  <2>2. ClientInv'
    BY <1>0, <2>1, ClientUntouched
  <2> QED BY <1>0, <2>1, <2>2, ClientActs
<1> QED BY <1>1, <1>2, <1>3, <1>4, <1>5 DEF ClientHandles

\* The client's own steps.
LEMMA ClientStepTyped ==
    ASSUME EndsInv, UNCHANGED serverVars,
           \/ \E a \in Addrs, fresh \in Sids : Attempt(a, fresh, net)
           \/ LoopWaits(net) \/ LoopStops(net) \/ LoopTimesOut(net) \/ WakeUp
           \/ StopClient \/ RestartClient
    PROVE  EndsInv'
<1>0. ClientInv /\ (pc = "loop" => session.sid \in Sids /\ addr \in Addrs)
  BY DEF EndsInv, SessionsDrawn
<1>1. ASSUME NEW a \in Addrs, NEW fresh \in Sids, Attempt(a, fresh, net) PROVE EndsInv'
  <2>1. ClientInv'
    BY <1>0, <1>1, AttemptKeeps
  <2>2. /\ addr' = a /\ session' = ClientStartHandshake(NewSession(fresh))
        /\ net' = net \cup {ResetPacket(a, session')}
    BY <1>1 DEF Attempt
  <2>3. session'.sid = fresh
    BY <2>2 DEF ClientStartHandshake, NewSession
  <2>4. PacketTyped(ResetPacket(a, session'))
    BY <2>3 DEF PacketTyped, ResetPacket, Packet
  <2>5. \A q \in net' \ net : PacketTyped(q)
    BY <2>2, <2>4
  <2> QED BY <2>1, <2>2, <2>3, <2>5, ClientActs
<1>2. CASE \/ LoopWaits(net) \/ LoopStops(net) \/ LoopTimesOut(net) \/ WakeUp
           \/ StopClient \/ RestartClient
  <2>1. ClientInv'
    BY <1>0, <1>2, LoopKeeps, EventsKeep
  <2>2. net' = net
    BY <1>2 DEF LoopWaits, LoopStops, LoopTimesOut, WakeUp, StopClient, RestartClient
  <2>3. pc' = "loop" => pc = "loop" /\ session' = session /\ addr' = addr
    BY <1>2 DEF LoopWaits, LoopStops, LoopTimesOut, WakeUp, StopClient, RestartClient, sessionVars
  <2> QED BY <1>0, <2>1, <2>2, <2>3, ClientActs
<1> QED BY <1>1, <1>2

\* A second ages an entry of the client table and leaves the rest of it.
LEMMA EntryAges ==
    ASSUME IInv, ServerTick, NEW a \in DOMAIN clients
    PROVE  /\ clients'[a].session.sid = clients[a].session.sid
           /\ clients'[a].session.peer = clients[a].session.peer
           /\ clients'[a].session.key = clients[a].session.key
           /\ clients'[a].data = clients[a].data
           /\ clients'[a].virtual_ip = clients[a].virtual_ip
<1> DEFINE created == Older(clients[a].session.created, HandshakeTimeout + 1)
           seen == Older(clients[a].last_seen, KeepaliveTimeout + 1)
           kept == Older(clients[a].last_keepalive, KeepaliveInterval)
           s == [clients[a].session EXCEPT !.created = created]
<1>1. clients'[a] = [clients[a] EXCEPT !.session = s, !.last_seen = seen, !.last_keepalive = kept]
  BY DEF ServerTick
<1>2. clients[a] \in ClientSessions /\ clients[a].session \in Sessions
  BY DEF IInv, ServerTypeOK, ClientSessions
<1> HIDE DEF created, seen, kept
<1>3. /\ s.sid = clients[a].session.sid
      /\ s.peer = clients[a].session.peer
      /\ s.key = clients[a].session.key
  BY <1>2 DEF Sessions
<1> HIDE DEF s
<1>4. /\ clients'[a].session = s
      /\ clients'[a].data = clients[a].data
      /\ clients'[a].virtual_ip = clients[a].virtual_ip
  BY <1>1, <1>2 DEF ClientSessions
<1> QED BY <1>3, <1>4

\* A second passes at both ends.
LEMMA TickTyped ==
    ASSUME EndsInv, Tick
    PROVE  EndsInv'
<1>1. IInv' /\ ClientInv'
  BY TickKeeps, EventsKeep DEF EndsInv, Tick
<1>2. NetTyped'
  BY DEF EndsInv, Tick, NetTyped, PacketTyped
<1>3. SessionsDrawn'
  <2>1. DOMAIN clients' = DOMAIN clients
    BY DEF Tick, ServerTick
  <2>2. \A a \in DOMAIN clients : clients'[a].session.sid = clients[a].session.sid
    BY EntryAges DEF Tick, EndsInv
  <2>3. pc' = pc /\ session' = session /\ addr' = addr
    BY DEF Tick, ClientTick, sessionVars
  <2> QED BY <2>1, <2>2, <2>3 DEF EndsInv, SessionsDrawn
<1> QED BY <1>1, <1>2, <1>3 DEF EndsInv

\* Losing a datagram, or delivering it to a socket that is gone.
LEMMA UndeliveredTyped ==
    ASSUME EndsInv, UNCHANGED <<serverVars, clientVars>>, net' \subseteq net
    PROVE  EndsInv'
<1>1. ClientInv'
  BY ClientUntouched DEF EndsInv
<1>2. pc' = pc /\ session' = session /\ addr' = addr
  BY DEF clientVars, taskVars, sessionVars
<1> QED BY <1>1, <1>2, ClientActs DEF EndsInv, SessionsDrawn

LEMMA EndsKept == EndsInv /\ [TunnelNext]_tvars => EndsInv'
<1> SUFFICES ASSUME EndsInv, [TunnelNext]_tvars PROVE EndsInv'
  OBVIOUS
<1>1. ASSUME NEW p \in net, NEW rx \in SUBSET net, Delivery(p, rx) PROVE EndsInv'
  BY <1>1, ServerHandlingTyped, ClientHandlingTyped, UndeliveredTyped DEF Delivery, Undeliverable
<1>2. CASE Deliver \/ Duplicate
  <2>1. PICK p \in net : Delivery(p, net \ {p}) \/ Delivery(p, net)
    BY <1>2 DEF Deliver, Duplicate
  <2> QED BY <1>1, <2>1
<1>3. CASE Lose
  <2>1. PICK p \in net : net' = net \ {p}
    BY <1>3 DEF Lose
  <2> QED BY <1>3, <2>1, UndeliveredTyped DEF Lose
<1>4. CASE ServerStep \/ ServerDies \/ ServerStarts
  BY <1>4, ServerStepTyped DEF ServerStep, ServerDies, ServerStarts
<1>5. CASE ClientStep \/ ClientRestarts \/ ClientStopped
  <2>1. ASSUME NEW a \in Addrs, NEW fresh \in Sids, Attempt(a, fresh, net), UNCHANGED serverVars
        PROVE  EndsInv'
    BY <2>1, ClientStepTyped
  <2> QED BY <1>5, <2>1, ClientStepTyped DEF ClientStep, ClientRestarts, ClientStopped
<1>6. CASE UNCHANGED tvars
  BY <1>6, UndeliveredTyped DEF tvars
<1> QED BY <1>2, <1>3, <1>4, <1>5, <1>6, TickTyped DEF TunnelNext

-----------------------------------------------------------------------------
\* The part of the client's state that AttemptInv speaks of.
attemptVars == <<pc, addr, session, data, connected, assigned_ip>>

\* No step changes which kinds of faults the scenario has.
LEMMA ScenarioKept ==
    ASSUME [TunnelNext]_tvars
    PROVE  PromptlyServed' = PromptlyServed /\ SessionOnce' = SessionOnce
<1>1. \A kind : Fault(kind) => DOMAIN faults' = DOMAIN faults
  BY DEF Fault
<1>2. DOMAIN faults' = DOMAIN faults
  BY <1>1 DEF TunnelNext, tvars, Deliver, Duplicate, Lose, ServerStep, ServerDies, ServerStarts,
              ClientStep, ClientRestarts, ClientStopped, Tick
<1> QED BY <1>2 DEF PromptlyServed, SessionOnce

\* A step that does not touch the attempt, except that its datagrams may be
\* lost.
LEMMA AttemptFramed ==
    ASSUME AttemptInv, PromptlyServed' = PromptlyServed, UNCHANGED attemptVars,
           OfAttempt' \subseteq OfAttempt,
           addr \in DOMAIN clients' <=> addr \in DOMAIN clients,
           addr \in DOMAIN clients => clients'[addr] = clients[addr]
    PROVE  AttemptInv'
<1> SUFFICES ASSUME pc = "loop" PROVE FirstSession' /\ (addr \in DOMAIN clients => Paired(clients[addr]))'
  BY DEF AttemptInv, attemptVars
<1>0. FirstSession /\ (addr \in DOMAIN clients => Paired(clients[addr]))
  BY DEF AttemptInv
<1> USE DEF attemptVars
<1>1. (addr \in DOMAIN clients => Paired(clients[addr]))'
  <2> SUFFICES ASSUME addr \in DOMAIN clients PROVE Paired(clients[addr])'
    OBVIOUS
  <2>1. Paired(clients[addr]) /\ clients'[addr] = clients[addr]
    BY <1>0
  <2>2. \A p \in OfAttempt' : PacketPaired(p, clients[addr])'
    BY <2>1 DEF Paired, PacketPaired
  <2>3. ClientPaired(clients[addr])'
    BY <2>1 DEF Paired, ClientPaired
  <2> QED BY <2>1, <2>2, <2>3 DEF Paired, ServerPaired
<1>2. ResetInFlight' => ResetInFlight
  BY DEF ResetInFlight
<1>3. Unanswered => Unanswered'
  BY DEF Unanswered
<1>4. addr \in DOMAIN clients => (Young(clients[addr]) => Young(clients[addr])')
  BY DEF Young
<1> QED BY <1>0, <1>1, <1>2, <1>3, <1>4 DEF FirstSession

\* The server changes its entry of the attempt, and may answer.
LEMMA EntryUpdated ==
    ASSUME AttemptInv, PromptlyServed' = PromptlyServed, UNCHANGED attemptVars,
           pc = "loop", addr \in DOMAIN clients, addr \in DOMAIN clients',
           \A q \in OfAttempt' \ OfAttempt :
               q.type # "HARD_RESET_CLIENT" /\ PacketPaired(q, clients[addr])',
           ServerPaired(session.sid, clients'[addr]),
           clients'[addr].session.sid = clients[addr].session.sid,
           clients[addr].session.key = AgreedKey(session.sid, clients[addr].session.sid)
               => clients'[addr].session.key = clients[addr].session.key,
           clients[addr].data.open
               => clients'[addr].data.open /\ clients'[addr].virtual_ip = clients[addr].virtual_ip,
           ResetInFlight' /\ Young(clients[addr]) => Young(clients[addr])'
    PROVE  AttemptInv'
<1>0. FirstSession /\ Paired(clients[addr])
  BY DEF AttemptInv
<1> USE DEF attemptVars
<1>1. Paired(clients[addr])'
  <2>1. ClientPaired(clients[addr])'
    BY <1>0 DEF Paired, ClientPaired
  <2>2. ASSUME NEW p \in OfAttempt PROVE PacketPaired(p, clients[addr])'
    BY <1>0 DEF Paired, PacketPaired
  <2> QED BY <2>1, <2>2 DEF Paired
<1>2. ResetInFlight' => ResetInFlight
  BY DEF ResetInFlight
<1>3. \A p \in OfAttempt' : p.type = "HARD_RESET_CLIENT" => p = ResetPacket(addr, session)
  BY <1>0 DEF FirstSession
<1> QED BY <1>0, <1>1, <1>2, <1>3 DEF AttemptInv, FirstSession

\* The server forgets the session of the attempt, whose reset has arrived.
LEMMA EntryGone ==
    ASSUME AttemptInv, UNCHANGED attemptVars, OfAttempt' \subseteq OfAttempt,
           ~ResetInFlight, addr \notin DOMAIN clients'
    PROVE  AttemptInv'
BY DEF AttemptInv, FirstSession, ResetInFlight, attemptVars

\* The client takes in an answer of the server, and may answer in turn.
LEMMA AnswerTaken ==
    ASSUME AttemptInv, pc = "loop", UNCHANGED <<clients, addr>>,
           NEW p \in OfAttempt, p.type # "HARD_RESET_CLIENT",
           session'.sid = session.sid, PromptlyServed' = PromptlyServed,
           \A q \in OfAttempt' \ OfAttempt : q.type # "HARD_RESET_CLIENT",
           addr \in DOMAIN clients => Paired(clients[addr])'
    PROVE  AttemptInv'
<1>0. FirstSession
  BY DEF AttemptInv
<1>1. \A q \in OfAttempt' : q.type = "HARD_RESET_CLIENT" => q \in OfAttempt
  OBVIOUS
<1>2. ResetPacket(addr, session)' = ResetPacket(addr, session)
  BY DEF ResetPacket
<1>3. ResetInFlight' => ResetInFlight /\ addr \in DOMAIN clients /\ Young(clients[addr])
  BY <1>0, <1>1 DEF ResetInFlight, FirstSession, Unanswered
<1>4. FirstSession'
  BY <1>0, <1>1, <1>2, <1>3 DEF FirstSession, Young
<1> QED BY <1>4 DEF AttemptInv

-----------------------------------------------------------------------------
\* A handler of the server touches the entry of the datagram's address, and
\* answers to that address.
LEMMA ServerHandlingLocal ==
    ASSUME NEW p \in net, NEW rx \in SUBSET net, ServerHandles(p, rx)
    PROVE  /\ \A q \in net' \ net : q.addr = p.addr
           /\ \A b \in DOMAIN clients \cup DOMAIN clients' : b # p.addr =>
                 /\ b \in DOMAIN clients /\ b \in DOMAIN clients'
                 /\ clients'[b] = clients[b]
<1>1. ASSUME NEW fresh \in Sids, HandleResetNew(p.addr, p.sid, fresh, rx)
      PROVE  /\ \A q \in net' \ net : q.addr = p.addr
             /\ \A b \in DOMAIN clients \cup DOMAIN clients' : b # p.addr =>
                   b \in DOMAIN clients /\ b \in DOMAIN clients' /\ clients'[b] = clients[b]
  BY <1>1 DEF HandleResetNew, Put, ResetAckPacket, Packet
<1>2. CASE HandleResetKnown(p.addr, p.sid, rx)
  BY <1>2 DEF HandleResetKnown, ResetAckPacket, Packet
<1>3. CASE HandleClientHello(p.addr, p.cert, p.sid, rx)
  BY <1>3 DEF HandleClientHello, ServerHelloPacket, Packet
<1>4. CASE HandleClientFinished(p.addr, p.sig, rx)
  BY <1>4 DEF HandleClientFinished, FinishedOnly, FinishedAssigned, FinishedExhausted, Packet
<1>5. CASE HandleTraffic(p.addr, rx)
  BY <1>5 DEF HandleTraffic
<1>6. CASE HandleUnknown(p.addr, rx) \/ ServerUnreachable(rx)
  BY <1>6 DEF HandleUnknown, ServerUnreachable, serverVars
<1> QED BY <1>1, <1>2, <1>3, <1>4, <1>5, <1>6 DEF ServerHandles

\* The attempt's reset makes the session of the attempt.
LEMMA ResetNewKeeps ==
    ASSUME EndsInv, AttemptInv, PromptlyServed' = PromptlyServed, UNCHANGED attemptVars,
           NEW p \in OfAttempt, p.type = "HARD_RESET_CLIENT", pc = "loop",
           NEW rx \in SUBSET net, rx = net \ {p} \/ PromptlyServed,
           NEW fresh \in Sids, HandleResetNew(addr, p.sid, fresh, rx)
    PROVE  AttemptInv'
<1> DEFINE s == ServerHandleReset(NewSession(fresh), p.sid)
           c == NewClientSession(s)
<1>1. p = ResetPacket(addr, session) /\ ResetInFlight
  BY DEF AttemptInv, FirstSession, ResetInFlight
<1>2. p.sid = session.sid
  BY <1>1 DEF ResetPacket, Packet
<1>3. /\ s.sid = fresh /\ s.peer = session.sid /\ s.key = NoKey /\ s.created = 0
      /\ c.session = s /\ c.data = NoData /\ c.last_seen = 0
  BY <1>2 DEF NewSession, NewClientSession, ServerHandleReset
<1>4. /\ addr \notin DOMAIN clients
      /\ clients' = Put(clients, addr, c)
      /\ net' = rx \cup {ResetAckPacket(addr, s)}
  BY DEF HandleResetNew
<1> HIDE DEF s, c
<1>5. addr \in DOMAIN clients' /\ clients'[addr] = c
  BY <1>4 DEF Put
<1>6. Unanswered
  BY <1>1, <1>4 DEF AttemptInv, FirstSession
<1>7. \A q \in OfAttempt' : q \in OfAttempt \/ q = ResetAckPacket(addr, s)
  BY <1>4 DEF OfAttempt, attemptVars
<1>8. ResetAckPacket(addr, s).type = "HARD_RESET_SERVER" /\ ResetAckPacket(addr, s).sid = fresh
  BY <1>3 DEF ResetAckPacket, Packet
<1>9. ServerPaired(session.sid, c)
  BY <1>3 DEF ServerPaired, NoData
<1>10. ClientPaired(c)'
  BY <1>6 DEF Unanswered, ClientPaired, attemptVars
<1>11. \A q \in OfAttempt' : PacketPaired(q, c)'
  BY <1>3, <1>6, <1>7, <1>8 DEF Unanswered, PacketPaired
<1>12. Paired(clients[addr])'
  BY <1>5, <1>9, <1>10, <1>11 DEF Paired, attemptVars, ServerPaired
<1>13. \A q \in OfAttempt' : q.type = "HARD_RESET_CLIENT" => q = p /\ q \in rx
  BY <1>1, <1>4, <1>7, <1>8 DEF AttemptInv, FirstSession, OfAttempt
<1>14. ResetInFlight' => PromptlyServed
  BY <1>13 DEF ResetInFlight
<1>15. FirstSession'
  BY <1>1, <1>3, <1>5, <1>13, <1>14 DEF FirstSession, Young, attemptVars
<1> QED BY <1>12, <1>15 DEF AttemptInv

\* The entry of the attempt is typed and so is the client's session.
LEMMA AttemptTyped ==
    ASSUME EndsInv, pc = "loop", addr \in DOMAIN clients
    PROVE  /\ session \in Sessions /\ session.sid \in Sids /\ session.sid # None
           /\ clients[addr] \in ClientSessions /\ clients[addr].session \in Sessions
           /\ clients[addr].session.sid \in Sids /\ clients[addr].session.sid # None
<1>1. 0 \notin Sids
  BY SidsAssumption
<1> QED BY <1>1 DEF EndsInv, SessionsDrawn, IInv, ServerTypeOK, ClientInv, ClientTypeOK,
              ClientSessions, None

\* HARD_RESET_CLIENT of a known address.
LEMMA ResetKnownKeeps ==
    ASSUME EndsInv, AttemptInv, PromptlyServed' = PromptlyServed, UNCHANGED attemptVars,
           NEW p \in OfAttempt, p.type = "HARD_RESET_CLIENT", pc = "loop",
           NEW rx \in SUBSET net, HandleResetKnown(addr, p.sid, rx)
    PROVE  AttemptInv'
<1> DEFINE s == ServerHandleReset(clients[addr].session, p.sid)
<1>1. /\ addr \in DOMAIN clients
      /\ clients' = [clients EXCEPT ![addr].session = s]
      /\ net' = rx \cup {ResetAckPacket(addr, s)}
  BY DEF HandleResetKnown
<1>2. Paired(clients[addr]) /\ p.sid = session.sid
  BY <1>1 DEF AttemptInv, FirstSession, ResetPacket, Packet
<1>3. /\ s.sid = clients[addr].session.sid /\ s.peer = session.sid
      /\ s.key = clients[addr].session.key /\ s.created = clients[addr].session.created
  BY <1>1, <1>2, AttemptTyped DEF ServerHandleReset, Sessions
<1> HIDE DEF s
<1>4. /\ addr \in DOMAIN clients' /\ clients'[addr].session = s
      /\ clients'[addr].data = clients[addr].data
      /\ clients'[addr].virtual_ip = clients[addr].virtual_ip
      /\ clients'[addr].last_seen = clients[addr].last_seen
  BY <1>1, AttemptTyped DEF ClientSessions
<1>5. ServerPaired(session.sid, clients'[addr])
  BY <1>2, <1>3, <1>4 DEF Paired, ServerPaired
<1>6. ASSUME NEW q \in OfAttempt' \ OfAttempt
      PROVE  q.type # "HARD_RESET_CLIENT" /\ PacketPaired(q, clients[addr])'
  <2>1. q = ResetAckPacket(addr, s)
    BY <1>1 DEF OfAttempt, attemptVars
  <2>2. q.type = "HARD_RESET_SERVER" /\ q.sid = clients'[addr].session.sid
    BY <1>3, <1>4, <2>1 DEF ResetAckPacket, Packet
  <2> QED BY <2>2 DEF PacketPaired, attemptVars
<1>7. Young(clients[addr]) => Young(clients[addr])'
  BY <1>3, <1>4 DEF Young, attemptVars
<1> QED BY <1>1, <1>3, <1>4, <1>5, <1>6, <1>7, EntryUpdated

\* CLIENT_HELLO: both ends have drawn their tokens, so the key is the one
\* the client will derive.
LEMMA HelloPairs ==
    ASSUME EndsInv, AttemptInv, PromptlyServed' = PromptlyServed, UNCHANGED attemptVars,
           NEW p \in OfAttempt, p.type = "CLIENT_HELLO", pc = "loop",
           NEW rx \in SUBSET net, HandleClientHello(addr, p.cert, p.sid, rx)
    PROVE  AttemptInv'
<1> DEFINE s == ServerHandleClientHello(clients[addr].session, ServerConf, p.cert, p.sid)
           agreed == AgreedKey(session.sid, clients[addr].session.sid)
<1>1. /\ addr \in DOMAIN clients
      /\ clients' = [clients EXCEPT ![addr] = Heard(addr, s)]
      /\ net' = rx \cup IF s.st = "HELLO_SENT" THEN {ServerHelloPacket(addr, s, ServerConf)} ELSE {}
  BY DEF HandleClientHello
<1>2. /\ Paired(clients[addr]) /\ p.sid = session.sid
      /\ session.peer = clients[addr].session.sid
  BY <1>1 DEF AttemptInv, Paired, PacketPaired
<1>3. clients[addr].session.peer = session.sid /\ clients[addr].session.key \in {NoKey, agreed}
  BY <1>2 DEF Paired, ServerPaired
<1>4. DeriveKey(clients[addr].session, p.sid) = agreed
  BY <1>1, <1>2, <1>3, AttemptTyped DEF DeriveKey, HandshakeSalt, AgreedKey
<1>5. /\ s.sid = clients[addr].session.sid /\ s.peer = session.sid
      /\ s.key \in {clients[addr].session.key, agreed}
      /\ s.st = "HELLO_SENT" => s.key = agreed
      /\ s.created = clients[addr].session.created
  BY <1>1, <1>3, <1>4, AttemptTyped DEF ServerHandleClientHello, Sessions
<1> HIDE DEF s
<1>6. /\ addr \in DOMAIN clients' /\ clients'[addr].session = s
      /\ clients'[addr].data = clients[addr].data
      /\ clients'[addr].virtual_ip = clients[addr].virtual_ip
      /\ clients'[addr].last_seen = 0
  BY <1>1, AttemptTyped DEF ClientSessions, Heard
<1>7. ServerPaired(session.sid, clients'[addr])
  BY <1>2, <1>3, <1>5, <1>6 DEF Paired, ServerPaired
<1>8. ASSUME NEW q \in OfAttempt' \ OfAttempt
      PROVE  q.type # "HARD_RESET_CLIENT" /\ PacketPaired(q, clients[addr])'
  <2>1. q = ServerHelloPacket(addr, s, ServerConf) /\ s.key = agreed
    BY <1>1, <1>5 DEF OfAttempt, attemptVars
  <2>2. q.type = "SERVER_HELLO" /\ q.sid = clients'[addr].session.sid
    BY <1>6, <2>1 DEF ServerHelloPacket, Packet
  <2> QED BY <1>2, <1>5, <1>6, <2>1, <2>2 DEF PacketPaired, attemptVars
<1>9. Young(clients[addr]) => Young(clients[addr])'
  BY <1>5, <1>6 DEF Young, attemptVars
<1>10. clients[addr].session.key = agreed => clients'[addr].session.key = clients[addr].session.key
  BY <1>5, <1>6
<1> QED BY <1>1, <1>5, <1>6, <1>7, <1>8, <1>9, <1>10, EntryUpdated

\* CLIENT_FINISHED: whoever sent it has the key, so the session has it too.
LEMMA FinishedPairs ==
    ASSUME EndsInv, AttemptInv, PromptlyServed' = PromptlyServed, UNCHANGED attemptVars,
           NEW p \in OfAttempt, p.type = "CLIENT_FINISHED", pc = "loop",
           NEW rx \in SUBSET net, HandleClientFinished(addr, p.sig, rx)
    PROVE  AttemptInv'
<1> DEFINE s == Finished(addr, p.sig)
           agreed == AgreedKey(session.sid, clients[addr].session.sid)
<1>1. addr \in DOMAIN clients
  BY DEF HandleClientFinished, FinishedOnly, FinishedAssigned, FinishedExhausted
<1>2. /\ Paired(clients[addr]) /\ clients[addr].session.key = agreed
      /\ clients[addr].session.peer = session.sid
  BY <1>1 DEF AttemptInv, Paired, PacketPaired, ServerPaired
<1>3. /\ s.sid = clients[addr].session.sid /\ s.peer = session.sid /\ s.key = agreed
      /\ s.created = clients[addr].session.created
  BY <1>1, <1>2, AttemptTyped DEF Finished, ServerHandleClientFinished, Sessions
<1> DEFINE h == Heard(addr, s)
<1>4. /\ h.session = s /\ h.last_seen = 0 /\ h \in [session : {s}, data : DataChannels,
              virtual_ip : Pool \cup {None}, last_seen : {0}, last_keepalive : Nat]
      /\ h.data = clients[addr].data /\ h.virtual_ip = clients[addr].virtual_ip
  BY <1>1, AttemptTyped DEF Heard, ClientSessions
<1>5. NewDataChannel(s) = AgreedData(session.sid, clients[addr].session.sid)
  BY <1>1, <1>3, AttemptTyped DEF NewDataChannel, DeriveSessionId, AgreedData
<1> HIDE DEF s, h
<1>6. ASSUME clients' = [clients EXCEPT ![addr] = h], OfAttempt' \subseteq OfAttempt
      PROVE  AttemptInv'
  <2>1. addr \in DOMAIN clients' /\ clients'[addr] = h
    BY <1>1, <1>6
  <2>2. ServerPaired(session.sid, clients'[addr])
    BY <1>2, <1>3, <1>4, <2>1 DEF Paired, ServerPaired
  <2>3. Young(clients[addr]) => Young(clients[addr])'
    BY <1>3, <1>4, <2>1 DEF Young, attemptVars
  <2> QED BY <1>1, <1>2, <1>3, <1>4, <1>6, <2>1, <2>2, <2>3, EntryUpdated
<1>7. ASSUME NEW ip, clients' = [clients EXCEPT ![addr] =
                        [h EXCEPT !.data = NewDataChannel(s), !.virtual_ip = ip]],
             ~clients[addr].data.open,
             \A q \in OfAttempt' \ OfAttempt : q.type = "IP_ASSIGN" /\ q.ip = ip
      PROVE  AttemptInv'
  <2> DEFINE c == [h EXCEPT !.data = NewDataChannel(s), !.virtual_ip = ip]
  <2>1. c.session = s /\ c.data = NewDataChannel(s) /\ c.virtual_ip = ip /\ c.last_seen = 0
    BY <1>4
  <2> HIDE DEF c
  <2>2. addr \in DOMAIN clients' /\ clients'[addr] = c
    BY <1>1, <1>7 DEF c
  <2>3. c.data.open
    BY <1>5, <2>1 DEF AgreedData
  <2>4. ServerPaired(session.sid, clients'[addr])
    BY <1>2, <1>3, <1>5, <2>1, <2>2 DEF ServerPaired
  <2>5. ASSUME NEW q \in OfAttempt' \ OfAttempt
        PROVE  q.type # "HARD_RESET_CLIENT" /\ PacketPaired(q, clients[addr])'
    <3>1. q.type = "IP_ASSIGN" /\ q.ip = clients'[addr].virtual_ip /\ clients'[addr].data.open
      BY <1>7, <2>1, <2>2, <2>3
    <3> QED BY <3>1 DEF PacketPaired, attemptVars
  <2>6. Young(clients[addr]) => Young(clients[addr])'
    BY <1>3, <2>1, <2>2 DEF Young, attemptVars
  <2> QED BY <1>1, <1>2, <1>3, <1>7, <2>1, <2>2, <2>4, <2>5, <2>6, EntryUpdated
<1>8. CASE FinishedOnly(addr, p.sig, rx)
  <2>1. clients' = [clients EXCEPT ![addr] = h] /\ net' = rx
    BY <1>8 DEF FinishedOnly, h, s
  <2> QED BY <1>6, <2>1 DEF OfAttempt, attemptVars
<1>9. CASE FinishedExhausted(addr, p.sig, rx)
  <2>1. clients' = [clients EXCEPT ![addr] = [h EXCEPT !.data = NewDataChannel(s)]]
        /\ net' = rx /\ ~clients[addr].data.open
    BY <1>9 DEF FinishedExhausted, OpensData, h, s
  <2>2. [h EXCEPT !.data = NewDataChannel(s)]
            = [h EXCEPT !.data = NewDataChannel(s), !.virtual_ip = h.virtual_ip]
    BY <1>4
  <2>3. OfAttempt' \subseteq OfAttempt
    BY <2>1 DEF OfAttempt, attemptVars
  <2> QED BY <1>7, <2>1, <2>2, <2>3
<1>10. ASSUME NEW ip \in Pool, FinishedAssigned(addr, p.sig, ip, rx) PROVE AttemptInv'
  <2>1. /\ clients' = [clients EXCEPT ![addr] =
                [h EXCEPT !.data = NewDataChannel(s), !.virtual_ip = ip]]
        /\ net' = rx \cup {[Packet("client", addr, "IP_ASSIGN") EXCEPT !.ip = ip]}
        /\ ~clients[addr].data.open
    BY <1>10 DEF FinishedAssigned, OpensData, h, s
  <2>2. \A q \in OfAttempt' \ OfAttempt : q.type = "IP_ASSIGN" /\ q.ip = ip
    BY <2>1 DEF OfAttempt, Packet, attemptVars
  <2> QED BY <1>7, <2>1, <2>2
<1> QED BY <1>8, <1>9, <1>10 DEF HandleClientFinished

\* KEEPALIVE of a known client.
LEMMA TrafficPairs ==
    ASSUME EndsInv, AttemptInv, PromptlyServed' = PromptlyServed, UNCHANGED attemptVars,
           pc = "loop", NEW rx \in SUBSET net, HandleTraffic(addr, rx)
    PROVE  AttemptInv'
<1>1. /\ addr \in DOMAIN clients
      /\ clients' = [clients EXCEPT ![addr].last_seen = 0]
      /\ net' = rx
  BY DEF HandleTraffic
<1>2. /\ addr \in DOMAIN clients' /\ clients'[addr].session = clients[addr].session
      /\ clients'[addr].data = clients[addr].data
      /\ clients'[addr].virtual_ip = clients[addr].virtual_ip
      /\ clients'[addr].last_seen = 0
  BY <1>1, AttemptTyped DEF ClientSessions
<1>3. ServerPaired(session.sid, clients'[addr])
  BY <1>1, <1>2 DEF AttemptInv, Paired, ServerPaired
<1>4. OfAttempt' \subseteq OfAttempt
  BY <1>1 DEF OfAttempt, attemptVars
<1>5. Young(clients[addr]) => Young(clients[addr])'
  BY <1>2 DEF Young, attemptVars
<1> QED BY <1>1, <1>2, <1>3, <1>4, <1>5, EntryUpdated

\* Any datagram the server handles.
LEMMA ServerHandlingKeeps ==
    ASSUME EndsInv, AttemptInv, PromptlyServed' = PromptlyServed,
           NEW p \in net, NEW rx \in SUBSET net, rx = net \ {p} \/ PromptlyServed,
           ServerHandles(p, rx)
    PROVE  AttemptInv'
<1>0. UNCHANGED attemptVars
  BY DEF ServerHandles, clientVars, taskVars, sessionVars, attemptVars
<1>1. CASE pc # "loop"
  BY <1>0, <1>1 DEF AttemptInv, attemptVars
<1>2. CASE p.addr # addr
  <2>1. OfAttempt' \subseteq OfAttempt
    BY <1>0, <1>2, ServerHandlingLocal DEF OfAttempt, attemptVars
  <2>2. /\ addr \in DOMAIN clients' <=> addr \in DOMAIN clients
        /\ addr \in DOMAIN clients => clients'[addr] = clients[addr]
    BY <1>2, ServerHandlingLocal
  <2> QED BY <1>0, <2>1, <2>2, AttemptFramed
<1>3. CASE pc = "loop" /\ p.addr = addr
  <2>0. p \in OfAttempt
    BY <1>3 DEF OfAttempt
  <2>1. ASSUME p.type = "HARD_RESET_CLIENT", NEW fresh \in Sids,
               HandleResetNew(p.addr, p.sid, fresh, rx)
        PROVE  AttemptInv'
    BY <1>0, <1>3, <2>0, <2>1, ResetNewKeeps
  <2>2. CASE p.type = "HARD_RESET_CLIENT" /\ HandleResetKnown(p.addr, p.sid, rx)
    BY <1>0, <1>3, <2>0, <2>2, ResetKnownKeeps
  <2>3. CASE p.type = "CLIENT_HELLO" /\ HandleClientHello(p.addr, p.cert, p.sid, rx)
    BY <1>0, <1>3, <2>0, <2>3, HelloPairs
  <2>4. CASE p.type = "CLIENT_FINISHED" /\ HandleClientFinished(p.addr, p.sig, rx)
    BY <1>0, <1>3, <2>0, <2>4, FinishedPairs
  <2>5. CASE HandleTraffic(p.addr, rx)
    BY <1>0, <1>3, <2>5, TrafficPairs
  <2>6. CASE HandleUnknown(p.addr, rx) \/ ServerUnreachable(rx)
    <3>1. clients' = clients /\ net' = rx
      BY <2>6 DEF HandleUnknown, ServerUnreachable, serverVars
    <3>2. OfAttempt' \subseteq OfAttempt
      BY <1>0, <3>1 DEF OfAttempt, attemptVars
    <3> QED BY <1>0, <3>1, <3>2, AttemptFramed
  <2> QED BY <2>1, <2>2, <2>3, <2>4, <2>5, <2>6 DEF ServerHandles
<1> QED BY <1>1, <1>2, <1>3

\* The main loop: an entry whose reset is still in flight is too young to be
\* removed.
LEMMA MainLoopPairs ==
    ASSUME EndsInv, AttemptInv, PromptlyServed' = PromptlyServed, UNCHANGED attemptVars,
           MainLoop(net)
    PROVE  AttemptInv'
<1>0. CASE pc # "loop"
  BY <1>0 DEF AttemptInv, attemptVars
<1>1. CASE pc = "loop" /\ addr \notin DOMAIN clients
  <2>1. addr \notin DOMAIN clients' /\ \A q \in net' \ net : q.addr # addr
    BY <1>1 DEF MainLoop, Packet
  <2>2. OfAttempt' \subseteq OfAttempt
    BY <2>1 DEF OfAttempt, attemptVars
  <2> QED BY <1>1, <2>1, <2>2, AttemptFramed
<1>2. CASE pc = "loop" /\ addr \in Removed
  <2>1. addr \in DOMAIN clients /\ Stale(addr)
    BY <1>2 DEF Removed
  <2>2. ~Young(clients[addr])
    BY <2>1, TimeoutsAssumption DEF Stale, Young, IsExpired
  <2>3. ~ResetInFlight
    BY <1>2, <2>1, <2>2 DEF AttemptInv, FirstSession
  <2>4. addr \notin DOMAIN clients' /\ \A q \in net' \ net : q.addr # addr
    BY <1>2 DEF MainLoop, Packet
  <2>5. OfAttempt' \subseteq OfAttempt
    BY <2>4 DEF OfAttempt, attemptVars
  <2> QED BY <2>3, <2>4, <2>5, EntryGone
<1>3. CASE pc = "loop" /\ addr \in DOMAIN clients \ Removed
  <2>1. /\ addr \in DOMAIN clients'
        /\ clients'[addr].session = clients[addr].session
        /\ clients'[addr].data = clients[addr].data
        /\ clients'[addr].virtual_ip = clients[addr].virtual_ip
        /\ clients'[addr].last_seen = clients[addr].last_seen
    BY <1>3, AttemptTyped DEF MainLoop, ClientSessions
  <2>2. ServerPaired(session.sid, clients'[addr])
    BY <1>3, <2>1 DEF AttemptInv, Paired, ServerPaired
  <2>3. \A q \in OfAttempt' \ OfAttempt : q.type = "KEEPALIVE"
    BY DEF OfAttempt, attemptVars, MainLoop, Packet
  <2>4. \A q \in OfAttempt' \ OfAttempt :
            q.type # "HARD_RESET_CLIENT" /\ PacketPaired(q, clients[addr])'
    BY <2>3 DEF PacketPaired
  <2>5. Young(clients[addr]) => Young(clients[addr])'
    BY <2>1 DEF Young, attemptVars
  <2> QED BY <1>3, <2>1, <2>2, <2>4, <2>5, EntryUpdated
<1> QED BY <1>0, <1>1, <1>2, <1>3 DEF Removed

\* The server dies, and a new process starts with an empty table.
LEMMA RestartPairs ==
    ASSUME AttemptInv, PromptlyServed' = PromptlyServed, UNCHANGED attemptVars,
           (CrashServer /\ ~PromptlyServed) \/ StartServer
    PROVE  AttemptInv'
<1>1. OfAttempt' \subseteq OfAttempt
  BY DEF CrashServer, StartServer, OfAttempt, attemptVars
<1>2. CASE StartServer
  BY <1>1, <1>2, AttemptFramed DEF StartServer
<1>3. CASE CrashServer /\ ~PromptlyServed
  <2>1. addr \notin DOMAIN clients'
    BY <1>3 DEF CrashServer, EmptyDict
  <2>2. CASE addr \notin DOMAIN clients
    BY <1>1, <2>1, <2>2, AttemptFramed
  <2>3. CASE pc = "loop" /\ addr \in DOMAIN clients
    <3>1. ~ResetInFlight
      BY <1>3, <2>3 DEF AttemptInv, FirstSession, Young
    <3> QED BY <1>1, <2>1, <3>1, EntryGone
  <2>4. CASE pc # "loop"
    BY <2>4 DEF AttemptInv, attemptVars
  <2> QED BY <2>2, <2>3, <2>4
<1> QED BY <1>2, <1>3

\* Time passes at once on both sides, never while a prompt reset is in flight.
LEMMA TickPairs ==
    ASSUME EndsInv, AttemptInv, PromptlyServed' = PromptlyServed, Tick
    PROVE  AttemptInv'
<1>1. UNCHANGED attemptVars /\ net' = net
  BY DEF Tick, ClientTick, attemptVars, sessionVars
<1>2. OfAttempt' = OfAttempt /\ ResetInFlight' = ResetInFlight
  BY <1>1 DEF OfAttempt, ResetInFlight, attemptVars
<1>3. ResetInFlight => ~PromptlyServed
  BY DEF ResetInFlight, OfAttempt, Tick, PromptlyServed
<1>4. DOMAIN clients' = DOMAIN clients
  BY DEF Tick, ServerTick
<1>5. CASE pc = "loop" /\ addr \in DOMAIN clients
  <2>1. /\ clients'[addr].session.sid = clients[addr].session.sid
        /\ clients'[addr].session.peer = clients[addr].session.peer
        /\ clients'[addr].session.key = clients[addr].session.key
        /\ clients'[addr].data = clients[addr].data
        /\ clients'[addr].virtual_ip = clients[addr].virtual_ip
    BY <1>5, EntryAges DEF EndsInv, Tick
  <2>2. ServerPaired(session.sid, clients'[addr])
    BY <1>5, <2>1 DEF AttemptInv, Paired, ServerPaired
  <2>3. ResetInFlight' /\ Young(clients[addr]) => Young(clients[addr])'
    BY <1>2, <1>3 DEF Young
  <2> QED BY <1>1, <1>2, <1>4, <1>5, <2>1, <2>2, <2>3, EntryUpdated
<1>6. CASE addr \notin DOMAIN clients
  BY <1>1, <1>2, <1>4, <1>6, AttemptFramed
<1>7. CASE pc # "loop"
  BY <1>1, <1>7 DEF AttemptInv, attemptVars
<1> QED BY <1>5, <1>6, <1>7

-----------------------------------------------------------------------------
\* HARD_RESET_SERVER: the session the client hears of is the one of the
\* server's entry.
LEMMA ResetAckPairs ==
    ASSUME EndsInv, AttemptInv, PromptlyServed' = PromptlyServed, UNCHANGED serverVars,
           NEW p \in OfAttempt, p.type = "HARD_RESET_SERVER",
           NEW rx \in SUBSET net, RecvResetAck(p.sid, rx)
    PROVE  AttemptInv'
<1> DEFINE s == ClientHandleResetAck(session, p.sid)
<1>1. /\ pc = "loop" /\ session' = s
      /\ net' = rx \cup {ClientHelloPacket(addr, session', ClientConf)}
      /\ UNCHANGED <<pc, addr, data, connected, assigned_ip, clients>>
  BY DEF RecvResetAck, Receives, taskVars, serverVars
<1>2. session \in Sessions
  BY DEF EndsInv, ClientInv, ClientTypeOK
<1>3. /\ session'.sid = session.sid /\ session'.peer = p.sid
      /\ ~IsEstablished(session')
  BY <1>1, <1>2 DEF ClientHandleResetAck, Sessions, IsEstablished
<1> HIDE DEF s
<1>4. ASSUME NEW q \in OfAttempt' \ OfAttempt
      PROVE  q.type = "CLIENT_HELLO" /\ q.sid = session.sid
  <2>1. q = ClientHelloPacket(addr, session', ClientConf)
    BY <1>1 DEF OfAttempt
  <2> QED BY <1>3, <2>1 DEF ClientHelloPacket, Packet
<1>5. ASSUME addr \in DOMAIN clients PROVE Paired(clients[addr])'
  <2>1. Paired(clients[addr]) /\ session'.peer = clients[addr].session.sid
    BY <1>1, <1>3, <1>5 DEF AttemptInv, Paired, PacketPaired
  <2>2. ClientPaired(clients[addr])'
    BY <1>1, <1>3, <2>1 DEF Paired, ClientPaired
  <2>3. \A q \in OfAttempt' : PacketPaired(q, clients[addr])'
    BY <1>1, <1>3, <1>4, <2>1 DEF Paired, PacketPaired
  <2>4. ServerPaired(session.sid, clients[addr])'
    BY <1>1, <1>3, <2>1 DEF Paired, ServerPaired
  <2> QED BY <2>2, <2>3, <2>4 DEF Paired
<1> QED BY <1>1, <1>3, <1>4, <1>5, AnswerTaken

\* SERVER_HELLO: the client derives the key the server has derived.
LEMMA ServerHelloPairs ==
    ASSUME EndsInv, AttemptInv, PromptlyServed' = PromptlyServed, UNCHANGED serverVars,
           NEW p \in OfAttempt, p.type = "SERVER_HELLO",
           NEW rx \in SUBSET net, RecvServerHello(p.cert, p.sid, p.sig, rx)
    PROVE  AttemptInv'
<1> DEFINE s == ClientHandleServerHello(session, ClientConf, p.cert, p.sid, p.sig)
<1>1. /\ pc = "loop" /\ session' = s
      /\ net' = rx \cup IF IsEstablished(session')
                        THEN {FinishedPacket(addr, session', ClientConf)} ELSE {}
      /\ UNCHANGED <<pc, addr, data, connected, assigned_ip, clients>>
  BY DEF RecvServerHello, Receives, taskVars, serverVars
<1>2. session \in Sessions
  BY DEF EndsInv, ClientInv, ClientTypeOK
<1>3. /\ session'.sid = session.sid /\ session'.peer = session.peer
      /\ IsEstablished(session') => session'.key = DeriveKey(session, p.sid)
  BY <1>1, <1>2 DEF ClientHandleServerHello, Sessions, IsEstablished
<1> HIDE DEF s
<1>4. \A q \in OfAttempt' \ OfAttempt : q.type = "CLIENT_FINISHED"
  <2>1. FinishedPacket(addr, session', ClientConf).type = "CLIENT_FINISHED"
    BY DEF FinishedPacket, Packet
  <2> QED BY <1>1, <2>1 DEF OfAttempt
<1>5. ASSUME addr \in DOMAIN clients PROVE Paired(clients[addr])'
  <2> DEFINE agreed == AgreedKey(session.sid, clients[addr].session.sid)
  <2>1. /\ Paired(clients[addr]) /\ p.sid = clients[addr].session.sid
        /\ session.peer = clients[addr].session.sid
        /\ clients[addr].session.key = agreed
    BY <1>1, <1>5 DEF AttemptInv, Paired, PacketPaired
  <2>2. DeriveKey(session, p.sid) = agreed
    BY <1>1, <1>5, <2>1, AttemptTyped DEF DeriveKey, HandshakeSalt, AgreedKey
  <2>3. ClientPaired(clients[addr])'
    BY <1>1, <1>3, <2>1, <2>2 DEF Paired, ClientPaired
  <2>4. \A q \in OfAttempt' : PacketPaired(q, clients[addr])'
    BY <1>1, <1>3, <1>4, <2>1 DEF Paired, PacketPaired
  <2>5. ServerPaired(session.sid, clients[addr])'
    BY <1>1, <1>3, <2>1 DEF Paired, ServerPaired
  <2> QED BY <2>3, <2>4, <2>5 DEF Paired
<1> QED BY <1>1, <1>3, <1>4, <1>5, AnswerTaken

\* IP_ASSIGN, whether set_ip raises or not, and KEEPALIVE.
LEMMA AssignedPairs ==
    ASSUME EndsInv, AttemptInv, PromptlyServed' = PromptlyServed, UNCHANGED serverVars,
           NEW p \in OfAttempt, NEW rx \in SUBSET net,
           \/ /\ p.type = "IP_ASSIGN"
              /\ RecvIpAssign(p.ip, rx) \/ RecvIpAssignRaises(p.ip, rx)
           \/ p.type = "KEEPALIVE" /\ RecvKeepalive(rx)
    PROVE  AttemptInv'
<1>1. /\ pc = "loop" /\ p.type # "HARD_RESET_CLIENT"
      /\ UNCHANGED <<pc, addr, session, data, clients>>
  BY DEF RecvIpAssign, RecvIpAssignRaises, RecvKeepalive, Receives, taskVars, sessionVars,
         serverVars
<1>2. \/ p.type = "IP_ASSIGN" /\ connected' /\ assigned_ip' = p.ip
      \/ UNCHANGED <<connected, assigned_ip>>
  BY DEF RecvIpAssign, RecvIpAssignRaises, RecvKeepalive, taskVars, sessionVars
<1>3. \A q \in net' \ net : q.type = "KEEPALIVE"
  BY DEF RecvIpAssign, RecvIpAssignRaises, RecvKeepalive, Packet
<1>4. \A q \in OfAttempt' \ OfAttempt : q.type = "KEEPALIVE"
  BY <1>1, <1>3 DEF OfAttempt
<1>5. ASSUME addr \in DOMAIN clients PROVE Paired(clients[addr])'
  <2>1. Paired(clients[addr])
    BY <1>1, <1>5 DEF AttemptInv
  <2>2. p.type = "IP_ASSIGN" => clients[addr].data.open /\ p.ip = clients[addr].virtual_ip
    BY <2>1 DEF Paired, PacketPaired
  <2>3. ClientPaired(clients[addr])'
    BY <1>1, <1>2, <2>1, <2>2 DEF Paired, ClientPaired
  <2>4. \A q \in OfAttempt' : PacketPaired(q, clients[addr])'
    BY <1>1, <1>4, <2>1 DEF Paired, PacketPaired
  <2>5. ServerPaired(session.sid, clients[addr])'
    BY <1>1, <2>1 DEF Paired, ServerPaired
  <2> QED BY <2>3, <2>4, <2>5 DEF Paired
<1> QED BY <1>1, <1>4, <1>5, AnswerTaken

\* Any datagram the client handles.
LEMMA ClientHandlingKeeps ==
    ASSUME EndsInv, AttemptInv, PromptlyServed' = PromptlyServed,
           NEW p \in net, NEW rx \in SUBSET net, ClientHandles(p, rx)
    PROVE  AttemptInv'
<1>1. p \in OfAttempt /\ UNCHANGED serverVars
  BY DEF ClientHandles, OfAttempt
<1>2. CASE ClientUnreachable(rx)
  BY <1>2 DEF ClientUnreachable, AttemptInv, clientVars, taskVars
<1> QED BY <1>1, <1>2, ResetAckPairs, ServerHelloPairs, AssignedPairs DEF ClientHandles

\* A new attempt has an address no session and no datagram is of.
LEMMA AttemptPairs ==
    ASSUME EndsInv, ~ReuseAddr, UNCHANGED serverVars,
           NEW a \in Addrs, NEW fresh \in Sids, NewAddr(a), Attempt(a, fresh, net)
    PROVE  AttemptInv'
<1> DEFINE s == ClientStartHandshake(NewSession(fresh))
<1>1. /\ addr' = a /\ session' = s /\ data' = NoData /\ connected' = connected
      /\ clients' = clients
      /\ net' = net \cup {ResetPacket(a, session')}
  BY DEF Attempt, serverVars
<1>2. ~connected
  BY DEF EndsInv, ClientInv, ConnectedThisAttempt, Attempt
<1>3. session'.peer = None /\ ~IsEstablished(session')
  BY <1>1 DEF ClientStartHandshake, NewSession, IsEstablished
<1>4. a \notin DOMAIN clients /\ \A q \in net : q.addr # a
  BY DEF NewAddr
<1>5. \A q \in OfAttempt' : q = ResetPacket(addr', session')
  BY <1>1, <1>4 DEF OfAttempt
<1>6. ResetPacket(addr', session').type = "HARD_RESET_CLIENT"
  BY DEF ResetPacket, Packet
<1>7. Unanswered'
  BY <1>1, <1>2, <1>3, <1>5, <1>6 DEF Unanswered, NoData
<1> QED BY <1>1, <1>4, <1>5, <1>7 DEF AttemptInv, FirstSession, ResetPacket

\* The loop opens the data channel of an established session.
LEMMA LoopPairs ==
    ASSUME EndsInv, AttemptInv, PromptlyServed' = PromptlyServed, UNCHANGED serverVars,
           LoopWaits(net)
    PROVE  AttemptInv'
<1>1. /\ pc = "loop" /\ UNCHANGED <<pc, net, addr, session, connected, assigned_ip, clients>>
      /\ data' = IF DataOpened THEN NewDataChannel(session) ELSE data
  BY DEF LoopWaits, OpenData, serverVars
<1>2. FirstSession
  BY <1>1 DEF AttemptInv
<1>3. OfAttempt' = OfAttempt /\ (ResetInFlight' <=> ResetInFlight)
  BY <1>1 DEF OfAttempt, ResetInFlight
<1>4. Unanswered => Unanswered'
  BY <1>1, <1>3 DEF Unanswered, DataOpened
<1>5. FirstSession'
  BY <1>1, <1>2, <1>3, <1>4 DEF FirstSession, Young
<1>6. ASSUME addr \in DOMAIN clients PROVE Paired(clients[addr])'
  <2>1. Paired(clients[addr])
    BY <1>1, <1>6 DEF AttemptInv
  <2>2. IsEstablished(session) =>
            NewDataChannel(session) = AgreedData(session.sid, clients[addr].session.sid)
    <3>1. clients[addr].session.sid # None
      BY <1>1, <1>6, AttemptTyped
    <3> QED BY <2>1, <3>1 DEF Paired, ClientPaired, NewDataChannel, DeriveSessionId, AgreedData
  <2>3. ClientPaired(clients[addr])'
    BY <1>1, <2>1, <2>2 DEF Paired, ClientPaired, DataOpened
  <2>4. \A q \in OfAttempt' : PacketPaired(q, clients[addr])'
    BY <1>1, <1>3, <2>1 DEF Paired, PacketPaired
  <2>5. ServerPaired(session.sid, clients[addr])'
    BY <1>1, <2>1 DEF Paired, ServerPaired
  <2> QED BY <2>3, <2>4, <2>5 DEF Paired
<1> QED BY <1>1, <1>5, <1>6 DEF AttemptInv

\* stop() leaves the sessions and the data channels as they are.
LEMMA StopPairs ==
    ASSUME AttemptInv, PromptlyServed' = PromptlyServed, UNCHANGED serverVars, StopClient
    PROVE  AttemptInv'
<1>1. /\ UNCHANGED <<pc, net, addr, session, data, assigned_ip, clients>> /\ ~connected'
  BY DEF StopClient, sessionVars, serverVars
<1>2. OfAttempt' = OfAttempt /\ (ResetInFlight' <=> ResetInFlight)
  BY <1>1 DEF OfAttempt, ResetInFlight
<1>3. FirstSession => FirstSession'
  BY <1>1, <1>2 DEF FirstSession, Unanswered, Young
<1>4. ASSUME pc = "loop", addr \in DOMAIN clients PROVE Paired(clients[addr])'
  <2>1. Paired(clients[addr])
    BY <1>4 DEF AttemptInv
  <2>2. ClientPaired(clients[addr])'
    BY <1>1, <2>1 DEF Paired, ClientPaired
  <2>3. \A q \in OfAttempt' : PacketPaired(q, clients[addr])'
    BY <1>1, <1>2, <2>1 DEF Paired, PacketPaired
  <2>4. ServerPaired(session.sid, clients[addr])'
    BY <1>1, <2>1 DEF Paired, ServerPaired
  <2> QED BY <2>2, <2>3, <2>4 DEF Paired
<1> QED BY <1>1, <1>3, <1>4 DEF AttemptInv

\* The ends of an attempt, and what happens between two.
LEMMA NoAttempt ==
    ASSUME LoopStops(net) \/ LoopTimesOut(net) \/ WakeUp \/ RestartClient
    PROVE  AttemptInv'
BY DEF AttemptInv, LoopStops, LoopTimesOut, WakeUp, RestartClient

-----------------------------------------------------------------------------
\* The initial states.
LEMMA TunnelStarts == TunnelInit => TunnelInv
<1> SUFFICES ASSUME TunnelInit PROVE TunnelInv
  OBVIOUS
<1>1. IInv /\ ClientInv
  BY InitKeeps, ClientStarts DEF TunnelInit
<1>2. NetTyped
  BY DEF TunnelInit, NetTyped
<1>3. SessionsDrawn /\ AttemptInv
  BY DEF TunnelInit, ServerInit, ClientInit, SessionsDrawn, AttemptInv, EmptyDict
<1> QED BY <1>1, <1>2, <1>3 DEF TunnelInv, EndsInv

\* A step of the two ends and the network.
LEMMA AttemptKept ==
    ASSUME EndsInv, SessionOnce, AttemptInv, [TunnelNext]_tvars
    PROVE  AttemptInv'
<1>0. PromptlyServed' = PromptlyServed
  BY ScenarioKept
<1>1. ASSUME NEW p \in net, NEW rx \in SUBSET net, rx = net \ {p} \/ PromptlyServed,
             Delivery(p, rx)
      PROVE  AttemptInv'
  <2>1. CASE ServerHandles(p, rx)
    BY <1>0, <1>1, <2>1, ServerHandlingKeeps
  <2>2. CASE ClientHandles(p, rx)
    BY <1>0, <1>1, <2>2, ClientHandlingKeeps
  <2>3. CASE Undeliverable(p, rx)
    <3>1. UNCHANGED attemptVars /\ clients' = clients /\ net' \subseteq net
      BY <2>3 DEF Undeliverable, attemptVars, clientVars, taskVars, sessionVars, serverVars
    <3>2. OfAttempt' \subseteq OfAttempt
      BY <3>1 DEF OfAttempt, attemptVars
    <3> QED BY <1>0, <3>1, <3>2, AttemptFramed DEF attemptVars
  <2> QED BY <1>1, <2>1, <2>2, <2>3 DEF Delivery
<1>2. CASE Deliver
  <2>1. PICK p \in net : Delivery(p, net \ {p})
    BY <1>2 DEF Deliver
  <2> QED BY <1>1, <2>1
<1>3. CASE Duplicate
  <2>1. PICK p \in net : Delivery(p, net)
    BY <1>3 DEF Duplicate
  <2>2. PromptlyServed
    BY <1>3 DEF Duplicate, Fault, SessionOnce
  <2> QED BY <1>1, <2>1, <2>2
<1>4. CASE Lose \/ UNCHANGED tvars
  <2>1. UNCHANGED attemptVars /\ clients' = clients /\ net' \subseteq net
    BY <1>4 DEF Lose, tvars, attemptVars, clientVars, taskVars, sessionVars, serverVars
  <2>2. OfAttempt' \subseteq OfAttempt
    BY <2>1 DEF OfAttempt, attemptVars
  <2> QED BY <1>0, <2>1, <2>2, AttemptFramed DEF attemptVars
<1>5. CASE ServerStep \/ ServerDies \/ ServerStarts
  <2>1. UNCHANGED attemptVars
    BY <1>5 DEF ServerStep, ServerDies, ServerStarts, attemptVars, clientVars, taskVars, sessionVars
  <2>2. ServerDies => ~PromptlyServed
    BY DEF ServerDies, Fault, PromptlyServed
  <2> QED BY <1>0, <1>5, <2>1, <2>2, MainLoopPairs, RestartPairs
          DEF ServerStep, ServerDies, ServerStarts
<1>6. CASE ClientStep
  <2>1. UNCHANGED serverVars
    BY <1>6 DEF ClientStep
  <2>2. ASSUME NEW a \in Addrs, NEW fresh \in Sids, NewAddr(a), Attempt(a, fresh, net)
        PROVE  AttemptInv'
    BY <2>1, <2>2, AttemptPairs DEF SessionOnce
  <2> QED BY <1>0, <1>6, <2>1, <2>2, LoopPairs, NoAttempt DEF ClientStep
<1>7. CASE ClientRestarts
  BY <1>7, NoAttempt DEF ClientRestarts
<1>8. CASE ClientStopped
  BY <1>0, <1>8, StopPairs DEF ClientStopped
<1>9. CASE Tick
  BY <1>0, <1>9, TickPairs
<1> QED BY <1>2, <1>3, <1>4, <1>5, <1>6, <1>7, <1>8, <1>9 DEF TunnelNext

LEMMA TunnelKept == TunnelInv /\ [TunnelNext]_tvars => TunnelInv'
BY EndsKept, ScenarioKept, AttemptKept DEF TunnelInv

LEMMA TunnelInvariant == TunnelSpec => []TunnelInv
BY TunnelStarts, TunnelKept, PTL DEF TunnelSpec

-----------------------------------------------------------------------------
(***************************************************************************)
(* Put together, where every datagram is one the other end sent, the ends  *)
(* keep what each keeps on its own, whatever is lost or delivered twice    *)
(* and whichever process dies: no address of the server's pool is lost or  *)
(* assigned twice and its routes are those of its clients (IpPool,         *)
(* _remove_client, _send_ip_assign), and the client's routes and status    *)
(* file are those of its current attempt (_handle_ip_assign, _cleanup).    *)
(***************************************************************************)
THEOREM EndsSafe ==
    TunnelSpec => [](/\ TablesAgree /\ PoolConserved /\ RoutesMatch
                     /\ ConnectedThisAttempt /\ RoutesTracked /\ StatusCurrent)
<1>1. TunnelInv => /\ TablesAgree /\ PoolConserved /\ RoutesMatch
                   /\ ConnectedThisAttempt /\ RoutesTracked /\ StatusCurrent
  BY DEF TunnelInv, EndsInv, IInv, Tables, ClientInv
<1> QED BY <1>1, TunnelInvariant, PTL

(***************************************************************************)
(* Whenever both ends have a data channel for the current attempt they     *)
(* have the same key and data channel id (_handle_client_hello and         *)
(* handle_server_hello derive it on either side, whatever was lost and     *)
(* sent again on the way), as long as the attempt's one HARD_RESET_CLIENT  *)
(* cannot make two sessions one after the other.                           *)
(***************************************************************************)
THEOREM TunnelChannelsAgree == TunnelSpec => [](SessionOnce => ChannelsAgree)
<1>1. TunnelInv => (SessionOnce => ChannelsAgree)
  BY DEF TunnelInv, AttemptInv, Paired, ServerPaired, ClientPaired, ChannelsAgree
<1> QED BY <1>1, TunnelInvariant, PTL

(***************************************************************************)
(* A client that thinks itself connected uses the virtual address the      *)
(* server routes to it: IP_ASSIGN of an earlier session of the same        *)
(* address never reaches an attempt that has another one, under the same   *)
(* condition.                                                              *)
(***************************************************************************)
THEOREM TunnelAddressesAgree == TunnelSpec => [](SessionOnce => AddressesAgree)
<1>1. TunnelInv => (SessionOnce => AddressesAgree)
  BY DEF TunnelInv, AttemptInv, Paired, ClientPaired, AddressesAgree
<1> QED BY <1>1, TunnelInvariant, PTL

-----------------------------------------------------------------------------
\* What the server does to addresses in the tunnel.
LEMMA TunnelLeaseStep ==
    EndsInv /\ [TunnelNext]_tvars => LeaseStep
<1> SUFFICES ASSUME EndsInv, [TunnelNext]_tvars PROVE LeaseStep
  OBVIOUS
<1>0. IInv
  BY DEF EndsInv
<1>1. ASSUME NEW p \in net, NEW rx, ServerHandles(p, rx) PROVE LeaseStep
  <2>1. p.addr \in Addrs
    BY DEF EndsInv, NetTyped, PacketTyped
  <2>2. ASSUME NEW fresh, HandleResetNew(p.addr, p.sid, fresh, rx) PROVE Handles(p.addr, rx)
    BY <2>2 DEF Handles
  <2>3. CASE HandleResetKnown(p.addr, p.sid, rx)
    BY <1>0, <2>1, <2>3, DatagramLeases DEF Handles
  <2>4. CASE HandleClientHello(p.addr, p.cert, p.sid, rx)
    BY <1>0, <2>1, <2>4, DatagramLeases DEF Handles
  <2>5. CASE HandleClientFinished(p.addr, p.sig, rx)
    BY <1>0, <2>1, <2>5, DatagramLeases DEF Handles
  <2>6. CASE HandleTraffic(p.addr, rx) \/ HandleUnknown(p.addr, rx)
    BY <1>0, <2>1, <2>6, DatagramLeases DEF Handles
  <2> QED BY <1>0, <1>1, <2>1, <2>2, <2>3, <2>4, <2>5, <2>6, DatagramLeases, OtherwiseLeases
          DEF ServerHandles
<1>2. ASSUME UNCHANGED serverVars PROVE LeaseStep
  BY <1>0, <1>2, OtherwiseLeases
<1>3. ASSUME NEW p \in net, NEW rx, Delivery(p, rx) PROVE LeaseStep
  BY <1>1, <1>2, <1>3 DEF Delivery, ClientHandles, Undeliverable
<1>4. CASE Deliver \/ Duplicate
  BY <1>3, <1>4 DEF Deliver, Duplicate
<1>5. CASE ServerStep \/ ServerDies \/ ServerStarts \/ Tick
  BY <1>0, <1>5, OtherwiseLeases DEF ServerStep, ServerDies, ServerStarts, Tick
<1>6. CASE Lose \/ ClientStep \/ ClientRestarts \/ ClientStopped \/ UNCHANGED tvars
  BY <1>2, <1>6 DEF Lose, ClientStep, ClientRestarts, ClientStopped, tvars
<1> QED BY <1>4, <1>5, <1>6 DEF TunnelNext

(***************************************************************************)
(* In the tunnel too, whatever the network and the faults do, the server   *)
(* implements the abstract lease: a client's address goes when it is       *)
(* removed, or with the process, and to nobody else before.                *)
(***************************************************************************)
THEOREM TunnelServerLeases == TunnelSpec => ImplementsLease
<1>1. TunnelInit => Lease!LeaseInit
  BY LeaseStarts DEF TunnelInit
<1>2. TunnelInv => EndsInv
  BY DEF TunnelInv
<1> QED BY <1>1, <1>2, TunnelLeaseStep, TunnelInvariant, PTL
        DEF TunnelSpec, ImplementsLease, Lease!LeaseSpec, LeaseStep

(***************************************************************************)
(* No attempt is given up before a full timeout of silence within it, also *)
(* when the server it talks to dies and comes back.                        *)
(***************************************************************************)
THEOREM TunnelTimeoutsEarned == TunnelSpec => NoEarlyTimeout
<1>1. EndsInv /\ [TunnelNext]_tvars
        => (pc = "loop" /\ pc' = "sleep" => attempt_age > ClientTimeout)
  <2> SUFFICES ASSUME EndsInv, [TunnelNext]_tvars, pc = "loop", pc' = "sleep"
               PROVE  attempt_age > ClientTimeout
    OBVIOUS
  <2>1. \A p, rx : ~Delivery(p, rx)
    BY DEF Delivery, ServerHandles, ClientHandles, Undeliverable, RecvResetAck, RecvServerHello,
           RecvIpAssign, RecvIpAssignRaises, RecvKeepalive, ClientUnreachable, clientVars, taskVars
  <2>2. LoopTimesOut(net)
    BY <2>1 DEF TunnelNext, Deliver, Duplicate, Lose, ServerStep, ServerDies, ServerStarts,
           ClientStep, ClientRestarts, ClientStopped, Tick, ClientTick, Attempt, LoopStops,
           LoopWaits, WakeUp, StopClient, RestartClient, tvars, clientVars, taskVars
  <2>3. last_seen > ClientTimeout /\ (handshake_done \/ session.st # "RESET_SENT")
    BY <2>2 DEF LoopTimesOut, TimedOut, IsEstablished
  <2> QED BY <2>3, ClientTimesAssumption DEF EndsInv, ClientInv, Silence, ClientTypeOK
<1>2. TunnelInv => EndsInv
  BY DEF TunnelInv
<1> QED BY <1>1, <1>2, TunnelInvariant, PTL DEF TunnelSpec, NoEarlyTimeout
=============================================================================
