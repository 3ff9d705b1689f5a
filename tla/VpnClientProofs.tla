-------------------------- MODULE VpnClientProofs --------------------------
(***************************************************************************)
(* What the client keeps in step, for every set of session ids, addresses  *)
(* and certificates, every timeout and every configuration: the routes and *)
(* the status file follow the attempt, and silence from before an attempt  *)
(* does not end it.                                                        *)
(*                                                                         *)
(* The invariant adds two facts to the types and the properties: what is   *)
(* known of last_seen once something was received in the attempt (Silence) *)
(* and that a status file without an owner can only be one a crash left    *)
(* (Leftover).                                                             *)
(***************************************************************************)
EXTENDS VpnClient, TLAPS

\* The session leaves RESET_SENT, and the handshake is done, only after a
\* datagram of this attempt has reset last_seen.
Silence ==
    pc = "loop" /\ (handshake_done \/ session.st # "RESET_SENT") => last_seen <= attempt_age

Leftover ==
    /\ ~StatusFile => status = Absent
    /\ root /\ pc = "attempt" /\ addr # None => status = Absent

ClientInv ==
    /\ ClientTypeOK
    /\ ConnectedThisAttempt
    /\ RoutesTracked
    /\ StatusCurrent
    /\ Silence
    /\ Leftover

-----------------------------------------------------------------------------
\* The handlers of the control channel map sessions to sessions.
LEMMA ClientHandlersTyped ==
    ASSUME NEW s \in Sessions, NEW sid \in Sids, NEW cert \in Certs \cup {None}, NEW sig,
           NEW conf \in Confs
    PROVE  /\ ClientHandleResetAck(s, sid) \in Sessions
           /\ ClientHandleServerHello(s, conf, cert, sid, sig) \in Sessions
<1>1. ClientHandleResetAck(s, sid) \in Sessions
  BY DEF ClientHandleResetAck, Sessions, States
<1>2. DeriveKey(s, sid) \in Keys
  BY DEF DeriveKey, HandshakeSalt, Keys, Sessions
<1>3. ClientHandleServerHello(s, conf, cert, sid, sig) \in Sessions
  BY <1>2 DEF ClientHandleServerHello, Sessions, States
<1> QED BY <1>1, <1>3

\* So is what __init__ makes and client_start_handshake sends.
LEMMA ClientNewTyped ==
    /\ NoData \in DataChannels
    /\ \A sid \in Sids \cup {None} : NewSession(sid) \in Sessions
    /\ \A sid \in Sids : /\ ClientStartHandshake(NewSession(sid)) \in Sessions
                         /\ ClientStartHandshake(NewSession(sid)).st = "RESET_SENT"
<1>1. NoKey \in Keys
  BY DEF NoKey, Keys
<1>2. \A sid \in Sids \cup {None} : NewSession(sid) \in Sessions
  BY <1>1 DEF NewSession, Sessions, States
<1>3. \A sid \in Sids : /\ ClientStartHandshake(NewSession(sid)) \in Sessions
                        /\ ClientStartHandshake(NewSession(sid)).st = "RESET_SENT"
  BY <1>2 DEF ClientStartHandshake, Sessions, States
<1>4. NoData \in DataChannels
  BY <1>1 DEF NoData, DataChannels
<1> QED BY <1>2, <1>3, <1>4

\* The one way the data channel is opened.
LEMMA OpenDataTyped ==
    ASSUME ClientTypeOK, OpenData
    PROVE  handshake_done' \in BOOLEAN /\ data' \in DataChannels
<1>1. session.key \in Keys /\ DeriveSessionId(session.sid, session.peer) \in SUBSET (Sids \cup {None})
  BY DEF ClientTypeOK, DeriveSessionId, Sessions, None
<1>2. NewDataChannel(session) \in DataChannels
  BY <1>1 DEF NewDataChannel, DataChannels
<1>3. handshake_done' \in BOOLEAN
  BY DEF ClientTypeOK, OpenData
<1>4. data' \in DataChannels
  BY <1>2 DEF ClientTypeOK, OpenData
<1> QED BY <1>3, <1>4

\* An age stays in its range and does not overtake an older one.
LEMMA AgedBounded ==
    ASSUME NEW x \in 0..(ClientTimeout + 1), NEW y \in 0..(ClientTimeout + 1)
    PROVE  Aged(x) \in 0..(ClientTimeout + 1) /\ (x <= y => Aged(x) <= Aged(y))
BY ClientTimesAssumption DEF Aged

-----------------------------------------------------------------------------
\* The initial state.
LEMMA ClientStarts ==
    ClientInit => ClientInv
<1> SUFFICES ASSUME ClientInit PROVE ClientInv
  OBVIOUS
<1> USE ClientTimesAssumption DEF ClientInit
<1>0. session \in Sessions /\ data \in DataChannels
  BY ClientNewTyped
<1>1. /\ wait \in 0..ReconnectDelay
      /\ last_seen \in 0..(ClientTimeout + 1) /\ attempt_age \in 0..(ClientTimeout + 1)
  OBVIOUS
<1>2. ClientTypeOK
  BY <1>0, <1>1 DEF ClientTypeOK
<1> QED BY <1>2 DEF ClientInv, ConnectedThisAttempt, RoutesTracked, StatusCurrent, Silence, Leftover

\* The beginning of an attempt.
LEMMA AttemptKeeps ==
    ASSUME ClientInv, NEW a \in Addrs, NEW fresh \in Sids, NEW rx, Attempt(a, fresh, rx)
    PROVE  ClientInv'
<1> USE ClientTimesAssumption, AddrsAssumption, SidsAssumption
<1> USE DEF ClientInv
<1>1. ClientTypeOK'
  <2>1. session' \in Sessions /\ data' \in DataChannels
    BY ClientNewTyped DEF Attempt
  <2>2. attempt_age' \in 0..(ClientTimeout + 1)
    BY DEF Attempt
  <2> QED BY <2>1, <2>2 DEF ClientTypeOK, Attempt, WriteStatus, MaybeWriteStatus
<1>2. ConnectedThisAttempt' /\ RoutesTracked'
  BY DEF Attempt, ConnectedThisAttempt, RoutesTracked
<1>3. StatusCurrent' /\ Leftover'
  BY DEF Attempt, StatusCurrent, Leftover, WriteStatus, MaybeWriteStatus
<1>4. Silence'
  BY ClientNewTyped DEF Attempt, Silence
<1> QED BY <1>1, <1>2, <1>3, <1>4

\* The other steps of the task.
LEMMA LoopKeeps ==
    ASSUME ClientInv, NEW rx,
           LoopStops(rx) \/ LoopWaits(rx) \/ LoopTimesOut(rx) \/ WakeUp
    PROVE  ClientInv'
<1> USE ClientTimesAssumption, AddrsAssumption, SidsAssumption
<1> USE DEF ClientInv
<1>1. CASE LoopStops(rx)
  <2>1. ClientTypeOK'
    BY <1>1 DEF ClientTypeOK, LoopStops, RemoveStatus, sessionVars, historyVars
  <2>2. ConnectedThisAttempt' /\ RoutesTracked'
    BY <1>1 DEF LoopStops, ConnectedThisAttempt, RoutesTracked, sessionVars
  <2>3. StatusCurrent' /\ Leftover' /\ Silence'
    BY <1>1 DEF LoopStops, StatusCurrent, Leftover, Silence, RemoveStatus
  <2> QED BY <2>1, <2>2, <2>3
<1>2. CASE LoopWaits(rx)
  <2>1. ClientTypeOK'
    BY <1>2, OpenDataTyped DEF ClientTypeOK, LoopWaits, WriteStatus, MaybeWriteStatus, historyVars
  <2>2. ConnectedThisAttempt' /\ RoutesTracked'
    BY <1>2 DEF LoopWaits, ConnectedThisAttempt, RoutesTracked
  <2>3. StatusCurrent' /\ Leftover'
    BY <1>2 DEF LoopWaits, StatusCurrent, Leftover, WriteStatus, MaybeWriteStatus
  <2>4. Silence'
    BY <1>2 DEF LoopWaits, OpenData, Silence, IsEstablished, historyVars
  <2> QED BY <2>1, <2>2, <2>3, <2>4
<1>3. CASE LoopTimesOut(rx)
  <2>1. ClientTypeOK'
    <3>1. wait' \in 0..ReconnectDelay
      BY <1>3 DEF LoopTimesOut
    <3> QED BY <1>3, <3>1, OpenDataTyped
            DEF ClientTypeOK, LoopTimesOut, Cleanup, RemoveStatus, historyVars
  <2>2. ConnectedThisAttempt' /\ RoutesTracked'
    BY <1>3 DEF LoopTimesOut, ConnectedThisAttempt, RoutesTracked, Cleanup
  <2>3. StatusCurrent' /\ Leftover' /\ Silence'
    BY <1>3 DEF LoopTimesOut, StatusCurrent, Leftover, Silence, RemoveStatus
  <2> QED BY <2>1, <2>2, <2>3
<1>4. CASE WakeUp
  <2>1. ClientTypeOK'
    BY <1>4 DEF ClientTypeOK, WakeUp, sessionVars, hostVars, historyVars
  <2>2. ConnectedThisAttempt' /\ RoutesTracked'
    BY <1>4 DEF WakeUp, ConnectedThisAttempt, RoutesTracked, sessionVars, hostVars
  <2>3. StatusCurrent' /\ Leftover' /\ Silence'
    BY <1>4 DEF WakeUp, StatusCurrent, Leftover, Silence, hostVars
  <2> QED BY <2>1, <2>2, <2>3
<1> QED BY <1>1, <1>2, <1>3, <1>4

\* A datagram that changes at most the session.
LEMMA SessionKeeps ==
    ASSUME ClientInv, Receives, session' \in Sessions,
           UNCHANGED <<taskVars, handshake_done, assigned_ip, data, addr, hostVars, historyVars>>
    PROVE  ClientInv'
<1> USE ClientTimesAssumption DEF ClientInv, Receives, taskVars, hostVars, historyVars
<1>1. ClientTypeOK'
  BY DEF ClientTypeOK
<1>2. ConnectedThisAttempt' /\ RoutesTracked'
  BY DEF ConnectedThisAttempt, RoutesTracked
<1>3. StatusCurrent' /\ Leftover'
  BY DEF StatusCurrent, Leftover
<1>4. Silence'
  BY DEF Silence, ClientTypeOK
<1> QED BY <1>1, <1>2, <1>3, <1>4

\* IP_ASSIGN, whether set_ip works or raises.
LEMMA IpAssignKeeps ==
    ASSUME ClientInv, NEW ip \in Ips, NEW rx,
           RecvIpAssign(ip, rx) \/ RecvIpAssignRaises(ip, rx)
    PROVE  ClientInv'
<1> USE ClientTimesAssumption, IpsAssumption
    DEF ClientInv, Receives, ShowIp, WriteStatus, historyVars
<1>1. CASE RecvIpAssign(ip, rx)
  <2>0. pc = "loop" /\ pc' = pc /\ assigned_ip' = ip /\ connected' = TRUE /\ last_seen' = 0
    BY <1>1 DEF RecvIpAssign
  <2>1. ClientTypeOK'
    BY <1>1 DEF ClientTypeOK, RecvIpAssign, Wanted, RouteSet
  <2>2. ConnectedThisAttempt'
    BY <2>0 DEF ConnectedThisAttempt, None
  <2>3. RoutesTracked'
    BY <1>1 DEF RecvIpAssign, RoutesTracked
  <2>4. StatusCurrent' /\ Leftover'
    BY <1>1 DEF RecvIpAssign, SetIpWorks, StatusCurrent, Leftover
  <2>5. Silence'
    BY <1>1 DEF RecvIpAssign, Silence, ClientTypeOK
  <2> QED BY <2>1, <2>2, <2>3, <2>4, <2>5
<1>2. CASE RecvIpAssignRaises(ip, rx)
  <2>0. pc = "loop" /\ pc' = pc /\ assigned_ip' = ip /\ connected' = TRUE /\ last_seen' = 0
    BY <1>2 DEF RecvIpAssignRaises
  <2>1. ClientTypeOK'
    BY <1>2 DEF ClientTypeOK, RecvIpAssignRaises
  <2>2. ConnectedThisAttempt'
    BY <2>0 DEF ConnectedThisAttempt, None
  <2>3. RoutesTracked'
    BY <1>2 DEF RecvIpAssignRaises, RoutesTracked
  <2>4. StatusCurrent' /\ Leftover'
    BY <1>2 DEF RecvIpAssignRaises, StatusCurrent, Leftover
  <2>5. Silence'
    BY <1>2 DEF RecvIpAssignRaises, Silence, ClientTypeOK
  <2> QED BY <2>1, <2>2, <2>3, <2>4, <2>5
<1> QED BY <1>1, <1>2

\* The other datagrams of the server.
LEMMA HandshakeKeeps ==
    ASSUME ClientInv, NEW sid \in Sids, NEW cert \in Certs \cup {None}, NEW sig, NEW rx,
           \/ RecvResetAck(sid, rx)
           \/ RecvServerHello(cert, sid, sig, rx)
           \/ RecvKeepalive(rx)
           \/ RecvData(rx)
    PROVE  ClientInv'
<1>0. session \in Sessions
  BY DEF ClientInv, ClientTypeOK
<1>1. CASE RecvResetAck(sid, rx) \/ RecvServerHello(cert, sid, sig, rx)
  <2>1. session' \in Sessions
    BY <1>0, <1>1, ClientHandlersTyped, ClientConfAssumption DEF RecvResetAck, RecvServerHello
  <2> QED BY <1>1, <2>1, SessionKeeps DEF RecvResetAck, RecvServerHello
<1>2. CASE RecvKeepalive(rx) \/ RecvData(rx)
  BY <1>0, <1>2, SessionKeeps DEF RecvKeepalive, RecvData, sessionVars
<1> QED BY <1>1, <1>2

\* A step that changes no variable of the client.
LEMMA ClientUntouched ==
    ASSUME ClientInv, UNCHANGED clientVars
    PROVE  ClientInv'
BY DEF clientVars, taskVars, sessionVars, hostVars, historyVars, ClientInv, ClientTypeOK,
       ConnectedThisAttempt, RoutesTracked, StatusCurrent, Silence, Leftover

\* Failing attempts, stop(), crashes and time.
LEMMA EventsKeep ==
    ASSUME ClientInv, NEW rx,
           AttemptRaises(rx) \/ StopClient \/ RestartClient \/ ClientTick
    PROVE  ClientInv'
<1> USE ClientTimesAssumption DEF ClientInv
<1>1. CASE AttemptRaises(rx)
  <2>1. ClientTypeOK'
    BY <1>1, ClientNewTyped DEF ClientTypeOK, AttemptRaises, historyVars
  <2>2. ConnectedThisAttempt' /\ RoutesTracked' /\ StatusCurrent' /\ Silence' /\ Leftover'
    BY <1>1 DEF AttemptRaises, ConnectedThisAttempt, RoutesTracked, StatusCurrent, Silence, Leftover
  <2> QED BY <2>1, <2>2
<1>2. CASE StopClient
  <2>1. ClientTypeOK'
    BY <1>2 DEF ClientTypeOK, StopClient, sessionVars, hostVars
  <2>2. ConnectedThisAttempt' /\ RoutesTracked' /\ StatusCurrent' /\ Silence' /\ Leftover'
    BY <1>2 DEF StopClient, sessionVars, hostVars, ConnectedThisAttempt, RoutesTracked,
                StatusCurrent, Silence, Leftover
  <2> QED BY <2>1, <2>2
<1>3. CASE RestartClient
  <2>1. ClientTypeOK'
    <3>1. session' \in Sessions /\ data' \in DataChannels
      BY <1>3, ClientNewTyped DEF RestartClient
    <3>2. wait' \in 0..ReconnectDelay /\ last_seen' \in 0..(ClientTimeout + 1)
      BY <1>3 DEF RestartClient
    <3> QED BY <1>3, <3>1, <3>2 DEF ClientTypeOK, RestartClient
  <2>2. ConnectedThisAttempt' /\ RoutesTracked' /\ StatusCurrent' /\ Silence' /\ Leftover'
    BY <1>3 DEF RestartClient, ConnectedThisAttempt, RoutesTracked, StatusCurrent, Silence, Leftover
  <2> QED BY <2>1, <2>2
<1>4. CASE ClientTick
  <2>1. ClientTypeOK'
    BY <1>4, AgedBounded DEF ClientTypeOK, ClientTick, sessionVars, hostVars
  <2>2. ConnectedThisAttempt' /\ RoutesTracked' /\ StatusCurrent' /\ Leftover'
    BY <1>4 DEF ClientTick, sessionVars, hostVars, ConnectedThisAttempt, RoutesTracked,
                StatusCurrent, Leftover
  <2>3. Silence'
    BY <1>4, AgedBounded DEF ClientTick, sessionVars, Silence, ClientTypeOK
  <2> QED BY <2>1, <2>2, <2>3
<1> QED BY <1>1, <1>2, <1>3, <1>4

\* So the invariant is one of the client on its own.
LEMMA ClientStepKeeps == ClientInv /\ [ClientNext]_cvars => ClientInv'
<1> SUFFICES ASSUME ClientInv, [ClientNext]_cvars PROVE ClientInv'
  OBVIOUS
<1>0. PeerSids \subseteq Sids
  BY SidsAssumption
<1>1. CASE ClientSteps
  BY <1>1, AttemptKeeps, LoopKeeps DEF ClientSteps
<1>2. CASE ClientReceives
  <2>1. ASSUME NEW sid \in PeerSids, RecvResetAck(sid, {}) PROVE ClientInv'
    BY <1>0, <2>1, HandshakeKeeps
  <2>2. ASSUME NEW cert \in Certs \cup {None}, NEW pub \in PeerSids, NEW sig,
               RecvServerHello(cert, pub, sig, {})
        PROVE  ClientInv'
    BY <1>0, <2>2, HandshakeKeeps
  <2>3. CASE RecvKeepalive({}) \/ RecvData({})
    BY <2>3, SessionKeeps DEF ClientInv, ClientTypeOK, RecvKeepalive, RecvData, sessionVars
  <2>4. CASE ClientUnreachable({})
    BY <2>4, ClientUntouched DEF ClientUnreachable
  <2> QED BY <1>2, <2>1, <2>2, <2>3, <2>4, IpAssignKeeps DEF ClientReceives
<1>3. CASE UNCHANGED cvars
  BY <1>3, ClientUntouched DEF cvars
<1> QED BY <1>1, <1>2, <1>3, EventsKeep DEF ClientNext

LEMMA ClientInvariant == ClientSpec => []ClientInv
<1>1. ClientAloneInit => ClientInv
  BY ClientStarts DEF ClientAloneInit
<1> QED BY <1>1, ClientStepKeeps, PTL DEF ClientSpec

-----------------------------------------------------------------------------
\* The variables keep their types on every path of the client.
THEOREM ClientTyped == ClientSpec => []ClientTypeOK
BY ClientInvariant, PTL DEF ClientInv

\* run() and _connect never take the state of another attempt for that of
\* the current one when they look at _connected.
THEOREM ConnectedIsCurrent == ClientSpec => []ConnectedThisAttempt
BY ClientInvariant, PTL DEF ClientInv

\* _cleanup deletes what _handle_ip_assign added, on every path.
THEOREM RoutesAreTracked == ClientSpec => []RoutesTracked
BY ClientInvariant, PTL DEF ClientInv

\* The status file follows the attempt, across crashes too.
THEOREM StatusIsCurrent == ClientSpec => []StatusCurrent
BY ClientInvariant, PTL DEF ClientInv

\* A timeout of _connect needs a full timeout of silence within the attempt,
\* although _last_seen is not renewed when it starts.
THEOREM TimeoutsAreEarned == ClientSpec => NoEarlyTimeout
<1>1. ClientInv /\ [ClientNext]_cvars
        => (pc = "loop" /\ pc' = "sleep" => attempt_age > ClientTimeout)
  <2> SUFFICES ASSUME ClientInv, [ClientNext]_cvars, pc = "loop", pc' = "sleep"
               PROVE  attempt_age > ClientTimeout
    OBVIOUS
  <2>1. LoopTimesOut({})
    BY DEF ClientNext, ClientSteps, ClientReceives, Attempt, LoopStops, LoopWaits, WakeUp,
           RecvResetAck, RecvServerHello, RecvIpAssign, RecvIpAssignRaises, RecvKeepalive,
           RecvData, ClientUnreachable, AttemptRaises, StopClient, RestartClient, ClientTick,
           cvars, clientVars, taskVars
  <2>2. last_seen > ClientTimeout /\ (handshake_done \/ session.st # "RESET_SENT")
    BY <2>1 DEF LoopTimesOut, TimedOut, IsEstablished
  <2> QED BY <2>2, ClientTimesAssumption DEF ClientInv, Silence, ClientTypeOK
<1> QED BY <1>1, ClientInvariant, PTL DEF ClientSpec, NoEarlyTimeout
=============================================================================
