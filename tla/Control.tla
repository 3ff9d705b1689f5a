------------------------------ MODULE Control ------------------------------
(***************************************************************************)
(* The control-channel handshake of src/protocol/control.py: the           *)
(* Session record and one operator per handler, each mapping a session to  *)
(* the session the handler leaves behind.  VpnServer and VpnClient apply   *)
(* them to the sessions they keep.                                         *)
(*                                                                         *)
(* Session.__init__ draws session_id and the ephemeral key pair together,  *)
(* so one token of Sids stands for both.  A derived key is what HKDF is    *)
(* given: the two ephemeral keys of the ECDH exchange and the two session  *)
(* ids of the salt; both are sets because ECDH is symmetric and            *)
(* _handshake_salt orders the ids.  A certificate is a token; a signature  *)
(* names the certificate whose private key made it and what it covers.     *)
(***************************************************************************)
EXTENDS Integers

CONSTANTS
    Sids,          \* session id and ephemeral key tokens
    PeerSids,      \* those of whoever talks to a module checked on its own
    Certs,         \* certificate tokens
    TrustedCerts,  \* the certificates the configured CA signed
    Addrs          \* the (host, port) pairs clients send from

ASSUME SidsAssumption == Sids \subseteq Nat \ {0} /\ PeerSids \subseteq Sids
ASSUME CertsAssumption == Certs \subseteq Nat \ {0} /\ TrustedCerts \subseteq Certs

None == 0          \* a Python None, or an empty bytes field of a packet

ASSUME AddrsAssumption == None \notin Addrs

\* The datagrams in flight, both directions.  UDP itself is external: the
\* code hands datagrams to asyncio's transport and gets them from it.  A set
\* gives them no order, and makes one of two equal ones.
VARIABLE net

States == {"IDLE", "RESET_SENT", "RESET_RCVD", "HELLO_SENT", "ESTABLISHED", "ERROR"}

Keys == [ecdh : SUBSET (Sids \cup {None}), salt : SUBSET (Sids \cup {None})]
NoKey == [ecdh |-> {}, salt |-> {}]

Sigs == [by : Certs \cup {None}, over : (Sids \cup {None}) \X (Sids \cup {None})]
NoSig == [by |-> None, over |-> <<None, None>>]

\* What configure() leaves in a session: nothing at all unless ca, cert and
\* key are all set.  canSign is FALSE when load_private_key would raise.
Confs == [auth : BOOLEAN, cert : Certs \cup {None}, canSign : BOOLEAN]

Sessions == [sid : Sids \cup {None}, peer : Sids \cup {None}, st : States, key : Keys,
             peerPub : Sids \cup {None}, peerCert : Certs \cup {None}, created : Nat]

\* Session.__init__; created is the age of created_at.
NewSession(sid) ==
    [sid |-> sid, peer |-> None, st |-> "IDLE", key |-> NoKey,
     peerPub |-> None, peerCert |-> None, created |-> 0]

IsEstablished(s) == s.st = "ESTABLISHED"

IsExpired(s, timeout) == s.st \notin {"ESTABLISHED", "IDLE"} /\ s.created > timeout

-----------------------------------------------------------------------------
\* _sign over client key then server key; the empty signature without a key.
Sign(conf, clientPub, serverPub) ==
    IF conf.auth THEN [by |-> conf.cert, over |-> <<clientPub, serverPub>>] ELSE NoSig

\* A peer without a certificate is not asked for a signature.
SignatureOK(cert, clientPub, serverPub, sig) ==
    cert # None => sig = [by |-> cert, over |-> <<clientPub, serverPub>>]

VerifyPeerCert(conf, cert) == conf.auth => cert \in TrustedCerts

\* Mutant: the salt leaves out the peer's id.
HandshakeSaltOwn(s) == {s.sid}

HandshakeSalt(s) == {s.sid, s.peer} \ {None}

DeriveKey(s, pub) == [ecdh |-> {s.sid, pub}, salt |-> HandshakeSalt(s)]

-----------------------------------------------------------------------------
ClientStartHandshake(s) == [s EXCEPT !.st = "RESET_SENT"]

\* Mutant: the client's session id is not recorded.
ServerHandleResetUnpaired(s, sid) == [s EXCEPT !.st = "RESET_RCVD"]

\* Mutant: a new HARD_RESET renews created_at.
ServerHandleResetRenews(s, sid) == [s EXCEPT !.peer = sid, !.st = "RESET_RCVD", !.created = 0]

ServerHandleReset(s, sid) == [s EXCEPT !.peer = sid, !.st = "RESET_RCVD"]

ClientHandleResetAck(s, sid) == [s EXCEPT !.peer = sid, !.st = "RESET_RCVD"]

\* A failed certificate check leaves the old key; a failed _sign the new one.
ServerHandleClientHello(s, conf, cert, pub) ==
    LET heard == [s EXCEPT !.peerPub = pub, !.peerCert = cert]
        keyed == [heard EXCEPT !.key = DeriveKey(s, pub)]
    IN  IF ~VerifyPeerCert(conf, cert) THEN [heard EXCEPT !.st = "ERROR"]
        ELSE [keyed EXCEPT !.st = IF conf.canSign THEN "HELLO_SENT" ELSE "ERROR"]

\* The sessions that an exception may leave while a server's handler parses
\* its message: in ERROR, with what of a CLIENT_HELLO was stored before it.
ServerParseFails(s, cert, pub) ==
    {[x EXCEPT !.st = "ERROR"] :
        x \in {s, [s EXCEPT !.peerPub = pub], [s EXCEPT !.peerPub = pub, !.peerCert = cert]}}

\* The client is ESTABLISHED before it signs CLIENT_FINISHED; an exception
\* in that last _sign still ends in ERROR.
ClientHandleServerHello(s, conf, cert, pub, sig) ==
    LET heard == [s EXCEPT !.peerPub = pub, !.peerCert = cert]
        keyed == [heard EXCEPT !.key = DeriveKey(s, pub)]
    IN  IF ~VerifyPeerCert(conf, cert) THEN [heard EXCEPT !.st = "ERROR"]
        ELSE [keyed EXCEPT !.st = IF SignatureOK(cert, s.sid, pub, sig) /\ conf.canSign
                                  THEN "ESTABLISHED" ELSE "ERROR"]

\* No state is required: the handler looks at the certificate only.
ServerHandleClientFinished(s, sig) ==
    [s EXCEPT !.st = IF SignatureOK(s.peerCert, s.peerPub, s.sid, sig)
                     THEN "ESTABLISHED" ELSE "ERROR"]

-----------------------------------------------------------------------------
\* A DataChannel: the session's cipher (possibly none) and the shared id,
\* the XOR of both session ids, empty while the peer's is unknown.
DataChannels == [open : BOOLEAN, key : Keys, id : SUBSET (Sids \cup {None})]
NoData == [open |-> FALSE, key |-> NoKey, id |-> {}]

DeriveSessionId(our, peer) == IF peer = None THEN {} ELSE {our, peer}

NewDataChannel(s) ==
    [open |-> TRUE, key |-> s.key, id |-> DeriveSessionId(s.sid, s.peer)]

-----------------------------------------------------------------------------
\* A datagram.  addr is the client's end of it; sid is the session id of a
\* HARD_RESET or the ephemeral public key of a HELLO.  Other header session
\* ids are never read, so they are left out.
Packet(to, addr, type) ==
    [to |-> to, addr |-> addr, type |-> type,
     sid |-> None, cert |-> None, sig |-> NoSig, ip |-> None]

ResetPacket(addr, s) == [Packet("server", addr, "HARD_RESET_CLIENT") EXCEPT !.sid = s.sid]

ResetAckPacket(addr, s) == [Packet("client", addr, "HARD_RESET_SERVER") EXCEPT !.sid = s.sid]

ClientHelloPacket(addr, s, conf) ==
    [Packet("server", addr, "CLIENT_HELLO") EXCEPT !.sid = s.sid, !.cert = conf.cert]

ServerHelloPacket(addr, s, conf) ==
    [Packet("client", addr, "SERVER_HELLO") EXCEPT
        !.sid = s.sid, !.cert = conf.cert, !.sig = Sign(conf, s.peerPub, s.sid)]

FinishedPacket(addr, s, conf) ==
    [Packet("server", addr, "CLIENT_FINISHED") EXCEPT !.sig = Sign(conf, s.sid, s.peerPub)]

\* The tokens a session, a data channel or a datagram still refers to.
SessionSids(s) == {s.sid, s.peer, s.peerPub} \cup s.key.ecdh \cup s.key.salt
DataSids(d) == d.key.ecdh \cup d.key.salt \cup d.id
PacketSids(p) == {p.sid, p.sig.over[1], p.sig.over[2]}
=============================================================================
