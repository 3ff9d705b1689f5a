---------------------------- MODULE DataChannel ----------------------------
(***************************************************************************)
(* One direction of the data plane: the tun callback of the sending end    *)
(* with DataChannel.encrypt, the datagrams in flight, and at the receiving *)
(* end DataChannel.decrypt of src/protocol/data.py with its replay window, *)
(* its fragment groups and their timeout.                                  *)
(*                                                                         *)
(* A packet read from the tun device is a token; its pieces are what       *)
(* encrypt cuts it into, one when it fits into MAX_PAYLOAD.  A datagram    *)
(* that arrives as it was sent decrypts to its piece; one damaged on the   *)
(* way does not decrypt and may show any counter.  Both ends compress, or  *)
(* neither does, so compression changes no piece.                          *)
(***************************************************************************)
EXTENDS ReplayWindow, Sequences

CONSTANTS
    Packets,       \* the packets the kernel hands to the sending end's tun
    Pieces,        \* how many pieces each is cut into
    CounterMax,    \* the largest counter struct.pack("!I", ...) takes
    FragTimeout,   \* FRAG_TIMEOUT, in iterations of the main loop
    MaxDamaged     \* bound: how many datagrams are damaged on the way

ASSUME PiecesAssumption == Pieces \in [Packets -> Nat \ {0}]
ASSUME CountersAssumption == CounterMax \in Nat \ {0} /\ Ids = 0..CounterMax
ASSUME BoundsAssumption == FragTimeout \in Nat /\ MaxDamaged \in Nat

VARIABLES
    packet_counter,  \* packet_counter of the sender
    sent,            \* history: packet -> the counter of its first piece
    wire,            \* the datagrams in flight
    fragments,       \* _fragments of the receiver: group id -> buffer
    written,         \* what the receiver wrote to its tun device
    excused,         \* history: packets with a lost, late or overtaken piece
    damaged          \* history: how many datagrams were damaged

senderVars == <<packet_counter, sent>>
receiverVars == <<fragments, written>>
channelVars == <<vars, senderVars, wire, receiverVars, excused, damaged>>

Piece(pk, i) == <<pk, i>>
Plain(pk) == [i \in 0..(Pieces[pk] - 1) |-> Piece(pk, i)]

ChannelTypeOK ==
    /\ packet_counter \in 0..(CounterMax + 1)
    /\ DOMAIN sent \subseteq Packets
    /\ \A pk \in DOMAIN sent : sent[pk] \in 1..CounterMax
    /\ \A p \in wire : p.counter \in 1..CounterMax /\ p.index \in 0..(p.total - 1)
    /\ \A g \in DOMAIN fragments : g \in 1..CounterMax /\ fragments[g].age \in 0..FragTimeout
    /\ written \in Seq({Plain(pk) : pk \in Packets})
    /\ excused \subseteq Packets
    /\ damaged \in 0..MaxDamaged

ChannelInit ==
    /\ Init
    /\ packet_counter = 0
    /\ sent = [pk \in {} |-> 0]
    /\ wire = {}
    /\ fragments = [g \in {} |-> 0]
    /\ written = << >>
    /\ excused = {}
    /\ damaged = 0

-----------------------------------------------------------------------------
\* _encrypt_one: piece i of pk, under the counter start + i.
EncryptOne(pk, i, start) ==
    [counter |-> start + i, total |-> Pieces[pk], index |-> i, piece |-> Piece(pk, i)]

First == packet_counter + 1
Last(pk) == First + Pieces[pk] - 1

\* Mutant: the counter moves by one, however many pieces were numbered.
AdvanceByOne(pk) == First

Advance(pk) == Last(pk)

\* Packets with a piece in flight that a window's worth has now overtaken.
OvertakenBy(last) == {p.piece[1] : p \in {q \in wire : q.counter <= last - WindowSize}}

\* encrypt() numbers the pieces; they go out if the callback sends them.
Encrypt(pk, out) ==
    /\ pk \notin DOMAIN sent
    /\ Last(pk) <= CounterMax
    /\ packet_counter' = Advance(pk)
    /\ sent' = [q \in DOMAIN sent \cup {pk} |-> IF q = pk THEN First ELSE sent[q]]
    /\ wire' = wire \cup out
    /\ excused' = excused \cup OvertakenBy(Last(pk))
    /\ UNCHANGED <<vars, receiverVars, damaged>>

\* struct.pack raises for a counter above its 32 bits: no piece of the packet
\* goes out, and the counter has moved by one.  It stops counting there.
EncryptRaises(pk) ==
    /\ pk \notin DOMAIN sent
    /\ Last(pk) > CounterMax
    /\ packet_counter' = IF packet_counter <= CounterMax THEN First ELSE packet_counter
    /\ UNCHANGED <<vars, sent, wire, receiverVars, excused, damaged>>

\* _on_tun_readable of the client.
ClientTunReadable(pk) ==
    \/ Encrypt(pk, {EncryptOne(pk, i, First) : i \in 0..(Pieces[pk] - 1)})
    \/ EncryptRaises(pk)

\* _on_tun_readable of the server, for a packet that _ipv4_dest takes for a
\* ready client's: _send_to is a coroutine and nothing awaits it.
ServerTunReadable(pk) == Encrypt(pk, {}) \/ EncryptRaises(pk)

-----------------------------------------------------------------------------
Write(x) == written' = Append(written, x)

Without(g) == [h \in DOMAIN fragments \ {g} |-> fragments[h]]

\* Mutant: the group is the counter of its first piece to arrive.
GroupIdFirst(p) == p.counter

GroupId(p) == p.counter - p.index

\* The buffer of p's group with p in it; a new one when there is none.
Buffer(p) ==
    IF GroupId(p) \in DOMAIN fragments THEN fragments[GroupId(p)]
    ELSE [total |-> p.total, parts |-> [i \in {} |-> p.piece], age |-> 0]

Parts(p) ==
    [i \in DOMAIN Buffer(p).parts \cup {p.index} |->
        IF i = p.index THEN p.piece ELSE Buffer(p).parts[i]]

\* The fragment branch of decrypt().  Indexes are below total, so as many
\* parts as total are all of them.
Reassemble(p) ==
    IF Buffer(p).total # p.total
    THEN fragments' = Without(GroupId(p)) /\ UNCHANGED written
    ELSE IF DOMAIN Parts(p) = 0..(p.total - 1)
    THEN fragments' = Without(GroupId(p)) /\ Write(Parts(p))
    ELSE /\ fragments' = [g \in DOMAIN fragments \cup {GroupId(p)} |->
                IF g = GroupId(p) THEN [Buffer(p) EXCEPT !.parts = Parts(p)] ELSE fragments[g]]
         /\ UNCHANGED written

\* Mutant: the window's verdict is ignored.
DecryptAny(p) ==
    /\ Check(p.counter)
    /\ \/ p.total = 1 /\ Write([i \in {0} |-> p.piece]) /\ UNCHANGED fragments
       \/ p.total > 1 /\ Reassemble(p)

\* decrypt(): the window is asked, and remembers the counter, before the
\* packet is authenticated.
Decrypt(p) ==
    /\ Check(p.counter)
    /\ \/ ~verdict'.ok /\ UNCHANGED receiverVars
       \/ verdict'.ok /\ p.total = 1 /\ Write([i \in {0} |-> p.piece]) /\ UNCHANGED fragments
       \/ verdict'.ok /\ p.total > 1 /\ Reassemble(p)

Deliver(p) ==
    /\ Decrypt(p)
    /\ wire' = wire \ {p}
    /\ UNCHANGED <<senderVars, excused, damaged>>

Duplicate(p) ==
    /\ Decrypt(p)
    /\ UNCHANGED <<wire, senderVars, excused, damaged>>

Lose(p) ==
    /\ wire' = wire \ {p}
    /\ excused' = excused \cup {p.piece[1]}
    /\ UNCHANGED <<vars, senderVars, receiverVars, damaged>>

\* p arrives damaged and shows the counter c.
Damage(p, c) ==
    /\ damaged < MaxDamaged
    /\ Check(c)
    /\ wire' = wire \ {p}
    /\ damaged' = damaged + 1
    /\ UNCHANGED <<senderVars, receiverVars, excused>>

\* Mutant: a group is kept one iteration too long.
ExpiredLate(g) == fragments[g].age > FragTimeout

Expired(g) == fragments[g].age + 1 > FragTimeout

\* Mutant: the main loop does not call cleanup_fragments.
TickOnly ==
    /\ excused' = excused \cup {p.piece[1] : p \in wire}
    /\ UNCHANGED <<vars, senderVars, wire, fragments, written, damaged>>

\* A second passes and the main loop calls cleanup_fragments.
Tick ==
    /\ fragments' = [g \in {h \in DOMAIN fragments : ~Expired(h)} |->
                        [fragments[g] EXCEPT !.age = @ + 1]]
    /\ excused' = excused \cup {p.piece[1] : p \in wire}
    /\ UNCHANGED <<vars, senderVars, wire, written, damaged>>

-----------------------------------------------------------------------------
InTransit ==
    \E p \in wire : Deliver(p) \/ Duplicate(p) \/ Lose(p) \/ \E c \in Ids : Damage(p, c)

ChannelNext == Tick \/ InTransit \/ \E pk \in Packets : ClientTunReadable(pk)

ChannelSafe == ChannelInit /\ [][ChannelNext]_channelVars

\* A datagram that is not lost arrives, and the main loop goes round.
Arrival == \E p \in wire : Deliver(p)
ChannelSpec == ChannelSafe /\ WF_channelVars(Arrival) /\ WF_channelVars(Tick)

\* The other direction.
DownSpec ==
    /\ ChannelInit
    /\ [][Tick \/ InTransit \/ \E pk \in Packets : ServerTunReadable(pk)]_channelVars
    /\ WF_channelVars(Arrival) /\ WF_channelVars(Tick)

-----------------------------------------------------------------------------
(***************************************************************************)
(* Every fragment group holds pieces of one packet, under the counter of   *)
(* that packet's first piece, whatever arrived late, twice or damaged: a   *)
(* group is never joined by a piece of another packet, and the total it    *)
(* waits for is the right one.                                             *)
(***************************************************************************)
GroupOf(g, pk) ==
    /\ pk \in DOMAIN sent
    /\ sent[pk] = g
    /\ fragments[g].total = Pieces[pk]
    /\ DOMAIN fragments[g].parts \subseteq 0..(Pieces[pk] - 1)
    /\ \A i \in DOMAIN fragments[g].parts : fragments[g].parts[i] = Piece(pk, i)

GroupsPure == \A g \in DOMAIN fragments : \E pk \in Packets : GroupOf(g, pk)

(***************************************************************************)
(* The channel implements PacketDelivery: the receiver's tun device is     *)
(* given whole packets the sender's handed over, each at most once, under  *)
(* loss, duplication, reordering, damage and fragment timeouts.            *)
(***************************************************************************)
Delivery == INSTANCE PacketDelivery WITH
    Plaintexts <- {Plain(pk) : pk \in Packets},
    taken <- {Plain(pk) : pk \in DOMAIN sent},
    written <- written

ImplementsDelivery == Delivery!DeliverySpec

(***************************************************************************)
(* A packet is delivered unless one of its pieces was lost, took longer    *)
(* than the second it was sent in, or was overtaken by a whole window, or  *)
(* some datagram was damaged.  README.md: "DATA | Bidirectional".          *)
(***************************************************************************)
Arrives ==
    \A pk \in Packets :
        pk \in DOMAIN sent ~> \/ \E k \in 1..Len(written) : written[k] = Plain(pk)
                              \/ pk \in excused
                              \/ damaged > 0

(***************************************************************************)
(* Whatever is lost, the receiver's fragment buffers are empty again and   *)
(* again: FRAG_TIMEOUT also ends a group that a late piece opened anew.    *)
(***************************************************************************)
BuffersReclaimed == []<>(DOMAIN fragments = {})
=============================================================================
