------------------------- MODULE DataChannelProofs -------------------------
(***************************************************************************)
(* The data channel keeps its fragment groups pure and implements          *)
(* PacketDelivery, for every window size, every set of packets of any      *)
(* number of pieces, every counter width and fragment timeout.             *)
(***************************************************************************)
EXTENDS DataChannel, ReplayWindowProofs

Indexes(pk) == 0..(Pieces[pk] - 1)

\* The counters of a packet lie below packet_counter.
Numbered ==
    \A pk \in DOMAIN sent :
        /\ sent[pk] \in 1..CounterMax
        /\ sent[pk] + Pieces[pk] - 1 <= packet_counter
        /\ sent[pk] + Pieces[pk] - 1 <= CounterMax

\* No counter is used for two packets.
Disjoint ==
    \A pk, qk \in DOMAIN sent : \A i \in Indexes(pk), j \in Indexes(qk) :
        sent[pk] + i = sent[qk] + j => pk = qk

\* What is in flight is a piece of a packet, under that packet's counter.
PieceOf(p, pk, i) == pk \in DOMAIN sent /\ i \in Indexes(pk) /\ p = EncryptOne(pk, i, sent[pk])
WireGenuine == \A p \in wire : \E pk \in Packets : \E i \in Nat : PieceOf(p, pk, i)

\* A group is pure, and the window has accepted the counters of its parts.
GroupBuilt(g, pk) ==
    /\ GroupOf(g, pk)
    /\ fragments[g].age \in 0..FragTimeout
    /\ fragments[g] = [total |-> fragments[g].total, parts |-> fragments[g].parts,
                       age |-> fragments[g].age]
    /\ \A i \in DOMAIN fragments[g].parts : g + i \in accepted
GroupsBuilt == \A g \in DOMAIN fragments : \E pk \in Packets : GroupBuilt(g, pk)

\* A packet that was written had all its counters accepted, and was written
\* once.
Complete(pk) == pk \in DOMAIN sent /\ \A i \in Indexes(pk) : sent[pk] + i \in accepted
WrittenWhole ==
    \A k \in 1..Len(written) : \E pk \in Packets : written[k] = Plain(pk) /\ Complete(pk)
WrittenOnce == \A k, l \in 1..Len(written) : written[k] = written[l] => k = l

SenderInv == Numbered /\ Disjoint
ReceiverInv == GroupsBuilt /\ WrittenWhole /\ WrittenOnce

ChannelInv == IInv /\ ChannelTypeOK /\ SenderInv /\ WireGenuine /\ ReceiverInv

\* Two packets with the same plaintext are the same packet.
LEMMA PlainDiffers ==
    ASSUME NEW pk \in Packets, NEW qk \in Packets, Plain(pk) = Plain(qk)
    PROVE  pk = qk
<1>1. 0 \in 0..(Pieces[pk] - 1) /\ 0 \in 0..(Pieces[qk] - 1)
  BY PiecesAssumption
<1>2. Plain(pk)[0] = <<pk, 0>> /\ Plain(qk)[0] = <<qk, 0>>
  BY <1>1 DEF Plain, Piece
<1> QED BY <1>2

LEMMA InitBuilds == ChannelInit => ChannelInv
<1> SUFFICES ASSUME ChannelInit PROVE ChannelInv
  OBVIOUS
<1>1. IInv
  BY WindowSizeAssumption, IdsAssumption DEF ChannelInit, Init, IInv, TypeOK, WindowExact
<1>2. written = << >> /\ Len(written) = 0
  BY DEF ChannelInit
<1>3. ChannelTypeOK /\ SenderInv /\ WireGenuine
  BY CountersAssumption, BoundsAssumption
  DEF ChannelInit, ChannelTypeOK, SenderInv, Numbered, Disjoint, WireGenuine
<1>4. ReceiverInv
  BY <1>2 DEF ChannelInit, ReceiverInv, GroupsBuilt, WrittenWhole, WrittenOnce
<1> QED BY <1>1, <1>3, <1>4 DEF ChannelInv

\* What check() does to the window, whatever the counter it is shown.
LEMMA CheckRemembers ==
    ASSUME IInv, NEW c \in Ids, Check(c)
    PROVE  /\ IInv'
           /\ accepted \subseteq accepted'
           /\ verdict'.ok \in BOOLEAN
           /\ verdict'.ok => c \notin accepted /\ c \in accepted'
<1>1. IInv'
  BY StepKeepsExact DEF Next
<1>2. Dedup!Offer(c)
  BY CheckOffers
<1>3. verdict' = [id |-> c, ok |-> Dedup!Fresh(c)]
  BY <1>2 DEF Dedup!Offer
<1>4. verdict'.ok = Dedup!Fresh(c)
  BY <1>3
<1>5. accepted' = IF Dedup!Fresh(c) THEN accepted \cup {c} ELSE accepted
  BY <1>2 DEF Dedup!Offer
<1>6. Dedup!Fresh(c) \in BOOLEAN
  BY DEF Dedup!Fresh, Dedup!Recent
<1> QED BY <1>1, <1>4, <1>5, <1>6 DEF Dedup!Fresh

\* A piece of a packet carries its counter and its total.
LEMMA PieceFacts ==
    ASSUME ChannelInv, NEW pk \in Packets, NEW i \in Nat, NEW p, PieceOf(p, pk, i)
    PROVE  /\ p.counter = sent[pk] + i /\ p.total = Pieces[pk] /\ p.index = i
           /\ p.piece = <<pk, i>>
           /\ i \in 0..(Pieces[pk] - 1) /\ Pieces[pk] \in Nat \ {0}
           /\ sent[pk] \in 1..CounterMax /\ p.counter \in 1..CounterMax
           /\ p.counter \in Ids
           /\ p.counter - p.index = sent[pk]
<1>1. Pieces[pk] \in Nat \ {0}
  BY PiecesAssumption
<1>2. pk \in DOMAIN sent /\ i \in 0..(Pieces[pk] - 1) /\ p = EncryptOne(pk, i, sent[pk])
  BY DEF PieceOf, Indexes
<1>3. p.counter = sent[pk] + i /\ p.total = Pieces[pk] /\ p.index = i /\ p.piece = <<pk, i>>
  BY <1>2 DEF EncryptOne, Piece
<1>4. sent[pk] \in 1..CounterMax /\ sent[pk] + Pieces[pk] - 1 <= CounterMax
  BY <1>2 DEF ChannelInv, SenderInv, Numbered
<1> QED BY <1>1, <1>2, <1>3, <1>4, CountersAssumption

-----------------------------------------------------------------------------
\* Numbering a new packet uses counters nobody used before.
LEMMA EncryptBuilds ==
    ASSUME ChannelInv, NEW pk \in Packets, NEW out,
           out = {} \/ out = {EncryptOne(pk, i, First) : i \in 0..(Pieces[pk] - 1)},
           Encrypt(pk, out)
    PROVE  ChannelInv'
<1> USE CountersAssumption DEF ChannelInv
<1>0. Pieces \in [Packets -> Nat \ {0}] /\ Pieces[pk] \in Nat \ {0}
  BY PiecesAssumption
<1>1. /\ pk \notin DOMAIN sent /\ packet_counter \in 0..(CounterMax + 1)
      /\ First = packet_counter + 1 /\ Last(pk) = First + Pieces[pk] - 1
      /\ Last(pk) <= CounterMax
      /\ packet_counter' = Last(pk)
      /\ DOMAIN sent' = DOMAIN sent \cup {pk} /\ sent'[pk] = First
      /\ \A q \in DOMAIN sent : sent'[q] = sent[q]
      /\ wire' = wire \cup out
      /\ excused' = excused \cup OvertakenBy(Last(pk))
      /\ UNCHANGED <<vars, fragments, written, damaged>>
  BY DEF Encrypt, First, Last, Advance, ChannelTypeOK, receiverVars
<1>2. First \in 1..CounterMax
  BY <1>0, <1>1
<1>3. IInv'
  BY <1>1 DEF IInv, TypeOK, WindowExact, vars
<1>4. Numbered'
  <2> SUFFICES ASSUME NEW q \in DOMAIN sent'
               PROVE  /\ sent'[q] \in 1..CounterMax
                      /\ sent'[q] + Pieces[q] - 1 <= packet_counter'
                      /\ sent'[q] + Pieces[q] - 1 <= CounterMax
    BY DEF Numbered
  <2>1. CASE q = pk
    BY <2>1, <1>0, <1>1, <1>2
  <2>2. CASE q \in DOMAIN sent
    <3>1. /\ sent[q] \in 1..CounterMax /\ Pieces[q] \in Nat
          /\ sent[q] + Pieces[q] - 1 <= packet_counter
          /\ sent[q] + Pieces[q] - 1 <= CounterMax
      BY <2>2, <1>0 DEF SenderInv, Numbered, ChannelTypeOK
    <3> QED BY <3>1, <2>2, <1>0, <1>1
  <2> QED BY <2>1, <2>2, <1>1
<1>5. Disjoint'
  <2> SUFFICES ASSUME NEW q \in DOMAIN sent', NEW r \in DOMAIN sent',
                      NEW i \in Indexes(q), NEW j \in Indexes(r),
                      sent'[q] + i = sent'[r] + j
               PROVE  q = r
    BY DEF Disjoint, Indexes
  <2>1. ASSUME NEW s \in DOMAIN sent, NEW k \in Indexes(s)
        PROVE  sent'[s] + k < First /\ sent'[s] + k \in Nat
    <3>1. sent[s] \in 1..CounterMax /\ sent[s] + Pieces[s] - 1 <= packet_counter /\ Pieces[s] \in Nat
      BY <1>0 DEF SenderInv, Numbered, ChannelTypeOK
    <3> QED BY <3>1, <1>1 DEF Indexes
  <2>2. \A k \in Indexes(pk) : First + k >= First
    BY <1>2 DEF Indexes
  <2>3. CASE q \in DOMAIN sent /\ r \in DOMAIN sent
    BY <2>3, <1>1 DEF SenderInv, Disjoint
  <2>4. CASE q = pk /\ r \in DOMAIN sent
    BY <2>1, <2>2, <2>4, <1>1, <1>2
  <2>5. CASE r = pk /\ q \in DOMAIN sent
    BY <2>1, <2>2, <2>5, <1>1, <1>2
  <2> QED BY <2>3, <2>4, <2>5, <1>1
<1>6. WireGenuine'
  <2> SUFFICES ASSUME NEW p \in wire'
               PROVE  \E q \in Packets : \E i \in Nat : PieceOf(p, q, i)'
    BY DEF WireGenuine
  <2>1. CASE p \in wire
    <3>1. PICK q \in Packets, i \in Nat : PieceOf(p, q, i)
      BY <2>1 DEF WireGenuine
    <3>2. PieceOf(p, q, i)'
      BY <3>1, <1>1 DEF PieceOf, Indexes, EncryptOne, Piece
    <3> QED BY <3>2
  <2>2. CASE p \in out
    <3>1. PICK i \in 0..(Pieces[pk] - 1) : p = EncryptOne(pk, i, First)
      BY <2>2
    <3>2. PieceOf(p, pk, i)'
      BY <3>1, <1>1 DEF PieceOf, Indexes, EncryptOne, Piece
    <3> QED BY <3>1, <3>2, <1>0
  <2> QED BY <2>1, <2>2, <1>1
<1>7. GroupsBuilt'
  <2> SUFFICES ASSUME NEW g \in DOMAIN fragments
               PROVE  \E q \in Packets : GroupBuilt(g, q)'
    BY <1>1 DEF GroupsBuilt
  <2>1. PICK q \in Packets : GroupBuilt(g, q)
    BY DEF ReceiverInv, GroupsBuilt
  <2>2. GroupBuilt(g, q)'
    BY <2>1, <1>1 DEF GroupBuilt, GroupOf, Piece, vars
  <2> QED BY <2>2
<1>8. WrittenWhole' /\ WrittenOnce'
  BY <1>1 DEF ReceiverInv, WrittenWhole, WrittenOnce, Complete, Indexes, Plain, Piece, vars
<1>9. ChannelTypeOK'
  <2>1. \A p \in wire : p.piece[1] \in Packets
    <3> TAKE p \in wire
    <3>1. PICK q \in Packets, i \in Nat : PieceOf(p, q, i)
      BY DEF WireGenuine
    <3> QED BY <3>1, PieceFacts
  <2>2. excused' \subseteq Packets
    BY <2>1, <1>1 DEF OvertakenBy, ChannelTypeOK
  <2>3. \A p \in wire' : p.counter \in 1..CounterMax /\ p.index \in 0..(p.total - 1)
    <3> TAKE p \in wire'
    <3>1. CASE p \in wire
      BY <3>1 DEF ChannelTypeOK
    <3>2. CASE p \in out
      <4>1. PICK i \in 0..(Pieces[pk] - 1) : p = EncryptOne(pk, i, First)
        BY <3>2
      <4>2. p.counter = First + i /\ p.index = i /\ p.total = Pieces[pk]
        BY <4>1 DEF EncryptOne
      <4> QED BY <4>1, <4>2, <1>0, <1>1, <1>2
    <3> QED BY <3>1, <3>2, <1>1
  <2>4. /\ packet_counter' \in 0..(CounterMax + 1)
        /\ DOMAIN sent' \subseteq Packets
        /\ \A q \in DOMAIN sent' : sent'[q] \in 1..CounterMax
    BY <1>0, <1>1, <1>2 DEF ChannelTypeOK
  <2>5. written' \in Seq({Plain(q) : q \in Packets})
    BY <1>1 DEF ChannelTypeOK
  <2> QED BY <2>2, <2>3, <2>4, <2>5, <1>1 DEF ChannelTypeOK, Plain
<1> QED BY <1>3, <1>4, <1>5, <1>6, <1>7, <1>8, <1>9 DEF SenderInv, ReceiverInv

-----------------------------------------------------------------------------
\* The group of a genuine piece waits for that packet and no other.
LEMMA BufferFacts ==
    ASSUME ChannelInv, NEW pk \in Packets, NEW i \in Nat, NEW p, PieceOf(p, pk, i)
    PROVE  /\ GroupId(p) = sent[pk]
           /\ Buffer(p).total = Pieces[pk]
           /\ DOMAIN Buffer(p).parts \subseteq Indexes(pk)
           /\ \A j \in DOMAIN Buffer(p).parts :
                 Buffer(p).parts[j] = Piece(pk, j) /\ sent[pk] + j \in accepted
           /\ Buffer(p).age \in 0..FragTimeout
           /\ Buffer(p) = [total |-> Buffer(p).total, parts |-> Buffer(p).parts,
                           age |-> Buffer(p).age]
<1>1. /\ p.total = Pieces[pk] /\ Pieces[pk] \in Nat \ {0} /\ sent[pk] \in 1..CounterMax
      /\ GroupId(p) = sent[pk] /\ pk \in DOMAIN sent
  BY PieceFacts DEF GroupId, PieceOf
<1>2. CASE sent[pk] \in DOMAIN fragments
  <2>1. Buffer(p) = fragments[sent[pk]]
    BY <1>1, <1>2 DEF Buffer
  <2>2. PICK qk \in Packets : GroupBuilt(sent[pk], qk)
    BY <1>2 DEF ChannelInv, ReceiverInv, GroupsBuilt
  <2>3. qk \in DOMAIN sent /\ sent[qk] = sent[pk] /\ Pieces[qk] \in Nat \ {0}
    BY <2>2, PiecesAssumption DEF GroupBuilt, GroupOf
  <2>4. 0 \in Indexes(pk) /\ 0 \in Indexes(qk)
    BY <1>1, <2>3 DEF Indexes
  <2>5. qk = pk
    BY <1>1, <2>3, <2>4 DEF ChannelInv, SenderInv, Disjoint
  <2> QED BY <2>1, <2>2, <2>5, <1>1 DEF GroupBuilt, GroupOf, Indexes
<1>3. CASE sent[pk] \notin DOMAIN fragments
  <2>1. Buffer(p) = [total |-> p.total, parts |-> [k \in {} |-> p.piece], age |-> 0]
    BY <1>1, <1>3 DEF Buffer
  <2> QED BY <2>1, <1>1, BoundsAssumption
<1> QED BY <1>2, <1>3

\* A packet none of whose pieces was written yet.
NotOut(pk) == \A k \in 1..Len(written) : written[k] # Plain(pk)

\* What the receiver does with a genuine datagram: it may write the packet
\* the datagram belongs to, which is then complete and was not written before.
LEMMA DecryptWrites ==
    ASSUME ChannelInv, NEW p \in wire, Decrypt(p), UNCHANGED senderVars
    PROVE  /\ IInv'
           /\ GroupsBuilt'
           /\ accepted \subseteq accepted'
           /\ \/ written' = written
              \/ \E pk \in Packets : /\ Complete(pk)' /\ NotOut(pk)
                                     /\ written' = Append(written, Plain(pk))
<1>1. PICK pk \in Packets, i \in Nat : PieceOf(p, pk, i)
  BY DEF ChannelInv, WireGenuine
<1>2. /\ p.counter = sent[pk] + i /\ p.total = Pieces[pk] /\ p.index = i
      /\ p.piece = <<pk, i>>
      /\ i \in 0..(Pieces[pk] - 1) /\ Pieces[pk] \in Nat \ {0}
      /\ p.counter \in Ids /\ sent[pk] \in 1..CounterMax
      /\ pk \in DOMAIN sent
  BY <1>1, PieceFacts DEF PieceOf
<1>3. /\ IInv' /\ accepted \subseteq accepted' /\ verdict'.ok \in BOOLEAN
      /\ verdict'.ok => p.counter \notin accepted /\ p.counter \in accepted'
  BY <1>2, CheckRemembers DEF Decrypt, ChannelInv
<1>4. sent' = sent
  BY DEF senderVars
<1>5. ASSUME NEW g \in DOMAIN fragments, NEW qk \in Packets, GroupBuilt(g, qk),
             fragments'[g] = fragments[g]
      PROVE  GroupBuilt(g, qk)'
  BY <1>5, <1>3, <1>4 DEF GroupBuilt, GroupOf, Piece
<1>6. ASSUME UNCHANGED fragments PROVE GroupsBuilt'
  BY <1>5, <1>6 DEF GroupsBuilt, ChannelInv, ReceiverInv
<1>7. ASSUME verdict'.ok PROVE NotOut(pk)
  <2> SUFFICES ASSUME NEW k \in 1..Len(written), written[k] = Plain(pk) PROVE FALSE
    BY DEF NotOut
  <2>1. PICK qk \in Packets : written[k] = Plain(qk) /\ Complete(qk)
    BY DEF ChannelInv, ReceiverInv, WrittenWhole
  <2>2. qk = pk
    BY <2>1, PlainDiffers
  <2> QED BY <1>2, <1>3, <1>7, <2>1, <2>2 DEF Complete, Indexes
<1>8. CASE ~verdict'.ok
  <2>1. UNCHANGED <<fragments, written>>
    BY <1>8 DEF Decrypt, receiverVars
  <2> QED BY <2>1, <1>3, <1>6
<1>9. CASE verdict'.ok /\ p.total = 1
  <2>1. UNCHANGED fragments /\ written' = Append(written, [k \in {0} |-> p.piece])
    BY <1>9 DEF Decrypt, Write
  <2>2. 0..(Pieces[pk] - 1) = {0} /\ i = 0
    BY <1>2, <1>9
  <2>3. [k \in {0} |-> p.piece] = Plain(pk)
    BY <1>2, <2>2 DEF Plain, Piece
  <2>4. Complete(pk)'
    BY <1>2, <1>3, <1>4, <1>9, <2>2 DEF Complete, Indexes
  <2> QED BY <2>1, <2>3, <2>4, <1>3, <1>6, <1>7, <1>9
<1>10. CASE verdict'.ok /\ p.total > 1
  <2> DEFINE g == sent[pk]
             B == Buffer(p)
             P == Parts(p)
  <2>1. Reassemble(p)
    BY <1>10 DEF Decrypt
  <2>2. /\ GroupId(p) = g /\ B.total = Pieces[pk] /\ DOMAIN B.parts \subseteq Indexes(pk)
        /\ \A j \in DOMAIN B.parts : B.parts[j] = Piece(pk, j) /\ g + j \in accepted
        /\ B.age \in 0..FragTimeout
        /\ B = [total |-> B.total, parts |-> B.parts, age |-> B.age]
    BY <1>1, BufferFacts
  <2>3. /\ DOMAIN P = DOMAIN B.parts \cup {i}
        /\ DOMAIN P \subseteq Indexes(pk)
        /\ P = [j \in DOMAIN P |-> Piece(pk, j)]
    <3>1. P = [j \in DOMAIN B.parts \cup {i} |-> IF j = i THEN p.piece ELSE B.parts[j]]
      BY <1>2 DEF Parts
    <3>2. \A j \in DOMAIN B.parts \cup {i} : P[j] = Piece(pk, j)
      BY <3>1, <1>2, <2>2 DEF Piece
    <3> QED BY <3>1, <3>2, <2>2, <1>2 DEF Indexes
  <2>4. \A j \in DOMAIN P : g + j \in accepted'
    BY <1>2, <1>3, <1>10, <2>2, <2>3
  <2>5. ASSUME NEW h \in DOMAIN fragments, h # g, fragments'[h] = fragments[h]
        PROVE  \E qk \in Packets : GroupBuilt(h, qk)'
    <3>1. PICK qk \in Packets : GroupBuilt(h, qk)
      BY DEF ChannelInv, ReceiverInv, GroupsBuilt
    <3> QED BY <3>1, <2>5, <1>5
  <2>6. CASE DOMAIN P = 0..(p.total - 1)
    <3>1. fragments' = Without(g) /\ written' = Append(written, P)
      BY <2>1, <2>2, <2>6, <1>2 DEF Reassemble, Write
    <3>2. P = Plain(pk)
      BY <2>3, <2>6, <1>2 DEF Plain, Piece
    <3>3. Complete(pk)'
      BY <2>4, <2>6, <1>2, <1>4 DEF Complete, Indexes
    <3>4. GroupsBuilt'
      BY <3>1, <2>5 DEF Without, GroupsBuilt
    <3> QED BY <3>1, <3>2, <3>3, <3>4, <1>3, <1>7, <1>10
  <2>7. CASE DOMAIN P # 0..(p.total - 1)
    <3>1. /\ written' = written
          /\ fragments' = [h \in DOMAIN fragments \cup {g} |->
                              IF h = g THEN [B EXCEPT !.parts = P] ELSE fragments[h]]
      BY <2>1, <2>2, <2>7, <1>2 DEF Reassemble
    <3>2. fragments'[g] = [total |-> Pieces[pk], parts |-> P, age |-> B.age]
      BY <3>1, <2>2
    <3>3. GroupBuilt(g, pk)'
      BY <3>2, <2>2, <2>3, <2>4, <1>2, <1>4 DEF GroupBuilt, GroupOf, Indexes, Piece
    <3>4. ASSUME NEW h \in DOMAIN fragments' PROVE \E qk \in Packets : GroupBuilt(h, qk)'
      <4>1. CASE h = g
        <5>1. GroupBuilt(h, pk)'
          BY <3>3, <4>1, <1>4 DEF GroupBuilt, GroupOf
        <5> QED BY <5>1
      <4>2. CASE h # g
        <5>1. h \in DOMAIN fragments /\ fragments'[h] = fragments[h]
          BY <3>1, <4>2
        <5> QED BY <5>1, <4>2, <2>5
      <4> QED BY <4>1, <4>2
    <3> QED BY <3>1, <3>4, <1>3 DEF GroupsBuilt
  <2> QED BY <2>6, <2>7
<1> QED BY <1>2, <1>3, <1>8, <1>9, <1>10

\* Appending a complete packet that is not there keeps the output in order.
LEMMA WritesOnce ==
    ASSUME ChannelInv, UNCHANGED senderVars, accepted \subseteq accepted',
           \/ written' = written
           \/ \E pk \in Packets : Complete(pk)' /\ NotOut(pk) /\ written' = Append(written, Plain(pk))
    PROVE  /\ WrittenWhole' /\ WrittenOnce'
           /\ written' \in Seq({Plain(pk) : pk \in Packets})
<1>1. sent' = sent /\ written \in Seq({Plain(pk) : pk \in Packets})
  BY DEF senderVars, ChannelInv, ChannelTypeOK
<1>2. ASSUME NEW pk \in Packets, Complete(pk) PROVE Complete(pk)'
  BY <1>1, <1>2 DEF Complete, Indexes
<1>3. CASE written' = written
  <2>1. WrittenWhole'
    BY <1>2, <1>3 DEF ChannelInv, ReceiverInv, WrittenWhole, Plain, Piece
  <2> QED BY <2>1, <1>1, <1>3 DEF ChannelInv, ReceiverInv, WrittenOnce
<1>4. ASSUME NEW pk \in Packets, Complete(pk)', NotOut(pk), written' = Append(written, Plain(pk))
      PROVE  /\ WrittenWhole' /\ WrittenOnce'
             /\ written' \in Seq({Plain(q) : q \in Packets})
  <2>1. /\ Len(written) \in Nat /\ Len(written') = Len(written) + 1
        /\ \A k \in 1..Len(written) : written'[k] = written[k]
        /\ written'[Len(written) + 1] = Plain(pk)
        /\ written' \in Seq({Plain(q) : q \in Packets})
    BY <1>1, <1>4
  <2>2. WrittenWhole'
    <3> SUFFICES ASSUME NEW k \in 1..Len(written')
                 PROVE  \E q \in Packets : written'[k] = Plain(q) /\ Complete(q)'
      BY DEF WrittenWhole, Plain, Piece
    <3>1. CASE k \in 1..Len(written)
      BY <3>1, <2>1, <1>2 DEF ChannelInv, ReceiverInv, WrittenWhole
    <3>2. CASE k = Len(written) + 1
      BY <3>2, <2>1, <1>4
    <3> QED BY <3>1, <3>2, <2>1
  <2>3. WrittenOnce'
    <3> SUFFICES ASSUME NEW k \in 1..Len(written'), NEW l \in 1..Len(written'),
                        written'[k] = written'[l]
                 PROVE  k = l
      BY DEF WrittenOnce
    <3>1. CASE k \in 1..Len(written) /\ l \in 1..Len(written)
      BY <3>1, <2>1 DEF ChannelInv, ReceiverInv, WrittenOnce
    <3>2. CASE k = Len(written) + 1 /\ l \in 1..Len(written)
      BY <3>2, <2>1, <1>4 DEF NotOut
    <3>3. CASE l = Len(written) + 1 /\ k \in 1..Len(written)
      BY <3>3, <2>1, <1>4 DEF NotOut
    <3> QED BY <3>1, <3>2, <3>3, <2>1
  <2> QED BY <2>1, <2>2, <2>3
<1> QED BY <1>3, <1>4

-----------------------------------------------------------------------------
\* Taking datagrams off the wire and excusing packets disturbs neither the
\* sender's numbers nor what is still in flight.
LEMMA FramedBySender ==
    ASSUME ChannelInv, UNCHANGED senderVars, wire' \subseteq wire
    PROVE  SenderInv' /\ WireGenuine'
<1>1. sent' = sent /\ packet_counter' = packet_counter
  BY DEF senderVars
<1>2. SenderInv'
  BY <1>1 DEF ChannelInv, SenderInv, Numbered, Disjoint, Indexes
<1>3. WireGenuine'
  BY <1>1 DEF ChannelInv, WireGenuine, PieceOf, Indexes, EncryptOne, Piece
<1> QED BY <1>2, <1>3

\* The types follow from the other conjuncts.
LEMMA FramedTypes ==
    ASSUME ChannelInv, UNCHANGED senderVars, wire' \subseteq wire, GroupsBuilt',
           written' \in Seq({Plain(pk) : pk \in Packets}),
           excused' \subseteq excused \cup {p.piece[1] : p \in wire},
           damaged' \in 0..MaxDamaged
    PROVE  ChannelTypeOK'
<1>1. sent' = sent /\ packet_counter' = packet_counter
  BY DEF senderVars
<1>2. \A p \in wire : p.piece[1] \in Packets
  <2> TAKE p \in wire
  <2>1. PICK q \in Packets, i \in Nat : PieceOf(p, q, i)
    BY DEF ChannelInv, WireGenuine
  <2> QED BY <2>1, PieceFacts
<1>3. ASSUME NEW g \in DOMAIN fragments'
      PROVE  g \in 1..CounterMax /\ fragments'[g].age \in 0..FragTimeout
  <2>1. PICK pk \in Packets : GroupBuilt(g, pk)'
    BY DEF GroupsBuilt
  <2> QED BY <2>1, <1>1 DEF GroupBuilt, GroupOf, ChannelInv, ChannelTypeOK
<1>4. /\ packet_counter' \in 0..(CounterMax + 1) /\ DOMAIN sent' \subseteq Packets
      /\ \A pk \in DOMAIN sent' : sent'[pk] \in 1..CounterMax
      /\ \A p \in wire' : p.counter \in 1..CounterMax /\ p.index \in 0..(p.total - 1)
  BY <1>1 DEF ChannelInv, ChannelTypeOK
<1>5. excused' \subseteq Packets
  BY <1>2 DEF ChannelInv, ChannelTypeOK
<1> QED BY <1>3, <1>4, <1>5 DEF ChannelTypeOK, Plain, Piece

\* A datagram is decrypted, lost or damaged.
LEMMA TransitBuilds == ASSUME ChannelInv, InTransit PROVE ChannelInv'
<1>1. PICK p \in wire : Deliver(p) \/ Duplicate(p) \/ Lose(p) \/ \E c \in Ids : Damage(p, c)
  BY DEF InTransit
<1>2. UNCHANGED senderVars /\ wire' \subseteq wire
  BY <1>1 DEF Deliver, Duplicate, Lose, Damage
<1>3. damaged \in 0..MaxDamaged /\ written \in Seq({Plain(pk) : pk \in Packets})
  BY DEF ChannelInv, ChannelTypeOK
<1>4. CASE Deliver(p) \/ Duplicate(p)
  <2>1. Decrypt(p) /\ UNCHANGED <<excused, damaged>>
    BY <1>4 DEF Deliver, Duplicate
  <2>2. /\ IInv' /\ GroupsBuilt' /\ accepted \subseteq accepted'
        /\ WrittenWhole' /\ WrittenOnce'
        /\ written' \in Seq({Plain(pk) : pk \in Packets})
    BY <2>1, <1>2, DecryptWrites, WritesOnce
  <2>3. excused' \subseteq excused \cup {q.piece[1] : q \in wire} /\ damaged' \in 0..MaxDamaged
    BY <2>1, <1>3
  <2>4. ChannelTypeOK' /\ SenderInv' /\ WireGenuine'
    BY <2>2, <2>3, <1>2, FramedBySender, FramedTypes
  <2> QED BY <2>2, <2>4 DEF ChannelInv, ReceiverInv
<1>5. CASE Lose(p) \/ \E c \in Ids : Damage(p, c)
  <2>1. UNCHANGED <<fragments, written>> /\ sent' = sent
    BY <1>5, <1>2 DEF Lose, Damage, receiverVars, senderVars
  <2>2. IInv' /\ accepted \subseteq accepted'
    <3>1. CASE Lose(p)
      BY <3>1 DEF Lose, vars, ChannelInv, IInv, TypeOK, WindowExact
    <3>2. CASE \E c \in Ids : Damage(p, c)
      BY <3>2, CheckRemembers DEF Damage, ChannelInv
    <3> QED BY <1>5, <3>1, <3>2
  <2>3. GroupsBuilt'
    BY <2>1, <2>2 DEF ChannelInv, ReceiverInv, GroupsBuilt, GroupBuilt, GroupOf, Piece
  <2>4. /\ WrittenWhole' /\ WrittenOnce'
        /\ written' \in Seq({Plain(pk) : pk \in Packets})
    BY <2>1, <2>2, <1>2, WritesOnce
  <2>5. excused' \subseteq excused \cup {q.piece[1] : q \in wire} /\ damaged' \in 0..MaxDamaged
    BY <1>5, <1>3, BoundsAssumption DEF Lose, Damage
  <2>6. ChannelTypeOK' /\ SenderInv' /\ WireGenuine'
    BY <2>3, <2>4, <2>5, <1>2, FramedBySender, FramedTypes
  <2> QED BY <2>2, <2>3, <2>4, <2>6 DEF ChannelInv, ReceiverInv
<1> QED BY <1>1, <1>4, <1>5

\* cleanup_fragments drops groups and changes none.
LEMMA TickBuilds == ASSUME ChannelInv, Tick PROVE ChannelInv'
<1>1. /\ UNCHANGED senderVars /\ wire' \subseteq wire /\ UNCHANGED <<vars, written, damaged>>
      /\ excused' \subseteq excused \cup {p.piece[1] : p \in wire}
      /\ damaged' \in 0..MaxDamaged
      /\ sent' = sent /\ accepted' = accepted
  BY DEF Tick, senderVars, vars, ChannelInv, ChannelTypeOK
<1>2. IInv'
  BY <1>1 DEF vars, ChannelInv, IInv, TypeOK, WindowExact
<1>3. GroupsBuilt'
  <2> SUFFICES ASSUME NEW g \in DOMAIN fragments'
               PROVE  \E pk \in Packets : GroupBuilt(g, pk)'
    BY DEF GroupsBuilt
  <2>1. /\ g \in DOMAIN fragments /\ ~Expired(g)
        /\ fragments'[g] = [fragments[g] EXCEPT !.age = @ + 1]
    BY DEF Tick
  <2>2. PICK pk \in Packets : GroupBuilt(g, pk)
    BY <2>1 DEF ChannelInv, ReceiverInv, GroupsBuilt
  <2>3. /\ fragments'[g] = [total |-> fragments[g].total, parts |-> fragments[g].parts,
                            age |-> fragments[g].age + 1]
        /\ fragments[g].age + 1 \in 0..FragTimeout
    BY <2>1, <2>2, BoundsAssumption DEF GroupBuilt, Expired
  <2>4. GroupBuilt(g, pk)'
    BY <2>2, <2>3, <1>1 DEF GroupBuilt, GroupOf, Piece
  <2> QED BY <2>4
<1>4. /\ WrittenWhole' /\ WrittenOnce'
      /\ written' \in Seq({Plain(pk) : pk \in Packets})
  BY <1>1, WritesOnce
<1>5. ChannelTypeOK' /\ SenderInv' /\ WireGenuine'
  BY <1>1, <1>3, <1>4, FramedBySender, FramedTypes
<1> QED BY <1>2, <1>3, <1>4, <1>5 DEF ChannelInv, ReceiverInv

\* An encrypt() that raises moves the counter and nothing else.
LEMMA RaiseBuilds ==
    ASSUME ChannelInv, NEW pk \in Packets, EncryptRaises(pk) PROVE ChannelInv'
<1>1. /\ UNCHANGED <<vars, sent, wire, fragments, written, excused, damaged>>
      /\ packet_counter \in 0..(CounterMax + 1) /\ packet_counter' \in 0..(CounterMax + 1)
      /\ packet_counter' >= packet_counter
  BY CountersAssumption DEF EncryptRaises, receiverVars, First, ChannelInv, ChannelTypeOK
<1>2. Numbered'
  <2> SUFFICES ASSUME NEW q \in DOMAIN sent
               PROVE  /\ sent[q] \in 1..CounterMax
                      /\ sent[q] + Pieces[q] - 1 <= packet_counter'
                      /\ sent[q] + Pieces[q] - 1 <= CounterMax
    BY <1>1 DEF Numbered
  <2>1. /\ sent[q] \in 1..CounterMax /\ sent[q] + Pieces[q] - 1 <= packet_counter
        /\ sent[q] + Pieces[q] - 1 <= CounterMax /\ Pieces[q] \in Nat
    BY PiecesAssumption DEF ChannelInv, ChannelTypeOK, SenderInv, Numbered
  <2> QED BY <2>1, <1>1, CountersAssumption
<1>3. IInv' /\ Disjoint' /\ WireGenuine'
  BY <1>1 DEF ChannelInv, SenderInv, IInv, TypeOK, WindowExact, vars, Disjoint, Indexes,
              WireGenuine, PieceOf, EncryptOne, Piece
<1>4. ReceiverInv'
  BY <1>1 DEF ChannelInv, ReceiverInv, GroupsBuilt, GroupBuilt, GroupOf, Piece, WrittenWhole,
              WrittenOnce, Complete, Indexes, Plain, vars
<1>5. ChannelTypeOK'
  BY <1>1 DEF ChannelInv, ChannelTypeOK, Plain, Piece
<1> QED BY <1>2, <1>3, <1>4, <1>5 DEF ChannelInv, SenderInv

LEMMA ChannelStepKeeps == ChannelInv /\ [ChannelNext]_channelVars => ChannelInv'
<1> SUFFICES ASSUME ChannelInv, [ChannelNext]_channelVars PROVE ChannelInv'
  OBVIOUS
<1>1. ASSUME NEW pk \in Packets, ClientTunReadable(pk) PROVE ChannelInv'
  BY <1>1, EncryptBuilds, RaiseBuilds DEF ClientTunReadable
<1>2. CASE UNCHANGED channelVars
  <2>1. UNCHANGED <<vars, packet_counter, sent, wire, fragments, written, excused, damaged>>
    BY <1>2 DEF channelVars, senderVars, receiverVars
  <2>2. IInv' /\ SenderInv' /\ WireGenuine'
    BY <2>1 DEF ChannelInv, SenderInv, IInv, TypeOK, WindowExact, vars, Disjoint, Numbered,
                Indexes, WireGenuine, PieceOf, EncryptOne, Piece
  <2>3. ReceiverInv'
    BY <2>1 DEF ChannelInv, ReceiverInv, GroupsBuilt, GroupBuilt, GroupOf, Piece, WrittenWhole,
                WrittenOnce, Complete, Indexes, Plain, vars
  <2>4. ChannelTypeOK'
    BY <2>1 DEF ChannelInv, ChannelTypeOK, Plain, Piece
  <2> QED BY <2>2, <2>3, <2>4 DEF ChannelInv
<1> QED BY <1>1, <1>2, TransitBuilds, TickBuilds DEF ChannelNext

LEMMA ChannelInvariant == ChannelSafe => []ChannelInv
BY InitBuilds, ChannelStepKeeps, PTL DEF ChannelSafe

(***************************************************************************)
(* Counters, datagrams, fragment groups and output stay within their types *)
(* for every window, packet size and counter width.                        *)
(***************************************************************************)
THEOREM ChannelTyped == ChannelSafe => []ChannelTypeOK
<1>1. ChannelInv => ChannelTypeOK
  BY DEF ChannelInv
<1> QED BY <1>1, ChannelInvariant, PTL

(***************************************************************************)
(* decrypt() never mixes two packets in one fragment group.                *)
(***************************************************************************)
THEOREM GroupsArePure == ChannelSafe => []GroupsPure
<1>1. ChannelInv => GroupsPure
  BY DEF ChannelInv, ReceiverInv, GroupsBuilt, GroupBuilt, GroupsPure
<1> QED BY <1>1, ChannelInvariant, PTL

(***************************************************************************)
(* encrypt() and decrypt(), over a network that loses, doubles, reorders   *)
(* and damages datagrams, deliver whole packets at most once.              *)
(***************************************************************************)
THEOREM ChannelDelivers == ChannelSafe => ImplementsDelivery
<1> DEFINE T == {Plain(pk) : pk \in DOMAIN sent}
           AVars == <<T, written>>
<1>1. ChannelInit => Delivery!AbstractInit
  BY DEF ChannelInit, Delivery!AbstractInit
<1>2. ChannelInv /\ [ChannelNext]_channelVars => [Delivery!AbstractNext]_AVars
  <2> SUFFICES ASSUME ChannelInv, [ChannelNext]_channelVars
               PROVE  [Delivery!AbstractNext]_AVars
    OBVIOUS
  <2>1. ASSUME UNCHANGED <<sent, written>> PROVE UNCHANGED AVars
    BY <2>1 DEF Plain, Piece
  <2>2. CASE UNCHANGED channelVars
    BY <2>1, <2>2 DEF channelVars, senderVars, receiverVars
  <2>3. CASE Tick
    BY <2>1, <2>3 DEF Tick, senderVars
  <2>4. ASSUME NEW pk \in Packets, ClientTunReadable(pk) PROVE [Delivery!AbstractNext]_AVars
    <3>1. CASE EncryptRaises(pk)
      BY <2>1, <3>1 DEF EncryptRaises, receiverVars
    <3>2. CASE \E out : Encrypt(pk, out)
      <4>1. /\ pk \notin DOMAIN sent /\ DOMAIN sent' = DOMAIN sent \cup {pk}
            /\ DOMAIN sent \subseteq Packets
            /\ written' = written
        BY <3>2 DEF Encrypt, receiverVars, ChannelInv, ChannelTypeOK
      <4>2. Plain(pk) \notin T
        BY <4>1, PlainDiffers
      <4>3. T' = T \cup {Plain(pk)}
        BY <4>1 DEF Plain, Piece
      <4>4. Delivery!GoesIn(Plain(pk))
        BY <4>1, <4>2, <4>3 DEF Delivery!GoesIn
      <4> QED BY <4>4 DEF Delivery!AbstractNext
    <3> QED BY <2>4, <3>1, <3>2 DEF ClientTunReadable
  <2>5. ASSUME NEW p \in wire, Lose(p) \/ \E c \in Ids : Damage(p, c)
        PROVE  [Delivery!AbstractNext]_AVars
    BY <2>1, <2>5 DEF Lose, Damage, senderVars, receiverVars
  <2>6. ASSUME NEW p \in wire, Deliver(p) \/ Duplicate(p)
        PROVE  [Delivery!AbstractNext]_AVars
    <3>1. Decrypt(p) /\ UNCHANGED senderVars /\ sent' = sent
      BY <2>6 DEF Deliver, Duplicate, senderVars
    <3>2. CASE written' = written
      BY <3>1, <3>2, <2>1
    <3>3. ASSUME NEW pk \in Packets, Complete(pk)', NotOut(pk),
                 written' = Append(written, Plain(pk))
          PROVE  Delivery!AbstractNext
      <4>1. pk \in DOMAIN sent /\ T' = T
        BY <3>1, <3>3 DEF Complete, Plain, Piece
      <4>2. Delivery!ComesOut(Plain(pk))
        BY <4>1, <3>3 DEF Delivery!ComesOut, NotOut
      <4> QED BY <4>2 DEF Delivery!AbstractNext
    <3> QED BY <3>1, <3>2, <3>3, DecryptWrites
  <2> QED BY <2>2, <2>3, <2>4, <2>5, <2>6 DEF ChannelNext, InTransit
<1> QED BY <1>1, <1>2, ChannelInvariant, PTL
        DEF ChannelSafe, ImplementsDelivery, Delivery!DeliverySpec
=============================================================================
