--------------------------- MODULE PacketDelivery ---------------------------
(***************************************************************************)
(* What a tunnel without retransmission promises of the packets it         *)
(* carries: what comes out of the tun device at one end went into the tun  *)
(* device at the other, whole, and at most once.  Packets may be lost and  *)
(* may overtake one another.                                               *)
(***************************************************************************)
EXTENDS Integers, Sequences

CONSTANT Plaintexts    \* the packets that may go in

VARIABLES
    taken,             \* the packets that went in
    written            \* what came out, in order

AbstractInit == taken = {} /\ written = << >>

GoesIn(x) ==
    /\ x \notin taken
    /\ taken' = taken \cup {x}
    /\ UNCHANGED written

ComesOut(x) ==
    /\ x \in taken
    /\ \A k \in 1..Len(written) : written[k] # x
    /\ written' = Append(written, x)
    /\ UNCHANGED taken

AbstractNext == \E x \in Plaintexts : GoesIn(x) \/ ComesOut(x)

DeliverySpec == AbstractInit /\ [][AbstractNext]_<<taken, written>>
=============================================================================
