---------------------------- MODULE ReplayWindow ----------------------------
(***************************************************************************)
(* The sliding bitmap of src/protocol/replay.py, which                     *)
(* DataChannel.decrypt consults once per received DATA packet.             *)
(*                                                                         *)
(* _seen is an unbounded Python integer used as a bitmap; it is modelled   *)
(* by the set of its one bits, so  _seen << d  adds d to every member and  *)
(* _seen | (1 << d)  adds the member d.  Bit d stands for the id           *)
(* highest - d.                                                            *)
(***************************************************************************)
EXTENDS Integers

CONSTANTS
    WindowSize,  \* window_size; __init__ refuses values outside [1, MAX_WINDOW]
    Ids,         \* the packet ids offered to check()
    MaxWindow    \* MAX_WINDOW

ASSUME WindowSizeAssumption == MaxWindow \in Nat /\ WindowSize \in 1..MaxWindow
ASSUME IdsAssumption == Ids \subseteq Int

VARIABLES
    highest,     \* _highest, -1 until the first id is accepted
    seen,        \* the one bits of _seen
    accepted,    \* history: ids accepted since __init__ or reset()
    verdict      \* the argument and the result of the last check()

vars == <<highest, seen, accepted, verdict>>

TypeOK ==
    /\ highest \in Nat \cup {-1}
    /\ seen \in SUBSET Nat
    /\ accepted \in SUBSET (Ids \cap Nat)
    /\ verdict \in [id : Int, ok : BOOLEAN]

Init ==
    /\ highest = -1
    /\ seen = {}
    /\ accepted = {}
    /\ verdict = [id |-> -1, ok |-> FALSE]

-----------------------------------------------------------------------------
\* Mutant: the shift forgets that the jump itself moves the old bits.
ShiftedUnmoved(delta) ==
    IF delta >= WindowSize THEN {} ELSE seen

\* _seen <<= delta, or _seen = 0 when the jump is as long as the window.
Shifted(delta) ==
    IF delta >= WindowSize THEN {} ELSE {b + delta : b \in seen}

Accept(id) ==
    /\ accepted' = accepted \cup {id}
    /\ verdict' = [id |-> id, ok |-> TRUE]

Reject(id) ==
    /\ verdict' = [id |-> id, ok |-> FALSE]
    /\ UNCHANGED <<highest, seen, accepted>>

CheckNegative(id) ==
    /\ id < 0
    /\ Reject(id)

\* Mutant: the test for a negative id comes after the one for the first.
CheckFirstUnsigned(id) ==
    /\ highest = -1
    /\ highest' = id
    /\ seen' = {0}
    /\ Accept(id)

CheckFirst(id) ==
    /\ id >= 0
    /\ highest = -1
    /\ highest' = id
    /\ seen' = {0}
    /\ Accept(id)

CheckNewer(id) ==
    /\ id >= 0
    /\ highest # -1
    /\ id > highest
    /\ seen' = Shifted(id - highest) \cup {0}
    /\ highest' = id
    /\ Accept(id)

\* Mutant: the bit of an id accepted behind the highest is not recorded.
CheckWithinUnrecorded(id) ==
    /\ id >= 0
    /\ highest # -1
    /\ id <= highest
    /\ highest - id < WindowSize
    /\ highest - id \notin seen
    /\ UNCHANGED <<seen, highest>>
    /\ Accept(id)

CheckWithin(id) ==
    /\ id >= 0
    /\ highest # -1
    /\ id <= highest
    /\ highest - id < WindowSize
    /\ highest - id \notin seen
    /\ seen' = seen \cup {highest - id}
    /\ UNCHANGED highest
    /\ Accept(id)

CheckOldOrSeen(id) ==
    /\ id >= 0
    /\ highest # -1
    /\ id <= highest
    /\ highest - id >= WindowSize \/ highest - id \in seen
    /\ Reject(id)

Check(id) ==
    \/ CheckNegative(id)
    \/ CheckFirst(id)
    \/ CheckNewer(id)
    \/ CheckWithin(id)
    \/ CheckOldOrSeen(id)

Reset ==
    /\ highest' = -1
    /\ seen' = {}
    /\ accepted' = {}
    /\ UNCHANGED verdict

Next == Reset \/ \E id \in Ids : Check(id)

Spec == Init /\ [][Next]_vars

-----------------------------------------------------------------------------
(***************************************************************************)
(* The bitmap is exact inside the window: for every id that check() still  *)
(* tells apart, its bit is set precisely when the id was accepted, however *)
(* the ids were reordered, repeated or skipped; and the highest accepted   *)
(* id is _highest.                                                         *)
(***************************************************************************)
WindowExact ==
    /\ highest = -1 <=> accepted = {}
    /\ highest # -1 => highest \in accepted
    /\ \A j \in accepted : j <= highest
    /\ highest # -1 =>
        \A b \in 0..(WindowSize - 1) : b \in seen <=> (highest - b) \in accepted

(***************************************************************************)
(* check() gives exactly the verdicts of DedupWindow: a replayed id is     *)
(* never accepted a second time, and a late id that is still inside the    *)
(* window and was never seen is never refused.                             *)
(***************************************************************************)
Dedup == INSTANCE DedupWindow
ImplementsDedup == Dedup!DSpec
=============================================================================
