------------------------- MODULE ReplayWindowProofs -------------------------
(***************************************************************************)
(* The replay window is exact and implements DedupWindow, for every window *)
(* size and every set of packet ids.                                       *)
(***************************************************************************)
EXTENDS ReplayWindow, TLAPS

\* The inductive invariant: WindowExact needs the types to be inductive.
IInv == TypeOK /\ WindowExact

\* A check() that accepts an id as the new highest keeps the bitmap exact.
LEMMA NewerKeepsExact ==
    ASSUME IInv, NEW id \in Ids, CheckNewer(id)
    PROVE  IInv'
<1> USE WindowSizeAssumption, IdsAssumption DEF IInv
<1> DEFINE d == id - highest
<1>1. /\ id \in Nat /\ highest \in Nat /\ d \in Nat /\ d > 0
      /\ highest' = id /\ accepted' = accepted \cup {id}
      /\ seen' = Shifted(d) \cup {0}
      /\ verdict' = [id |-> id, ok |-> TRUE]
  BY DEF CheckNewer, Accept, TypeOK
<1>2. TypeOK'
  BY <1>1 DEF TypeOK, Shifted
<1>3. ASSUME NEW b \in 0..(WindowSize - 1)
      PROVE  b \in seen' <=> (highest' - b) \in accepted'
  <2>1. CASE b = 0
    BY <1>1, <2>1
  <2>2. CASE b > 0 /\ b < d
    <3>1. b \notin seen'
      BY <1>1, <2>2 DEF Shifted, TypeOK
    <3>2. id - b > highest /\ id - b # id
      BY <1>1, <2>2
    <3>3. id - b \notin accepted
      BY <3>2, <1>1 DEF WindowExact, TypeOK
    <3> QED BY <1>1, <3>1, <3>2, <3>3
  <2>3. CASE b > 0 /\ b >= d
    <3>1. d < WindowSize /\ b - d \in 0..(WindowSize - 1)
      BY <1>1, <2>3
    <3>2. b \in seen' <=> (b - d) \in seen
      BY <1>1, <2>3, <3>1 DEF Shifted, TypeOK
    <3>3. (b - d) \in seen <=> (highest - (b - d)) \in accepted
      BY <1>1, <3>1 DEF WindowExact
    <3>4. highest - (b - d) = id - b /\ id - b # id
      BY <1>1, <2>3
    <3> QED BY <1>1, <3>2, <3>3, <3>4
  <2> QED BY <1>1, <2>1, <2>2, <2>3
<1>4. \A j \in accepted' : j <= highest'
  BY <1>1 DEF WindowExact, TypeOK, CheckNewer
<1> QED BY <1>1, <1>2, <1>3, <1>4 DEF WindowExact

\* An id accepted behind the highest sets its own bit and no other.
LEMMA WithinKeepsExact ==
    ASSUME IInv, NEW id \in Ids, CheckWithin(id)
    PROVE  IInv'
<1> USE WindowSizeAssumption, IdsAssumption DEF IInv
<1>1. /\ id \in Nat /\ highest \in Nat /\ id <= highest
      /\ highest - id \in 0..(WindowSize - 1)
      /\ highest' = highest /\ accepted' = accepted \cup {id}
      /\ seen' = seen \cup {highest - id}
      /\ verdict' = [id |-> id, ok |-> TRUE]
  BY DEF CheckWithin, Accept, TypeOK
<1>2. TypeOK'
  BY <1>1 DEF TypeOK
<1>3. ASSUME NEW b \in 0..(WindowSize - 1)
      PROVE  b \in seen' <=> (highest' - b) \in accepted'
  <2>1. b = highest - id <=> highest - b = id
    BY <1>1
  <2> QED BY <1>1, <2>1 DEF WindowExact
<1> QED BY <1>1, <1>2, <1>3 DEF WindowExact

\* Every step of the window keeps the invariant.
LEMMA StepKeepsExact == IInv /\ [Next]_vars => IInv'
<1> SUFFICES ASSUME IInv, [Next]_vars PROVE IInv'
  OBVIOUS
<1> USE WindowSizeAssumption, IdsAssumption
<1>1. CASE Reset
  BY <1>1 DEF IInv, Reset, TypeOK, WindowExact
<1>2. ASSUME NEW id \in Ids, Check(id) PROVE IInv'
  <2>1. CASE CheckNegative(id) \/ CheckOldOrSeen(id)
    <3>1. /\ UNCHANGED <<highest, seen, accepted>>
          /\ verdict' = [id |-> id, ok |-> FALSE]
      BY <2>1 DEF CheckNegative, CheckOldOrSeen, Reject
    <3>2. verdict' \in [id : Int, ok : BOOLEAN]
      BY <3>1
    <3> QED BY <3>1, <3>2 DEF IInv, TypeOK, WindowExact
  <2>2. CASE CheckFirst(id)
    BY <2>2 DEF IInv, CheckFirst, Accept, TypeOK, WindowExact
  <2> QED BY <1>2, <2>1, <2>2, NewerKeepsExact, WithinKeepsExact DEF Check
<1>3. CASE UNCHANGED vars
  BY <1>3 DEF IInv, vars, TypeOK, WindowExact
<1> QED BY <1>1, <1>2, <1>3 DEF Next

LEMMA WindowInvariant == Spec => []IInv
<1>1. Init => IInv
  BY WindowSizeAssumption, IdsAssumption DEF Init, IInv, TypeOK, WindowExact
<1> QED BY <1>1, StepKeepsExact, PTL DEF Spec

(***************************************************************************)
(* The bitmap stays a set of bit numbers, and the verdict names an id.     *)
(***************************************************************************)
THEOREM WindowTyped == Spec => []TypeOK
<1>1. IInv => TypeOK
  BY DEF IInv
<1> QED BY <1>1, WindowInvariant, PTL

(***************************************************************************)
(* For every window size and id set, the bitmap of replay.py agrees with   *)
(* the history of accepted ids on the whole window.                        *)
(***************************************************************************)
THEOREM WindowIsExact == Spec => []WindowExact
<1>1. IInv => WindowExact
  BY DEF IInv
<1> QED BY <1>1, WindowInvariant, PTL

-----------------------------------------------------------------------------
\* The branches of check() accept exactly the ids DedupWindow calls fresh.
LEMMA CheckOffers ==
    ASSUME IInv, NEW id \in Ids, Check(id)
    PROVE  Dedup!Offer(id)
<1> USE WindowSizeAssumption, IdsAssumption DEF IInv
<1>0. id \in Int /\ highest \in Int /\ accepted \subseteq Int
  BY DEF TypeOK
<1>1. CASE CheckNegative(id)
  <2>1. Dedup!Fresh(id) = FALSE
    BY <1>1, <1>0 DEF CheckNegative, Dedup!Fresh
  <2> QED BY <1>1, <2>1, Zenon DEF CheckNegative, Reject, Dedup!Offer
<1>2. CASE CheckFirst(id)
  BY <1>2, <1>0 DEF CheckFirst, Accept, Dedup!Offer, Dedup!Fresh, Dedup!Recent, WindowExact
<1>3. CASE CheckNewer(id)
  <2>1. \A j \in accepted : j < id /\ j - id < WindowSize
    BY <1>3, <1>0 DEF CheckNewer, WindowExact
  <2>2. Dedup!Fresh(id) = TRUE
    BY <1>3, <1>0, <2>1 DEF CheckNewer, Dedup!Fresh, Dedup!Recent
  <2> QED BY <1>3, <2>2, Zenon DEF CheckNewer, Accept, Dedup!Offer
<1>4. CASE CheckWithin(id)
  <2>1. highest - id \in 0..(WindowSize - 1) /\ highest - (highest - id) = id
    BY <1>4, <1>0 DEF CheckWithin
  <2>2. id \notin accepted
    BY <1>4, <2>1 DEF CheckWithin, WindowExact
  <2>3. \A j \in accepted : j - id < WindowSize
    BY <1>0, <2>1 DEF WindowExact
  <2> QED BY <1>4, <2>2, <2>3 DEF CheckWithin, Accept, Dedup!Offer, Dedup!Fresh, Dedup!Recent
<1>5. CASE CheckOldOrSeen(id)
  <2>1. highest \in accepted /\ highest - id \in Nat
    BY <1>5, <1>0 DEF CheckOldOrSeen, WindowExact
  <2>2. highest - id < WindowSize => id \in accepted
    <3>1. SUFFICES ASSUME highest - id < WindowSize PROVE id \in accepted
      OBVIOUS
    <3>2. highest - id \in 0..(WindowSize - 1) /\ highest - (highest - id) = id
      BY <3>1, <2>1, <1>0
    <3>3. highest - id \in seen
      BY <1>5, <3>1, <1>0 DEF CheckOldOrSeen
    <3> QED BY <1>5, <3>2, <3>3 DEF CheckOldOrSeen, WindowExact
  <2>3. Dedup!Fresh(id) = FALSE
    BY <2>1, <2>2, <1>0 DEF Dedup!Fresh, Dedup!Recent
  <2> QED BY <1>5, <2>3, Zenon DEF CheckOldOrSeen, Reject, Dedup!Offer
<1> QED BY <1>1, <1>2, <1>3, <1>4, <1>5 DEF Check

(***************************************************************************)
(* The bitmap of replay.py implements the abstract window: never twice,    *)
(* never refused while fresh.                                              *)
(***************************************************************************)
THEOREM ReplayWindowImplementsDedup == Spec => ImplementsDedup
<1>1. Init => Dedup!DInit
  BY DEF Init, Dedup!DInit
<1>2. Init => IInv
  BY WindowSizeAssumption, IdsAssumption DEF Init, IInv, TypeOK, WindowExact
<1>3. IInv /\ [Next]_vars => [Dedup!DNext]_(Dedup!dvars)
  <2> SUFFICES ASSUME IInv, [Next]_vars PROVE [Dedup!DNext]_(Dedup!dvars)
    OBVIOUS
  <2>1. CASE Reset
    BY <2>1 DEF Reset, Dedup!DNext, Dedup!Forget
  <2>2. ASSUME NEW id \in Ids, Check(id) PROVE Dedup!DNext
    BY <2>2, CheckOffers DEF Dedup!DNext
  <2>3. CASE UNCHANGED vars
    BY <2>3 DEF vars, Dedup!dvars
  <2> QED BY <2>1, <2>2, <2>3 DEF Next
<1> QED BY <1>1, <1>2, <1>3, StepKeepsExact, PTL DEF Spec, ImplementsDedup, Dedup!DSpec
=============================================================================
