---------------------------- MODULE DedupWindow ----------------------------
(***************************************************************************)
(* What the data channel asks of its replay protection, without any        *)
(* bitmap: a packet id is accepted when it is not negative, was not        *)
(* accepted before, and is less than WindowSize below the highest id       *)
(* accepted so far.  ReplayWindow implements this specification.           *)
(***************************************************************************)
EXTENDS Integers

CONSTANTS
    WindowSize,  \* how far below the highest accepted id an id may lie
    Ids          \* the packet ids that are offered

VARIABLES
    accepted,    \* the ids accepted since the window was created or reset
    verdict      \* the last id offered and whether it was accepted

dvars == <<accepted, verdict>>

\* No accepted id is WindowSize or more above id.
Recent(id) == \A j \in accepted : j - id < WindowSize

Fresh(id) == id >= 0 /\ id \notin accepted /\ Recent(id)

DInit ==
    /\ accepted = {}
    /\ verdict = [id |-> -1, ok |-> FALSE]

Offer(id) ==
    /\ verdict' = [id |-> id, ok |-> Fresh(id)]
    /\ accepted' = IF Fresh(id) THEN accepted \cup {id} ELSE accepted

Forget ==
    /\ accepted' = {}
    /\ UNCHANGED verdict

DNext == Forget \/ \E id \in Ids : Offer(id)

DSpec == DInit /\ [][DNext]_dvars
=============================================================================
