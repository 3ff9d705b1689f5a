--------------------------- MODULE MCDataChannel ---------------------------
(***************************************************************************)
(* Packets of one, two and two pieces with counters up to 4, one less than *)
(* they may need in every order, and a window of 2: counters run out, the  *)
(* window is overtaken and groups interleave.                              *)
(***************************************************************************)
EXTENDS DataChannel

CONSTANTS small, big1, big2

MCPieces == [pk \in Packets |-> IF pk = small THEN 1 ELSE 2]
MCIds == 0..CounterMax
=============================================================================
