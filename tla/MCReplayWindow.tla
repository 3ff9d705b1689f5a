--------------------------- MODULE MCReplayWindow ---------------------------
(* Small instances of ReplayWindow: the window slides over ids on both     *)
(* sides of its length, and a negative id is offered too.                  *)
EXTENDS ReplayWindow

MCIds == -1..7
=============================================================================
