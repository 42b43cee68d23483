--------------------------- MODULE MCBoardBringup --------------------------
(* BoardBringup with the five attempts of the code; nothing else is bounded. *)
EXTENDS BoardBringup
=============================================================================
