----------------------------- MODULE MCEpdPanel -----------------------------
(* Values of EpdPanel's constants for TLC: two plates with middle grays in  *)
(* different places, and tags whose window is black, gray or white.         *)
EXTENDS EpdPanel

MCPlates ==
    {[r \in Region |-> IF r = "body" THEN 1 ELSE 2],
     [r \in Region |-> IF r = "body" THEN 2 ELSE 3]}
MCTagLevels == {0, 1, 3}
=============================================================================
