--------------------------- MODULE MCT2tEmulator ---------------------------
(* Values of T2tEmulator's constants for TLC: phones that write a message   *)
(* in the order of the NFC Forum's procedure, one that erases the tag, and  *)
(* one that only reads.                                                     *)
EXTENDS T2tEmulator

CONSTANTS old, new

MCMsg == {old, new}

W(p, v) == [page |-> p, value |-> v]

MCPrograms ==
    {<<>>,
     <<W("head", Empty), W("p1", new), W("p2", new), W("head", new)>>,
     <<W("head", Erased)>>}
=============================================================================
