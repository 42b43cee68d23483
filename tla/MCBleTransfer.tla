--------------------------- MODULE MCBleTransfer ---------------------------
(* Values of BleTransfer's constants for TLC.  The bytes of the payload are *)
(* all different, so that one in the wrong place shows.                     *)
EXTENDS BleTransfer

MCByte == 0..5
MCCrcVal == 0..5
MCPayload == <<1, 2, 3, 4, 5>>

\* A weak checksum: only the last byte counts.
MCCrc(d) == IF d = <<>> THEN 0 ELSE d[Len(d)]
MCValidPlain(d) == TRUE

MCPackets == {}
MCInitText == <<0>>
=============================================================================
