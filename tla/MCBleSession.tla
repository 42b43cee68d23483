---------------------------- MODULE MCBleSession ----------------------------
(* Values of BleSession's constants for TLC: bytes "a" and "b", a checksum  *)
(* with collisions, and every kind of packet a central may send, malformed  *)
(* STARTs, stray offsets and packets that overrun the payload included.     *)
EXTENDS BleSession

MCByte == {"a", "b"}
MCCrcVal == 0..2

\* A checksum of two-byte payloads in three values: <<"a","b">> and
\* <<"b","a">> collide.
MCCrc(d) == Len(SelectSeq(d, LAMBDA x : x = "a")) % 3

\* The validator refuses text that begins with "b".
MCValidPlain(d) == d = <<>> \/ d[1] = "a"

AB == <<"a", "b">>

MCPackets ==
    {[op |-> "contentStart", len |-> l, crc |-> 1, ack |-> k] : l \in {0, 2}, k \in {0, 1}}
    \cup {[op |-> "imageStart", w |-> 9, h |-> 1, len |-> l, crc |-> 1, ack |-> 2] : l \in {1, 2}}
    \cup {[op |-> "data", off |-> o, bytes |-> b] :
            o \in {0, 1}, b \in {<<>>, <<"a">>, <<"b">>, AB}}
    \cup {[op |-> o] : o \in PlainOp}

MCInitText == <<"a">>
MCNfcTexts == {<<"b">>}
=============================================================================
