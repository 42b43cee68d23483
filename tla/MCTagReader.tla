---------------------------- MODULE MCTagReader -----------------------------
(* Three tags: a (Type 4, without a file) and b (Type 2) have two cascade    *)
(* levels, alike in the first and different in the second; p is a phone.    *)
(* Bytes have two bits and responses three bytes, of which the last is BCC.  *)
EXTENDS TagReader, TLC

CONSTANTS a, b, p

MCData == Nat

WithBcc(x, y) == (0 :> x) @@ (1 :> y) @@ (2 :> (x \cup y) \ (x \cap y))

MCUid ==
  (a :> <<WithBcc({}, {0}), WithBcc({0}, {})>>)
    @@ (b :> <<WithBcc({}, {0}), WithBcc({}, {1})>>)
    @@ (p :> <<WithBcc({1}, {0, 1})>>)

MCFile == (a :> <<>>) @@ (p :> <<1, 2, 3>>)

\* Two tags that first differ elsewhere than in the last bit of a byte: the
\* search finds one of them, however the chip reads a collision.
ASSUME EarlyCollisionsResolve ==
  LET Uids == {WithBcc(x, y) : x, y \in Byte}
  IN  \A u, v \in Uids, high \in BOOLEAN :
        LET first == Differing({u, v}, 0)
            level == Level({u, v}, high)
        IN  first = {} \/ Min(first) % BITS # BITS - 1 =>
              level.result = "ok" /\ level.rbuf \in {u, v}
=============================================================================
