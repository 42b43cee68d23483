---------------------------- MODULE Anticollision ---------------------------
(* nfca_anticollision_level() of st25r3916.rs: the bit-by-bit search for one *)
(* tag among those that answer.  A byte is the set of its bits that are 1.   *)
(*                                                                          *)
(* External: a tag answers the bits that follow what was sent if that is a   *)
(* prefix of its own response.  The chip's FIFO holds the answer up to the   *)
(* first bit in which the tags differ; the bits of a first byte that were    *)
(* sent stay in their place and read 0, the differing bit reads as `high`.   *)
(* COLLISION_STATUS counts SEL and NVB too, which are left out here.         *)
EXTENDS Integers, FiniteSets, FiniteSetsExt

CONSTANTS
  BITS,   \* of a byte: 8
  BYTES   \* of a response: 4 of the UID and BCC

ASSUME SearchAssumption == BITS \in Nat \ {0} /\ BYTES \in Nat \ {0}

Rounds == 32

Byte == SUBSET (0..BITS - 1)

Response == [0..BYTES - 1 -> Byte]

Empty == [i \in 0..BYTES - 1 |-> {}]

Bit(u, n) == (n % BITS) \in u[n \div BITS]

\* The tags that a prefix of whole bytes and some bits of the next fits.
Answering(responses, frame, bytes, bits) ==
  {u \in responses :
     \A n \in 0..BITS * BYTES - 1 :
       n < BITS * bytes + bits => (Bit(u, n) <=> Bit(frame, n))}

Differing(responses, from) ==
  {n \in from..BITS * BYTES - 1 :
     \E u, v \in responses : Bit(u, n) /\ ~Bit(v, n)}

\* The loop's variables; sbytes without SEL and NVB.
Start ==
  [frame |-> Empty, rbuf |-> Empty, sbytes |-> 0, sbits |-> 0,
   rbuf_offset |-> 0, coll_byte |-> {0}, result |-> "none"]

\* `value` from index `at` on replaces so many bytes of buf.
Copy(buf, at, count, value) ==
  [i \in DOMAIN buf |-> IF i >= at /\ i < at + count THEN value[i - at] ELSE buf[i]]

Merge(byte, bits, low) == {b \in byte : b >= bits} \cup low

\* Merged bits of a split byte.  (The mutant of Joined forgets them.)
JoinedNot(rbuf, at, bits, low) == rbuf

Joined(rbuf, at, bits, low) ==
  IF bits = 0 THEN rbuf ELSE [rbuf EXCEPT ![at] = Merge(@, bits, low)]

Round(responses, high, s) ==
  LET tags == Answering(responses, s.frame, s.sbytes, s.sbits)
      first == BITS * s.sbytes + s.sbits
      differ == Differing(tags, first)
      end == IF differ = {} THEN BITS * BYTES ELSE Min(differ)
      last == IF differ = {} THEN BYTES - 1 ELSE end \div BITS
      one == CHOOSE u \in tags : TRUE
      fifo == [j \in 0..last - s.sbytes |->
                 {b \in 0..BITS - 1 :
                    LET n == BITS * (s.sbytes + j) + b
                    IN  n >= first /\ (IF n = end THEN high ELSE n < end /\ Bit(one, n))}]
      actual == Min({last - s.sbytes + 1, BYTES - s.rbuf_offset})
      rbuf == Copy(s.rbuf, s.rbuf_offset, actual, fifo)
      cbits == end % BITS
      coll == rbuf[s.rbuf_offset + actual - 1] \cup {cbits}
      sbytes == last + (IF cbits = BITS - 1 THEN 1 ELSE 0)
      sbits == (cbits + 1) % BITS
      received == Copy(s.frame, s.rbuf_offset, actual,
                       [j \in 0..actual - 1 |-> rbuf[s.rbuf_offset + j]])
  IN  CASE s.result # "none" -> s
        [] s.result = "none" /\ (tags = {} \/ s.sbytes >= BYTES) ->
             [s EXCEPT !.result = "timeout"]
        [] s.result = "none" /\ tags # {} /\ s.sbytes < BYTES /\ differ = {} ->
             [s EXCEPT !.rbuf = Joined(rbuf, s.rbuf_offset, s.sbits, s.coll_byte),
                       !.result = "ok"]
        [] OTHER ->
             [frame |-> Copy(received, sbytes, 1, [j \in {0} |-> coll]),
              rbuf |-> Joined(rbuf, actual - 1, sbits, coll),
              sbytes |-> sbytes, sbits |-> sbits,
              rbuf_offset |-> actual - 1, coll_byte |-> coll, result |-> "none"]

\* The result of the loop.
Level(responses, high) ==
  LET run[n \in 0..Rounds] ==
        IF n = 0 THEN Start ELSE Round(responses, high, run[n - 1])
  IN  IF run[Rounds].result = "none"
      THEN [run[Rounds] EXCEPT !.result = "collision"] ELSE run[Rounds]
=============================================================================
