------------------------- MODULE BleTransferProofs -------------------------
(***************************************************************************)
(* The safety properties of BleSession and of BleTransfer, for every value *)
(* of their constants.                                                     *)
(*                                                                         *)
(* First the session, for any set of packets, any checksum, any validator, *)
(* any bound of the pump.  The receiver's handlers, one by one: each keeps *)
(* the receiver well formed (RxInv) and never falls silent on a client     *)
(* that waits (Told).  IInv is the inductive invariant: it says of the     *)
(* receiver what the handlers preserve and ties the session to it: the     *)
(* STATUS of a parked payload is pending or was the last one taken for     *)
(* sending, and a session that is not over has not used up its errors.     *)
(*                                                                         *)
(* Then the transfer, for every payload, checksum and window, any chunk    *)
(* sizes, and any number of losses, cuts and early timeouts.  TInv is the  *)
(* inductive invariant behind what the device holds and accepts, and       *)
(* behind the refinement of PlateUpdate; BInv, which rests on it, is the   *)
(* one behind the back-pressure.                                           *)
(***************************************************************************)
EXTENDS BleTransfer, SequenceTheorems, FiniteSetTheorems, TLAPS

-----------------------------------------------------------------------------
(* The receiver's handlers. *)

\* What START announced is consistent while a transfer runs, and the window
\* bookkeeping of push() is within its bounds.
RunningOk(r) ==
    Receiving(r) =>
        /\ r.kind \in {"image", "content"}
        /\ r.expected \in 1..(IF r.kind = "content" THEN MaxContentBytes ELSE MaxImageBytes)
        /\ r.kind = "image" => r.expected = RowBytes(r.width) * r.height
        /\ Len(r.data) <= r.expected
        /\ r.since_ack < r.ack_every

\* What is parked was verified and its receiver did not move since.
ParkedOk(r) ==
    /\ r.done # {} \/ r.done_content # {} =>
            r.state = "committed" /\ (r.done = {} \/ r.done_content = {})
    /\ \A t \in r.done_content :
            /\ r.done_content = {t}
            /\ r.kind = "content" /\ Len(t) = r.expected /\ Crc(t) = r.crc
            /\ ValidPlain(t)
    /\ \A i \in r.done :
            /\ r.done = {i}
            /\ r.kind = "image" /\ Len(i.bits) = r.expected /\ Crc(i.bits) = r.crc
            /\ Len(i.bits) = RowBytes(i.width) * i.height

RxInv(r) == r \in Receiver /\ RunningOk(r) /\ ParkedOk(r)

\* s is the STATUS last taken for sending: where a client waits for an answer,
\* it is pending or was s.
Told(r, s) ==
    Receiving(r) /\ (r.nak_sent \/ Len(r.data) = r.expected)
        => r.pending_ntf \/ s = Status(r)

-----------------------------------------------------------------------------

\* The initial receiver is well formed.
LEMMA DefaultRxOk == RxInv(DefaultRx)
<1>1. DefaultRx \in Receiver
  BY LimitsAssumption, AckAssumption, CrcAssumption DEF DefaultRx, Receiver, State
<1>2. DefaultRx.state = "idle" /\ DefaultRx.done = {} /\ DefaultRx.done_content = {}
  BY DEF DefaultRx
<1> QED
  BY <1>1, <1>2 DEF RxInv, RunningOk, ParkedOk, Receiving

\* reset() yields a receiver that holds nothing and waits for nothing.
LEMMA ResetOk ==
    ASSUME NEW r \in Receiver
    PROVE  /\ Reset(r) \in Receiver
           /\ Reset(r).state = "idle" /\ Reset(r).done = {} /\ Reset(r).done_content = {}
           /\ Reset(r).data = <<>> /\ Reset(r).since_ack = 0 /\ Reset(r).nak_sent = FALSE
<1>1. DefaultRx \in Receiver
  BY DefaultRxOk DEF RxInv
<1>2. r.notify_on \in BOOLEAN
  BY DEF Receiver
<1>3. Reset(r) \in Receiver
  BY <1>1, <1>2 DEF Reset, Receiver
<1>4. /\ Reset(r).state = "idle" /\ Reset(r).done = {} /\ Reset(r).done_content = {}
      /\ Reset(r).data = <<>> /\ Reset(r).since_ack = 0 /\ Reset(r).nak_sent = FALSE
  BY DEF Reset, DefaultRx
<1> QED
  BY <1>3, <1>4

LEMMA BadStartOk ==
    ASSUME NEW r \in Receiver, NEW s
    PROVE  RxInv(BadStart(r)) /\ Told(BadStart(r), s)
<1> DEFINE z == Reset(r)
<1>1. z \in Receiver /\ z.state = "idle" /\ z.done = {} /\ z.done_content = {}
  BY ResetOk
<1>2. BadStart(r) = [z EXCEPT !.pending_ntf = TRUE]
  BY DEF BadStart
<1> HIDE DEF z
<1> QED
  BY <1>1, <1>2 DEF RxInv, RunningOk, ParkedOk, Told, Receiver, Receiving

\* ack_every is never 0 while a transfer runs.
LEMMA AckEveryOk ==
    ASSUME NEW ack \in 0..AckMax
    PROVE  AckEvery(ack) \in 1..AckMax
BY AckAssumption DEF AckEvery

LEMMA ContentStartOk ==
    ASSUME NEW r \in Receiver, NEW m \in ContentStartMsg, NEW s
    PROVE  RxInv(ContentStart(r, m)) /\ Told(ContentStart(r, m), s)
<1> DEFINE z == Reset(r)
           n == AckEvery(m.ack)
           q == [z EXCEPT !.state = "receiving", !.kind = "content", !.expected = m.len,
                          !.crc = m.crc, !.ack_every = n, !.pending_ntf = TRUE]
<1>1. CASE m.len \in 1..MaxContentBytes
  <2>1. ContentStart(r, m) = q
    BY <1>1 DEF ContentStart
  <2>2. n \in 1..AckMax /\ n \in 0..AckMax /\ m.len \in Nat /\ m.crc \in CrcVal
    BY AckEveryOk, AckAssumption DEF ContentStartMsg
  <2>3. /\ z \in Receiver /\ z.done = {} /\ z.done_content = {}
        /\ z.data = <<>> /\ z.since_ack = 0
    BY ResetOk
  <2> HIDE DEF z, n
  <2>4. q \in Receiver
    BY <2>2, <2>3 DEF Receiver, State
  <2>5. /\ q.kind = "content" /\ q.expected = m.len /\ q.ack_every = n /\ q.pending_ntf = TRUE
        /\ q.state = "receiving" /\ q.data = <<>> /\ q.since_ack = 0
        /\ q.done = {} /\ q.done_content = {}
    BY <2>3 DEF Receiver
  <2> HIDE DEF q
  <2> QED
    BY <1>1, <2>1, <2>2, <2>4, <2>5 DEF RxInv, RunningOk, ParkedOk, Told
<1>2. CASE m.len \notin 1..MaxContentBytes
  BY <1>2, BadStartOk DEF ContentStart
<1> QED
  BY <1>1, <1>2

LEMMA ImageStartOk ==
    ASSUME NEW r \in Receiver, NEW m \in ImageStartMsg, NEW s
    PROVE  RxInv(ImageStart(r, m)) /\ Told(ImageStart(r, m), s)
<1> DEFINE z == Reset(r)
           n == AckEvery(m.ack)
           q == [z EXCEPT !.state = "receiving", !.kind = "image",
                          !.width = m.w, !.height = m.h, !.expected = m.len,
                          !.crc = m.crc, !.ack_every = n, !.pending_ntf = TRUE]
<1>1. CASE GoodGeometry(m)
  <2>1. ImageStart(r, m) = q
    BY <1>1 DEF ImageStart
  <2>2. /\ n \in 1..AckMax /\ n \in 0..AckMax /\ m.len \in Nat /\ m.crc \in CrcVal
        /\ m.w \in Nat /\ m.h \in Nat
    BY AckEveryOk, AckAssumption DEF ImageStartMsg
  <2>3. /\ z \in Receiver /\ z.done = {} /\ z.done_content = {}
        /\ z.data = <<>> /\ z.since_ack = 0
    BY ResetOk
  <2>4. m.len \in 1..MaxImageBytes /\ m.len = RowBytes(m.w) * m.h
    <3>1. /\ RowBytes(m.w) \in Nat \ {0} /\ m.h \in Nat \ {0}
          /\ m.len = RowBytes(m.w) * m.h /\ m.len <= MaxImageBytes
      BY <1>1, LimitsAssumption DEF GoodGeometry, RowBytes
    <3> HIDE DEF RowBytes
    <3>2. \A a, b \in Nat \ {0} : a * b \in Nat \ {0}
      OBVIOUS
    <3> QED
      BY <3>1, <3>2, LimitsAssumption
  <2> HIDE DEF z, n
  <2>5. q \in Receiver
    BY <2>2, <2>3 DEF Receiver, State
  <2>6. /\ q.kind = "image" /\ q.expected = m.len /\ q.ack_every = n /\ q.pending_ntf = TRUE
        /\ q.state = "receiving" /\ q.data = <<>> /\ q.since_ack = 0
        /\ q.width = m.w /\ q.height = m.h
        /\ q.done = {} /\ q.done_content = {}
    BY <2>3 DEF Receiver
  <2> HIDE DEF q
  <2> QED
    BY <2>1, <2>2, <2>4, <2>5, <2>6 DEF RxInv, RunningOk, ParkedOk, Told
<1>2. CASE ~GoodGeometry(m)
  BY <1>2, BadStartOk DEF ImageStart
<1> QED
  BY <1>1, <1>2

-----------------------------------------------------------------------------

\* A well-formed receiver stays so when flags that nothing depends on change.
LEMMA FlagsOk ==
    ASSUME NEW r, RxInv(r), NEW b \in BOOLEAN, NEW s
    PROVE  /\ RxInv([r EXCEPT !.recent = b]) /\ RxInv([r EXCEPT !.notify_on = b])
           /\ RxInv([r EXCEPT !.pending_ntf = b]) /\ RxInv([r EXCEPT !.doze_test_req = b])
           /\ RxInv([r EXCEPT !.clear_image_req = b, !.pending_ntf = TRUE])
           /\ Told(r, s) =>
                /\ Told([r EXCEPT !.recent = b], s) /\ Told([r EXCEPT !.notify_on = b], s)
                /\ Told([r EXCEPT !.doze_test_req = b], s)
           /\ Told([r EXCEPT !.pending_ntf = TRUE], s)
           /\ Told([r EXCEPT !.clear_image_req = b, !.pending_ntf = TRUE], s)
BY ZenonT(30) DEF RxInv, RunningOk, ParkedOk, Told, Status, Receiver, Receiving

\* COMMIT parks only what it verified, and only a running transfer's payload.
LEMMA CommitOk ==
    ASSUME NEW r, RxInv(r), NEW s
    PROVE  RxInv(Commit(r)) /\ Told(Commit(r), s)
<1> DEFINE bitmap == [width |-> r.width, height |-> r.height, bits |-> r.data]
<1>0. r \in Receiver /\ RunningOk(r) /\ ParkedOk(r)
  BY DEF RxInv
<1>1. CASE ~Receiving(r)
  BY <1>1, FlagsOk DEF Commit
<1>2. CASE Receiving(r)
  <2> DEFINE v == CommitVerdict(r)
             txt == IF v = "committed" /\ r.kind = "content" THEN {r.data} ELSE r.done_content
             img == IF v = "committed" /\ r.kind # "content" THEN {bitmap} ELSE r.done
             q == [r EXCEPT !.state = v, !.data = <<>>, !.done_content = txt,
                            !.done = img, !.pending_ntf = TRUE]
  <2>1. Commit(r) = q
    BY <1>0, <1>2 DEF Commit, Receiver
  <2>2. r.done = {} /\ r.done_content = {} /\ r.kind \in {"image", "content"}
    BY <1>0, <1>2 DEF ParkedOk, RunningOk, Receiving
  <2>3. v \in State /\ v # "receiving"
    BY DEF CommitVerdict, State
  <2>4. v = "committed" => /\ Len(r.data) = r.expected /\ Crc(r.data) = r.crc
                           /\ r.kind = "content" => ValidPlain(r.data)
    BY DEF CommitVerdict
  <2>5. r.kind = "image" => r.expected = RowBytes(r.width) * r.height
    BY <1>0, <1>2 DEF RunningOk
  <2>6. txt \in SUBSET Seq(Byte) /\ img \in SUBSET MonoImage /\ <<>> \in Seq(Byte)
    BY <1>0 DEF Receiver, MonoImage
  <2>7. /\ bitmap.width = r.width /\ bitmap.height = r.height /\ bitmap.bits = r.data
    OBVIOUS
  <2>8. /\ v = "committed" => \/ r.kind = "content" /\ txt = {r.data} /\ img = {}
                              \/ r.kind = "image" /\ txt = {} /\ img = {bitmap}
        /\ v # "committed" => txt = {} /\ img = {}
    BY <2>2
  <2> HIDE DEF v, txt, img, bitmap
  <2>9. q \in Receiver
    BY <1>0, <2>3, <2>6 DEF Receiver
  <2>10. /\ q.state = v /\ q.done = img /\ q.done_content = txt /\ q.kind = r.kind
         /\ q.expected = r.expected /\ q.crc = r.crc /\ q.pending_ntf = TRUE
    BY <1>0 DEF Receiver
  <2> HIDE DEF q
  <2>11. RunningOk(q) /\ Told(q, s)
    BY <2>3, <2>10 DEF RunningOk, Told, Receiving
  <2>12. ParkedOk(q)
    <3>1. CASE v # "committed"
      BY <2>8, <2>10, <3>1 DEF ParkedOk
    <3>2. CASE v = "committed" /\ r.kind = "content"
      BY <2>4, <2>8, <2>10, <3>2 DEF ParkedOk
    <3>3. CASE v = "committed" /\ r.kind = "image"
      BY <2>4, <2>5, <2>7, <2>8, <2>10, <3>3 DEF ParkedOk
    <3> QED
      BY <2>2, <3>1, <3>2, <3>3
  <2> QED
    BY <2>1, <2>9, <2>11, <2>12 DEF RxInv
<1> QED
  BY <1>1, <1>2

LEMMA CtrlOk ==
    ASSUME NEW r, RxInv(r), NEW m \in Packet \ DataMsg, NEW s, Told(r, s)
    PROVE  RxInv(Ctrl(r, m)) /\ Told(Ctrl(r, m), s)
<1> DEFINE rr == [r EXCEPT !.recent = TRUE]
<1>1. RxInv(rr) /\ Told(rr, s) /\ rr \in Receiver
  BY FlagsOk DEF RxInv
<1> HIDE DEF rr
<1>2. CASE m \in ContentStartMsg
  <2>1. Ctrl(r, m) = ContentStart(rr, m)
    BY <1>2 DEF Ctrl, rr, ContentStartMsg
  <2> QED
    BY <1>1, <1>2, <2>1, ContentStartOk
<1>3. CASE m \in ImageStartMsg
  <2>1. Ctrl(r, m) = ImageStart(rr, m)
    BY <1>3 DEF Ctrl, rr, ImageStartMsg
  <2> QED
    BY <1>1, <1>3, <2>1, ImageStartOk
<1>4. CASE m \in PlainMsg
  <2>1. m.op \in PlainOp
    BY <1>4 DEF PlainMsg
  <2>2. CASE m.op = "commit"
    BY <1>1, <2>2, CommitOk DEF Ctrl, rr
  <2>3. CASE m.op = "abort"
    <3>1. Ctrl(r, m) = BadStart(rr)
      BY <2>3 DEF Ctrl, rr, Abort, BadStart
    <3> QED
      BY <1>1, <3>1, BadStartOk
  <2>4. CASE m.op = "sync"
    BY <1>1, <2>4, FlagsOk DEF Ctrl, rr
  <2>5. CASE m.op = "dozeTest"
    BY <1>1, <2>5, FlagsOk DEF Ctrl, rr
  <2>6. CASE m.op = "clearImage"
    BY <1>1, <2>6, FlagsOk DEF Ctrl, rr
  <2>7. CASE m.op \in {"unknown", "readStatus", "subscribe", "unsubscribe"}
    <3>1. Ctrl(r, m) = rr
      BY <2>7 DEF Ctrl, rr
    <3> QED
      BY <1>1, <3>1
  <2> QED
    BY <2>1, <2>2, <2>3, <2>4, <2>5, <2>6, <2>7 DEF PlainOp
<1> QED
  BY <1>2, <1>3, <1>4 DEF Packet

-----------------------------------------------------------------------------

\* An accepted packet ends the streak of dropped ones, and the last one asks
\* for an acknowledgement.
LEMMA AcceptOk ==
    ASSUME NEW r, RxInv(r), Receiving(r), NEW m \in DataMsg, m.bytes # <<>>, InOrder(r, m), NEW s
    PROVE  RxInv(Accept(r, m)) /\ Told(Accept(r, m), s)
<1> DEFINE d == r.data \o m.bytes
<1>1. d \in Seq(Byte) /\ Len(d) = Len(r.data) + Len(m.bytes) /\ Len(d) <= r.expected
  BY DEF InOrder, DataMsg, RxInv, Receiver
<1>2. r.done = {} /\ r.done_content = {}
  BY DEF RxInv, ParkedOk, Receiving
<1> HIDE DEF d
<1>3. Accept(r, m) =
        LET ack == r.since_ack + 1 >= r.ack_every \/ Len(d) = r.expected
        IN  [r EXCEPT !.data = d, !.nak_sent = FALSE,
                      !.since_ack = IF ack THEN 0 ELSE r.since_ack + 1,
                      !.pending_ntf = r.pending_ntf \/ ack]
  BY DEF Accept, d, RxInv, Receiver
<1>4. r \in Receiver /\ r.since_ack < r.ack_every /\ AckMax \in Nat
  BY AckAssumption DEF RxInv, RunningOk
<1> DEFINE ack == r.since_ack + 1 >= r.ack_every \/ Len(d) = r.expected
           n == IF ack THEN 0 ELSE r.since_ack + 1
           p == r.pending_ntf \/ ack
           q == [r EXCEPT !.data = d, !.nak_sent = FALSE, !.since_ack = n, !.pending_ntf = p]
<1>5. n \in 0..AckMax /\ n < r.ack_every /\ p \in BOOLEAN
  BY <1>4 DEF Receiver
<1>6. Len(d) = r.expected => p
  OBVIOUS
<1>7. Accept(r, m) = q
  BY <1>3
<1> HIDE DEF n, p
<1>8. q \in Receiver
  BY <1>1, <1>4, <1>5 DEF Receiver
<1>9. /\ q.data = d /\ q.nak_sent = FALSE /\ q.since_ack = n /\ q.pending_ntf = p
      /\ q.state = r.state /\ q.kind = r.kind /\ q.expected = r.expected
      /\ q.width = r.width /\ q.height = r.height /\ q.ack_every = r.ack_every
      /\ q.done = {} /\ q.done_content = {}
  BY <1>2, <1>4 DEF Receiver
<1> HIDE DEF q
<1>10. RunningOk(q) /\ ParkedOk(q) /\ Told(q, s)
  BY <1>1, <1>5, <1>6, <1>9 DEF RxInv, RunningOk, ParkedOk, Told, Receiving
<1> QED
  BY <1>7, <1>8, <1>10 DEF RxInv

LEMMA PushOk ==
    ASSUME NEW r, RxInv(r), NEW m \in DataMsg, NEW s, Told(r, s)
    PROVE  RxInv(Push(r, m)) /\ Told(Push(r, m), s)
<1> DEFINE rr == [r EXCEPT !.recent = TRUE]
<1>1. RxInv(rr) /\ Told(rr, s)
  BY FlagsOk
<1> HIDE DEF rr
<1>2. CASE ~Receiving(rr) \/ m.bytes = <<>>
  <2>1. Push(r, m) = rr
    BY <1>2 DEF Push, rr
  <2> QED
    BY <1>1, <2>1
<1>3. CASE Receiving(rr) /\ m.bytes # <<>> /\ InOrder(rr, m)
  <2>1. Push(r, m) = Accept(rr, m)
    BY <1>3 DEF Push, rr
  <2> QED
    BY <1>1, <1>3, <2>1, AcceptOk
<1>4. CASE Receiving(rr) /\ m.bytes # <<>> /\ ~InOrder(rr, m)
  <2> DEFINE q == [rr EXCEPT !.nak_sent = TRUE, !.since_ack = 0, !.pending_ntf = TRUE]
  <2>1. Push(r, m) = IF rr.nak_sent THEN rr ELSE q
    BY <1>4 DEF Push, rr
  <2>2. rr \in Receiver /\ RunningOk(rr) /\ ParkedOk(rr) /\ 0 \in 0..AckMax
    BY <1>1, AckAssumption DEF RxInv
  <2>3. q \in Receiver
    BY <2>2 DEF Receiver
  <2>4. /\ q.since_ack = 0 /\ q.pending_ntf = TRUE /\ q.data = rr.data
        /\ q.state = rr.state /\ q.kind = rr.kind /\ q.expected = rr.expected
        /\ q.width = rr.width /\ q.height = rr.height /\ q.ack_every = rr.ack_every
        /\ q.done = rr.done /\ q.done_content = rr.done_content /\ q.crc = rr.crc
    BY <2>2 DEF Receiver
  <2>5. rr.since_ack \in Nat /\ rr.ack_every \in Nat
    BY <2>2, AckAssumption DEF Receiver
  <2> HIDE DEF q
  <2>6. RunningOk(q) /\ Told(q, s)
    BY <2>2, <2>4, <2>5 DEF RunningOk, Told, Receiving
  <2>7. ParkedOk(q)
    BY <2>2, <2>4 DEF ParkedOk
  <2> QED
    BY <1>1, <2>1, <2>3, <2>6, <2>7 DEF RxInv
<1> QED
  BY <1>2, <1>3, <1>4

\* Every GATT operation keeps the receiver well formed and the client told.
LEMMA GattOk ==
    ASSUME NEW r, RxInv(r), NEW m \in Packet, NEW s, Told(r, s)
    PROVE  RxInv(Gatt(r, m)) /\ Told(Gatt(r, m), s)
<1>1. CASE m \in DataMsg
  <2>1. Gatt(r, m) = Push(r, m)
    BY <1>1 DEF Gatt, DataMsg
  <2> QED
    BY <1>1, <2>1, PushOk
<1>2. CASE m \in Packet \ DataMsg
  <2>1. m.op # "data"
    BY <1>2 DEF Packet, ContentStartMsg, ImageStartMsg, PlainMsg, PlainOp
  <2>2. CASE m.op \in {"readStatus", "subscribe", "unsubscribe"}
    BY <2>2, FlagsOk DEF Gatt
  <2>3. CASE m.op \notin {"readStatus", "subscribe", "unsubscribe"}
    <3>1. Gatt(r, m) = Ctrl(r, m)
      BY <2>1, <2>3 DEF Gatt
    <3> QED
      BY <1>2, <3>1, CtrlOk
  <2> QED
    BY <2>2, <2>3
<1> QED
  BY <1>1, <1>2

\* A payload that is parked after an operation was parked before it and the
\* operation left the pending flag alone, or its STATUS is pending.
LEMMA GattParked ==
    ASSUME NEW r, RxInv(r), NEW m \in Packet
    PROVE  LET g == Gatt(r, m)
           IN  g.done # {} \/ g.done_content # {} =>
                 \/ g.pending_ntf
                 \/ /\ g.done = r.done /\ g.done_content = r.done_content
                    /\ g.pending_ntf = r.pending_ntf
<1> DEFINE rr == [r EXCEPT !.recent = TRUE]
<1>1. /\ RxInv(rr) /\ rr \in Receiver /\ rr.done = r.done
      /\ rr.done_content = r.done_content /\ rr.pending_ntf = r.pending_ntf
  <2>1. r \in Receiver
    BY DEF RxInv
  <2>2. RxInv(rr)
    BY FlagsOk
  <2>3. /\ rr.done = r.done
        /\ rr.done_content = r.done_content /\ rr.pending_ntf = r.pending_ntf
    BY <2>1 DEF Receiver
  <2> HIDE DEF rr
  <2> QED
    BY <2>2, <2>3 DEF RxInv
<1>2. CASE m \in DataMsg
  <2>1. Gatt(r, m) = Push(r, m)
    BY <1>2 DEF Gatt, DataMsg
  <2>2. /\ Push(r, m).done = rr.done /\ Push(r, m).done_content = rr.done_content
        /\ Receiving(rr) \/ Push(r, m).pending_ntf = rr.pending_ntf
    BY <1>1 DEF Push, Accept, Receiver
  <2>3. Receiving(rr) => rr.done = {} /\ rr.done_content = {}
    BY <1>1 DEF RxInv, ParkedOk, Receiving
  <2> QED
    BY <1>1, <2>1, <2>2, <2>3
<1>3. CASE m.op \in {"readStatus", "subscribe", "unsubscribe"}
  BY <1>3 DEF Gatt, RxInv, Receiver
<1>4. CASE m \notin DataMsg /\ m.op \notin {"readStatus", "subscribe", "unsubscribe"}
  <2>1. m.op # "data" /\ m.op \in PlainOp \cup {"contentStart", "imageStart"}
    BY <1>4 DEF Packet, ContentStartMsg, ImageStartMsg, PlainMsg, PlainOp
  <2>2. Gatt(r, m) = Ctrl(r, m)
    BY <1>4, <2>1 DEF Gatt
  <2>3. Reset(rr) \in Receiver /\ Reset(rr).done = {} /\ Reset(rr).done_content = {}
    BY <1>1, ResetOk
  <2> HIDE DEF rr
  <2>4. CASE m.op \in {"contentStart", "imageStart", "abort"}
    <3>1. /\ ContentStart(rr, m).done = {} /\ ContentStart(rr, m).done_content = {}
          /\ ImageStart(rr, m).done = {} /\ ImageStart(rr, m).done_content = {}
          /\ Abort(rr).done = {} /\ Abort(rr).done_content = {}
      BY <2>3 DEF ContentStart, ImageStart, BadStart, Abort, Receiver
    <3>2. Ctrl(r, m) \in {ContentStart(rr, m), ImageStart(rr, m), Abort(rr)}
      BY <2>4 DEF Ctrl, rr
    <3> QED
      BY <2>2, <3>1, <3>2
  <2>5. CASE m.op \in {"commit", "sync", "clearImage"}
    <3>1. Ctrl(r, m) \in {Commit(rr), [rr EXCEPT !.pending_ntf = TRUE],
                          [rr EXCEPT !.clear_image_req = TRUE, !.pending_ntf = TRUE]}
      BY <2>5 DEF Ctrl, rr
    <3>2. Ctrl(r, m).pending_ntf
      BY <1>1, <3>1 DEF Commit, Receiver
    <3> QED
      BY <2>2, <3>2
  <2>6. CASE m.op \in {"dozeTest", "unknown"}
    <3>1. Ctrl(r, m) \in {rr, [rr EXCEPT !.doze_test_req = TRUE]}
      BY <2>6 DEF Ctrl, rr
    <3> QED
      BY <1>1, <2>2, <3>1 DEF Receiver
  <2> QED
    BY <1>4, <2>1, <2>4, <2>5, <2>6 DEF PlainOp
<1> QED
  BY <1>2, <1>3, <1>4

-----------------------------------------------------------------------------
(* The session loop. *)

\* A payload is parked only with its STATUS pending or taken.
CommitTold(r, s) ==
    r.done # {} \/ r.done_content # {} => r.pending_ntf \/ s.state = "committed"

ErrorsLeft == pc # "ended" => errors < MaxErrors

IInv ==
    /\ TypeOK
    /\ RxInv(rx)
    /\ Told(rx, flushed)
    /\ CommitTold(rx, flushed)
    /\ ErrorsLeft

\* What IInv says of the receiver and of the STATUS last taken.
RxPart(r, s) == RxInv(r) /\ Told(r, s) /\ CommitTold(r, s) /\ s \in StatusMsg

-----------------------------------------------------------------------------

\* Taking the pending notification makes its STATUS the last one taken, and
\* leaves everything else of the receiver alone.
LEMMA FlushOk ==
    ASSUME IInv, Flush
    PROVE  RxPart(TakeNotification(rx), flushed')
<1> DEFINE q == TakeNotification(rx)
<1>1. rx \in Receiver /\ RxInv(rx) /\ flushed \in StatusMsg
  BY DEF IInv, TypeOK
<1>2. RxInv(q)
  BY <1>1, FlagsOk DEF TakeNotification
<1>3. /\ q.state = rx.state /\ q.data = rx.data /\ q.expected = rx.expected
      /\ q.done = rx.done /\ q.done_content = rx.done_content /\ q.nak_sent = rx.nak_sent
      /\ q.pending_ntf = FALSE
  BY <1>1 DEF TakeNotification, Receiver
<1>4. Status(rx) \in StatusMsg /\ Status(q) = Status(rx) /\ Status(rx).state = rx.state
  BY <1>1, <1>3 DEF Status, StatusMsg, Receiver
<1>5. rx.done # {} \/ rx.done_content # {} => rx.state = "committed"
  BY <1>1 DEF RxInv, ParkedOk
<1> HIDE DEF q
<1>6. CASE rx.pending_ntf
  <2>1. flushed' = Status(rx)
    BY <1>6 DEF Flush
  <2> QED
    BY <1>2, <1>3, <1>4, <1>5, <2>1 DEF RxPart, Told, CommitTold, q
<1>7. CASE ~rx.pending_ntf
  <2>1. flushed' = flushed
    BY <1>7 DEF Flush
  <2>2. Told(rx, flushed) /\ CommitTold(rx, flushed)
    BY DEF IInv
  <2> QED
    BY <1>1, <1>2, <1>3, <1>4, <1>7, <2>1, <2>2 DEF RxPart, Told, CommitTold, Receiving, q
<1> QED
  BY <1>6, <1>7

\* A GATT operation keeps what IInv says of the receiver.
LEMMA GattPart ==
    ASSUME NEW r, NEW s, RxPart(r, s), NEW m \in Packet
    PROVE  RxPart(Gatt(r, m), s)
<1>1. RxInv(Gatt(r, m)) /\ Told(Gatt(r, m), s)
  BY GattOk DEF RxPart
<1>2. CommitTold(Gatt(r, m), s)
  BY GattParked DEF RxPart, CommitTold
<1> QED
  BY <1>1, <1>2 DEF RxPart

\* The end of a session names its reason.
LEMMA EndSessionOk ==
    ASSUME NEW reason \in {"restart", "doze"}, EndSession(reason)
    PROVE  pc' = "ended" /\ end' \in {"none", "restart", "doze"}
BY DEF EndSession

\* Applying what is parked leaves a running transfer alone: then nothing is
\* parked, and the receiver keeps its state and its window.
LEMMA ApplyPart ==
    ASSUME IInv, NEW img, NEW txt, NEW clear \in BOOLEAN,
           img = Take(rx.done), txt = Take(rx.done_content)
    PROVE  /\ RxPart(AfterApply(img, txt, clear), flushed)
           /\ Receiving(rx) =>
                LET q == AfterApply(img, txt, clear)
                IN  q.state = rx.state /\ q.data = rx.data /\ q.since_ack = rx.since_ack
           /\ img \in SUBSET rx.done /\ txt \in SUBSET rx.done_content
<1> DEFINE q == AfterApply(img, txt, clear)
<1>1. rx \in Receiver /\ RunningOk(rx) /\ ParkedOk(rx) /\ flushed \in StatusMsg
      /\ Told(rx, flushed) /\ CommitTold(rx, flushed)
  BY DEF IInv, RxInv, TypeOK
<1>2. img \in {{}, rx.done} /\ txt \in {{}, rx.done_content}
  BY DEF Take
<1>3. /\ rx.done \ img \in SUBSET MonoImage /\ rx.done_content \ txt \in SUBSET Seq(Byte)
      /\ (rx.clear_image_req /\ ~clear) \in BOOLEAN
  BY <1>1 DEF Receiver
<1>4. q \in Receiver
  BY <1>1, <1>3, ZenonT(30) DEF AfterApply, Receiver, State
<1>5. /\ q.done = rx.done \ img /\ q.done_content = rx.done_content \ txt
      /\ q.state = IF img \cup txt # {} THEN "idle" ELSE rx.state
      /\ q.kind = rx.kind /\ q.expected = rx.expected /\ q.data = rx.data /\ q.crc = rx.crc
      /\ q.width = rx.width /\ q.height = rx.height /\ q.nak_sent = rx.nak_sent
      /\ q.since_ack = rx.since_ack /\ q.ack_every = rx.ack_every
      /\ q.pending_ntf = rx.pending_ntf
  BY <1>1 DEF AfterApply, Receiver
<1> HIDE DEF q
<1>6. \/ img = {} /\ txt = {}
      \/ ~rx.pending_ntf /\ img = rx.done /\ txt = rx.done_content
  BY DEF Take
<1>7. CASE img = {} /\ txt = {}
  <2>1. /\ q.done = rx.done /\ q.done_content = rx.done_content /\ q.state = rx.state
        /\ Status(q) = Status(rx)
    BY <1>5, <1>7 DEF Status
  <2>2. RunningOk(q) /\ ParkedOk(q)
    BY <1>1, <1>5, <2>1 DEF RunningOk, ParkedOk, Receiving
  <2>3. Told(q, flushed) /\ CommitTold(q, flushed)
    BY <1>1, <1>5, <2>1 DEF Told, CommitTold, Receiving
  <2> QED
    BY <1>1, <1>2, <1>4, <1>5, <2>1, <2>2, <2>3 DEF RxPart, RxInv, q
<1>8. CASE img = rx.done /\ txt = rx.done_content /\ img \cup txt # {}
  <2>1. q.done = {} /\ q.done_content = {} /\ q.state = "idle"
    BY <1>5, <1>8
  <2>2. ~Receiving(rx)
    BY <1>1, <1>8 DEF ParkedOk, Receiving
  <2>3. RunningOk(q) /\ ParkedOk(q) /\ Told(q, flushed) /\ CommitTold(q, flushed)
    BY <2>1 DEF RunningOk, ParkedOk, Told, CommitTold, Receiving
  <2> QED
    BY <1>1, <1>2, <1>4, <2>2, <2>3 DEF RxPart, RxInv, q
<1> QED
  BY <1>6, <1>7, <1>8

-----------------------------------------------------------------------------

LEMMA InitOk == Init => IInv
<1> SUFFICES ASSUME Init PROVE IInv
  OBVIOUS
<1>1. RxInv(DefaultRx) /\ DefaultRx \in Receiver
  BY DefaultRxOk DEF RxInv
<1>2. /\ DefaultRx.state = "idle" /\ DefaultRx.done = {} /\ DefaultRx.done_content = {}
  BY DEF DefaultRx
<1>3. TypeOK
  BY <1>1, SessionAssumption DEF Init, TypeOK, NoStatus, StatusMsg, State
<1>4. Told(rx, flushed) /\ CommitTold(rx, flushed) /\ ErrorsLeft
  BY <1>2, SessionAssumption DEF Init, Told, CommitTold, ErrorsLeft, Receiving
<1> QED
  BY <1>1, <1>3, <1>4 DEF Init, IInv

\* An iteration of the pump that handles any packet keeps IInv.
LEMMA PumpPacketOk ==
    ASSUME IInv, NEW m \in Packet, PumpPacket(m)
    PROVE  IInv'
<1>1. TypeOK /\ ErrorsLeft
  BY DEF IInv
<1>2. RxPart(rx', flushed')
  BY FlushOk, GattPart DEF PumpPacket
<1>3. /\ RxInv(rx)' /\ Told(rx, flushed)' /\ CommitTold(rx, flushed)'
      /\ rx' \in Receiver /\ flushed' \in StatusMsg
  BY <1>2 DEF RxPart, RxInv
<1>4. TypeOK'
  BY <1>1, <1>3, SessionAssumption DEF PumpPacket, TypeOK, plate
<1>5. ErrorsLeft'
  BY <1>1 DEF PumpPacket, ErrorsLeft
<1> QED
  BY <1>3, <1>4, <1>5 DEF IInv

\* Each action keeps IInv.
LEMMA NextOk == IInv /\ [Next]_vars => IInv'
<1> SUFFICES ASSUME IInv, [Next]_vars PROVE IInv'
  OBVIOUS
<1>0. TypeOK /\ ErrorsLeft /\ RxPart(rx, flushed)
  BY DEF IInv, RxPart, TypeOK
<1>1. ASSUME RxPart(rx', flushed')
      PROVE  /\ RxInv(rx)' /\ Told(rx, flushed)' /\ CommitTold(rx, flushed)'
             /\ rx' \in Receiver /\ flushed' \in StatusMsg
  BY <1>1 DEF RxPart, RxInv
<1>2. ASSUME NEW m \in Packets, PumpPacket(m) PROVE IInv'
  BY <1>2, PumpPacketOk, SessionAssumption
<1>3. ASSUME PumpEvent PROVE IInv'
  <2>1. RxPart(rx', flushed')
    BY <1>3, FlushOk DEF PumpEvent
  <2>2. TypeOK'
    BY <1>0, <1>1, <1>3, <2>1, SessionAssumption DEF PumpEvent, TypeOK, plate
  <2>3. ErrorsLeft'
    BY <1>0, <1>3 DEF PumpEvent, ErrorsLeft
  <2> QED
    BY <1>1, <2>1, <2>2, <2>3 DEF IInv
<1>4. ASSUME PumpDry PROVE IInv'
  <2>1. RxPart(rx', flushed')
    BY <1>4, FlushOk DEF PumpDry
  <2>2. TypeOK'
    BY <1>0, <1>1, <1>4, <2>1 DEF PumpDry, TypeOK, plate
  <2>3. ErrorsLeft'
    BY <1>0, <1>4 DEF PumpDry, ErrorsLeft
  <2> QED
    BY <1>1, <2>1, <2>2, <2>3 DEF IInv
<1>5. ASSUME PumpFull PROVE IInv'
  <2>1. RxPart(rx', flushed')
    BY <1>0, <1>5 DEF PumpFull
  <2>2. TypeOK'
    BY <1>0, <1>1, <1>5, <2>1 DEF PumpFull, TypeOK, plate
  <2>3. ErrorsLeft'
    BY <1>0, <1>5 DEF PumpFull, ErrorsLeft
  <2> QED
    BY <1>1, <2>1, <2>2, <2>3 DEF IInv
<1>6. ASSUME PumpDisconnect PROVE IInv'
  <2>1. RxPart(rx', flushed')
    BY <1>6, FlushOk DEF PumpDisconnect
  <2>2. pc' = "ended" /\ end' \in {"none", "restart", "doze"}
    BY <1>6, EndSessionOk DEF PumpDisconnect
  <2>3. TypeOK'
    BY <1>0, <1>1, <1>6, <2>1, <2>2 DEF PumpDisconnect, TypeOK, plate
  <2> QED
    BY <1>1, <2>1, <2>2, <2>3 DEF IInv, ErrorsLeft
<1>7. ASSUME PumpError PROVE IInv'
  <2>1. RxPart(rx', flushed')
    BY <1>7, FlushOk DEF PumpError
  <2>2. /\ errors < MaxErrors /\ errors \in Nat /\ errors' = errors + 1
        /\ iter \in 0..PumpMax /\ iter < PumpMax /\ iter' = iter + 1
        /\ MaxErrors \in Nat /\ PumpMax \in Nat
    BY <1>0, <1>7, SessionAssumption DEF PumpError, ErrorsLeft, TypeOK
  <2>3. /\ pc' \in {"apply", "ended"} /\ end' \in {"none", "restart", "doze"}
        /\ pc' # "ended" => errors' < MaxErrors
    <3>1. CASE errors + 1 >= MaxErrors
      BY <1>7, <3>1, EndSessionOk DEF PumpError
    <3>2. CASE ~(errors + 1 >= MaxErrors)
      BY <1>0, <1>7, <2>2, <3>2 DEF PumpError, TypeOK
    <3> QED
      BY <3>1, <3>2
  <2>4. TypeOK'
    BY <1>0, <1>1, <1>7, <2>1, <2>2, <2>3 DEF PumpError, TypeOK, plate
  <2> QED
    BY <1>1, <2>1, <2>3, <2>4 DEF IInv, ErrorsLeft
<1>8. ASSUME Apply PROVE IInv'
  <2> DEFINE img == Take(rx.done)
             txt == Take(rx.done_content)
             clear == rx.clear_image_req /\ ~rx.pending_ntf
  <2>1. clear \in BOOLEAN
    OBVIOUS
  <2>2. /\ RxPart(AfterApply(img, txt, clear), flushed)
        /\ img \in SUBSET rx.done /\ txt \in SUBSET rx.done_content
    <3> HIDE DEF clear
    <3> QED
      BY <2>1, ApplyPart
  <2>3. RxPart(rx', flushed')
    BY <1>8, <2>2 DEF Apply
  <2>4. rx.done \in SUBSET MonoImage /\ rx.done_content \in SUBSET Seq(Byte)
    BY <1>0 DEF TypeOK, Receiver
  <2> HIDE DEF img, txt
  <2>5. /\ image' \in SUBSET MonoImage /\ text' \in Seq(Byte) /\ content_text' \in Seq(Byte)
        /\ errors' \in {0, errors} /\ pc' = "schedule" /\ pc = "apply"
        /\ UNCHANGED <<iter, flushed, end>>
    <3>1. image' = IF clear THEN {} ELSE IF img # {} THEN img ELSE image
      BY <1>8 DEF Apply, img
    <3>2. text' = IF txt # {} THEN CHOOSE t \in txt : TRUE ELSE text
      BY <1>8 DEF Apply, txt
    <3>3. content_text' = IF txt # {} THEN text' ELSE content_text
      BY <1>8 DEF Apply, txt
    <3>4. errors' \in {0, errors} /\ pc' = "schedule" /\ pc = "apply"
          /\ UNCHANGED <<iter, flushed, end>>
      BY <1>8 DEF Apply
    <3>5. txt # {} => (CHOOSE t \in txt : TRUE) \in Seq(Byte)
      BY <2>2, <2>4
    <3> QED
      BY <1>0, <2>2, <2>4, <3>1, <3>2, <3>3, <3>4, <3>5 DEF TypeOK
  <2>6. TypeOK'
    BY <1>0, <1>1, <2>3, <2>5, SessionAssumption DEF TypeOK
  <2>7. ErrorsLeft'
    BY <1>0, <2>5, SessionAssumption DEF ErrorsLeft
  <2> QED
    BY <1>1, <2>3, <2>6, <2>7 DEF IInv
<1>9. ASSUME Quiet PROVE IInv'
  <2>1. RxInv(rx') /\ Told(rx', flushed)
    BY <1>0, <1>9, FlagsOk DEF Quiet, RxPart
  <2>2. /\ rx'.done = rx.done /\ rx'.done_content = rx.done_content
        /\ rx'.pending_ntf = rx.pending_ntf
    BY <1>0, <1>9 DEF Quiet, TypeOK, Receiver
  <2>3. RxPart(rx', flushed')
    BY <1>0, <1>9, <2>1, <2>2 DEF Quiet, RxPart, CommitTold
  <2>4. TypeOK'
    BY <1>0, <1>1, <1>9, <2>3 DEF Quiet, TypeOK, plate
  <2>5. ErrorsLeft'
    BY <1>0, <1>9 DEF Quiet, ErrorsLeft
  <2> QED
    BY <1>1, <2>3, <2>4, <2>5 DEF IInv
<1>10. ASSUME Stream \/ TickLight \/ Tick PROVE IInv'
  <2>1. /\ rx' = rx /\ flushed' = flushed /\ errors' = errors /\ end' = end
        /\ text' = text /\ image' = image /\ content_text' = content_text
        /\ pc' = "pump" /\ iter' = 0 /\ pc = "schedule"
    BY <1>10 DEF Stream, TickLight, Tick, NextPass, plate
  <2>2. TypeOK' /\ ErrorsLeft'
    BY <1>0, <2>1, SessionAssumption DEF TypeOK, ErrorsLeft
  <2> QED
    BY <1>0, <1>1, <2>1, <2>2 DEF IInv
<1>11. ASSUME DozeOff PROVE IInv'
  <2>1. pc' = "ended" /\ end' \in {"none", "restart", "doze"}
    BY <1>11, EndSessionOk DEF DozeOff
  <2>2. TypeOK'
    BY <1>0, <1>11, <2>1 DEF DozeOff, TypeOK, plate
  <2>3. RxPart(rx', flushed')
    BY <1>0, <1>11 DEF DozeOff
  <2> QED
    BY <1>1, <2>1, <2>2, <2>3 DEF IInv, ErrorsLeft
<1>12. ASSUME NEW t \in NfcTexts, TickNfcWrite(t) PROVE IInv'
  <2>1. TypeOK' /\ ErrorsLeft' /\ rx' = rx /\ flushed' = flushed
    BY <1>0, <1>12, SessionAssumption
    DEF TickNfcWrite, NextPass, TypeOK, ErrorsLeft, plate
  <2> QED
    BY <1>0, <1>1, <2>1 DEF IInv
<1>13. ASSUME Reopen PROVE IInv'
  <2>1. /\ RxInv(DefaultRx) /\ DefaultRx.state = "idle"
        /\ DefaultRx.done = {} /\ DefaultRx.done_content = {}
    BY DefaultRxOk DEF DefaultRx
  <2>2. NoStatus \in StatusMsg
    BY DEF NoStatus, StatusMsg, State
  <2>3. RxPart(rx', flushed')
    BY <1>13, <2>1, <2>2 DEF Reopen, RxPart, Told, CommitTold, Receiving
  <2>4. TypeOK' /\ ErrorsLeft'
    BY <1>0, <1>1, <1>13, <2>3, SessionAssumption DEF Reopen, TypeOK, ErrorsLeft, plate
  <2> QED
    BY <1>1, <2>3, <2>4 DEF IInv
<1>14. CASE UNCHANGED vars
  BY <1>0, <1>1, <1>14 DEF IInv, TypeOK, ErrorsLeft, vars, RxPart, RxInv
<1> QED
  BY <1>2, <1>3, <1>4, <1>5, <1>6, <1>7, <1>8, <1>9, <1>10, <1>11, <1>12, <1>13, <1>14
  DEF Next, LoopStep
-----------------------------------------------------------------------------
(* The theorems. *)

\* IInv holds in every state of every session.
THEOREM Inductive == Spec => []IInv
<1> QED
  BY InitOk, NextOk, PTL DEF Spec

\* Every variable keeps its type: the u8 counters of push() do not overflow,
\* the pump never exceeds its bound and a session never its errors.
THEOREM TypeCorrect == Spec => []TypeOK
<1>1. IInv => TypeOK
  BY DEF IInv
<1> QED
  BY <1>1, Inductive, PTL

\* Whatever central sends whatever packets in whatever order, a parked payload
\* is the verified payload of the latest START (ctrl(), ble.rs:331-366).
THEOREM ParkedVerified == Spec => []ParkedIsVerified
<1>1. IInv => ParkedIsVerified
  BY DEF IInv, RxInv, ParkedOk, ParkedIsVerified, Parked
<1> QED
  BY <1>1, Inductive, PTL

\* The payload never outgrows the announced length and `since_ack` stays below
\* `ack_every` (push(), ble.rs:394-401).
THEOREM WindowBounded == Spec => []WindowBounds
<1>1. IInv => WindowBounds
  BY DEF IInv, RxInv, RunningOk, WindowBounds
<1> QED
  BY <1>1, Inductive, PTL

\* A client that waits for an answer has it pending or taken: one suppressed
\* NAK never hides another (push(), ble.rs:399-407).
THEOREM NeverSilent == Spec => []SilenceMeansTold
<1>1. IInv => SilenceMeansTold
  BY DEF IInv, Told, SilenceMeansTold
<1> QED
  BY <1>1, Inductive, PTL

\* The apply step and the housekeeping after it never end, shorten or restart
\* a transfer that is running (ble.rs:606-710).
THEOREM TransferUndisturbed == Spec => OnlyCentralEndsTransfer
<1> DEFINE Kept == Receiving(rx) /\ pc \in {"apply", "schedule"} =>
                     rx'.state = rx.state /\ rx'.data = rx.data /\ rx'.since_ack = rx.since_ack
<1>1. IInv /\ [Next]_vars => [Kept]_vars
  <2> SUFFICES ASSUME IInv, [Next]_vars, Receiving(rx), pc \in {"apply", "schedule"}
               PROVE  rx'.state = rx.state /\ rx'.data = rx.data
                      /\ rx'.since_ack = rx.since_ack
    OBVIOUS
  <2>1. CASE Apply
    <3> DEFINE clear == rx.clear_image_req /\ ~rx.pending_ntf
    <3>1. clear \in BOOLEAN /\ rx' = AfterApply(Take(rx.done), Take(rx.done_content), clear)
      BY <2>1 DEF Apply
    <3> HIDE DEF clear
    <3> QED
      BY <3>1, ApplyPart
  <2>2. CASE Quiet
    BY <2>2 DEF Quiet, IInv, TypeOK, Receiver
  <2>3. CASE rx' = rx
    BY <2>3
  <2>4. Apply \/ Quiet \/ rx' = rx
    BY DEF Next, LoopStep, vars, plate, PumpEvent, PumpDry, PumpFull, PumpPacket,
           PumpDisconnect, PumpError, Stream, TickLight, DozeOff, Tick, TickNfcWrite, Reopen
  <2> QED
    BY <2>1, <2>2, <2>3, <2>4
<1> QED
  BY <1>1, Inductive, PTL DEF Spec, OnlyCentralEndsTransfer

\* "Apply a committed image only after its STATUS notification went out"
\* (ble.rs:606): a parked payload is taken when state 2 is the STATUS that was
\* last taken for sending.
THEOREM AppliedAfterStatus == Spec => ApplyAfterStatus
<1> DEFINE Told2 == pc = "apply" /\ Parked /\ rx'.done \cup rx'.done_content = {}
                      => flushed.state = "committed"
<1>1. IInv /\ [Next]_vars => [Told2]_vars
  <2> SUFFICES ASSUME IInv, Next, pc = "apply", Parked, rx'.done \cup rx'.done_content = {}
               PROVE  flushed.state = "committed"
    OBVIOUS
  <2>1. Apply
    BY DEF Next, LoopStep, PumpEvent, PumpDry, PumpFull, PumpPacket, PumpDisconnect,
           PumpError, Quiet, Stream, TickLight, DozeOff, Tick, TickNfcWrite, Reopen
  <2>2. CASE rx.pending_ntf
    <3>1. rx.done \subseteq rx'.done /\ rx.done_content \subseteq rx'.done_content
      BY <2>1, <2>2 DEF Apply, AfterApply, Take, IInv, TypeOK, Receiver
    <3> QED
      BY <3>1 DEF Parked
  <2>3. CASE ~rx.pending_ntf
    BY <2>3 DEF IInv, CommitTold, Parked
  <2> QED
    BY <2>2, <2>3
<1> QED
  BY <1>1, Inductive, PTL DEF Spec, ApplyAfterStatus

-----------------------------------------------------------------------------
(* The transfer: the client, and the messages on their way.               *)

Starting == {"start", "startAck", "startRead"}
Sending == {"burst", "ackWait", "syncAck", "syncRead"}
Committing == {"commit", "commitWait", "commitRead"}

\* A chunk of the payload, where its offset says.
Chunk(m) ==
    /\ m \in DataMsg /\ m.bytes # <<>>
    /\ m.off + Len(m.bytes) <= Len(Payload)
    /\ \A j \in 1..Len(m.bytes) : m.bytes[j] = Payload[m.off + j]

\* What the client sends.
Control == {StartPacket} \cup
           [op : {"subscribe", "sync", "readStatus", "commit", "disconnect"}]

\* The operations on their way to the device.
Ops(q) == {m.op : m \in ToSet(q)}

UplinkOk ==
    /\ \A m \in ToSet(uplink) : m \in Control \/ Chunk(m)
    /\ "subscribe" \in Ops(uplink) => client \in {"start", "closed"}
    /\ "contentStart" \in Ops(uplink) => client \in {"startAck", "closed"}
    /\ client = "startAck" => uplink \in {<<>>, <<StartPacket>>}
    /\ "commit" \in Ops(uplink) => client \in {"commitWait", "commitRead", "done", "closed"}
    /\ "disconnect" \in Ops(uplink) => client = "closed"
    /\ pc = "ended" => client = "closed"

\* What the device may hold: a part of the payload, or all of it, accepted.
Holds(r) ==
    /\ IsPrefix(r.data, Payload)
    /\ ~Receiving(r) => r.data = <<>>
    /\ Receiving(r) => r.kind = "content" /\ r.expected = Len(Payload) /\ r.crc = Crc(Payload)
    /\ r.state \in {"idle", "receiving", "committed"}
    /\ r.done_content \subseteq {Payload}

AcceptedOk == rx.done_content # {} \/ rx.state = "committed" => accepted

\* The statuses that the client may still learn of.
Underway == ToSet(downlink) \cup reply

\* While the client sends, the device has at least what any status says.
StatusesOk ==
    \A st \in Underway :
        /\ st.state = "committed" => accepted
        /\ client \in Starting \cup Sending => st.received <= Len(rx.data)

\* Nothing is received before START, and COMMIT finds the payload complete.
StartsIdle ==
    client = "start" \/ (client = "startAck" /\ uplink # <<>>) => ~Receiving(rx)

CommitReady ==
    client \in Committing \/ "commit" \in Ops(uplink) =>
        /\ "contentStart" \notin Ops(uplink)
        /\ Receiving(rx) => Len(rx.data) = Len(Payload)

TInv ==
    /\ IInv
    /\ TransferTypeOK
    /\ UplinkOk
    /\ Holds(rx) /\ AcceptedOk
    /\ StatusesOk
    /\ StartsIdle
    /\ CommitReady
    /\ client \notin {"done", "closed"} => verdict = "none"

-----------------------------------------------------------------------------
(* Sequences, prefixes, the smaller of two numbers. *)

LEMMA ToSetOk ==
    ASSUME NEW S, NEW s \in Seq(S)
    PROVE  /\ ToSet(s) \subseteq S
           /\ \A e \in S : ToSet(Append(s, e)) = ToSet(s) \cup {e}
           /\ s # <<>> => Head(s) \in ToSet(s) /\ Tail(s) \in Seq(S)
                          /\ ToSet(s) = {Head(s)} \cup ToSet(Tail(s))
           /\ \A t \in Seq(S) : ToSet(s \o t) = ToSet(s) \cup ToSet(t)
<1>1. ToSet(s) \subseteq S
  BY DEF ToSet
<1>2. ASSUME NEW e \in S PROVE ToSet(Append(s, e)) = ToSet(s) \cup {e}
  <2>1. /\ DOMAIN Append(s, e) = 1..(Len(s) + 1) /\ Append(s, e)[Len(s) + 1] = e
        /\ \A i \in 1..Len(s) : Append(s, e)[i] = s[i]
        /\ Len(s) \in Nat /\ DOMAIN s = 1..Len(s)
    OBVIOUS
  <2>2. ASSUME NEW i \in DOMAIN Append(s, e) PROVE Append(s, e)[i] \in ToSet(s) \cup {e}
    <3>1. i = Len(s) + 1 \/ i \in 1..Len(s)
      BY <2>1
    <3> QED
      BY <2>1, <3>1 DEF ToSet
  <2>3. ASSUME NEW i \in DOMAIN s PROVE s[i] \in ToSet(Append(s, e))
    BY <2>1 DEF ToSet
  <2>4. e \in ToSet(Append(s, e))
    BY <2>1 DEF ToSet
  <2> QED
    BY <2>2, <2>3, <2>4 DEF ToSet
<1>3. ASSUME s # <<>>
      PROVE  Head(s) \in ToSet(s) /\ Tail(s) \in Seq(S)
             /\ ToSet(s) = {Head(s)} \cup ToSet(Tail(s))
  <2>1. s[1] \in ToSet(s) /\ Head(s) = s[1] /\ Tail(s) \in Seq(S) /\ Len(s) \in Nat \ {0}
    BY <1>3 DEF ToSet
  <2>2. Len(Tail(s)) = Len(s) - 1 /\ \A i \in 1..Len(Tail(s)) : Tail(s)[i] = s[i + 1]
    BY <1>3
  <2>3. ASSUME NEW i \in DOMAIN s PROVE s[i] \in {Head(s)} \cup ToSet(Tail(s))
    <3>1. CASE i = 1
      BY <2>1, <3>1
    <3>2. CASE i # 1
      <4>1. i - 1 \in DOMAIN Tail(s) /\ Tail(s)[i - 1] = s[i]
        BY <2>1, <2>2, <3>2
      <4> QED
        BY <4>1 DEF ToSet
    <3> QED
      BY <3>1, <3>2
  <2>4. ASSUME NEW i \in DOMAIN Tail(s) PROVE Tail(s)[i] \in ToSet(s)
    BY <2>1, <2>2 DEF ToSet
  <2> QED
    BY <2>1, <2>3, <2>4 DEF ToSet
<1>4. ASSUME NEW t \in Seq(S) PROVE ToSet(s \o t) = ToSet(s) \cup ToSet(t)
  <2>1. /\ DOMAIN (s \o t) = 1..(Len(s) + Len(t))
        /\ \A i \in 1..Len(s) : (s \o t)[i] = s[i]
        /\ \A i \in 1..Len(t) : (s \o t)[Len(s) + i] = t[i]
        /\ Len(s) \in Nat /\ Len(t) \in Nat /\ DOMAIN s = 1..Len(s) /\ DOMAIN t = 1..Len(t)
    OBVIOUS
  <2>2. ASSUME NEW i \in DOMAIN (s \o t) PROVE (s \o t)[i] \in ToSet(s) \cup ToSet(t)
    <3>1. CASE i \in 1..Len(s)
      BY <2>1, <3>1 DEF ToSet
    <3>2. CASE i \notin 1..Len(s)
      <4>1. i - Len(s) \in 1..Len(t) /\ Len(s) + (i - Len(s)) = i
        BY <2>1, <3>2
      <4> QED
        BY <2>1, <4>1 DEF ToSet
    <3> QED
      BY <3>1, <3>2
  <2>3. ASSUME NEW i \in DOMAIN s PROVE s[i] \in ToSet(s \o t)
    BY <2>1 DEF ToSet
  <2>4. ASSUME NEW i \in DOMAIN t PROVE t[i] \in ToSet(s \o t)
    <3>1. Len(s) + i \in DOMAIN (s \o t)
      BY <2>1
    <3> QED
      BY <2>1, <3>1 DEF ToSet
  <2> QED
    BY <2>2, <2>3, <2>4 DEF ToSet
<1> QED
  BY <1>1, <1>2, <1>3, <1>4

\* An empty sequence holds nothing.
LEMMA ToSetEmpty == ToSet(<<>>) = {}
BY DEF ToSet

\* What Min of two numbers is.
LEMMA MinOfTwo ==
    ASSUME NEW a \in Nat, NEW b \in Nat
    PROVE  Min({a, b}) = IF a <= b THEN a ELSE b
<1>1. CASE a <= b
  BY <1>1 DEF Min
<1>2. CASE ~(a <= b)
  BY <1>2 DEF Min
<1> QED
  BY <1>1, <1>2

\* A prefix, element by element.
LEMMA PrefixOk ==
    ASSUME NEW S, NEW t \in Seq(S), NEW s \in Seq(S)
    PROVE  IsPrefix(s, t) <=> Len(s) <= Len(t) /\ \A i \in 1..Len(s) : s[i] = t[i]
<1>1. ASSUME Len(s) <= Len(t)
      PROVE  SubSeq(s, 1, Len(s)) = SubSeq(t, 1, Len(s))
               <=> \A i \in 1..Len(s) : s[i] = t[i]
  <2>1. Len(s) \in Nat /\ Len(t) \in Nat
    OBVIOUS
  <2>2. SubSeq(s, 1, Len(s)) = s
    OBVIOUS
  <2>3. SubSeq(t, 1, Len(s)) \in Seq(S) /\ Len(SubSeq(t, 1, Len(s))) = Len(s)
        /\ \A i \in 1..Len(s) : SubSeq(t, 1, Len(s))[i] = t[i]
    BY <1>1, <2>1
  <2> HIDE <1>1
  <2>4. SubSeq(t, 1, Len(s)) = s <=> \A i \in 1..Len(s) : s[i] = SubSeq(t, 1, Len(s))[i]
    BY <2>3, SeqEqual
  <2> QED
    BY <2>2, <2>3, <2>4
<1> QED
  BY <1>1 DEF IsPrefix

LEMMA PrefixEmpty ==
    ASSUME NEW S, NEW t \in Seq(S)
    PROVE  IsPrefix(<<>>, t)
<1>1. <<>> \in Seq(S) /\ Len(<<>>) = 0 /\ Len(t) \in Nat
  OBVIOUS
<1>2. SubSeq(<<>>, 1, 0) = <<>> /\ SubSeq(t, 1, 0) = <<>>
  BY <1>1, SubSeqEmpty
<1> QED
  BY <1>1, <1>2 DEF IsPrefix

\* A prefix grows by what follows it.
LEMMA PrefixConcat ==
    ASSUME NEW S, NEW t \in Seq(S), NEW s \in Seq(S), NEW b \in Seq(S), IsPrefix(s, t),
           Len(s) + Len(b) <= Len(t), \A j \in 1..Len(b) : b[j] = t[Len(s) + j]
    PROVE  IsPrefix(s \o b, t)
<1>1. /\ s \o b \in Seq(S) /\ Len(s \o b) = Len(s) + Len(b)
      /\ \A i \in 1..Len(s) : (s \o b)[i] = s[i]
      /\ \A i \in 1..Len(b) : (s \o b)[Len(s) + i] = b[i]
      /\ Len(s) \in Nat /\ Len(b) \in Nat
  OBVIOUS
<1>2. \A i \in 1..Len(s) : s[i] = t[i]
  BY PrefixOk
<1>3. ASSUME NEW i \in 1..(Len(s) + Len(b)) PROVE (s \o b)[i] = t[i]
  <2>1. CASE i \in 1..Len(s)
    BY <1>1, <1>2, <2>1
  <2>2. CASE i \notin 1..Len(s)
    <3>1. i - Len(s) \in 1..Len(b) /\ Len(s) + (i - Len(s)) = i
      BY <1>1, <2>2
    <3> QED
      BY <1>1, <3>1
  <2> QED
    BY <2>1, <2>2
<1> QED
  BY <1>1, <1>3, PrefixOk

-----------------------------------------------------------------------------
(* The device. *)

\* What a packet of the client does to a device that holds a part of the
\* payload: a chunk adds to it, START begins anew, a COMMIT that finds all of it
\* verifies and parks it, and nothing else touches it.
LEMMA GattHolds ==
    ASSUME NEW r, RxInv(r), Holds(r), NEW m, m \in Control \/ Chunk(m), m.op # "disconnect",
           m.op = "commit" /\ Receiving(r) => Len(r.data) = Len(Payload)
    PROVE  LET g == Gatt(r, m)
           IN  /\ m \in Packet
               /\ Holds(g)
               /\ g.state = "committed" => r.state = "committed" \/ g.done_content # {}
               /\ m.op \notin {"contentStart", "commit"} =>
                     g.state = r.state /\ Len(r.data) <= Len(g.data)
               /\ m.op = "contentStart" => g.data = <<>>
               /\ m.op = "commit" => ~Receiving(g)
<1> DEFINE g == Gatt(r, m)
           rr == [r EXCEPT !.recent = TRUE]
<1>1. /\ r \in Receiver /\ Payload \in Seq(Byte) /\ Payload # <<>> /\ ValidPlain(Payload)
      /\ Len(Payload) \in 1..MaxContentBytes /\ Crc(Payload) \in CrcVal
      /\ AckWindow \in 1..AckMax /\ r.data \in Seq(Byte)
  BY TransferAssumption, LimitsAssumption DEF RxInv, Receiver
<1>2. /\ rr \in Receiver /\ rr.state = r.state /\ rr.data = r.data /\ rr.kind = r.kind
      /\ rr.expected = r.expected /\ rr.crc = r.crc /\ rr.done_content = r.done_content
      /\ rr.done = r.done
  BY <1>1 DEF Receiver
<1>3. Holds(rr)
  BY <1>2 DEF Holds, Receiving
<1>4. CASE Chunk(m)
  <2>1. m \in DataMsg /\ m.op = "data" /\ m.off \in Nat /\ m.bytes \in Seq(Byte) /\ m.bytes # <<>>
    BY <1>4 DEF Chunk, DataMsg
  <2>2. g = Push(r, m)
    BY <2>1 DEF Gatt
  <2>3. CASE Receiving(rr) /\ InOrder(rr, m)
    <3>1. g = Accept(rr, m)
      BY <2>1, <2>2, <2>3 DEF Push
    <3>2. /\ g.state = r.state /\ g.data = r.data \o m.bytes /\ g.kind = r.kind
          /\ g.expected = r.expected /\ g.crc = r.crc /\ g.done_content = r.done_content
      BY <1>2, <3>1 DEF Accept, Receiver
    <3>3. m.off = Len(r.data)
      BY <1>2, <2>3 DEF InOrder
    <3> HIDE DEF g
    <3>4. IsPrefix(g.data, Payload) /\ Len(r.data) <= Len(g.data)
      <4>1. IsPrefix(r.data \o m.bytes, Payload)
        BY <1>1, <1>4, <2>1, <3>3, PrefixConcat DEF Holds, Chunk
      <4>2. Len(r.data \o m.bytes) = Len(r.data) + Len(m.bytes)
        BY <1>1, <2>1, ConcatProperties
      <4>3. Len(r.data) \in Nat /\ Len(m.bytes) \in Nat
        BY <1>1, <2>1
      <4>4. Len(r.data) <= Len(r.data \o m.bytes)
        <5>1. \A a, b \in Nat : a <= a + b
          OBVIOUS
        <5> QED
          BY <4>2, <4>3, <5>1, Zenon
      <4>5. g.data = r.data \o m.bytes
        BY <3>2
      <4> HIDE DEF rr
      <4> QED
        BY <4>1, <4>4, <4>5, Zenon
    <3>5. Receiving(r)
      BY <1>2, <2>3 DEF Receiving
    <3> QED
      BY <2>1, <3>2, <3>4, <3>5 DEF Holds, Receiving, g, Packet
  <2>4. CASE ~(Receiving(rr) /\ InOrder(rr, m))
    <3>1. g \in {rr, [rr EXCEPT !.nak_sent = TRUE, !.since_ack = 0, !.pending_ntf = TRUE]}
      BY <2>1, <2>2, <2>4 DEF Push
    <3> HIDE DEF g
    <3>2. /\ g.state = r.state /\ g.data = r.data /\ g.kind = r.kind
          /\ g.expected = r.expected /\ g.crc = r.crc /\ g.done_content = r.done_content
      <4>1. r \in Receiver /\ rr \in Receiver
        BY <1>1, <1>2
      <4>2. /\ rr.state = r.state /\ rr.data = r.data /\ rr.kind = r.kind
            /\ rr.expected = r.expected /\ rr.crc = r.crc
            /\ rr.done_content = r.done_content
        BY <4>1 DEF Receiver
      <4> HIDE DEF rr
      <4>3. CASE g = rr
        BY <4>2, <4>3
      <4>4. CASE g = [rr EXCEPT !.nak_sent = TRUE, !.since_ack = 0, !.pending_ntf = TRUE]
        BY <4>1, <4>2, <4>4 DEF Receiver
      <4> QED BY <3>1, <4>3, <4>4
    <3>3. Len(r.data) <= Len(r.data)
      BY <1>1
    <3> QED
      BY <2>1, <3>2, <3>3 DEF Holds, Receiving, g, Packet
  <2> QED
    BY <2>3, <2>4
<1>5. CASE m = StartPacket
  <2>1. m \in ContentStartMsg /\ m.op = "contentStart" /\ m.len = Len(Payload) /\ m.crc = Crc(Payload)
    BY <1>1, <1>5, AckAssumption DEF StartPacket, ContentStartMsg
  <2>2. g = ContentStart(rr, m)
    BY <2>1 DEF Gatt, Ctrl
  <2>3. /\ Reset(rr) \in Receiver /\ Reset(rr).data = <<>> /\ Reset(rr).done_content = {}
    BY <1>2, ResetOk
  <2>4. /\ g.state = "receiving" /\ g.kind = "content" /\ g.expected = Len(Payload)
        /\ g.crc = Crc(Payload) /\ g.data = <<>> /\ g.done_content = {}
    <3>1. g = [Reset(rr) EXCEPT !.state = "receiving", !.kind = "content",
                                !.expected = m.len, !.crc = m.crc,
                                !.ack_every = AckEvery(m.ack), !.pending_ntf = TRUE]
      BY <1>1, <2>1, <2>2 DEF ContentStart
    <3> HIDE DEF g
    <3> QED
      BY <2>1, <2>3, <3>1 DEF Receiver
  <2>5. IsPrefix(<<>>, Payload)
    BY <1>1, PrefixEmpty
  <2> HIDE DEF g
  <2> QED
    BY <2>1, <2>4, <2>5 DEF Holds, Receiving, g, Packet
<1>6. CASE m.op = "commit" /\ m \in PlainMsg
  <2>1. g = Commit(rr)
    BY <1>6 DEF Gatt, Ctrl
  <2>2. CASE ~Receiving(r)
    <3>1. g = [rr EXCEPT !.pending_ntf = TRUE]
      BY <1>2, <2>1, <2>2 DEF Commit, Receiving
    <3>2. /\ g.state = r.state /\ g.data = r.data /\ g.done_content = r.done_content
      BY <1>2, <3>1 DEF Receiver
    <3> HIDE DEF g
    <3> QED
      BY <1>6, <2>2, <3>2 DEF Holds, Receiving, g, Packet
  <2>3. CASE Receiving(r)
    <3>1. r.data = Payload
      <4>1. Len(r.data) = Len(Payload) /\ \A i \in 1..Len(r.data) : r.data[i] = Payload[i]
        BY <1>1, <1>6, <2>3, PrefixOk DEF Holds
      <4> QED
        BY <1>1, <4>1, SeqEqual
    <3>2. CommitVerdict(rr) = "committed"
      BY <1>1, <1>2, <2>3, <3>1 DEF CommitVerdict, Holds
    <3>3. /\ g.state = "committed" /\ g.data = <<>> /\ g.done_content = {Payload}
      BY <1>2, <2>1, <2>3, <3>1, <3>2 DEF Commit, Receiving, Receiver, Holds
    <3>4. IsPrefix(<<>>, Payload)
      BY <1>1, PrefixEmpty
    <3> HIDE DEF g
    <3> QED
      BY <1>6, <3>3, <3>4 DEF Holds, Receiving, g, Packet
  <2> QED
    BY <2>2, <2>3
<1>7. CASE m \in PlainMsg /\ m.op \in {"subscribe", "sync", "readStatus"}
  <2>1. g \in {rr, [rr EXCEPT !.pending_ntf = TRUE], [r EXCEPT !.notify_on = TRUE]}
    BY <1>7 DEF Gatt, Ctrl
  <2> HIDE DEF g
  <2>2. /\ g.state = r.state /\ g.data = r.data /\ g.kind = r.kind
        /\ g.expected = r.expected /\ g.crc = r.crc /\ g.done_content = r.done_content
    <3>1. CASE g = rr
      BY <1>2, <3>1
    <3>2. CASE g = [rr EXCEPT !.pending_ntf = TRUE]
      <4> HIDE DEF rr
      <4> QED
        BY <1>2, <3>2 DEF Receiver
    <3>3. CASE g = [r EXCEPT !.notify_on = TRUE]
      BY <1>1, <3>3 DEF Receiver
    <3> QED
      BY <2>1, <3>1, <3>2, <3>3
  <2>3. Len(r.data) <= Len(r.data)
    BY <1>1
  <2> QED
    BY <1>7, <2>2, <2>3 DEF Holds, Receiving, g, Packet
<1>8. m \in Control => m = StartPacket \/ (m \in PlainMsg /\ m.op \in {"subscribe", "sync", "readStatus", "commit"})
  BY DEF Control, PlainMsg, PlainOp
<1> QED
  BY <1>4, <1>5, <1>6, <1>7, <1>8

\* What a device step must respect to keep TInv, whatever the client is doing.
LEMMA DeviceKeeps ==
    ASSUME TInv, UNCHANGED clientVars,
           IInv', Holds(rx'), AcceptedOk', accepted' \in BOOLEAN, accepted => accepted',
           uplink' \in Seq(Packet \cup {[op |-> "disconnect"]}),
           ToSet(uplink') \subseteq ToSet(uplink),
           client = "startAck" => uplink' \in {<<>>, <<StartPacket>>},
           pc' = "ended" => client = "closed",
           downlink' \in Seq(StatusMsg), reply' \subseteq StatusMsg,
           Underway' \subseteq Underway \cup {Status(rx)},
           client \in Starting \cup Sending => Len(rx.data) <= Len(rx'.data),
           client = "start" \/ (client = "startAck" /\ uplink' # <<>>) => ~Receiving(rx'),
           client \in Committing \/ "commit" \in Ops(uplink) =>
                (Receiving(rx') => Len(rx'.data) = Len(Payload))
    PROVE  TInv'
<1>1. /\ TransferTypeOK /\ UplinkOk /\ AcceptedOk /\ StatusesOk /\ CommitReady /\ rx \in Receiver
      /\ rx' \in Receiver
  BY DEF TInv, IInv, TypeOK
<1>2. /\ client' = client /\ off' = off /\ burstStart' = burstStart /\ sent' = sent
      /\ chunk' = chunk /\ verdict' = verdict /\ notifyOk' = notifyOk /\ mtu' = mtu
      /\ lost' = lost /\ early' = early
  BY DEF clientVars, progress, chosen
<1>3. TransferTypeOK'
  BY <1>1, <1>2 DEF TransferTypeOK
<1>4. Ops(uplink') \subseteq Ops(uplink)
  BY DEF Ops
<1>5. UplinkOk'
  BY <1>1, <1>2, <1>4 DEF UplinkOk
<1>6. StatusesOk'
  <2> SUFFICES ASSUME NEW st \in Underway'
               PROVE  /\ st.state = "committed" => accepted'
                      /\ client \in Starting \cup Sending => st.received <= Len(rx'.data)
    BY <1>2 DEF StatusesOk
  <2>1. CASE st \in Underway
    <3>1. st.received \in Nat
      <4>1. ToSet(downlink) \subseteq StatusMsg /\ reply \subseteq StatusMsg
        BY <1>1, ToSetOk DEF TransferTypeOK
      <4> QED
        BY <2>1, <4>1 DEF Underway, StatusMsg
    <3>2. Len(rx.data) \in Nat /\ Len(rx'.data) \in Nat
      BY <1>1 DEF Receiver
    <3> QED
      BY <1>1, <2>1, <3>1, <3>2 DEF StatusesOk
  <2>2. CASE st = Status(rx)
    BY <1>1, <2>2 DEF Status, AcceptedOk
  <2> QED
    BY <2>1, <2>2
<1>7. StartsIdle' /\ CommitReady'
  BY <1>1, <1>2, <1>4 DEF StartsIdle, CommitReady
<1> QED
  BY <1>2, <1>3, <1>5, <1>6, <1>7 DEF TInv

\* The notification a device step sends.
LEMMA NotificationOk ==
    ASSUME NEW r \in Receiver
    PROVE  /\ Status(r) \in StatusMsg /\ Status(r).state = r.state
           /\ Status(r).received = Len(r.data)
           /\ Notification(r) \in Seq(StatusMsg)
           /\ ToSet(Notification(r)) \subseteq {Status(r)}
<1>1. /\ Status(r) \in StatusMsg /\ Status(r).state = r.state
      /\ Status(r).received = Len(r.data)
  BY DEF Status, StatusMsg, Receiver
<1>2. Notification(r) \in Seq(StatusMsg)
  BY <1>1 DEF Notification
<1>3. ToSet(Notification(r)) \subseteq {Status(r)}
  BY ToSetEmpty DEF Notification, ToSet
<1> QED
  BY <1>1, <1>2, <1>3

\* Sent notifications join what is under way.
LEMMA SentUnderway ==
    ASSUME TInv, downlink' = downlink \o Notification(rx), reply' \in {reply, {Status(rx)}}
    PROVE  /\ downlink' \in Seq(StatusMsg) /\ reply' \subseteq StatusMsg
           /\ Underway' \subseteq Underway \cup {Status(rx)}
<1>1. rx \in Receiver /\ downlink \in Seq(StatusMsg) /\ reply \subseteq StatusMsg
  BY DEF TInv, IInv, TypeOK, TransferTypeOK
<1>2. /\ Status(rx) \in StatusMsg /\ Notification(rx) \in Seq(StatusMsg)
      /\ ToSet(Notification(rx)) \subseteq {Status(rx)}
  BY <1>1, NotificationOk
<1>3. ToSet(downlink') = ToSet(downlink) \cup ToSet(Notification(rx))
  BY <1>1, <1>2, ToSetOk
<1>4. downlink' \in Seq(StatusMsg)
  BY <1>1, <1>2
<1> QED
  BY <1>1, <1>2, <1>3, <1>4 DEF Underway

LEMMA DevicePacketOk ==
    ASSUME TInv, DevicePacket
    PROVE  TInv'
<1> DEFINE m == Head(uplink)
           q == TakeNotification(rx)
           Link == Packet \cup {[op |-> "disconnect"]}
<1>1. /\ IInv /\ TransferTypeOK /\ UplinkOk /\ Holds(rx) /\ AcceptedOk /\ StartsIdle /\ CommitReady
      /\ rx \in Receiver /\ RxInv(rx)
  BY DEF TInv, IInv, TypeOK
<1>2. /\ uplink \in Seq(Link) /\ uplink # <<>> /\ uplink' = Tail(uplink)
      /\ m.op # "disconnect" /\ PumpPacket(m)
  BY <1>1 DEF TransferTypeOK, DevicePacket, Arrived
<1> HIDE DEF m
<1>3. /\ m \in ToSet(uplink) /\ uplink' \in Seq(Link) /\ ToSet(uplink') \subseteq ToSet(uplink)
  BY <1>2, ToSetOk DEF m
<1>4. (m \in Control \/ Chunk(m)) /\ m.op \in Ops(uplink)
  BY <1>1, <1>3 DEF UplinkOk, Ops
<1>5. /\ RxInv(q) /\ q.state = rx.state /\ q.data = rx.data /\ q.kind = rx.kind
      /\ q.expected = rx.expected /\ q.crc = rx.crc /\ q.done_content = rx.done_content
  BY <1>1, FlagsOk DEF TakeNotification, Receiver
<1>6. Holds(q)
  BY <1>1, <1>5 DEF Holds, Receiving
<1>7. m.op = "commit" /\ Receiving(q) => Len(q.data) = Len(Payload)
  BY <1>1, <1>4, <1>5 DEF CommitReady, Receiving
<1>8. rx' = Gatt(q, m)
  BY <1>2 DEF PumpPacket
<1> HIDE DEF q
<1>9. /\ m \in Packet /\ Holds(rx')
      /\ rx'.state = "committed" => rx.state = "committed" \/ rx'.done_content # {}
      /\ m.op \notin {"contentStart", "commit"} => rx'.state = rx.state /\ Len(rx.data) <= Len(rx'.data)
      /\ m.op = "contentStart" => rx'.data = <<>>
      /\ m.op = "commit" => ~Receiving(rx')
  BY <1>2, <1>4, <1>5, <1>6, <1>7, <1>8, GattHolds
<1>10. IInv'
  BY <1>1, <1>2, <1>9, PumpPacketOk
<1>11. /\ accepted' \in BOOLEAN /\ (accepted => accepted') /\ AcceptedOk'
  BY <1>1, <1>9 DEF DevicePacket, TransferTypeOK, AcceptedOk
<1>12. /\ downlink' \in Seq(StatusMsg) /\ reply' \subseteq StatusMsg
       /\ Underway' \subseteq Underway \cup {Status(rx)}
  BY SentUnderway DEF DevicePacket
<1>13. client = "startAck" => uplink = <<StartPacket>> /\ m = StartPacket /\ uplink' = <<>>
  BY <1>1, <1>2 DEF UplinkOk, m
<1>14. pc' = "ended" => client = "closed"
  BY <1>1, <1>2 DEF PumpPacket, UplinkOk
<1>15. /\ client \in Starting \cup Sending => m.op # "commit"
       /\ client \notin {"startAck", "closed"} => m.op # "contentStart"
  BY <1>1, <1>4 DEF UplinkOk, Starting, Sending
<1>16. client \in Starting \cup Sending => Len(rx.data) <= Len(rx'.data)
  <2>1. CASE client = "startAck"
    <3>1. rx.data = <<>> /\ m.op = "contentStart"
      BY <1>1, <1>2, <1>13, <2>1 DEF StartsIdle, Holds, StartPacket
    <3>2. Len(rx'.data) = 0 /\ Len(rx.data) = 0
      BY <1>9, <3>1
    <3> QED
      BY <3>2
  <2>2. CASE client # "startAck"
    BY <1>9, <1>15, <2>2 DEF Starting, Sending
  <2> QED
    BY <2>1, <2>2
<1>17. client = "start" \/ (client = "startAck" /\ uplink' # <<>>) => ~Receiving(rx')
  BY <1>1, <1>9, <1>13, <1>15 DEF StartsIdle, Receiving, Starting
<1>18. client \in Committing \/ "commit" \in Ops(uplink) =>
            (Receiving(rx') => Len(rx'.data) = Len(Payload))
  <2> SUFFICES ASSUME client \in Committing \/ "commit" \in Ops(uplink), Receiving(rx')
               PROVE  Len(rx'.data) = Len(Payload)
    OBVIOUS
  <2>1. m.op # "contentStart" /\ m.op # "commit"
    BY <1>1, <1>4, <1>9 DEF CommitReady
  <2>2. Len(rx.data) = Len(Payload) /\ Len(rx.data) <= Len(rx'.data)
    BY <1>1, <1>9, <2>1 DEF CommitReady, Receiving
  <2>3. Len(rx'.data) <= Len(Payload)
    BY <1>9 DEF Holds, IsPrefix
  <2>4. Len(rx.data) \in Nat /\ Len(rx'.data) \in Nat /\ Len(Payload) \in Nat
    <3>1. rx' \in Receiver
      BY <1>10 DEF IInv, TypeOK
    <3> QED
      BY <1>1, <3>1, TransferAssumption DEF Receiver
  <2> QED
    BY <2>2, <2>3, <2>4
<1>19. UNCHANGED clientVars
  BY DEF DevicePacket
<1> QED
  BY <1>3, <1>9, <1>10, <1>11, <1>12, <1>13, <1>14, <1>16, <1>17, <1>18, <1>19, DeviceKeeps

\* Outside packets the device keeps what it holds, or turns idle with nothing.
LEMMA OtherStep ==
    ASSUME TInv, UNCHANGED clientVars, IInv', accepted' = accepted,
           \/ /\ rx'.state = rx.state \/ (rx'.state = "idle" /\ ~Receiving(rx))
              /\ rx'.data = rx.data /\ rx'.kind = rx.kind
              /\ rx'.expected = rx.expected /\ rx'.crc = rx.crc
              /\ rx'.done_content \subseteq rx.done_content
           \/ rx' = DefaultRx /\ client = "closed",
           uplink' \in {uplink, <<>>},
           pc' = "ended" => client = "closed",
           \/ downlink' = downlink
           \/ downlink' = downlink \o Notification(rx),
           reply' = reply
    PROVE  TInv'
<1>1. /\ IInv /\ TransferTypeOK /\ UplinkOk /\ Holds(rx) /\ AcceptedOk /\ StartsIdle /\ CommitReady
      /\ rx \in Receiver /\ Payload \in Seq(Byte)
  BY TransferAssumption DEF TInv, IInv, TypeOK
<1>2. /\ Holds(rx')
      /\ rx'.done_content # {} \/ rx'.state = "committed" =>
            rx.done_content # {} \/ rx.state = "committed"
  <2>1. CASE rx' = DefaultRx
    <3>1. rx'.data = <<>> /\ rx'.state = "idle" /\ rx'.done_content = {}
      BY <2>1 DEF DefaultRx
    <3>2. IsPrefix(<<>>, Payload)
      BY <1>1, PrefixEmpty
    <3> QED
      BY <3>1, <3>2 DEF Holds, Receiving
  <2>2. CASE rx' # DefaultRx
    BY <1>1, <2>2 DEF Holds, Receiving
  <2> QED
    BY <2>1, <2>2
<1>3. accepted' \in BOOLEAN /\ AcceptedOk' /\ (accepted => accepted')
  BY <1>1, <1>2 DEF AcceptedOk, TransferTypeOK
<1>4. /\ uplink' \in Seq(Packet \cup {[op |-> "disconnect"]})
      /\ ToSet(uplink') \subseteq ToSet(uplink)
      /\ uplink' # <<>> => uplink # <<>>
      /\ client = "startAck" => uplink' \in {<<>>, <<StartPacket>>}
  <2>1. <<>> \in Seq(Packet \cup {[op |-> "disconnect"]})
    OBVIOUS
  <2> QED
    BY <1>1, <2>1, ToSetEmpty DEF TransferTypeOK, UplinkOk
<1>5. /\ downlink' \in Seq(StatusMsg) /\ reply' \subseteq StatusMsg
      /\ Underway' \subseteq Underway \cup {Status(rx)}
  <2>1. CASE downlink' = downlink
    BY <1>1, <2>1 DEF TransferTypeOK, Underway
  <2>2. CASE downlink' = downlink \o Notification(rx)
    BY <2>2, SentUnderway
  <2> QED
    BY <2>1, <2>2
<1>6. client \in Starting \cup Sending => Len(rx.data) <= Len(rx'.data)
  BY <1>1 DEF Receiver, Starting, Sending
<1>7. client = "start" \/ (client = "startAck" /\ uplink' # <<>>) => ~Receiving(rx')
  BY <1>1, <1>4 DEF StartsIdle, Receiving
<1>8. client \in Committing \/ "commit" \in Ops(uplink) =>
            (Receiving(rx') => Len(rx'.data) = Len(Payload))
  <2>1. CASE rx' = DefaultRx
    BY <2>1 DEF DefaultRx, Receiving
  <2>2. CASE rx' # DefaultRx
    BY <1>1, <2>2 DEF CommitReady, Receiving
  <2> QED
    BY <2>1, <2>2
<1> QED
  BY <1>2, <1>3, <1>4, <1>5, <1>6, <1>7, <1>8, DeviceKeeps

\* The receiver's fields after its notification was taken.
LEMMA TakenOk ==
    ASSUME NEW r \in Receiver
    PROVE  LET q == TakeNotification(r)
           IN  /\ q.state = r.state /\ q.data = r.data /\ q.kind = r.kind
               /\ q.expected = r.expected /\ q.crc = r.crc /\ q.done_content = r.done_content
               /\ q.notify_on = r.notify_on /\ q.pending_ntf = FALSE
BY DEF TakeNotification, Receiver

\* What the other steps of the session do to the receiver.
LEMMA DeviceOtherOk ==
    ASSUME TInv, DeviceDisconnect \/ DeviceNotify \/ DeviceLoop \/ DeviceQuiet \/ DeviceDoze
    PROVE  TInv'
<1>1. /\ IInv /\ TransferTypeOK /\ UplinkOk /\ Holds(rx) /\ rx \in Receiver
      /\ ParkedOk(rx)
  BY DEF TInv, IInv, TypeOK, RxInv
<1>2. /\ UNCHANGED clientVars /\ accepted' = accepted /\ reply' = reply
      /\ uplink' \in {uplink, <<>>}
      /\ downlink' = downlink \/ downlink' = downlink \o Notification(rx)
  BY DEF DeviceDisconnect, DeviceNotify, DeviceLoop, DeviceQuiet, DeviceDoze, linkVars
<1>3. IInv'
  <2>1. Next
    BY DEF DeviceDisconnect, DeviceNotify, DeviceLoop, DeviceQuiet, DeviceDoze, Next, LoopStep
  <2> QED
    BY <1>1, <2>1, NextOk
<1> DEFINE Same == /\ rx'.state = rx.state \/ (rx'.state = "idle" /\ ~Receiving(rx))
                   /\ rx'.data = rx.data /\ rx'.kind = rx.kind
                   /\ rx'.expected = rx.expected /\ rx'.crc = rx.crc
                   /\ rx'.done_content \subseteq rx.done_content
<1>4. CASE rx' = TakeNotification(rx) \/ rx' = rx \/ Quiet
  <2>1. Same
    <3>1. CASE rx' = TakeNotification(rx)
      BY <1>1, <3>1, TakenOk
    <3>2. CASE rx' = rx
      BY <3>2
    <3>3. CASE Quiet
      BY <1>1, <3>3 DEF Quiet, Receiver
    <3> QED
      BY <1>4, <3>1, <3>2, <3>3
  <2>2. pc' = "ended" => client = "closed"
    <3>1. ASSUME DeviceDisconnect PROVE client = "closed"
      <4>1. /\ uplink # <<>> /\ Head(uplink).op = "disconnect"
            /\ uplink \in Seq(Packet \cup {[op |-> "disconnect"]})
        BY <1>1, <3>1 DEF DeviceDisconnect, Arrived, TransferTypeOK
      <4>2. Head(uplink) \in ToSet(uplink)
        BY <4>1, ToSetOk
      <4> QED
        BY <1>1, <4>1, <4>2 DEF UplinkOk, Ops
    <3>2. ASSUME DeviceNotify \/ DeviceLoop \/ DeviceQuiet PROVE pc' # "ended"
      BY <3>2 DEF DeviceNotify, DeviceLoop, DeviceQuiet, PumpEvent, PumpDry, PumpFull, Apply,
                  Stream, TickLight, Tick, Reopen, Quiet, NextPass
    <3>3. ASSUME DeviceDoze PROVE client = "closed"
      BY <3>3 DEF DeviceDoze
    <3> QED
      BY <3>1, <3>2, <3>3
  <2> HIDE DEF Same
  <2> QED
    BY <1>2, <1>3, <2>1, <2>2, OtherStep DEF Same
<1>5. CASE DeviceLoop /\ Apply
  <2> DEFINE clear == rx.clear_image_req /\ ~rx.pending_ntf
  <2>1. rx' = AfterApply(Take(rx.done), Take(rx.done_content), clear) /\ pc' # "ended"
    BY <1>5 DEF Apply
  <2>2. /\ rx'.data = rx.data /\ rx'.kind = rx.kind
        /\ rx'.expected = rx.expected /\ rx'.crc = rx.crc
        /\ rx'.done_content = rx.done_content \ Take(rx.done_content)
        /\ rx'.state = IF Take(rx.done) \cup Take(rx.done_content) # {} THEN "idle" ELSE rx.state
    BY <1>1, <2>1 DEF AfterApply, Receiver
  <2>3. Take(rx.done) \cup Take(rx.done_content) # {} => ~Receiving(rx)
    BY <1>1 DEF Take, ParkedOk, Receiving
  <2>4. Same
    BY <2>2, <2>3
  <2> HIDE DEF Same
  <2> QED
    BY <1>2, <1>3, <2>1, <2>4, OtherStep DEF Same
<1>6. CASE DeviceLoop /\ Reopen
  <2>1. rx' = DefaultRx /\ client = "closed" /\ pc' # "ended"
    BY <1>1, <1>6 DEF Reopen, UplinkOk
  <2> QED
    BY <1>2, <1>3, <2>1, OtherStep
<1> QED
  BY <1>4, <1>5, <1>6
  DEF DeviceDisconnect, DeviceNotify, DeviceLoop, DeviceQuiet, DeviceDoze,
      PumpDisconnect, PumpEvent, PumpDry, PumpFull, Stream, TickLight, Tick, DozeOff

-----------------------------------------------------------------------------
(* The client. *)

\* What a step of the client must respect to keep TInv.
LEMMA ClientKeeps ==
    ASSUME TInv, UNCHANGED <<vars, accepted>>, TransferTypeOK', UplinkOk',
           Underway' \subseteq Underway,
           client' \in Starting \cup Sending => client \in Starting \cup Sending,
           client' # "start",
           client' = "startAck" /\ uplink' # <<>> => ~Receiving(rx),
           client' \in Committing \/ "commit" \in Ops(uplink') =>
                /\ "contentStart" \notin Ops(uplink')
                /\ Receiving(rx) => Len(rx.data) = Len(Payload),
           client' \notin {"done", "closed"} => verdict' = "none"
    PROVE  TInv'
<1>1. IInv /\ Holds(rx) /\ AcceptedOk /\ StatusesOk /\ UNCHANGED vars
  BY DEF TInv
<1>2. IInv'
  BY <1>1, NextOk
<1>3. rx' = rx /\ accepted' = accepted
  BY <1>1 DEF vars
<1>4. Holds(rx') /\ AcceptedOk' /\ StatusesOk' /\ StartsIdle' /\ CommitReady'
  BY <1>1, <1>3 DEF AcceptedOk, StatusesOk, StartsIdle, CommitReady
<1> QED
  BY <1>2, <1>4 DEF TInv

\* Steps that send nothing.
LEMMA UplinkKept ==
    ASSUME TInv, uplink' = uplink, pc' = pc, client \notin {"start", "closed"}, client' # "closed",
           client = "startAck" => client' = "startAck" \/ uplink = <<>>,
           client \in {"commitWait", "commitRead", "done"} =>
                client' \in {"commitWait", "commitRead", "done"},
           client' = "startAck" => client = "startAck"
    PROVE  UplinkOk'
<1>1. UplinkOk /\ (uplink = <<>> => Ops(uplink) = {})
  BY ToSetEmpty DEF TInv, Ops
<1> QED
  BY <1>1 DEF UplinkOk

\* Steps that send packet m.
LEMMA UplinkSent ==
    ASSUME TInv, NEW m \in Packet \cup {[op |-> "disconnect"]}, m \in Control \/ Chunk(m),
           uplink' = Append(uplink, m), pc' = pc,
           client # "closed",
           client' = "closed" \/
              /\ client # "start" \/ uplink = <<>>
              /\ client # "startAck" \/ uplink = <<>>
              /\ m.op \notin {"subscribe", "disconnect"}
              /\ m.op = "contentStart" => client' = "startAck"
              /\ client' = "startAck" => uplink = <<>> /\ m = StartPacket
              /\ m.op = "commit" \/ client \in {"commitWait", "commitRead", "done"} =>
                    client' \in {"commitWait", "commitRead", "done"}
    PROVE  /\ UplinkOk'
           /\ uplink' \in Seq(Packet \cup {[op |-> "disconnect"]})
           /\ Ops(uplink') = Ops(uplink) \cup {m.op}
<1> DEFINE Link == Packet \cup {[op |-> "disconnect"]}
<1>1. UplinkOk /\ uplink \in Seq(Link) /\ (uplink = <<>> => Ops(uplink) = {})
  BY ToSetEmpty DEF TInv, Ops, TransferTypeOK
<1> HIDE DEF Link
<1>2. m \in Link
  BY DEF Link
<1>3. ToSet(uplink') = ToSet(uplink) \cup {m} /\ uplink' \in Seq(Link)
  BY <1>1, <1>2, ToSetOk
<1>4. Ops(uplink') = Ops(uplink) \cup {m.op}
  BY <1>3 DEF Ops
<1>5. \A e \in ToSet(uplink') : e \in Control \/ Chunk(e)
  BY <1>1, <1>3 DEF UplinkOk
<1>6. client' = "startAck" => uplink' = <<StartPacket>>
  BY <1>1, <1>2
<1>7. UplinkOk'
  BY <1>1, <1>4, <1>5, <1>6 DEF UplinkOk
<1> QED
  BY <1>3, <1>4, <1>7 DEF Link

\* What the client sends, and where it goes next.
LEMMA ControlOk ==
    /\ StartPacket \in Packet /\ StartPacket \in Control /\ StartPacket.op = "contentStart"
    /\ \A op \in {"sync", "readStatus", "commit"} :
          [op |-> op] \in Packet /\ [op |-> op] \in Control /\ [op |-> op].op = op
    /\ [op |-> "disconnect"] \in Control
<1>1. StartPacket \in ContentStartMsg /\ StartPacket.op = "contentStart"
  BY TransferAssumption, AckAssumption DEF StartPacket, ContentStartMsg
<1> QED
  BY <1>1 DEF Packet, PlainMsg, PlainOp, Control

\* The next chunk is one of the payload.
LEMMA PartOk ==
    ASSUME TransferTypeOK, off < Len(Payload)
    PROVE  /\ Chunk(DataPacket) /\ DataPacket \in Packet /\ DataPacket.op = "data"
           /\ Len(Part) \in 1..chunk /\ off + Len(Part) \in 0..Len(Payload)
           /\ off + Len(Part) = Min({off + chunk, Len(Payload)})
<1> DEFINE e == Min({off + chunk, Len(Payload)})
<1>1. /\ off \in Nat /\ chunk \in Nat \ {0} /\ Len(Payload) \in Nat /\ Payload \in Seq(Byte)
  BY TransferAssumption DEF TransferTypeOK
<1>2. e = IF off + chunk <= Len(Payload) THEN off + chunk ELSE Len(Payload)
  BY <1>1, MinOfTwo
<1> HIDE DEF e
<1>3. e \in Nat /\ off + 1 <= e /\ e <= Len(Payload) /\ e <= off + chunk
  BY <1>1, <1>2
<1>4. Part = SubSeq(Payload, off + 1, e)
  BY DEF Part, e
<1>5. \A i \in (off + 1)..e : Payload[i] \in Byte
  BY <1>1, <1>3
<1>6. /\ Part \in Seq(Byte) /\ Len(Part) = e - off
      /\ \A i \in 1..Len(Part) : Part[i] = Payload[off + i]
  <2>1. /\ Part \in Seq(Byte)
        /\ Len(Part) = e - (off + 1) + 1
        /\ \A i \in 1..(e - (off + 1) + 1) : Part[i] = Payload[(off + 1) + i - 1]
    BY <1>1, <1>3, <1>4, <1>5, SubSeqProperties
  <2>2. e - (off + 1) + 1 = e - off /\ \A i \in Nat : (off + 1) + i - 1 = off + i
    BY <1>1, <1>3
  <2> QED
    BY <1>1, <1>3, <2>1, <2>2
<1> HIDE DEF Part
<1>7. DataPacket = [op |-> "data", off |-> off, bytes |-> Part]
  BY DEF DataPacket
<1>8. DataPacket \in DataMsg /\ DataPacket.op = "data" /\ DataPacket.off = off /\ DataPacket.bytes = Part
  BY <1>1, <1>6, <1>7 DEF DataMsg
<1>9. Part # <<>> /\ off + Len(Part) = e /\ Len(Part) \in 1..chunk
  BY <1>1, <1>3, <1>6
<1>10. Chunk(DataPacket)
  BY <1>3, <1>6, <1>8, <1>9 DEF Chunk
<1>11. off + Len(Part) \in 0..Len(Payload)
  BY <1>1, <1>3, <1>9
<1> QED
  BY <1>8, <1>9, <1>10, <1>11 DEF Packet, e

\* The client takes a notification.
LEMMA TakeDownlink ==
    ASSUME TInv, downlink # <<>>, downlink' = Tail(downlink), reply' = reply
    PROVE  /\ downlink' \in Seq(StatusMsg) /\ Underway' \subseteq Underway
           /\ Head(downlink) \in StatusMsg /\ Head(downlink) \in Underway
<1>1. downlink \in Seq(StatusMsg)
  BY DEF TInv, TransferTypeOK
<1>2. /\ ToSet(downlink) \subseteq StatusMsg /\ Head(downlink) \in ToSet(downlink)
      /\ downlink' \in Seq(StatusMsg) /\ ToSet(downlink') \subseteq ToSet(downlink)
  BY <1>1, ToSetOk
<1> QED
  BY <1>2 DEF Underway

\* What the client has learned while it sends is true of the device.
LEMMA LearnedOk ==
    ASSUME TInv, NEW st \in Underway
    PROVE  /\ st \in StatusMsg
           /\ st.state = "committed" => accepted
           /\ client \in Sending /\ Receiving(rx) /\ st.received >= Len(Payload) =>
                Len(rx.data) = Len(Payload)
<1>1. st \in StatusMsg
  <2>1. ToSet(downlink) \subseteq StatusMsg /\ reply \subseteq StatusMsg
    BY ToSetOk DEF TInv, TransferTypeOK
  <2> QED
    BY <2>1 DEF Underway
<1>2. Len(rx.data) <= Len(Payload) /\ rx \in Receiver
  BY DEF TInv, IInv, TypeOK, Holds, IsPrefix
<1>3. Len(rx.data) \in Nat /\ Len(Payload) \in Nat /\ st.received \in Nat
  BY <1>1, <1>2, TransferAssumption DEF Receiver, StatusMsg
<1>4. /\ st.state = "committed" => accepted
      /\ client \in Sending => st.received <= Len(rx.data)
  BY DEF TInv, StatusesOk
<1> QED
  BY <1>1, <1>2, <1>3, <1>4

LEMMA TimeOutType ==
    ASSUME TransferTypeOK, TimeOut
    PROVE  early' \in 0..MaxEarly /\ early' >= early /\ (early' = early => ~notifyOk \/ Silent)
BY TransferAssumption DEF TransferTypeOK, TimeOut

\* What is at hand in every step of the client.
LEMMA AtHand ==
    ASSUME TInv
    PROVE  /\ TransferTypeOK /\ StartsIdle /\ CommitReady
           /\ client \notin {"done", "closed"} => verdict = "none"
           /\ client \notin {"start", "startAck", "closed"} => "contentStart" \notin Ops(uplink)
           /\ client \notin {"commitWait", "commitRead", "done", "closed"} =>
                "commit" \notin Ops(uplink)
           /\ uplink = <<>> => Ops(uplink) = {}
           /\ client = "startAck" => uplink \in {<<>>, <<StartPacket>>}
BY ToSetEmpty DEF TInv, UplinkOk, Ops

LEMMA SendStartOk == TInv /\ SendStart => TInv'
<1> SUFFICES ASSUME TInv, SendStart PROVE TInv'
  OBVIOUS
<1>1. /\ client = "start" /\ uplink = <<>> /\ uplink' = Append(uplink, StartPacket)
      /\ client' = "startAck" /\ UNCHANGED <<vars, accepted>> /\ pc' = pc
      /\ UNCHANGED <<progress, verdict, chosen, downlink, reply, lost, early>>
  BY DEF SendStart, Answered, Send, vars
<1>2. UplinkOk' /\ uplink' \in Seq(Packet \cup {[op |-> "disconnect"]})
      /\ Ops(uplink') = Ops(uplink) \cup {"contentStart"}
  BY <1>1, UplinkSent, ControlOk
<1>3. TransferTypeOK'
  BY <1>1, <1>2, AtHand DEF TransferTypeOK, progress, chosen
<1>4. Underway' \subseteq Underway
  BY <1>1 DEF Underway
<1> QED
  BY <1>1, <1>2, <1>3, <1>4, AtHand, ClientKeeps DEF Starting, Sending, Committing, StartsIdle

LEMMA StartAckOk == TInv /\ StartAck => TInv'
<1> SUFFICES ASSUME TInv, StartAck PROVE TInv'
  OBVIOUS
<1>1. /\ client = "startAck" /\ uplink = <<>> /\ uplink' = uplink
      /\ client' \in {"startAck", "burst"} /\ UNCHANGED <<vars, accepted>> /\ pc' = pc
      /\ downlink # <<>> /\ downlink' = Tail(downlink)
      /\ UNCHANGED <<progress, verdict, chosen, reply, lost, early>>
  BY DEF StartAck, Answered, vars
<1>2. UplinkOk'
  BY <1>1, UplinkKept
<1>3. downlink' \in Seq(StatusMsg) /\ Underway' \subseteq Underway
  BY <1>1, TakeDownlink
<1>4. TransferTypeOK'
  BY <1>1, <1>3, AtHand DEF TransferTypeOK, progress, chosen
<1> QED
  BY <1>1, <1>2, <1>3, <1>4, AtHand, ClientKeeps DEF Starting, Sending, Committing

LEMMA StartTimeOutOk == TInv /\ StartTimeOut => TInv'
<1> SUFFICES ASSUME TInv, StartTimeOut PROVE TInv'
  OBVIOUS
<1>1. /\ client = "startAck" /\ uplink = <<>> /\ uplink' = Append(uplink, [op |-> "readStatus"])
      /\ client' = "startRead" /\ UNCHANGED <<vars, accepted>> /\ pc' = pc
      /\ reply' = {} /\ TimeOut
      /\ UNCHANGED <<progress, verdict, chosen, downlink, lost>>
  BY DEF StartTimeOut, Answered, SendRead, Send, vars
<1>2. UplinkOk' /\ uplink' \in Seq(Packet \cup {[op |-> "disconnect"]})
      /\ Ops(uplink') = Ops(uplink) \cup {"readStatus"}
  BY <1>1, UplinkSent, ControlOk
<1>3. TransferTypeOK'
  BY <1>1, <1>2, AtHand, TimeOutType DEF TransferTypeOK, progress, chosen
<1>4. Underway' \subseteq Underway
  BY <1>1 DEF Underway
<1> QED
  BY <1>1, <1>2, <1>3, <1>4, AtHand, ClientKeeps DEF Starting, Sending, Committing

LEMMA StartReadOk == TInv /\ StartRead => TInv'
<1> SUFFICES ASSUME TInv, StartRead PROVE TInv'
  OBVIOUS
<1>1. /\ client = "startRead" /\ uplink' = uplink
      /\ \/ client' = "burst" /\ verdict' = verdict
         \/ client' = "done" /\ verdict' = "failed"
      /\ UNCHANGED <<vars, accepted>> /\ pc' = pc
      /\ UNCHANGED <<progress, chosen, downlink, reply, lost, early>>
  BY DEF StartRead, Fail, vars, linkVars
<1>2. UplinkOk'
  BY <1>1, UplinkKept
<1>3. TransferTypeOK'
  BY <1>1, AtHand DEF TransferTypeOK, progress, chosen, Verdicts
<1>4. Underway' \subseteq Underway
  BY <1>1 DEF Underway
<1> QED
  BY <1>1, <1>2, <1>3, <1>4, AtHand, ClientKeeps DEF Starting, Sending, Committing

LEMMA SendChunkOk == TInv /\ SendChunk => TInv'
<1> SUFFICES ASSUME TInv, SendChunk PROVE TInv'
  OBVIOUS
<1>1. /\ client = "burst" /\ client' = client /\ sent < AckWindow /\ off < Len(Payload)
      /\ \/ uplink' = Append(uplink, DataPacket) /\ lost' = lost
         \/ uplink' = uplink /\ lost' = [lost EXCEPT !["data"] = @ + 1]
         \/ uplink' = uplink /\ lost' = lost
      /\ off' = off + Len(Part) /\ sent' = sent + 1
      /\ UNCHANGED <<vars, accepted>> /\ pc' = pc
      /\ UNCHANGED <<burstStart, chunk, verdict, chosen, downlink, reply, early>>
  BY DEF SendChunk, Send, Lose, vars
<1>2. TransferTypeOK
  BY AtHand
<1>3. /\ Chunk(DataPacket) /\ DataPacket \in Packet /\ DataPacket.op = "data"
      /\ off + Len(Part) \in 0..Len(Payload)
  BY <1>1, <1>2, PartOk
<1>4. /\ UplinkOk'
      /\ uplink' \in Seq(Packet \cup {[op |-> "disconnect"]})
      /\ Ops(uplink') \subseteq Ops(uplink) \cup {"data"}
  <2>1. CASE uplink' = uplink
    BY <1>1, <1>2, <2>1, UplinkKept DEF TransferTypeOK
  <2>2. CASE uplink' = Append(uplink, DataPacket)
    BY <1>1, <1>3, <2>2, UplinkSent
  <2> QED
    BY <1>1, <2>1, <2>2
<1>5. TransferTypeOK'
  <2>1. sent' \in 0..AckWindow
    BY <1>1, <1>2, TransferAssumption DEF TransferTypeOK
  <2>2. lost' \in [{"data", "commit", "cut"} -> Nat]
    BY <1>1, <1>2 DEF TransferTypeOK
  <2> QED
    BY <1>1, <1>2, <1>3, <1>4, <2>1, <2>2 DEF TransferTypeOK, chosen
<1>6. Underway' \subseteq Underway
  BY <1>1 DEF Underway
<1> QED
  BY <1>1, <1>4, <1>5, <1>6, AtHand, ClientKeeps DEF Starting, Sending, Committing

LEMMA BurstEndOk == TInv /\ (ChunkThrows \/ BurstSent) => TInv'
<1> SUFFICES ASSUME TInv, ChunkThrows \/ BurstSent PROVE TInv'
  OBVIOUS
<1>1. /\ client = "burst" /\ client' = "ackWait" /\ uplink' = uplink /\ chunk' \in {chunk, Small}
      /\ UNCHANGED <<vars, accepted>> /\ pc' = pc
      /\ UNCHANGED <<off, burstStart, sent, verdict, chosen, downlink, reply, lost, early>>
  BY DEF ChunkThrows, BurstSent, vars, linkVars, progress
<1>2. UplinkOk'
  BY <1>1, UplinkKept
<1>3. TransferTypeOK'
  BY <1>1, AtHand DEF TransferTypeOK, chosen
<1>4. Underway' \subseteq Underway
  BY <1>1 DEF Underway
<1> QED
  BY <1>1, <1>2, <1>3, <1>4, AtHand, ClientKeeps DEF Starting, Sending, Committing

\* The head of the window loop, and a status that tells where the device is.
LEMMA NextWindowOk ==
    ASSUME TransferTypeOK, NEW o \in 0..Len(Payload), NextWindow(o)
    PROVE  /\ off' \in 0..Len(Payload) /\ burstStart' \in 0..Len(Payload) /\ sent' \in 0..AckWindow
           /\ client' = "burst" \/ (client' = "commit" /\ o = Len(Payload))
<1>1. Len(Payload) \in Nat /\ AckWindow \in Nat
  BY TransferAssumption, AckAssumption
<1> QED
  BY <1>1 DEF NextWindow

LEMMA ResumeOk ==
    ASSUME TransferTypeOK, NEW st \in StatusMsg, Resume(st)
    PROVE  /\ off' \in 0..Len(Payload) /\ burstStart' \in 0..Len(Payload) /\ sent' \in 0..AckWindow
           /\ chunk' \in {Big, Small}
           /\ \/ client' = "done" /\ verdict' = "failed"
              \/ client' = "burst" /\ verdict' = verdict
              \/ client' = "commit" /\ verdict' = verdict /\ Len(Payload) <= st.received
<1>1. st.received \in Nat /\ off \in Nat /\ off <= Len(Payload) /\ Len(Payload) \in Nat
  BY TransferAssumption DEF StatusMsg, TransferTypeOK
<1>2. CASE st.state # "receiving"
  BY <1>2 DEF Resume, Fail, progress, TransferTypeOK
<1>3. CASE st.state = "receiving"
  <2> DEFINE o == Min({st.received, off})
  <2>1. o \in 0..Len(Payload) /\ (o = Len(Payload) => Len(Payload) <= st.received)
    <3>1. o = IF st.received <= off THEN st.received ELSE off
      BY <1>1, MinOfTwo
    <3> HIDE DEF o
    <3> QED
      BY <1>1, <3>1
  <2>2. NextWindow(o) /\ verdict' = verdict /\ chunk' \in {chunk, Small}
    BY <1>3 DEF Resume
  <2> HIDE DEF o
  <2> QED
    BY <2>1, <2>2, NextWindowOk DEF TransferTypeOK
<1> QED
  BY <1>2, <1>3

LEMMA AckWaitOk == TInv /\ AckWait => TInv'
<1> SUFFICES ASSUME TInv, AckWait PROVE TInv'
  OBVIOUS
<1> DEFINE st == Head(downlink)
<1>1. /\ client = "ackWait" /\ uplink' = uplink
      /\ downlink # <<>> /\ downlink' = Tail(downlink)
      /\ UNCHANGED <<vars, accepted>> /\ pc' = pc
      /\ UNCHANGED <<chunk, verdict, chosen, reply, lost, early>>
  BY DEF AckWait, vars
<1>2. TransferTypeOK
  BY AtHand
<1>3. /\ downlink' \in Seq(StatusMsg) /\ Underway' \subseteq Underway
      /\ st \in StatusMsg /\ st \in Underway
  BY <1>1, TakeDownlink
<1>4. /\ off' \in 0..Len(Payload) /\ burstStart' \in 0..Len(Payload) /\ sent' \in 0..AckWindow
      /\ client' \in {"ackWait", "burst"} \/ (client' = "commit" /\ Len(Payload) <= st.received)
  <2>1. CASE Covers(st)
    <3>1. NextWindow(off) /\ off <= st.received
      BY <2>1 DEF AckWait, Covers
    <3>2. off \in 0..Len(Payload)
      BY <1>2 DEF TransferTypeOK
    <3> HIDE DEF st
    <3> QED
      BY <3>1, <3>2, <1>2, NextWindowOk
  <2>2. CASE ~Covers(st)
    BY <1>1, <1>2, <2>2 DEF AckWait, TransferTypeOK
  <2> QED
    BY <2>1, <2>2
<1> HIDE DEF st
<1>5. UplinkOk'
  BY <1>1, <1>4, UplinkKept
<1>6. TransferTypeOK'
  BY <1>1, <1>2, <1>3, <1>4 DEF TransferTypeOK, chosen
<1>7. client' = "commit" => (Receiving(rx) => Len(rx.data) = Len(Payload))
  BY <1>1, <1>3, <1>4, LearnedOk DEF Sending, StatusMsg
<1> QED
  BY <1>1, <1>3, <1>4, <1>5, <1>6, <1>7, AtHand, ClientKeeps DEF Starting, Sending, Committing

LEMMA AckTimeOutOk == TInv /\ AckTimeOut => TInv'
<1> SUFFICES ASSUME TInv, AckTimeOut PROVE TInv'
  OBVIOUS
<1>1. /\ client = "ackWait" /\ TimeOut
      /\ \/ /\ uplink' = Append(uplink, [op |-> "sync"]) /\ client' = "syncAck" /\ reply' = reply
         \/ /\ uplink' = Append(uplink, [op |-> "readStatus"]) /\ client' = "syncRead" /\ reply' = {}
      /\ UNCHANGED <<vars, accepted>> /\ pc' = pc
      /\ UNCHANGED <<progress, verdict, chosen, downlink, lost>>
  BY DEF AckTimeOut, SendRead, Send, vars
<1>2. PICK op \in {"sync", "readStatus"} : uplink' = Append(uplink, [op |-> op])
  BY <1>1
<1>3. UplinkOk' /\ uplink' \in Seq(Packet \cup {[op |-> "disconnect"]})
      /\ Ops(uplink') = Ops(uplink) \cup {op}
  <2>1. [op |-> op] \in Packet /\ [op |-> op] \in Control /\ [op |-> op].op = op
    BY ControlOk
  <2> QED
    BY <1>1, <1>2, <2>1, UplinkSent
<1>4. TransferTypeOK'
  BY <1>1, <1>3, AtHand, TimeOutType DEF TransferTypeOK, progress, chosen
<1>5. Underway' \subseteq Underway
  BY <1>1 DEF Underway
<1> QED
  BY <1>1, <1>3, <1>4, <1>5, AtHand, ClientKeeps DEF Starting, Sending, Committing

LEMMA SyncAckOk == TInv /\ SyncAck => TInv'
<1> SUFFICES ASSUME TInv, SyncAck PROVE TInv'
  OBVIOUS
<1> DEFINE st == Head(downlink)
<1>1. /\ client = "syncAck" /\ uplink' = uplink
      /\ downlink # <<>> /\ downlink' = Tail(downlink) /\ Resume(st)
      /\ UNCHANGED <<vars, accepted>> /\ pc' = pc
      /\ UNCHANGED <<chosen, reply, lost, early>>
  BY DEF SyncAck, vars
<1> HIDE DEF st
<1>2. TransferTypeOK
  BY AtHand
<1>3. /\ downlink' \in Seq(StatusMsg) /\ Underway' \subseteq Underway
      /\ st \in StatusMsg /\ st \in Underway
  BY <1>1, TakeDownlink DEF st
<1>4. /\ off' \in 0..Len(Payload) /\ burstStart' \in 0..Len(Payload) /\ sent' \in 0..AckWindow
      /\ chunk' \in {Big, Small}
      /\ \/ client' = "done" /\ verdict' = "failed"
         \/ client' = "burst" /\ verdict' = verdict
         \/ client' = "commit" /\ verdict' = verdict /\ Len(Payload) <= st.received
  BY <1>1, <1>2, <1>3, ResumeOk
<1>5. UplinkOk'
  BY <1>1, <1>4, UplinkKept
<1>6. TransferTypeOK'
  BY <1>1, <1>2, <1>3, <1>4 DEF TransferTypeOK, chosen, Verdicts
<1>7. client' = "commit" => (Receiving(rx) => Len(rx.data) = Len(Payload))
  BY <1>1, <1>3, <1>4, LearnedOk DEF Sending, StatusMsg
<1> QED
  BY <1>1, <1>3, <1>4, <1>5, <1>6, <1>7, AtHand, ClientKeeps DEF Starting, Sending, Committing

LEMMA SyncTimeOutOk == TInv /\ SyncTimeOut => TInv'
<1> SUFFICES ASSUME TInv, SyncTimeOut PROVE TInv'
  OBVIOUS
<1>1. /\ client = "syncAck" /\ uplink = <<>> /\ uplink' = Append(uplink, [op |-> "readStatus"])
      /\ client' = "syncRead" /\ UNCHANGED <<vars, accepted>> /\ pc' = pc
      /\ reply' = {} /\ TimeOut
      /\ UNCHANGED <<progress, verdict, chosen, downlink, lost>>
  BY DEF SyncTimeOut, Answered, SendRead, Send, vars
<1>2. UplinkOk' /\ uplink' \in Seq(Packet \cup {[op |-> "disconnect"]})
      /\ Ops(uplink') = Ops(uplink) \cup {"readStatus"}
  BY <1>1, UplinkSent, ControlOk
<1>3. TransferTypeOK'
  BY <1>1, <1>2, AtHand, TimeOutType DEF TransferTypeOK, progress, chosen
<1>4. Underway' \subseteq Underway
  BY <1>1 DEF Underway
<1> QED
  BY <1>1, <1>2, <1>3, <1>4, AtHand, ClientKeeps DEF Starting, Sending, Committing

LEMMA SyncReadOk == TInv /\ SyncRead => TInv'
<1> SUFFICES ASSUME TInv, SyncRead PROVE TInv'
  OBVIOUS
<1>1. PICK st \in reply : Resume(st)
  BY DEF SyncRead
<1>2. /\ client = "syncRead" /\ uplink' = uplink
      /\ UNCHANGED <<vars, accepted>> /\ pc' = pc
      /\ UNCHANGED <<chosen, downlink, reply, lost, early>>
  BY DEF SyncRead, vars, linkVars
<1>3. TransferTypeOK
  BY AtHand
<1>4. Underway' \subseteq Underway /\ st \in StatusMsg /\ st \in Underway
  BY <1>2, <1>3 DEF Underway, TransferTypeOK
<1>5. /\ off' \in 0..Len(Payload) /\ burstStart' \in 0..Len(Payload) /\ sent' \in 0..AckWindow
      /\ chunk' \in {Big, Small}
      /\ \/ client' = "done" /\ verdict' = "failed"
         \/ client' = "burst" /\ verdict' = verdict
         \/ client' = "commit" /\ verdict' = verdict /\ Len(Payload) <= st.received
  BY <1>1, <1>3, <1>4, ResumeOk
<1>6. UplinkOk'
  BY <1>2, <1>5, UplinkKept
<1>7. TransferTypeOK'
  BY <1>2, <1>3, <1>5 DEF TransferTypeOK, chosen, Verdicts
<1>8. client' = "commit" => (Receiving(rx) => Len(rx.data) = Len(Payload))
  BY <1>2, <1>4, <1>5, LearnedOk DEF Sending, StatusMsg
<1> QED
  BY <1>2, <1>4, <1>5, <1>6, <1>7, <1>8, AtHand, ClientKeeps DEF Starting, Sending, Committing

LEMMA SendCommitOk == TInv /\ SendCommit => TInv'
<1> SUFFICES ASSUME TInv, SendCommit PROVE TInv'
  OBVIOUS
<1>1. /\ client = "commit" /\ client' = "commitWait"
      /\ \/ uplink' = Append(uplink, [op |-> "commit"]) /\ lost' = lost
         \/ uplink' = uplink /\ lost' = [lost EXCEPT !["commit"] = @ + 1]
      /\ UNCHANGED <<vars, accepted>> /\ pc' = pc
      /\ UNCHANGED <<progress, verdict, chosen, downlink, reply, early>>
  BY DEF SendCommit, Send, Lose, vars
<1>2. TransferTypeOK
  BY AtHand
<1>3. /\ UplinkOk' /\ uplink' \in Seq(Packet \cup {[op |-> "disconnect"]})
      /\ Ops(uplink') \subseteq Ops(uplink) \cup {"commit"}
  <2>1. CASE uplink' = uplink
    BY <1>1, <1>2, <2>1, UplinkKept DEF TransferTypeOK
  <2>2. CASE uplink' = Append(uplink, [op |-> "commit"])
    BY <1>1, <2>2, UplinkSent, ControlOk
  <2> QED
    BY <1>1, <2>1, <2>2
<1>4. lost' \in [{"data", "commit", "cut"} -> Nat]
  BY <1>1, <1>2 DEF TransferTypeOK
<1>5. TransferTypeOK'
  BY <1>1, <1>2, <1>3, <1>4 DEF TransferTypeOK, progress, chosen
<1>6. Underway' \subseteq Underway
  BY <1>1 DEF Underway
<1>7. /\ "contentStart" \notin Ops(uplink')
      /\ Receiving(rx) => Len(rx.data) = Len(Payload)
  BY <1>1, <1>3, AtHand DEF CommitReady, Committing
<1> QED
  BY <1>1, <1>3, <1>5, <1>6, <1>7, AtHand, ClientKeeps DEF Starting, Sending, Committing

LEMMA CommitWaitOk == TInv /\ CommitWait => TInv'
<1> SUFFICES ASSUME TInv, CommitWait PROVE TInv'
  OBVIOUS
<1>1. /\ client = "commitWait" /\ uplink' = uplink
      /\ downlink # <<>> /\ downlink' = Tail(downlink)
      /\ \/ client' = client /\ verdict' = verdict
         \/ client' = "done" /\ verdict' \in {"ok", "rejected"}
      /\ UNCHANGED <<vars, accepted>> /\ pc' = pc
      /\ UNCHANGED <<progress, chosen, reply, lost, early>>
  BY DEF CommitWait, Conclude, vars
<1>2. downlink' \in Seq(StatusMsg) /\ Underway' \subseteq Underway
  BY <1>1, TakeDownlink
<1>3. UplinkOk'
  BY <1>1, UplinkKept
<1>4. TransferTypeOK'
  BY <1>1, <1>2, AtHand DEF TransferTypeOK, progress, chosen, Verdicts
<1>5. /\ "contentStart" \notin Ops(uplink')
      /\ Receiving(rx) => Len(rx.data) = Len(Payload)
  BY <1>1, AtHand DEF CommitReady, Committing
<1> QED
  BY <1>1, <1>2, <1>3, <1>4, <1>5, AtHand, ClientKeeps DEF Starting, Sending, Committing

LEMMA CommitTimeOutOk == TInv /\ CommitTimeOut => TInv'
<1> SUFFICES ASSUME TInv, CommitTimeOut PROVE TInv'
  OBVIOUS
<1>1. /\ client = "commitWait" /\ uplink' = Append(uplink, [op |-> "readStatus"])
      /\ client' = "commitRead" /\ UNCHANGED <<vars, accepted>> /\ pc' = pc
      /\ reply' = {} /\ TimeOut
      /\ UNCHANGED <<progress, verdict, chosen, downlink, lost>>
  BY DEF CommitTimeOut, SendRead, Send, vars
<1>2. UplinkOk' /\ uplink' \in Seq(Packet \cup {[op |-> "disconnect"]})
      /\ Ops(uplink') = Ops(uplink) \cup {"readStatus"}
  BY <1>1, UplinkSent, ControlOk
<1>3. TransferTypeOK'
  BY <1>1, <1>2, AtHand, TimeOutType DEF TransferTypeOK, progress, chosen
<1>4. Underway' \subseteq Underway
  BY <1>1 DEF Underway
<1>5. /\ "contentStart" \notin Ops(uplink')
      /\ Receiving(rx) => Len(rx.data) = Len(Payload)
  BY <1>1, <1>2, AtHand DEF CommitReady, Committing
<1> QED
  BY <1>1, <1>2, <1>3, <1>4, <1>5, AtHand, ClientKeeps DEF Starting, Sending, Committing

LEMMA CommitReadOk == TInv /\ CommitRead => TInv'
<1> SUFFICES ASSUME TInv, CommitRead PROVE TInv'
  OBVIOUS
<1>1. /\ client = "commitRead" /\ uplink' = uplink
      /\ client' = "done" /\ verdict' \in {"ok", "rejected"}
      /\ UNCHANGED <<vars, accepted>> /\ pc' = pc
      /\ UNCHANGED <<progress, chosen, downlink, reply, lost, early>>
  BY DEF CommitRead, Conclude, vars, linkVars
<1>2. UplinkOk'
  BY <1>1, UplinkKept
<1>3. TransferTypeOK'
  BY <1>1, AtHand DEF TransferTypeOK, progress, chosen, Verdicts
<1>4. Underway' \subseteq Underway
  BY <1>1 DEF Underway
<1>5. /\ "contentStart" \notin Ops(uplink')
      /\ Receiving(rx) => Len(rx.data) = Len(Payload)
  BY <1>1, AtHand DEF CommitReady, Committing
<1> QED
  BY <1>1, <1>2, <1>3, <1>4, <1>5, AtHand, ClientKeeps DEF Starting, Sending, Committing

LEMMA LeaveOk == TInv /\ (Close \/ Cut) => TInv'
<1> SUFFICES ASSUME TInv, Close \/ Cut PROVE TInv'
  OBVIOUS
<1>1. /\ client # "closed" /\ uplink' = Append(uplink, [op |-> "disconnect"])
      /\ client' = "closed" /\ UNCHANGED <<vars, accepted>> /\ pc' = pc
      /\ verdict' \in {verdict, "unknown", "failed"}
      /\ lost' = lost \/ lost' = [lost EXCEPT !["cut"] = @ + 1]
      /\ UNCHANGED <<progress, chosen, downlink, reply, early>>
      /\ client = "done" => uplink = <<>>
  BY DEF Close, Cut, Send, Answered, vars
<1>2. TransferTypeOK
  BY AtHand
<1>3. UplinkOk' /\ uplink' \in Seq(Packet \cup {[op |-> "disconnect"]})
      /\ Ops(uplink') = Ops(uplink) \cup {"disconnect"}
  <2>1. [op |-> "disconnect"] \in Packet \cup {[op |-> "disconnect"]}
    OBVIOUS
  <2>2. [op |-> "disconnect"].op = "disconnect"
    OBVIOUS
  <2> QED
    BY <1>1, <2>1, <2>2, UplinkSent, ControlOk
<1>4. lost' \in [{"data", "commit", "cut"} -> Nat]
  BY <1>1, <1>2 DEF TransferTypeOK
<1>5. TransferTypeOK'
  BY <1>1, <1>2, <1>3, <1>4 DEF TransferTypeOK, progress, chosen, Verdicts
<1>6. Underway' \subseteq Underway
  BY <1>1 DEF Underway
<1>7. "commit" \in Ops(uplink') =>
        /\ "contentStart" \notin Ops(uplink')
        /\ Receiving(rx) => Len(rx.data) = Len(Payload)
  BY <1>3, AtHand DEF CommitReady
<1> QED
  BY <1>1, <1>3, <1>5, <1>6, <1>7, AtHand, ClientKeeps DEF Starting, Sending, Committing

-----------------------------------------------------------------------------

LEMMA TInitOk == TInit => TInv
<1> SUFFICES ASSUME TInit PROVE TInv
  OBVIOUS
<1>1. IInv /\ rx = DefaultRx /\ pc = "pump"
  BY InitOk DEF TInit, Init
<1>2. rx.data = <<>> /\ rx.state = "idle" /\ rx.done_content = {}
  BY <1>1 DEF DefaultRx
<1>3. Payload \in Seq(Byte) /\ Len(Payload) \in Nat /\ AckWindow \in Nat /\ MaxEarly \in Nat
  BY TransferAssumption, AckAssumption
<1>4. Holds(rx) /\ AcceptedOk
  BY <1>2, <1>3, PrefixEmpty DEF Holds, AcceptedOk, Receiving
<1> DEFINE sub == [op |-> "subscribe"]
<1>5. sub \in Packet /\ sub \in Control /\ sub.op = "subscribe"
  BY DEF Packet, PlainMsg, PlainOp, Control
<1> HIDE DEF sub
<1>6. uplink \in Seq(Packet \cup {[op |-> "disconnect"]}) /\ ToSet(uplink) \subseteq {sub}
  <2>1. uplink = <<sub>> \/ uplink = <<>>
    BY DEF TInit, sub
  <2>2. <<sub>> \in Seq(Packet \cup {[op |-> "disconnect"]})
        /\ <<>> \in Seq(Packet \cup {[op |-> "disconnect"]})
    BY <1>5
  <2>3. ToSet(<<sub>>) = {sub}
    BY DEF ToSet
  <2> QED
    BY <2>1, <2>2, <2>3, ToSetEmpty
<1>7. Ops(uplink) \subseteq {"subscribe"}
  BY <1>5, <1>6 DEF Ops
<1>8. UplinkOk
  BY <1>1, <1>5, <1>6, <1>7 DEF TInit, UplinkOk
<1>9. TransferTypeOK
  <2>1. downlink \in Seq(StatusMsg) /\ reply \subseteq StatusMsg
    BY DEF TInit
  <2>2. lost \in [{"data", "commit", "cut"} -> Nat]
    BY DEF TInit
  <2>3. off \in 0..Len(Payload) /\ burstStart \in 0..Len(Payload) /\ sent \in 0..AckWindow
        /\ early \in 0..MaxEarly
    BY <1>3 DEF TInit
  <2> QED
    BY <1>6, <2>1, <2>2, <2>3 DEF TInit, TransferTypeOK
<1>10. StatusesOk
  <2>1. Underway = {}
    BY ToSetEmpty DEF TInit, Underway
  <2> QED
    BY <2>1 DEF StatusesOk
<1>11. StartsIdle /\ CommitReady
  BY <1>2, <1>7 DEF TInit, StartsIdle, CommitReady, Receiving, Committing
<1> QED
  BY <1>1, <1>4, <1>8, <1>9, <1>10, <1>11 DEF TInit, TInv

LEMMA TNextOk == TInv /\ [TNext]_tvars => TInv'
<1> SUFFICES ASSUME TInv, [TNext]_tvars PROVE TInv'
  OBVIOUS
<1>1. CASE ClientStep \/ Cut
  BY <1>1, SendStartOk, StartAckOk, StartTimeOutOk, StartReadOk, SendChunkOk, BurstEndOk,
     AckWaitOk, AckTimeOutOk, SyncAckOk, SyncTimeOutOk, SyncReadOk,
     SendCommitOk, CommitWaitOk, CommitTimeOutOk, CommitReadOk, LeaveOk
  DEF ClientStep
<1>2. CASE DeviceStep \/ DeviceQuiet \/ DeviceDoze
  BY <1>2, DevicePacketOk, DeviceOtherOk DEF DeviceStep
<1>3. CASE UNCHANGED tvars
  <2>1. UNCHANGED clientVars /\ UNCHANGED linkVars /\ UNCHANGED vars /\ accepted' = accepted
    BY <1>3 DEF tvars, clientVars, linkVars
  <2>2. IInv /\ IInv' /\ UplinkOk
    BY <2>1, NextOk DEF TInv
  <2>3. rx' = rx /\ pc' = pc /\ uplink' = uplink /\ downlink' = downlink /\ reply' = reply
    BY <2>1 DEF vars, linkVars
  <2>4. pc' = "ended" => client = "closed"
    BY <2>2, <2>3 DEF UplinkOk
  <2> QED
    BY <2>1, <2>2, <2>3, <2>4, OtherStep
<1> QED
  BY <1>1, <1>2, <1>3 DEF TNext
-----------------------------------------------------------------------------
(* The theorems. *)

\* TInv holds in every state of every transfer.
THEOREM TransferInductive == TSpec => []TInv
BY TInitOk, TNextOk, PTL DEF TSpec

\* Every variable of the client, the link and the device keeps its type: the
\* counters of transfer() stay in range however often a window is rewound.
THEOREM TransferTypes == TSpec => []TransferTypeOK
<1>1. TInv => TransferTypeOK
  BY DEF TInv
<1> QED
  BY <1>1, TransferInductive, PTL

\* "every loss is detected and repaired" (ble.rs:30): whatever is lost, late or
\* sent again, the device holds a prefix of the payload.
THEOREM PrefixReceived == TSpec => []ReceivedIsPrefix
<1>1. TInv => ReceivedIsPrefix
  BY DEF TInv, Holds, ReceivedIsPrefix
<1> QED
  BY <1>1, TransferInductive, PTL

\* A COMMIT of the web client finds the payload complete, for every schedule of
\* losses and timeouts: no status it acts on says more than the device has.
THEOREM CommitComplete == TSpec => []CommitIsComplete
<1>1. TInv => CommitIsComplete
  BY DEF TInv, Holds, CommitIsComplete
<1> QED
  BY <1>1, TransferInductive, PTL

\* What BleSession proves of the device for any central holds with this client,
\* packet by packet: what is parked is verified, the window bookkeeping is
\* within its bounds, and a suppressed NAK is never the only answer.
THEOREM SessionSafe == TSpec => [](ParkedIsVerified /\ WindowBounds /\ SilenceMeansTold)
<1>1. TInv => ParkedIsVerified /\ WindowBounds /\ SilenceMeansTold
  BY DEF TInv, IInv, RxInv, ParkedOk, RunningOk, Told, Parked,
         ParkedIsVerified, WindowBounds, SilenceMeansTold
<1> QED
  BY <1>1, TransferInductive, PTL

\* The plate starts with another text than the payload.
LEMMA UpdateInit == TInit => Update!Init
BY TransferAssumption DEF TInit, Init, Update!Init

\* Every step of the transfer is one of the atomic update, or changes nothing
\* that it speaks of.
LEMMA UpdateNext == TInv /\ TInv' /\ [TNext]_tvars => [Update!Next]_(Update!avars)
<1> SUFFICES ASSUME TInv, TInv', [TNext]_tvars PROVE [Update!Next]_(Update!avars)
  OBVIOUS
<1>1. /\ TransferTypeOK /\ rx \in Receiver /\ Holds(rx) /\ AcceptedOk
      /\ accepted \in BOOLEAN /\ accepted' \in BOOLEAN
      /\ client \notin {"done", "closed"} => verdict = "none"
  <2>1. TransferTypeOK' /\ TransferTypeOK
    BY DEF TInv
  <2> QED
    BY <2>1 DEF TInv, IInv, TypeOK, TransferTypeOK
<1> DEFINE Same == text' = text /\ accepted' = accepted /\ verdict' = verdict
           Verdict == /\ text' = text /\ accepted' = accepted /\ verdict = "none"
                      /\ verdict' \in Verdicts /\ (verdict' = "ok" => accepted)
<1>2. CASE Same
  BY <1>2 DEF Update!avars
<1>3. CASE Verdict
  <2>1. Update!Report(verdict')
    BY <1>3 DEF Update!Report
  <2> QED
    BY <1>3, <2>1 DEF Update!Next
<1>4. CASE DevicePacket
  <2>1. text' = text /\ verdict' = verdict /\ (accepted => accepted')
    BY <1>1, <1>4 DEF DevicePacket, PumpPacket, plate, clientVars
  <2>2. CASE accepted = accepted'
    BY <2>1, <2>2 DEF Update!avars
  <2>3. CASE accepted # accepted'
    <3>1. ~accepted /\ accepted' = TRUE
      BY <1>1, <2>1, <2>3
    <3> QED
      BY <2>1, <3>1 DEF Update!Next, Update!Accept
  <2> QED
    BY <2>2, <2>3
<1>5. CASE DeviceLoop /\ Apply
  <2>1. accepted' = accepted /\ verdict' = verdict
    BY <1>5 DEF DeviceLoop, clientVars
  <2>2. text' = IF Take(rx.done_content) # {} THEN CHOOSE t \in Take(rx.done_content) : TRUE
                ELSE text
    BY <1>5 DEF Apply
  <2>3. CASE Take(rx.done_content) = {}
    BY <2>1, <2>2, <2>3 DEF Update!avars
  <2>4. CASE Take(rx.done_content) # {}
    <3>1. Take(rx.done_content) = rx.done_content
      BY <2>4 DEF Take
    <3>2. rx.done_content # {} /\ rx.done_content \subseteq {Payload}
      BY <1>1, <2>4, <3>1 DEF Holds
    <3>3. accepted
      BY <1>1, <3>2 DEF AcceptedOk
    <3>4. (CHOOSE t \in rx.done_content : TRUE) \in rx.done_content
      BY <3>2
    <3>5. text' = Payload
      BY <2>2, <3>1, <3>2, <3>4
    <3> QED
      BY <2>1, <3>3, <3>5 DEF Update!Next, Update!Apply
  <2> QED
    BY <2>3, <2>4
<1>6. CASE DeviceDisconnect \/ DeviceNotify \/ (DeviceLoop /\ ~Apply) \/ DeviceQuiet \/ DeviceDoze
  <2>1. accepted' = accepted /\ verdict' = verdict
    BY <1>6 DEF DeviceDisconnect, DeviceNotify, DeviceLoop, DeviceQuiet, DeviceDoze, clientVars
  <2>2. text' = text
    BY <1>6 DEF DeviceDisconnect, DeviceNotify, DeviceLoop, DeviceQuiet, DeviceDoze,
       PumpDisconnect, PumpEvent, PumpDry, PumpFull, Stream, TickLight, Tick, DozeOff,
       Quiet, Reopen, plate
  <2> QED
    BY <1>2, <2>1, <2>2
<1>7. CASE ClientStep \/ Cut
  <2>1. text' = text /\ accepted' = accepted
    BY <1>7 DEF ClientStep, SendStart, StartAck, StartTimeOut, StartRead, SendChunk, ChunkThrows,
       BurstSent, AckWait, AckTimeOut, SyncAck, SyncTimeOut, SyncRead, SendCommit, CommitWait,
       CommitTimeOut, CommitRead, Close, Cut, vars, plate
  <2>2. CASE verdict' = verdict
    BY <1>2, <2>1, <2>2
  <2>3. CASE Cut
    BY <1>1, <1>3, <2>1, <2>3 DEF Cut, Verdicts
  <2>4. CASE StartRead
    BY <1>1, <1>2, <1>3, <2>1, <2>4 DEF StartRead, Fail, Verdicts
  <2>5. ASSUME NEW st, Resume(st), client \in {"syncAck", "syncRead"}
        PROVE  Same \/ Verdict
    BY <1>1, <2>1, <2>5 DEF Resume, Fail, Verdicts
  <2>6. CASE SyncAck
    BY <1>2, <1>3, <2>5, <2>6 DEF SyncAck
  <2>7. CASE SyncRead
    BY <1>2, <1>3, <2>5, <2>7 DEF SyncRead
  <2>8. ASSUME NEW st \in Underway, Conclude(st), client \in {"commitWait", "commitRead"}
        PROVE  Verdict
    <3>1. st.state = "committed" => accepted
      BY LearnedOk
    <3> QED
      BY <1>1, <2>1, <2>8, <3>1 DEF Conclude, Verdicts
  <2>9. CASE CommitWait
    <3>1. Head(downlink) \in Underway
      <4>1. downlink # <<>> /\ downlink' = Tail(downlink) /\ reply' = reply
        BY <2>9 DEF CommitWait
      <4> QED
        BY <4>1, TakeDownlink
    <3> QED
      BY <1>2, <1>3, <2>1, <2>8, <2>9, <3>1 DEF CommitWait
  <2>10. CASE CommitRead
    <3>1. reply \subseteq Underway
      BY DEF Underway
    <3> QED
      BY <1>3, <2>8, <2>10, <3>1 DEF CommitRead
  <2>11. verdict' = verdict \/ Cut \/ StartRead \/ SyncAck \/ SyncRead \/ CommitWait \/ CommitRead
    BY <1>7 DEF ClientStep, SendStart, StartAck, StartTimeOut, SendChunk, ChunkThrows,
       BurstSent, AckWait, AckTimeOut, SyncTimeOut, SendCommit, CommitTimeOut, Close
  <2> QED
    BY <2>2, <2>3, <2>4, <2>6, <2>7, <2>9, <2>10, <2>11
<1>8. CASE UNCHANGED tvars
  BY <1>2, <1>8 DEF tvars, vars, plate
<1> QED
  BY <1>4, <1>5, <1>6, <1>7, <1>8 DEF TNext, DeviceStep

\* The whole transfer, over a lossy link and with late answers, implements the
\* atomic update: the plate changes to the payload in one step and only after the
\* device accepted it, and the user is told "ok" only of an accepted payload.
THEOREM ImplementsUpdate == TSpec => UpdateSpec
<1>1. TInit => Update!Init
  BY UpdateInit
<1>2. TInv /\ TInv' /\ [TNext]_tvars => [Update!Next]_(Update!avars)
  BY UpdateNext
<1> QED
  BY <1>1, <1>2, TransferInductive, PTL DEF TSpec, UpdateSpec, Update!Spec

-----------------------------------------------------------------------------
(* Back-pressure.  BInv adds to TInv where the chunks on the link, the       *)
(* device and the answers under way stand relative to the window.            *)

\* The answers under way, that of a pending notification included.
Answers == downlink \o Notification(rx)

Received == Len(rx.data)

\* Only chunks on the link; or chunks, and one operation op behind them.
OnlyData == \A i \in DOMAIN uplink : uplink[i].op = "data"

DataThen(op) ==
    \A i \in DOMAIN uplink :
        IF i = Len(uplink) THEN uplink[i].op = op ELSE uplink[i].op = "data"

\* A browser without notifications is never sent one.
SubscribedOk ==
    /\ rx.notify_on \/ "subscribe" \in Ops(uplink) => notifyOk
    /\ ~notifyOk => downlink = <<>>
    /\ client = "start" => downlink = <<>> /\ ~rx.pending_ntf

\* Nothing of the payload is sent before the device answered START.
FreshStart ==
    client \in Starting =>
        /\ off = 0 /\ burstStart = 0 /\ sent = 0 /\ Received = 0
        /\ "data" \notin Ops(uplink)

\* What is on the link in each state, and what a read will answer.
LinkOk ==
    /\ client = "start" => Ops(uplink) \subseteq {"subscribe"}
    /\ client \in {"burst", "ackWait"} => OnlyData
    /\ client = "syncAck" => DataThen("sync")
    /\ client \in {"startRead", "syncRead"} =>
          \/ DataThen("readStatus") /\ reply = {} /\ uplink # <<>>
          \/ uplink = <<>> /\ \A st \in reply : st.received = Received

\* Until the first chunk that is too big has thrown, nothing has been sent.
ThrowsOk ==
    mtu = "throws" /\ chunk > Small /\ client \in Starting \cup Sending =>
        sent = 0 /\ Received = 0 /\ "data" \notin Ops(uplink)

\* The window: where it ends, the chunks of it on the link, in order, and the
\* device, which has not passed them unless by less than a window.
WindowEnd == burstStart + sent * chunk

Reach == burstStart + AckWindow * chunk

InWindow ==
    /\ burstStart <= off
    /\ off = WindowEnd \/ (off = Len(Payload) /\ off <= WindowEnd)
    /\ \A i \in InFlight :
          /\ burstStart <= uplink[i].off
          /\ uplink[i].off + Len(uplink[i].bytes) <= off
          /\ Received <= uplink[i].off \/ Received < Reach
    /\ \A i, j \in InFlight :
          i < j => uplink[i].off + Len(uplink[i].bytes) <= uplink[j].off
    /\ Received <= off \/ Received < Reach
    /\ Cardinality(InFlight) <= sent
    /\ client = "ackWait" =>
          sent = AckWindow \/ off = Len(Payload) \/ (InFlight = {} /\ Received <= off)

\* Before any early timeout, every answer under way is of this window; one that
\* says nothing of it arrived says so for good; and only the last covers it.
Stuck == Received = burstStart /\ \A i \in InFlight : uplink[i].off # burstStart

AnswersOk ==
    /\ \A st \in ToSet(Answers) :
          burstStart <= st.received /\ (st.received = burstStart => Stuck)
    /\ burstStart <= Received /\ Received <= off

Clean ==
    /\ AnswersOk
    /\ Answers # <<>> /\ client = "burst" => burstStart < off
    /\ \A i \in InFlight : Received <= uplink[i].off
    /\ \A k \in 1..(Len(Answers) - 1) : Answers[k].received < off

\* The answer to a sync: it is what the device has, or the timeout was early
\* and it is an answer of the window.
SyncOk ==
    \/ InFlight = {} /\ \A st \in ToSet(Answers) : st.received = Received
    \/ AnswersOk

Punctual ==
    /\ client = "startAck" => Len(Answers) <= 1 /\ (uplink # <<>> => Answers = <<>>)
    /\ client \in {"startRead", "syncRead"} => Answers = <<>>
    /\ client = "syncAck" =>
          /\ InFlight = {} /\ \A st \in ToSet(Answers) : st.received = Received
          /\ Len(Answers) <= 1 /\ (uplink # <<>> => Answers = <<>>)
    /\ client = "syncRead" => InFlight = {} \/ ~notifyOk
    /\ client \in {"syncAck", "syncRead"} => Received <= off
    /\ client \in {"burst", "ackWait"} => Clean

BInv ==
    /\ SubscribedOk
    /\ FreshStart
    /\ LinkOk
    /\ ThrowsOk
    /\ early <= 1 =>
          /\ client \in Sending => InWindow
          /\ client = "syncAck" => SyncOk
          /\ BackPressure
    /\ early = 0 => Punctual

-----------------------------------------------------------------------------
(* The link. *)

Link == Packet \cup {[op |-> "disconnect"]}

\* A packet joins the link at its end.
LEMMA LinkAppend ==
    ASSUME uplink \in Seq(Link), NEW m \in Link, uplink' = Append(uplink, m)
    PROVE  /\ DOMAIN uplink' = 1..(Len(uplink) + 1) /\ Len(uplink') = Len(uplink) + 1
           /\ uplink'[Len(uplink) + 1] = m /\ Len(uplink) \in Nat
           /\ \A i \in DOMAIN uplink : uplink'[i] = uplink[i]
           /\ DOMAIN uplink = 1..Len(uplink)
           /\ InFlight' = IF m.op = "data" THEN InFlight \cup {Len(uplink) + 1} ELSE InFlight
           /\ IsFiniteSet(InFlight) /\ Cardinality(InFlight) \in Nat
           /\ Cardinality(InFlight') =
                 IF m.op = "data" THEN Cardinality(InFlight) + 1 ELSE Cardinality(InFlight)
<1>1. /\ DOMAIN uplink' = 1..(Len(uplink) + 1) /\ Len(uplink') = Len(uplink) + 1
      /\ uplink'[Len(uplink) + 1] = m /\ Len(uplink) \in Nat
      /\ \A i \in DOMAIN uplink : uplink'[i] = uplink[i]
      /\ DOMAIN uplink = 1..Len(uplink)
  OBVIOUS
<1>2. InFlight' = {i \in DOMAIN uplink' : uplink'[i].op = "data"}
  BY DEF InFlight
<1>3. InFlight' = IF m.op = "data" THEN InFlight \cup {Len(uplink) + 1} ELSE InFlight
  <2>1. \A i \in 1..(Len(uplink) + 1) : i \in DOMAIN uplink \/ i = Len(uplink) + 1
    BY <1>1
  <2>2. \A i \in DOMAIN uplink : i \in 1..(Len(uplink) + 1)
    BY <1>1
  <2>3. Len(uplink) + 1 \in 1..(Len(uplink) + 1)
    BY <1>1
  <2> QED
    BY <1>1, <1>2, <2>1, <2>2, <2>3 DEF InFlight
<1>4. IsFiniteSet(InFlight) /\ Len(uplink) + 1 \notin InFlight
  <2>1. IsFiniteSet(1..Len(uplink)) /\ InFlight \in SUBSET (1..Len(uplink))
    BY <1>1, FS_Interval DEF InFlight
  <2>2. Len(uplink) + 1 \notin 1..Len(uplink)
    BY <1>1
  <2> QED
    BY <2>1, <2>2, FS_Subset
<1> QED
  BY <1>1, <1>3, <1>4, FS_AddElement, FS_CardinalityType

\* The first packet leaves it.
LEMMA LinkTail ==
    ASSUME uplink \in Seq(Link), uplink # <<>>, uplink' = Tail(uplink)
    PROVE  /\ DOMAIN uplink' = 1..(Len(uplink) - 1) /\ Len(uplink) \in Nat \ {0}
           /\ Len(uplink') = Len(uplink) - 1
           /\ DOMAIN uplink = 1..Len(uplink) /\ uplink[1] = Head(uplink)
           /\ \A i \in DOMAIN uplink' : i + 1 \in DOMAIN uplink /\ uplink'[i] = uplink[i + 1]
           /\ \A i \in InFlight' : i + 1 \in InFlight /\ i \in Nat /\ uplink'[i] = uplink[i + 1]
           /\ Head(uplink).op = "data" => 1 \in InFlight
           /\ Cardinality(InFlight') <= Cardinality(InFlight)
           /\ Cardinality(InFlight) \in Nat /\ Cardinality(InFlight') \in Nat
<1>1. /\ DOMAIN uplink' = 1..(Len(uplink) - 1) /\ Len(uplink) \in Nat \ {0}
      /\ Len(uplink') = Len(uplink) - 1
      /\ DOMAIN uplink = 1..Len(uplink) /\ uplink[1] = Head(uplink)
      /\ \A i \in 1..(Len(uplink) - 1) : uplink'[i] = uplink[i + 1]
  OBVIOUS
<1>2. \A i \in 1..(Len(uplink) - 1) : i + 1 \in 1..Len(uplink) /\ i \in Nat
  BY <1>1
<1>3. InFlight' = {i \in DOMAIN uplink' : uplink'[i].op = "data"}
  BY DEF InFlight
<1>4. \A i \in InFlight' : i + 1 \in InFlight /\ i \in Nat /\ uplink'[i] = uplink[i + 1]
  BY <1>1, <1>2, <1>3 DEF InFlight
<1>5. 1 \in DOMAIN uplink
  BY <1>1
<1>6. /\ IsFiniteSet(InFlight) /\ Cardinality(InFlight') <= Cardinality(InFlight)
      /\ IsFiniteSet(InFlight')
  <2>1. IsFiniteSet(1..Len(uplink)) /\ InFlight \in SUBSET (1..Len(uplink))
    BY <1>1, FS_Interval DEF InFlight
  <2>2. IsFiniteSet(InFlight)
    BY <2>1, FS_Subset
  <2> DEFINE f == [i \in InFlight' |-> i + 1]
  <2>3. f \in [InFlight' -> InFlight]
    BY <1>4
  <2>4. \A a, b \in InFlight' : f[a] = f[b] => a = b
    BY <1>4
  <2>5. f \in Injection(InFlight', InFlight)
    <3> HIDE DEF f
    <3> QED
      BY <2>3, <2>4 DEF Injection, IsInjective
  <2> HIDE DEF f
  <2> QED
    BY <2>2, <2>5, FS_Injection
<1> QED
  BY <1>1, <1>2, <1>4, <1>5, <1>6, FS_CardinalityType DEF InFlight

\* An empty link.
LEMMA LinkEmpty ==
    ASSUME uplink = <<>>
    PROVE  InFlight = {} /\ Cardinality(InFlight) = 0 /\ Ops(uplink) = {}
BY ToSetEmpty, FS_EmptySet DEF InFlight, Ops

\* The chunks on the link are operations on it.
LEMMA LinkOps ==
    ASSUME uplink \in Seq(Link)
    PROVE  /\ "data" \notin Ops(uplink) => InFlight = {} /\ Cardinality(InFlight) = 0
           /\ \A i \in DOMAIN uplink : uplink[i] \in ToSet(uplink) /\ uplink[i].op \in Ops(uplink)
<1>1. \A i \in DOMAIN uplink : uplink[i] \in ToSet(uplink) /\ uplink[i].op \in Ops(uplink)
  BY DEF ToSet, Ops
<1> QED
  BY <1>1, FS_EmptySet DEF InFlight

-----------------------------------------------------------------------------
(* The device, and the answers under way. *)

\* The answers are statuses, and while the client sends none says more than
\* what the device has.
LEMMA AnswersType ==
    ASSUME TInv
    PROVE  /\ rx \in Receiver /\ Received \in Nat /\ Len(Payload) \in Nat
           /\ Answers \in Seq(StatusMsg)
           /\ ToSet(Answers) = ToSet(downlink) \cup ToSet(Notification(rx))
           /\ \A st \in ToSet(Answers) : st \in StatusMsg /\ st.received \in Nat
           /\ client \in Starting \cup Sending =>
                 \A st \in ToSet(Answers) : st.received <= Received
           /\ client \in Starting \cup Sending =>
                 \A st \in reply : st \in StatusMsg /\ st.received <= Received
           /\ uplink \in Seq(Link)
<1>1. /\ rx \in Receiver /\ downlink \in Seq(StatusMsg) /\ StatusesOk /\ uplink \in Seq(Link)
      /\ reply \subseteq StatusMsg
  BY DEF TInv, IInv, TypeOK, TransferTypeOK, Link
<1>2. Received \in Nat /\ Len(Payload) \in Nat
  BY <1>1, TransferAssumption DEF Receiver, Received
<1>3. /\ Notification(rx) \in Seq(StatusMsg) /\ ToSet(Notification(rx)) \subseteq {Status(rx)}
      /\ Status(rx).received = Received
  BY <1>1, NotificationOk DEF Received
<1>4. Answers \in Seq(StatusMsg) /\ ToSet(Answers) = ToSet(downlink) \cup ToSet(Notification(rx))
  BY <1>1, <1>3, ToSetOk DEF Answers
<1>5. \A st \in ToSet(Answers) : st \in StatusMsg /\ st.received \in Nat
  <2>1. ToSet(Answers) \subseteq StatusMsg
    BY <1>4, ToSetOk
  <2> QED
    BY <2>1 DEF StatusMsg
<1>6. ASSUME client \in Starting \cup Sending
      PROVE  /\ \A st \in ToSet(Answers) : st.received <= Received
             /\ \A st \in reply : st \in StatusMsg /\ st.received <= Received
  <2>1. Received <= Received
    BY <1>2
  <2> QED
    BY <1>1, <1>3, <1>4, <1>6, <2>1 DEF StatusesOk, Underway, Received
<1> QED
  BY <1>1, <1>2, <1>4, <1>5, <1>6

\* What a packet does to what the device has received and to the answers.
LEMMA PacketEffect ==
    ASSUME TInv, DevicePacket, NEW m, m = Head(uplink)
    PROVE  /\ uplink # <<>> /\ uplink' = Tail(uplink) /\ m \in ToSet(uplink)
           /\ m \in Control \/ Chunk(m)
           /\ UNCHANGED clientVars
           /\ Answers' = Answers \o Notification(rx')
           /\ ~rx'.pending_ntf => Notification(rx') = <<>>
           /\ rx'.notify_on => m.op = "subscribe" \/ rx.notify_on
           /\ m.op = "data" =>
                 /\ Chunk(m)
                 /\ \/ Received' = Received /\ (Notification(rx') = <<>> \/ m.off # Received)
                    \/ m.off = Received /\ Received' = Received + Len(m.bytes)
           /\ m.op \in {"subscribe", "readStatus", "sync"} => Received' = Received
           /\ m.op \in {"subscribe", "readStatus"} => ~rx'.pending_ntf
           /\ m.op = "contentStart" => Received' = 0
           /\ downlink' = Answers
           /\ reply' = IF m.op = "readStatus" THEN {Status(rx)} ELSE reply
<1> DEFINE q == TakeNotification(rx)
           rr == [q EXCEPT !.recent = TRUE]
<1>1. /\ uplink # <<>> /\ uplink' = Tail(uplink) /\ rx' = Gatt(q, m) /\ m.op # "disconnect"
      /\ downlink' = Answers /\ UNCHANGED clientVars
      /\ reply' = IF m.op = "readStatus" THEN {Status(rx)} ELSE reply
  BY DEF DevicePacket, PumpPacket, Arrived, Answers
<1>2. Answers' = Answers \o Notification(rx')
  BY <1>1 DEF Answers
<1>3. /\ rx \in Receiver /\ Holds(rx) /\ UplinkOk /\ uplink \in Seq(Link)
  BY DEF TInv, IInv, TypeOK, TransferTypeOK, Link
<1>4. m \in ToSet(uplink) /\ (m \in Control \/ Chunk(m))
  BY <1>1, <1>3, ToSetOk DEF UplinkOk
<1>5. /\ q.state = rx.state /\ q.data = rx.data /\ q.expected = rx.expected
      /\ q.notify_on = rx.notify_on /\ q.pending_ntf = FALSE /\ q \in Receiver
  BY <1>3, TakenOk DEF TakeNotification, Receiver
<1> HIDE DEF q
<1> DEFINE Told1 == rx'.notify_on => m.op = "subscribe" \/ rx.notify_on
           Data1 == m.op = "data" =>
                      /\ Chunk(m)
                      /\ \/ Received' = Received /\ (Notification(rx') = <<>> \/ m.off # Received)
                         \/ m.off = Received /\ Received' = Received + Len(m.bytes)
           Plain1 == /\ m.op \in {"subscribe", "readStatus", "sync"} => Received' = Received
                     /\ m.op \in {"subscribe", "readStatus"} => ~rx'.pending_ntf
                     /\ m.op = "contentStart" => Received' = 0
<1>6. /\ rr.state = rx.state /\ rr.data = rx.data /\ rr.expected = rx.expected
      /\ rr.notify_on = rx.notify_on /\ rr.pending_ntf = FALSE /\ rr \in Receiver
  BY <1>5 DEF Receiver
<1>7. ~rx'.pending_ntf => Notification(rx') = <<>>
  BY DEF Notification
<1>8. ASSUME Chunk(m) PROVE Told1 /\ Data1 /\ Plain1
  <2>1. m.op = "data" /\ m.off \in Nat /\ m.bytes \in Seq(Byte) /\ m.bytes # <<>>
    BY <1>8 DEF Chunk, DataMsg
  <2>2. rx' = Push(q, m)
    BY <1>1, <2>1 DEF Gatt
  <2>3. CASE Receiving(rr) /\ InOrder(rr, m)
    <3>1. rx' = Accept(rr, m)
      BY <2>1, <2>2, <2>3 DEF Push
    <3> HIDE DEF rr
    <3>2. rx'.data = rx.data \o m.bytes /\ rx'.notify_on = rx.notify_on
      BY <1>6, <3>1 DEF Accept, Receiver
    <3>3. m.off = Len(rx.data) /\ rx.data \in Seq(Byte)
      BY <1>3, <1>6, <2>3 DEF InOrder, Receiver
    <3>4. Len(rx.data \o m.bytes) = Len(rx.data) + Len(m.bytes)
      BY <2>1, <3>3
    <3>5. Received' = Received + Len(m.bytes) /\ m.off = Received
      BY <3>2, <3>3, <3>4 DEF Received
    <3> QED
      BY <1>8, <2>1, <3>2, <3>5
  <2>4. CASE Receiving(rr) /\ ~InOrder(rr, m)
    <3>1. rx' = rr \/ rx' = [rr EXCEPT !.nak_sent = TRUE, !.since_ack = 0, !.pending_ntf = TRUE]
      BY <2>1, <2>2, <2>4 DEF Push
    <3>2. rx'.data = rx.data /\ rx'.notify_on = rx.notify_on
      <4> HIDE DEF rr
      <4> QED
        BY <1>6, <3>1 DEF Receiver
    <3>3. m.off # Len(rx.data)
      <4>1. rx.expected = Len(Payload) /\ m.off + Len(m.bytes) <= Len(Payload)
        BY <1>3, <1>6, <1>8, <2>4 DEF Holds, Receiving, Chunk
      <4> QED
        BY <1>6, <2>4, <4>1 DEF InOrder
    <3> QED
      BY <1>8, <2>1, <3>2, <3>3 DEF Received
  <2>5. CASE ~Receiving(rr)
    <3>1. rx' = rr
      BY <2>1, <2>2, <2>5 DEF Push
    <3>2. rx'.data = rx.data /\ rx'.notify_on = rx.notify_on /\ ~rx'.pending_ntf
      BY <1>6, <3>1
    <3> QED
      BY <1>7, <1>8, <2>1, <3>2 DEF Received
  <2> QED
    BY <2>3, <2>4, <2>5
<1>9. ASSUME m = StartPacket PROVE Told1 /\ Data1 /\ Plain1
  <2>1. m.op = "contentStart"
    BY <1>9 DEF StartPacket
  <2>2. rx' = ContentStart(rr, m)
    BY <1>1, <2>1 DEF Gatt, Ctrl
  <2> HIDE DEF rr
  <2>3. Reset(rr) \in Receiver /\ Reset(rr).data = <<>>
    BY <1>6, ResetOk
  <2>4. Reset(rr).notify_on = rr.notify_on
    BY DEF Reset, DefaultRx
  <2>5. rx'.data = <<>> /\ rx'.notify_on = rx.notify_on
    BY <1>6, <2>2, <2>3, <2>4 DEF ContentStart, BadStart, Receiver
  <2> QED
    BY <2>1, <2>5 DEF Received
<1>10. ASSUME m \in Control, m.op \in {"subscribe", "readStatus", "sync", "commit"}
       PROVE  Told1 /\ Data1 /\ Plain1
  <2>1. CASE m.op = "subscribe"
    <3>1. rx' = [q EXCEPT !.notify_on = TRUE]
      BY <1>1, <2>1 DEF Gatt
    <3>2. rx'.data = rx.data /\ rx'.notify_on = TRUE /\ rx'.pending_ntf = FALSE
      BY <1>5, <3>1 DEF Receiver
    <3> QED
      BY <2>1, <3>2 DEF Received
  <2>2. CASE m.op = "readStatus"
    <3>1. rx' = rr
      BY <1>1, <2>2 DEF Gatt
    <3> HIDE DEF rr
    <3> QED
      BY <1>6, <2>2, <3>1 DEF Received
  <2>3. CASE m.op = "sync"
    <3>1. rx' = [rr EXCEPT !.pending_ntf = TRUE]
      BY <1>1, <2>3 DEF Gatt, Ctrl
    <3> HIDE DEF rr
    <3>2. rx'.data = rx.data /\ rx'.notify_on = rx.notify_on
      BY <1>6, <3>1 DEF Receiver
    <3> QED
      BY <2>3, <3>2 DEF Received
  <2>4. CASE m.op = "commit"
    <3>1. rx' = Commit(rr)
      BY <1>1, <2>4 DEF Gatt, Ctrl
    <3> HIDE DEF rr
    <3>2. rx'.notify_on = rx.notify_on
      BY <1>6, <3>1 DEF Commit, Receiver
    <3> QED
      BY <2>4, <3>2
  <2> QED
    BY <1>10, <2>1, <2>2, <2>3, <2>4
<1>11. m \in Control => m = StartPacket \/ m.op \in {"subscribe", "readStatus", "sync", "commit"}
  BY <1>1 DEF Control
<1>12. Told1 /\ Data1 /\ Plain1
  BY <1>4, <1>8, <1>9, <1>10, <1>11
<1> QED
  BY <1>1, <1>2, <1>4, <1>7, <1>12, Zenon

\* Nothing under way.
LEMMA NoAnswers ==
    /\ rx \in Receiver /\ downlink = <<>> /\ (~rx.pending_ntf \/ ~rx.notify_on) => Answers = <<>>
    /\ downlink \in Seq(StatusMsg) /\ rx \in Receiver /\ Answers = <<>> =>
          downlink = <<>> /\ Notification(rx) = <<>>
<1>1. ASSUME rx \in Receiver, downlink = <<>>, ~rx.pending_ntf \/ ~rx.notify_on
      PROVE  Answers = <<>>
  BY <1>1 DEF Answers, Notification
<1>2. ASSUME downlink \in Seq(StatusMsg), rx \in Receiver, Answers = <<>>
      PROVE  downlink = <<>> /\ Notification(rx) = <<>>
  <2>1. Notification(rx) \in Seq(StatusMsg)
    BY <1>2, NotificationOk
  <2> QED
    BY <1>2, <2>1, ConcatEqualIffEmpty DEF Answers
<1> QED
  BY <1>1, <1>2

\* What the link, the device and the answers share with the window does not
\* change in the other steps of the session.
LEMMA DeviceSame ==
    ASSUME TInv, BInv, UNCHANGED clientVars, uplink' = uplink, reply' = reply,
           Received' = Received, Answers' = Answers,
           downlink' = downlink \/ downlink' = Answers,
           rx'.notify_on => rx.notify_on, rx'.pending_ntf => rx.pending_ntf
    PROVE  BInv'
<1>1. /\ client' = client /\ off' = off /\ burstStart' = burstStart /\ sent' = sent
      /\ chunk' = chunk /\ notifyOk' = notifyOk /\ mtu' = mtu /\ early' = early
  BY DEF clientVars, progress, chosen
<1>2. InFlight' = InFlight /\ Reach' = Reach /\ WindowEnd' = WindowEnd
  BY <1>1 DEF InFlight, Reach, WindowEnd
<1>3. rx \in Receiver /\ SubscribedOk
  BY AnswersType DEF BInv
<1>4. SubscribedOk'
  <2>1. ~notifyOk \/ client = "start" => Answers = <<>>
    BY <1>3, NoAnswers DEF SubscribedOk
  <2> QED
    BY <1>1, <1>3, <2>1 DEF SubscribedOk
<1>5. FreshStart' /\ LinkOk' /\ ThrowsOk'
  BY <1>1 DEF BInv, FreshStart, LinkOk, ThrowsOk, OnlyData, DataThen
<1>6. InWindow <=> InWindow'
  BY <1>1, <1>2 DEF InWindow
<1>7. AnswersOk <=> AnswersOk'
  BY <1>1, <1>2 DEF AnswersOk, Stuck
<1>8. Clean <=> Clean'
  BY <1>1, <1>2, <1>7 DEF Clean
<1>9. SyncOk <=> SyncOk'
  BY <1>2, <1>7 DEF SyncOk
<1>10. early = 0 => Punctual'
  BY <1>1, <1>2, <1>8 DEF BInv, Punctual
<1>11. early <= 1 => BackPressure'
  BY <1>1, <1>2 DEF BInv, BackPressure
<1> QED
  BY <1>1, <1>4, <1>5, <1>6, <1>9, <1>10, <1>11 DEF BInv

\* A client that is gone asks for little.
LEMMA GoneOk ==
    ASSUME client' = "closed", SubscribedOk', early' <= 1 => BackPressure'
    PROVE  BInv'
BY DEF BInv, FreshStart, LinkOk, ThrowsOk, Punctual, Starting, Sending

LEMMA BDeviceOtherOk ==
    ASSUME TInv, BInv, DeviceDisconnect \/ DeviceNotify \/ DeviceLoop \/ DeviceQuiet \/ DeviceDoze
    PROVE  BInv'
<1>1. rx \in Receiver /\ TransferTypeOK /\ UplinkOk /\ uplink \in Seq(Link) /\ SubscribedOk
      /\ ParkedOk(rx) /\ AckWindow \in Nat
  BY TransferAssumption, AckAssumption
  DEF TInv, IInv, TypeOK, TransferTypeOK, Link, BInv, RxInv
<1>2. UNCHANGED clientVars /\ reply' = reply
  BY DEF DeviceDisconnect, DeviceNotify, DeviceLoop, DeviceQuiet, DeviceDoze, linkVars
<1>3. /\ client' = client /\ notifyOk' = notifyOk /\ early' = early
  BY <1>2 DEF clientVars, chosen
<1>4. CASE DeviceDisconnect
  <2>1. /\ uplink # <<>> /\ Head(uplink).op = "disconnect" /\ uplink' = <<>>
        /\ rx' = TakeNotification(rx) /\ downlink' = downlink
    BY <1>4 DEF DeviceDisconnect, Arrived, PumpDisconnect
  <2>2. Head(uplink) \in ToSet(uplink)
    BY <1>1, <2>1, ToSetOk
  <2>3. client = "closed"
    BY <1>1, <2>1, <2>2 DEF UplinkOk, Ops
  <2>4. rx'.notify_on = rx.notify_on /\ Ops(uplink') = {} /\ Cardinality(InFlight') = 0
    <3>1. rx'.notify_on = rx.notify_on
      BY <1>1, <2>1, TakenOk
    <3>2. Ops(uplink') = {}
      BY <2>1, ToSetEmpty DEF Ops
    <3>3. InFlight' = {}
      BY <2>1 DEF InFlight
    <3> QED
      BY <3>1, <3>2, <3>3, FS_EmptySet
  <2>5. SubscribedOk' /\ BackPressure'
    BY <1>1, <1>3, <2>1, <2>3, <2>4 DEF SubscribedOk, BackPressure
  <2> QED
    BY <1>3, <2>3, <2>5, GoneOk
<1>5. CASE DeviceNotify \/ (DeviceLoop /\ PumpDry)
  <2>1. /\ rx' = TakeNotification(rx) /\ uplink' = uplink
        /\ downlink' = Answers
    <3>1. CASE DeviceNotify
      BY <3>1 DEF DeviceNotify, PumpEvent, Answers
    <3>2. CASE DeviceLoop /\ PumpDry
      <4>1. Notification(rx) = <<>> /\ downlink' = downlink /\ downlink \in Seq(StatusMsg)
        BY <1>1, <3>2 DEF DeviceLoop, PumpDry, linkVars, TransferTypeOK
      <4>2. downlink \o <<>> = downlink
        BY <4>1
      <4> QED
        BY <3>2, <4>1, <4>2 DEF DeviceLoop, PumpDry, linkVars, Answers
    <3> QED
      BY <1>5, <3>1, <3>2
  <2>2. /\ rx'.data = rx.data /\ rx'.notify_on = rx.notify_on /\ rx'.pending_ntf = FALSE
    BY <1>1, <2>1, TakenOk
  <2>3. Answers' = Answers
    <3>1. Notification(rx') = <<>>
      BY <2>2 DEF Notification
    <3>2. Answers \o <<>> = Answers
      BY AnswersType
    <3> QED
      BY <2>1, <3>1, <3>2 DEF Answers
  <2> QED
    BY <1>2, <2>1, <2>2, <2>3, DeviceSame DEF Received
<1>6. CASE DeviceLoop /\ Apply
  <2> DEFINE clear == rx.clear_image_req /\ ~rx.pending_ntf
  <2>1. rx' = AfterApply(Take(rx.done), Take(rx.done_content), clear)
        /\ uplink' = uplink /\ downlink' = downlink
    BY <1>6 DEF Apply, DeviceLoop, linkVars
  <2>2. /\ rx'.data = rx.data /\ rx'.notify_on = rx.notify_on /\ rx'.pending_ntf = rx.pending_ntf
        /\ rx'.expected = rx.expected
        /\ rx'.state = IF Take(rx.done) \cup Take(rx.done_content) # {} THEN "idle" ELSE rx.state
    BY <1>1, <2>1 DEF AfterApply, Receiver
  <2>3. rx.pending_ntf => rx'.state = rx.state
    BY <2>2 DEF Take
  <2>4. Notification(rx') = Notification(rx)
    BY <2>2, <2>3 DEF Notification, Status
  <2>5. Answers' = Answers
    BY <2>1, <2>4 DEF Answers
  <2> HIDE DEF clear
  <2> QED
    BY <1>2, <2>1, <2>2, <2>5, DeviceSame DEF Received
<1>7. CASE DeviceLoop /\ Reopen
  <2>1. rx' = DefaultRx /\ client = "closed" /\ uplink' = uplink /\ downlink' = downlink
    BY <1>1, <1>7 DEF Reopen, UplinkOk, DeviceLoop, linkVars
  <2>2. rx'.notify_on = FALSE /\ InFlight' = InFlight
    BY <2>1 DEF DefaultRx, InFlight
  <2>3. SubscribedOk' /\ (early' <= 1 => BackPressure')
    BY <1>1, <1>3, <2>1, <2>2 DEF SubscribedOk, BackPressure, BInv
  <2> QED
    BY <1>3, <2>1, <2>3, GoneOk
<1>8. CASE DeviceQuiet \/ (rx' = rx /\ uplink' = uplink /\ downlink' = downlink)
  <2>1. /\ uplink' = uplink /\ downlink' = downlink /\ rx'.state = rx.state
        /\ rx'.data = rx.data /\ rx'.expected = rx.expected
        /\ rx'.notify_on = rx.notify_on /\ rx'.pending_ntf = rx.pending_ntf
    BY <1>1, <1>8 DEF DeviceQuiet, linkVars, Quiet, Receiver
  <2>2. Answers' = Answers
    BY <2>1 DEF Answers, Notification, Status
  <2> QED
    BY <1>2, <2>1, <2>2, DeviceSame DEF Received
<1> QED
  BY <1>4, <1>5, <1>6, <1>7, <1>8
  DEF DeviceLoop, DeviceDoze, linkVars, PumpFull, Stream, TickLight, Tick, DozeOff

\* The numbers that the window is made of.
LEMMA WindowType ==
    ASSUME TInv
    PROVE  /\ off \in Nat /\ burstStart \in Nat /\ sent \in Nat /\ chunk \in Nat \ {0}
           /\ Small \in Nat /\ AckWindow \in Nat \ {0} /\ sent <= AckWindow
           /\ off <= Len(Payload) /\ Len(Payload) \in Nat /\ Received \in Nat
           /\ WindowEnd \in Nat /\ Reach \in Nat /\ WindowEnd <= Reach
           /\ \A i \in InFlight : /\ uplink[i].off \in Nat /\ Len(uplink[i].bytes) \in Nat \ {0}
                                  /\ i \in Nat
<1>1. /\ TransferTypeOK /\ UplinkOk /\ uplink \in Seq(Link)
  BY DEF TInv, TransferTypeOK, Link
<1>2. /\ off \in Nat /\ burstStart \in Nat /\ sent \in Nat /\ chunk \in Nat \ {0}
      /\ Small \in Nat /\ AckWindow \in Nat \ {0} /\ sent <= AckWindow
      /\ off <= Len(Payload) /\ Len(Payload) \in Nat /\ Received \in Nat
  BY <1>1, TransferAssumption, AckAssumption, AnswersType DEF TransferTypeOK
<1>3. sent * chunk \in Nat /\ AckWindow * chunk \in Nat /\ sent * chunk <= AckWindow * chunk
  <2>1. \A a, b, c \in Nat : a <= b => a * c \in Nat /\ b * c \in Nat /\ a * c <= b * c
    OBVIOUS
  <2> QED
    BY <1>2, <2>1
<1>4. WindowEnd \in Nat /\ Reach \in Nat /\ WindowEnd <= Reach
  BY <1>2, <1>3 DEF WindowEnd, Reach
<1>5. ASSUME NEW i \in InFlight
      PROVE  /\ uplink[i].off \in Nat /\ Len(uplink[i].bytes) \in Nat \ {0} /\ i \in Nat
  <2>1. i \in DOMAIN uplink /\ uplink[i].op = "data" /\ uplink[i] \in ToSet(uplink) /\ i \in Nat
    BY <1>1 DEF InFlight, ToSet
  <2>2. uplink[i] \notin Control
    BY <2>1 DEF Control, StartPacket
  <2>3. uplink[i] \in DataMsg /\ uplink[i].bytes # <<>>
    BY <1>1, <2>1, <2>2 DEF UplinkOk, Chunk
  <2> QED
    BY <2>1, <2>3 DEF DataMsg
<1> QED
  BY <1>2, <1>4, <1>5

\* A chunk that arrives is the first of the window on the link: the device
\* takes it if it is the next one, and stays within the window.
LEMMA WindowData ==
    ASSUME TInv, DevicePacket, InWindow, Head(uplink).op = "data"
    PROVE  /\ InWindow'
           /\ AnswersOk => AnswersOk'
           /\ Received <= off => Received' <= off
           /\ (\A i \in InFlight : Received <= uplink[i].off) =>
                 \A i \in InFlight' : Received' <= uplink'[i].off
           /\ burstStart < off
<1> DEFINE m == Head(uplink)
           len == Len(m.bytes)
<1>1. /\ uplink \in Seq(Link) /\ uplink # <<>> /\ uplink' = Tail(uplink) /\ UNCHANGED clientVars
      /\ Answers' = Answers \o Notification(rx') /\ m.op = "data"
      /\ \/ Received' = Received /\ (Notification(rx') = <<>> \/ m.off # Received)
         \/ m.off = Received /\ Received' = Received + len
  BY PacketEffect, AnswersType
<1>2. /\ client' = client /\ off' = off /\ burstStart' = burstStart /\ sent' = sent
      /\ chunk' = chunk
  BY <1>1 DEF clientVars, progress
<1>3. /\ 1 \in InFlight /\ uplink[1] = m
      /\ \A i \in InFlight' : i + 1 \in InFlight /\ i \in Nat /\ uplink'[i] = uplink[i + 1]
      /\ \A i \in InFlight' : i \in Nat \ {0}
      /\ Cardinality(InFlight') <= Cardinality(InFlight)
      /\ Cardinality(InFlight) \in Nat /\ Cardinality(InFlight') \in Nat
  <2>1. \A i \in InFlight' : i \in DOMAIN uplink'
    BY DEF InFlight
  <2> QED
    BY <1>1, <2>1, LinkTail
<1>4. /\ m.off \in Nat /\ len \in Nat \ {0}
      /\ off \in Nat /\ burstStart \in Nat /\ sent \in Nat /\ Received \in Nat /\ Reach \in Nat
      /\ WindowEnd \in Nat /\ Len(Payload) \in Nat
      /\ \A i \in InFlight : uplink[i].off \in Nat /\ Len(uplink[i].bytes) \in Nat \ {0}
  BY <1>3, WindowType
<1>5. Reach' = Reach /\ WindowEnd' = WindowEnd
  BY <1>2 DEF Reach, WindowEnd
<1>6. /\ burstStart <= m.off /\ m.off + len <= off
      /\ Received <= m.off \/ Received < Reach
  BY <1>3 DEF InWindow
<1>7. \A i \in InFlight' :
         /\ m.off + len <= uplink'[i].off /\ uplink'[i].off \in Nat
         /\ Len(uplink'[i].bytes) \in Nat
         /\ burstStart <= uplink'[i].off /\ uplink'[i].off + Len(uplink'[i].bytes) <= off
         /\ Received <= uplink'[i].off \/ Received < Reach
  <2> SUFFICES ASSUME NEW i \in InFlight'
               PROVE  /\ m.off + len <= uplink'[i].off /\ uplink'[i].off \in Nat
                      /\ Len(uplink'[i].bytes) \in Nat
                      /\ burstStart <= uplink'[i].off /\ uplink'[i].off + Len(uplink'[i].bytes) <= off
                      /\ Received <= uplink'[i].off \/ Received < Reach
    OBVIOUS
  <2>1. i + 1 \in InFlight /\ 1 < i + 1 /\ uplink'[i] = uplink[i + 1]
    BY <1>3
  <2>2. m.off + len <= uplink[i + 1].off
    BY <1>3, <2>1 DEF InWindow
  <2> QED
    BY <1>4, <2>1, <2>2 DEF InWindow
<1> HIDE DEF m, len
<1>8. \A i \in InFlight' : Received' <= uplink'[i].off \/ Received' < Reach
  BY <1>1, <1>4, <1>6, <1>7
<1>9. Received' <= off \/ Received' < Reach
  BY <1>1, <1>4, <1>6 DEF InWindow
<1>10. \A i, j \in InFlight' : i < j => uplink'[i].off + Len(uplink'[i].bytes) <= uplink'[j].off
  <2> SUFFICES ASSUME NEW i \in InFlight', NEW j \in InFlight', i < j
               PROVE  uplink'[i].off + Len(uplink'[i].bytes) <= uplink'[j].off
    OBVIOUS
  <2>1. i + 1 \in InFlight /\ j + 1 \in InFlight /\ i + 1 < j + 1
    BY <1>3
  <2> QED
    BY <1>3, <2>1 DEF InWindow
<1>11. Cardinality(InFlight') <= sent
  BY <1>3, <1>4 DEF InWindow
<1>12. client = "ackWait" => sent = AckWindow \/ off = Len(Payload)
  BY <1>3 DEF InWindow
<1>13. InWindow'
  <2>1. \A i \in InFlight' :
          /\ burstStart <= uplink'[i].off /\ uplink'[i].off + Len(uplink'[i].bytes) <= off
          /\ Received' <= uplink'[i].off \/ Received' < Reach
    BY <1>7, <1>8
  <2>2. /\ burstStart <= off
        /\ off = WindowEnd \/ (off = Len(Payload) /\ off <= WindowEnd)
    BY DEF InWindow
  <2> QED
    BY <1>2, <1>5, <1>9, <1>10, <1>11, <1>12, <2>1, <2>2 DEF InWindow
<1>14. Received <= off => Received' <= off
  BY <1>1, <1>4, <1>6
<1>15. (\A i \in InFlight : Received <= uplink[i].off) =>
          \A i \in InFlight' : Received' <= uplink'[i].off
  <2> SUFFICES ASSUME \A i \in InFlight : Received <= uplink[i].off, NEW i \in InFlight'
               PROVE  Received' <= uplink'[i].off
    OBVIOUS
  <2>1. Received <= m.off
    BY <1>3
  <2>2. Received' <= m.off + len
    BY <1>1, <1>4, <2>1
  <2>3. m.off + len <= uplink'[i].off /\ uplink'[i].off \in Nat
    BY <1>7
  <2>4. Received' \in Nat
    BY <1>1, <1>4
  <2> QED
    BY <1>4, <2>2, <2>3, <2>4
<1>16. burstStart < off
  BY <1>4, <1>6
<1>17. ASSUME AnswersOk PROVE AnswersOk'
  <2>1. /\ \A st \in ToSet(Answers) :
              burstStart <= st.received /\ (st.received = burstStart => Stuck)
        /\ burstStart <= Received /\ Received <= off
    BY <1>17 DEF AnswersOk
  <2>2. burstStart <= Received' /\ Received' <= off
    BY <1>1, <1>4, <1>6, <2>1
  <2>3. m.off # burstStart /\ Received = burstStart => Stuck'
    <3> SUFFICES ASSUME m.off # burstStart, Received = burstStart PROVE Stuck'
      OBVIOUS
    <3>1. Received' = burstStart
      BY <1>1
    <3>2. \A i \in InFlight' : uplink'[i].off # burstStart
      BY <1>4, <1>6, <1>7
    <3> QED
      BY <1>2, <3>1, <3>2 DEF Stuck
  <2>4. ToSet(Answers') = ToSet(Answers) \cup ToSet(Notification(rx'))
        /\ ToSet(Notification(rx')) \subseteq {Status(rx')}
        /\ Status(rx').received = Received'
    <3>1. rx' \in Receiver /\ Answers \in Seq(StatusMsg)
      BY TNextOk, AnswersType DEF TNext, DeviceStep, TInv, IInv, TypeOK
    <3>2. Notification(rx') \in Seq(StatusMsg) /\ ToSet(Notification(rx')) \subseteq {Status(rx')}
          /\ Status(rx').received = Received'
      BY <3>1, NotificationOk DEF Received
    <3> QED
      BY <1>1, <3>1, <3>2, ToSetOk
  <2>5. ASSUME NEW st \in ToSet(Answers')
        PROVE  burstStart <= st.received /\ (st.received = burstStart => Stuck')
    <3>1. CASE st \in ToSet(Answers)
      <4>1. st.received = burstStart => Received = burstStart /\ m.off # burstStart
        BY <1>3, <2>1, <3>1 DEF Stuck
      <4> QED
        BY <2>1, <2>3, <3>1, <4>1
    <3>2. CASE st \notin ToSet(Answers)
      <4>1. Notification(rx') # <<>> /\ st.received = Received'
        BY <2>4, <3>2, ToSetEmpty
      <4>2. Received' = burstStart => Received = burstStart /\ m.off # burstStart
        BY <1>1, <1>4, <2>1, <4>1
      <4> QED
        BY <2>2, <2>3, <4>1, <4>2
    <3> QED
      BY <3>1, <3>2
  <2> QED
    BY <1>2, <2>2, <2>5 DEF AnswersOk
<1> QED
  BY <1>13, <1>14, <1>15, <1>16, <1>17

\* What may be on the link in each state of the client, and what its first
\* packet leaves behind.
LEMMA LinkHead ==
    ASSUME TInv, BInv, DevicePacket, NEW m, m = Head(uplink)
    PROVE  /\ m.op \in Ops(uplink) /\ Ops(uplink') \subseteq Ops(uplink)
           /\ client \in Starting \cup Sending =>
                 m.op \in {"subscribe", "contentStart", "sync", "readStatus", "data"}
           /\ client \in Sending => m.op \in {"sync", "readStatus", "data"}
           /\ OnlyData => m.op = "data" /\ OnlyData'
           /\ DataThen("sync") =>
                 \/ m.op = "sync" /\ uplink' = <<>>
                 \/ m.op = "data" /\ uplink' # <<>> /\ DataThen("sync")'
           /\ DataThen("readStatus") =>
                 \/ m.op = "readStatus" /\ uplink' = <<>>
                 \/ m.op = "data" /\ uplink' # <<>> /\ DataThen("readStatus")'
           /\ m.op = "data" => 1 \in InFlight /\ uplink[1] = m
<1>1. /\ uplink \in Seq(Link) /\ UplinkOk /\ uplink # <<>> /\ uplink' = Tail(uplink)
      /\ m \in ToSet(uplink) /\ (m \in Control \/ Chunk(m)) /\ m.op # "disconnect"
  BY PacketEffect, AnswersType DEF TInv, DevicePacket, Arrived
<1>2. /\ DOMAIN uplink' = 1..(Len(uplink) - 1) /\ Len(uplink) \in Nat \ {0}
      /\ Len(uplink') = Len(uplink) - 1
      /\ DOMAIN uplink = 1..Len(uplink) /\ uplink[1] = m
      /\ \A i \in DOMAIN uplink' : i + 1 \in DOMAIN uplink /\ uplink'[i] = uplink[i + 1]
      /\ m.op = "data" => 1 \in InFlight
  BY <1>1, LinkTail
<1>3. m.op \in Ops(uplink) /\ Ops(uplink') \subseteq Ops(uplink)
  <2>1. \A x \in ToSet(uplink') : x \in ToSet(uplink)
    BY <1>2 DEF ToSet
  <2> QED
    BY <1>1, <2>1 DEF Ops
<1>4. m.op \in {"subscribe", "contentStart", "sync", "readStatus", "commit", "data"}
  BY <1>1 DEF Control, Chunk, DataMsg, StartPacket
<1>5. /\ client \in Starting \cup Sending =>
            m.op \in {"subscribe", "contentStart", "sync", "readStatus", "data"}
      /\ client \in Sending => m.op \in {"sync", "readStatus", "data"}
  BY <1>1, <1>3, <1>4 DEF UplinkOk, Starting, Sending
<1>6. 1 \in DOMAIN uplink
  BY <1>2
<1>7. OnlyData => m.op = "data" /\ OnlyData'
  BY <1>2, <1>6 DEF OnlyData
<1>8. ASSUME NEW op, DataThen(op)
      PROVE  \/ m.op = op /\ uplink' = <<>>
             \/ m.op = "data" /\ uplink' # <<>> /\ \A i \in DOMAIN uplink' :
                   IF i = Len(uplink') THEN uplink'[i].op = op ELSE uplink'[i].op = "data"
  <2>1. CASE Len(uplink) = 1
    <3>1. m.op = op
      BY <1>2, <1>6, <1>8, <2>1 DEF DataThen
    <3>2. Len(uplink') = 0 /\ uplink' \in Seq(Link)
      BY <1>1, <1>2, <2>1
    <3>3. uplink' = <<>>
      BY <3>2
    <3> QED
      BY <3>1, <3>3
  <2>2. CASE Len(uplink) # 1
    <3>1. m.op = "data"
      BY <1>2, <1>6, <1>8, <2>2 DEF DataThen
    <3>2. uplink' # <<>>
      <4>1. Len(uplink') # 0
        BY <1>2, <2>2
      <4> QED
        BY <4>1
    <3>3. ASSUME NEW i \in DOMAIN uplink'
          PROVE  IF i = Len(uplink') THEN uplink'[i].op = op ELSE uplink'[i].op = "data"
      <4>1. i + 1 \in DOMAIN uplink /\ uplink'[i] = uplink[i + 1] /\ i \in Nat
        BY <1>2
      <4>2. i = Len(uplink') <=> i + 1 = Len(uplink)
        BY <1>2, <4>1
      <4> QED
        BY <1>8, <4>1, <4>2 DEF DataThen
    <3> QED
      BY <3>1, <3>2, <3>3
  <2> QED
    BY <2>1, <2>2
<1>9. /\ DataThen("sync") =>
            \/ m.op = "sync" /\ uplink' = <<>>
            \/ m.op = "data" /\ uplink' # <<>> /\ DataThen("sync")'
      /\ DataThen("readStatus") =>
            \/ m.op = "readStatus" /\ uplink' = <<>>
            \/ m.op = "data" /\ uplink' # <<>> /\ DataThen("readStatus")'
  BY <1>8 DEF DataThen
<1> QED
  BY <1>2, <1>3, <1>5, <1>7, <1>9

\* The parts of BInv that are not about the window.
LEMMA BPacketPlain ==
    ASSUME TInv, BInv, DevicePacket
    PROVE  SubscribedOk' /\ FreshStart' /\ LinkOk' /\ ThrowsOk'
<1> DEFINE m == Head(uplink)
<1>1. /\ UNCHANGED clientVars /\ uplink # <<>> /\ downlink' = Answers
      /\ rx'.notify_on => m.op = "subscribe" \/ rx.notify_on
      /\ m.op \in {"subscribe", "readStatus", "sync"} => Received' = Received
      /\ m.op \in {"subscribe", "readStatus"} => ~rx'.pending_ntf
      /\ m.op = "contentStart" => Received' = 0
      /\ reply' = IF m.op = "readStatus" THEN {Status(rx)} ELSE reply
  BY PacketEffect
<1>2. /\ client' = client /\ off' = off /\ burstStart' = burstStart /\ sent' = sent
      /\ chunk' = chunk /\ notifyOk' = notifyOk /\ mtu' = mtu
  BY <1>1 DEF clientVars, progress, chosen
<1>3. /\ m.op \in Ops(uplink) /\ Ops(uplink') \subseteq Ops(uplink)
      /\ client \in Starting \cup Sending =>
            m.op \in {"subscribe", "contentStart", "sync", "readStatus", "data"}
      /\ client \in Sending => m.op \in {"sync", "readStatus", "data"}
      /\ OnlyData => m.op = "data" /\ OnlyData'
      /\ DataThen("sync") =>
            \/ m.op = "sync" /\ uplink' = <<>>
            \/ m.op = "data" /\ uplink' # <<>> /\ DataThen("sync")'
      /\ DataThen("readStatus") =>
            \/ m.op = "readStatus" /\ uplink' = <<>>
            \/ m.op = "data" /\ uplink' # <<>> /\ DataThen("readStatus")'
  BY LinkHead
<1>4. SubscribedOk /\ FreshStart /\ LinkOk /\ ThrowsOk
  BY DEF BInv
<1> HIDE DEF m
<1>5. SubscribedOk'
  <2>1. ~notifyOk \/ client = "start" => Answers = <<>>
    BY <1>4, NoAnswers, AnswersType DEF SubscribedOk
  <2>2. client = "start" => ~rx'.pending_ntf
    BY <1>1, <1>3, <1>4 DEF LinkOk
  <2> QED
    BY <1>1, <1>2, <1>3, <1>4, <2>1, <2>2 DEF SubscribedOk
<1>6. client \in Starting \cup Sending /\ Received = 0 /\ "data" \notin Ops(uplink) => Received' = 0
  BY <1>1, <1>3
<1>7. FreshStart'
  BY <1>2, <1>3, <1>4, <1>6 DEF FreshStart
<1>8. ThrowsOk'
  BY <1>2, <1>3, <1>4, <1>6 DEF ThrowsOk
<1>9. Status(rx).received = Received
  BY AnswersType, NotificationOk DEF Received
<1>10. ASSUME client \in {"startRead", "syncRead"}
       PROVE  \/ DataThen("readStatus")' /\ reply' = {} /\ uplink' # <<>>
              \/ uplink' = <<>> /\ \A st \in reply' : st.received = Received'
  <2>1. DataThen("readStatus") /\ reply = {}
    BY <1>1, <1>4, <1>10 DEF LinkOk
  <2> QED
    BY <1>1, <1>3, <1>9, <2>1
<1>11. LinkOk'
  <2>1. client = "syncAck" => DataThen("sync")'
    <3>1. DataThen("sync")' \/ uplink' # <<>> \/ ~(client = "syncAck") \/ DOMAIN uplink' = {}
      OBVIOUS
    <3> QED
      BY <1>1, <1>3, <1>4, <3>1 DEF LinkOk, DataThen
  <2> QED
    BY <1>2, <1>3, <1>4, <1>10, <2>1 DEF LinkOk
<1> QED
  BY <1>5, <1>7, <1>8, <1>11

\* A packet that leaves the device's data alone leaves the window alone.
LEMMA WindowTail ==
    ASSUME TInv, InWindow, uplink # <<>>, uplink' = Tail(uplink), UNCHANGED clientVars,
           Received' = Received
    PROVE  InWindow' /\ (Stuck => Stuck')
<1>1. uplink \in Seq(Link)
  BY AnswersType
<1>2. /\ client' = client /\ off' = off /\ burstStart' = burstStart /\ sent' = sent
      /\ chunk' = chunk /\ Reach' = Reach /\ WindowEnd' = WindowEnd
  BY DEF clientVars, progress, Reach, WindowEnd
<1>3. /\ \A i \in InFlight' : i + 1 \in InFlight /\ i \in Nat /\ uplink'[i] = uplink[i + 1]
      /\ Cardinality(InFlight') <= Cardinality(InFlight)
      /\ Cardinality(InFlight) \in Nat /\ Cardinality(InFlight') \in Nat
  BY <1>1, LinkTail
<1>4. sent \in Nat /\ off \in Nat /\ Received \in Nat
  BY WindowType
<1>5. \A i, j \in InFlight' : i < j => uplink'[i].off + Len(uplink'[i].bytes) <= uplink'[j].off
  <2> SUFFICES ASSUME NEW i \in InFlight', NEW j \in InFlight', i < j
               PROVE  uplink'[i].off + Len(uplink'[i].bytes) <= uplink'[j].off
    OBVIOUS
  <2>1. i + 1 \in InFlight /\ j + 1 \in InFlight /\ i + 1 < j + 1
    BY <1>3
  <2> QED
    BY <1>3, <2>1 DEF InWindow
<1>6. \A i \in InFlight' :
         /\ burstStart <= uplink'[i].off /\ uplink'[i].off + Len(uplink'[i].bytes) <= off
         /\ Received <= uplink'[i].off \/ Received < Reach
  BY <1>3 DEF InWindow
<1>7. Cardinality(InFlight') <= sent
  BY <1>3, <1>4 DEF InWindow
<1>8. InFlight = {} => InFlight' = {}
  BY <1>3
<1>9. InWindow'
  <2>1. /\ burstStart <= off
        /\ off = WindowEnd \/ (off = Len(Payload) /\ off <= WindowEnd)
        /\ Received <= off \/ Received < Reach
        /\ client = "ackWait" =>
              sent = AckWindow \/ off = Len(Payload) \/ (InFlight = {} /\ Received <= off)
    BY DEF InWindow
  <2> QED
    BY <1>2, <1>5, <1>6, <1>7, <1>8, <2>1 DEF InWindow
<1>10. Stuck => Stuck'
  BY <1>2, <1>3 DEF Stuck
<1> QED
  BY <1>9, <1>10

\* The answers after a packet.
LEMMA MoreAnswers ==
    ASSUME TInv, DevicePacket
    PROVE  /\ Answers \in Seq(StatusMsg) /\ Notification(rx') \in Seq(StatusMsg)
           /\ Answers' = Answers \o Notification(rx')
           /\ ToSet(Answers') = ToSet(Answers) \cup ToSet(Notification(rx'))
           /\ \A st \in ToSet(Notification(rx')) : st.received = Received'
           /\ Notification(rx') = <<>> => Answers' = Answers
           /\ Notification(rx') # <<>> => Len(Answers') = Len(Answers) + 1
           /\ Len(Answers) \in Nat
           /\ \A k \in 1..Len(Answers) : Answers'[k] = Answers[k] /\ Answers[k] \in ToSet(Answers)
<1>1. Answers \in Seq(StatusMsg) /\ Answers' = Answers \o Notification(rx')
  BY AnswersType, PacketEffect
<1>2. rx' \in Receiver
  BY TNextOk DEF TNext, DeviceStep, TInv, IInv, TypeOK
<1>3. /\ Notification(rx') \in Seq(StatusMsg)
      /\ ToSet(Notification(rx')) \subseteq {Status(rx')}
      /\ Status(rx').received = Received'
  BY <1>2, NotificationOk DEF Received
<1>4. ToSet(Answers') = ToSet(Answers) \cup ToSet(Notification(rx'))
  BY <1>1, <1>3, ToSetOk
<1>5. Notification(rx') = <<>> \/ Len(Notification(rx')) = 1
  BY DEF Notification
<1>6. Notification(rx') = <<>> => Answers' = Answers
  BY <1>1
<1>7. Notification(rx') # <<>> => Len(Answers') = Len(Answers) + 1
  BY <1>1, <1>3, <1>5
<1>8. \A k \in 1..Len(Answers) : Answers'[k] = Answers[k] /\ Answers[k] \in ToSet(Answers)
  BY <1>1, <1>3 DEF ToSet
<1> QED
  BY <1>1, <1>3, <1>4, <1>6, <1>7, <1>8

\* The parts of BInv that hold after at most one early timeout.
LEMMA BPacketWindow ==
    ASSUME TInv, BInv, DevicePacket, early <= 1
    PROVE  /\ client \in Sending => InWindow'
           /\ client = "syncAck" => SyncOk'
           /\ BackPressure'
<1> DEFINE m == Head(uplink)
<1>1. /\ UNCHANGED clientVars /\ uplink # <<>> /\ uplink' = Tail(uplink) /\ uplink \in Seq(Link)
      /\ m.op \in {"subscribe", "readStatus", "sync"} => Received' = Received
      /\ client \in Sending => m.op \in {"sync", "readStatus", "data"}
      /\ DataThen("sync") =>
            \/ m.op = "sync" /\ uplink' = <<>>
            \/ m.op = "data" /\ uplink' # <<>> /\ DataThen("sync")'
      /\ m.op = "data" => 1 \in InFlight
  BY PacketEffect, LinkHead, AnswersType
<1>2. client' = client /\ early' = early /\ off' = off /\ burstStart' = burstStart
  BY <1>1 DEF clientVars, progress
<1>3. /\ client \in Sending => InWindow
      /\ client = "syncAck" => SyncOk /\ DataThen("sync")
      /\ BackPressure
  BY <1>1 DEF BInv, LinkOk
<1>4. BackPressure'
  <2>1. /\ Cardinality(InFlight') <= Cardinality(InFlight)
        /\ Cardinality(InFlight) \in Nat /\ Cardinality(InFlight') \in Nat
    BY <1>1, LinkTail
  <2> QED
    BY <1>2, <1>3, <2>1, WindowType DEF BackPressure
<1>5. m.op = "data" /\ client \in Sending => InWindow' /\ (AnswersOk => AnswersOk')
  BY <1>3, WindowData
<1>6. m.op \in {"sync", "readStatus"} /\ client \in Sending => InWindow' /\ (Stuck => Stuck')
  BY <1>1, <1>3, WindowTail
<1> HIDE DEF m
<1>7. ASSUME client = "syncAck" PROVE SyncOk'
  <2>1. CASE m.op = "data"
    BY <1>1, <1>3, <1>5, <1>7, <2>1 DEF SyncOk, Sending
  <2>2. CASE m.op = "sync" /\ uplink' = <<>>
    <3>1. Received' = Received /\ (Stuck => Stuck') /\ InFlight' = {}
      BY <1>1, <1>6, <1>7, <2>2 DEF Sending, InFlight
    <3>2. \A st \in ToSet(Answers') : st \in ToSet(Answers) \/ st.received = Received'
      BY MoreAnswers
    <3>3. CASE InFlight = {} /\ \A st \in ToSet(Answers) : st.received = Received
      BY <3>1, <3>2, <3>3 DEF SyncOk
    <3>4. CASE AnswersOk
      <4>1. Received = burstStart => Stuck'
        BY <1>2, <3>1 DEF Stuck
      <4>2. \A st \in ToSet(Answers') :
               burstStart <= st.received /\ (st.received = burstStart => Stuck')
        BY <3>1, <3>2, <3>4, <4>1 DEF AnswersOk
      <4> QED
        BY <1>2, <3>1, <3>4, <4>2 DEF AnswersOk, SyncOk
    <3> QED
      BY <1>3, <1>7, <3>3, <3>4 DEF SyncOk
  <2> QED
    BY <1>1, <1>3, <1>7, <2>1, <2>2
<1> QED
  BY <1>1, <1>4, <1>5, <1>6, <1>7

\* What holds before any early timeout.
LEMMA BPacketPunctual ==
    ASSUME TInv, BInv, DevicePacket, early = 0
    PROVE  Punctual'
<1> DEFINE m == Head(uplink)
<1>1. /\ UNCHANGED clientVars /\ uplink # <<>> /\ uplink' = Tail(uplink) /\ uplink \in Seq(Link)
      /\ ~rx'.pending_ntf => Notification(rx') = <<>>
      /\ m.op = "data" =>
            /\ Chunk(m) /\ 1 \in InFlight /\ uplink[1] = m
            /\ Received' = Received \/ m.off = Received
      /\ m.op \in {"subscribe", "readStatus", "sync"} => Received' = Received
      /\ m.op \in {"subscribe", "readStatus"} => ~rx'.pending_ntf
      /\ m.op \in Ops(uplink)
      /\ OnlyData => m.op = "data"
      /\ DataThen("sync") => m.op \in {"data", "sync"} /\ (m.op = "sync" => uplink' = <<>>)
      /\ DataThen("readStatus") => m.op \in {"data", "readStatus"}
  BY PacketEffect, LinkHead, AnswersType
<1>2. /\ client' = client /\ off' = off /\ burstStart' = burstStart /\ notifyOk' = notifyOk
  BY <1>1 DEF clientVars, progress, chosen
<1>3. Punctual /\ FreshStart /\ LinkOk /\ (client \in Sending => InWindow) /\ UplinkOk
  BY DEF BInv, TInv
<1>4. ~notifyOk => Notification(rx') = <<>>
  BY <1>2, BPacketPlain DEF SubscribedOk, Notification
<1>5. Answers = <<>> /\ Notification(rx') = <<>> => Answers' = <<>>
  BY MoreAnswers
<1>6. m.op = "data" /\ client \in Sending =>
         /\ AnswersOk => AnswersOk'
         /\ Received <= off => Received' <= off
         /\ (\A i \in InFlight : Received <= uplink[i].off) =>
               \A i \in InFlight' : Received' <= uplink'[i].off
         /\ burstStart < off
  BY <1>3, WindowData
<1>7. InFlight = {} => InFlight' = {}
  BY <1>1, LinkTail
<1>8. client \in Sending => m.op \in {"sync", "readStatus", "data"}
  BY LinkHead
<1>9. Answers = <<>> => Len(Answers') <= 1 /\ ToSet(Answers') = ToSet(Notification(rx'))
  <2>1. /\ ToSet(Answers') = ToSet(Answers) \cup ToSet(Notification(rx'))
        /\ Notification(rx') = <<>> => Answers' = Answers
        /\ Notification(rx') # <<>> => Len(Answers') = Len(Answers) + 1
    BY MoreAnswers
  <2>2. Len(<<>>) = 0
    OBVIOUS
  <2> QED
    BY <2>1, <2>2, ToSetEmpty
<1> HIDE DEF m
<1>10. ASSUME client = "startAck"
       PROVE  Len(Answers') <= 1 /\ uplink' = <<>>
  <2>1. uplink = <<StartPacket>>
    BY <1>1, <1>3, <1>10 DEF UplinkOk
  <2>2. uplink' = <<>>
    BY <1>1, <2>1
  <2> QED
    BY <1>1, <1>3, <1>9, <1>10, <2>2 DEF Punctual
<1>11. ASSUME client \in {"startRead", "syncRead"} PROVE Answers' = <<>>
  <2>1. Answers = <<>> /\ (m.op = "data" => ~notifyOk)
    BY <1>1, <1>3, <1>11 DEF Punctual, FreshStart, Starting
  <2>2. m.op \in {"data", "readStatus"}
    BY <1>1, <1>3, <1>11 DEF LinkOk
  <2> QED
    BY <1>1, <1>4, <1>5, <2>1, <2>2
<1>12. ASSUME client = "syncAck"
       PROVE  /\ InFlight' = {} /\ \A st \in ToSet(Answers') : st.received = Received'
              /\ Len(Answers') <= 1 /\ uplink' = <<>>
  <2>1. InFlight = {} /\ Answers = <<>> /\ m.op = "sync" /\ uplink' = <<>>
    BY <1>1, <1>3, <1>12 DEF Punctual, LinkOk
  <2> QED
    BY <1>7, <1>9, <2>1, MoreAnswers
<1>13. client \in {"syncAck", "syncRead"} => Received' <= off
  BY <1>1, <1>3, <1>6, <1>8 DEF Punctual, Sending
<1>14. ASSUME client \in {"burst", "ackWait"} PROVE Clean'
  <2>1. Clean /\ m.op = "data" /\ client \in Sending
    BY <1>1, <1>3, <1>14 DEF Punctual, LinkOk, Sending
  <2>2. /\ AnswersOk' /\ burstStart < off
        /\ \A i \in InFlight' : Received' <= uplink'[i].off
    BY <1>6, <2>1 DEF Clean
  <2>3. \A st \in ToSet(Answers) : st.received < off
    <3>1. Received <= m.off /\ m.off + Len(m.bytes) <= off /\ m.off \in Nat
          /\ Len(m.bytes) \in Nat \ {0} /\ off \in Nat /\ Received \in Nat
      BY <1>1, <1>3, <2>1, WindowType DEF Clean, InWindow
    <3>2. \A st \in ToSet(Answers) : st.received \in Nat /\ st.received <= Received
      BY <2>1, AnswersType
    <3> QED
      BY <3>1, <3>2
  <2>4. ASSUME NEW k \in 1..(Len(Answers') - 1) PROVE Answers'[k].received < off
    <3>1. CASE Notification(rx') = <<>>
      BY <2>1, <2>4, <3>1, MoreAnswers DEF Clean
    <3>2. CASE Notification(rx') # <<>>
      <4>1. /\ Len(Answers') - 1 = Len(Answers)
            /\ \A j \in 1..Len(Answers) : Answers'[j] = Answers[j] /\ Answers[j] \in ToSet(Answers)
        <5>1. /\ Len(Answers') = Len(Answers) + 1 /\ Len(Answers) \in Nat
              /\ \A j \in 1..Len(Answers) : Answers'[j] = Answers[j] /\ Answers[j] \in ToSet(Answers)
          BY <3>2, MoreAnswers, Zenon
        <5> QED
          BY <5>1
      <4> QED
        BY <2>3, <2>4, <4>1
    <3> QED
      BY <3>1, <3>2
  <2> QED
    BY <1>2, <2>2, <2>4 DEF Clean
<1>15. client = "syncRead" => InFlight' = {} \/ ~notifyOk
  BY <1>3, <1>7 DEF Punctual
<1> QED
  BY <1>2, <1>10, <1>11, <1>12, <1>13, <1>14, <1>15 DEF Punctual

LEMMA BDevicePacketOk ==
    ASSUME TInv, BInv, DevicePacket
    PROVE  BInv'
<1>1. client' = client /\ early' = early
  BY PacketEffect DEF clientVars
<1> QED
  BY <1>1, BPacketPlain, BPacketWindow, BPacketPunctual DEF BInv

-----------------------------------------------------------------------------
(* The client's steps. *)

\* What no step of the client disturbs, whether it sends one packet that is
\* no chunk, takes a notification, or neither.
LEMMA ClientSame ==
    ASSUME TInv, BInv, rx' = rx, notifyOk' = notifyOk, early' \in {early, early + 1},
           client' # "start",
           uplink' = uplink \/
              \E m \in Link : m.op \notin {"data", "subscribe"} /\ uplink' = Append(uplink, m),
           downlink' = downlink \/ (notifyOk /\ downlink' = Tail(downlink))
    PROVE  /\ SubscribedOk' /\ (early' <= 1 => early <= 1 /\ BackPressure')
           /\ Received' = Received /\ Notification(rx') = Notification(rx)
           /\ InFlight' = InFlight /\ \A i \in InFlight : uplink'[i] = uplink[i]
           /\ "data" \in Ops(uplink') => "data" \in Ops(uplink)
           /\ downlink' = downlink => Answers' = Answers
<1>1. uplink \in Seq(Link) /\ early \in Nat /\ SubscribedOk
  BY AnswersType, TransferAssumption DEF BInv, TInv, TransferTypeOK
<1>2. /\ InFlight' = InFlight /\ \A i \in InFlight : uplink'[i] = uplink[i]
      /\ "data" \in Ops(uplink') => "data" \in Ops(uplink)
      /\ "subscribe" \in Ops(uplink') => "subscribe" \in Ops(uplink)
  <2>1. CASE uplink' = uplink
    BY <2>1 DEF InFlight
  <2>2. ASSUME NEW m \in Link, m.op \notin {"data", "subscribe"}, uplink' = Append(uplink, m)
        PROVE  /\ InFlight' = InFlight /\ \A i \in InFlight : uplink'[i] = uplink[i]
               /\ "data" \in Ops(uplink') => "data" \in Ops(uplink)
               /\ "subscribe" \in Ops(uplink') => "subscribe" \in Ops(uplink)
    <3>1. InFlight' = InFlight /\ \A i \in InFlight : uplink'[i] = uplink[i]
      BY <1>1, <2>2, LinkAppend DEF InFlight
    <3>2. ToSet(uplink') = ToSet(uplink) \cup {m}
      BY <1>1, <2>2, ToSetOk
    <3>3. Ops(uplink') = Ops(uplink) \cup {m.op}
      BY <3>2 DEF Ops
    <3> QED
      BY <2>2, <3>1, <3>3
  <2> QED
    BY <2>1, <2>2
<1>3. early' <= 1 => early <= 1 /\ BackPressure'
  <2>1. early' <= 1 => early <= 1
    BY <1>1
  <2> QED
    BY <1>2, <2>1 DEF BInv, BackPressure
<1>4. SubscribedOk'
  BY <1>1, <1>2 DEF SubscribedOk
<1> QED
  BY <1>2, <1>3, <1>4 DEF Received, Answers

\* A client that sends no more chunks asks for little.
LEMMA RestOk ==
    ASSUME client' \in Committing \cup {"done", "closed"}, SubscribedOk',
           early' <= 1 => BackPressure'
    PROVE  BInv'
BY DEF BInv, FreshStart, LinkOk, ThrowsOk, Punctual, Starting, Sending, Committing

\* The client takes the first answer under way.
LEMMA TakeAnswer ==
    ASSUME TInv, rx' = rx, downlink # <<>>, downlink' = Tail(downlink)
    PROVE  /\ Head(downlink) \in ToSet(Answers) /\ Answers[1] = Head(downlink)
           /\ Len(Answers) \in Nat \ {0} /\ Len(Answers') = Len(Answers) - 1
           /\ \A k \in 1..Len(Answers') : k + 1 \in 1..Len(Answers) /\ Answers'[k] = Answers[k + 1]
           /\ ToSet(Answers') \subseteq ToSet(Answers)
           /\ Len(Answers) = 1 => Answers' = <<>>
<1> DEFINE n == Notification(rx)
<1>1. rx \in Receiver /\ downlink \in Seq(StatusMsg) /\ Answers \in Seq(StatusMsg)
  BY AnswersType DEF TInv, TransferTypeOK
<1>2. n \in Seq(StatusMsg) /\ Answers = downlink \o n /\ Answers' = downlink' \o n
  BY <1>1, NotificationOk DEF Answers
<1> HIDE DEF n
<1>3. Answers # <<>> /\ Answers' = Tail(Answers) /\ Head(Answers) = Head(downlink)
  <2>1. Len(downlink) \in Nat \ {0} /\ Len(downlink \o n) = Len(downlink) + Len(n)
        /\ Len(n) \in Nat
    BY <1>1, <1>2
  <2>2. Answers # <<>>
    BY <1>2, <2>1
  <2>3. Answers[1] = downlink[1]
    BY <1>1, <1>2, <2>1
  <2>4. Head(Answers) = Head(downlink)
    BY <1>1, <2>2, <2>3
  <2>5. Tail(downlink) \o n = Tail(downlink \o n)
    BY <1>1, <1>2, <2>1
  <2> QED
    BY <1>2, <2>2, <2>4, <2>5
<1>4. /\ Answers[1] = Head(downlink) /\ Len(Answers) \in Nat \ {0}
      /\ Len(Answers') = Len(Answers) - 1
      /\ \A k \in 1..(Len(Answers) - 1) : Answers'[k] = Answers[k + 1]
      /\ Answers' \in Seq(StatusMsg)
  BY <1>1, <1>3
<1>5. \A k \in 1..Len(Answers') : k + 1 \in 1..Len(Answers) /\ Answers'[k] = Answers[k + 1]
  BY <1>4
<1>6. ToSet(Answers') \subseteq ToSet(Answers) /\ Head(downlink) \in ToSet(Answers)
  BY <1>1, <1>3, ToSetOk
<1>7. Len(Answers) = 1 => Answers' = <<>>
  BY <1>4
<1> QED
  BY <1>4, <1>5, <1>6, <1>7

\* A timeout that is not early: nothing is under way.
LEMMA TimeOutPunctual ==
    ASSUME TInv, BInv, TimeOut
    PROVE  /\ early' \in {early, early + 1}
           /\ early' = 0 => early = 0
           /\ early' = early \/ (early' = early + 1 /\ (early' <= 1 => early = 0))
           /\ early' = early => Answers = <<>> /\ (notifyOk => uplink = <<>>)
<1>1. early \in Nat /\ rx \in Receiver /\ SubscribedOk
  BY AnswersType, TransferAssumption DEF BInv, TInv, TransferTypeOK
<1>2. \/ ~notifyOk \/ Silent
      \/ early' = early + 1
  BY DEF TimeOut
<1>3. ~notifyOk \/ Silent => Answers = <<>>
  BY <1>1, NoAnswers DEF SubscribedOk, Silent, Answers
<1>4. Silent => uplink = <<>>
  BY DEF Silent
<1>5. early' \in {early, early + 1}
  BY DEF TimeOut
<1>6. early' = 0 => early = 0
  BY <1>1, <1>5
<1>7. early' = early \/ (early' = early + 1 /\ (early' <= 1 => early = 0))
  BY <1>1, <1>5
<1>8. early' = early => ~notifyOk \/ Silent
  BY <1>1, <1>2
<1> QED
  BY <1>3, <1>4, <1>5, <1>6, <1>7, <1>8

\* The first window.
LEMMA FreshWindow ==
    ASSUME TInv, BInv, client \in {"startAck", "startRead"}, client' = "burst",
           rx' = rx, uplink = <<>>, uplink' = uplink, progress' = progress, mtu' = mtu,
           SubscribedOk', early' = 0 => Answers' = <<>>
    PROVE  BInv'
<1>1. /\ off' = 0 /\ burstStart' = 0 /\ sent' = 0 /\ chunk' = chunk /\ Received' = 0
  BY DEF BInv, FreshStart, Starting, progress, Received
<1>2. chunk' \in Nat /\ AckWindow \in Nat
  BY <1>1, WindowType
<1>3. 0 * chunk' = 0
  <2>1. \A c \in Nat : 0 * c = 0
    OBVIOUS
  <2> QED
    BY <1>2, <2>1
<1>4. WindowEnd' = 0
  BY <1>1, <1>3 DEF WindowEnd
<1>5. /\ InFlight' = {} /\ Cardinality(InFlight') = 0 /\ Ops(uplink') = {}
      /\ DOMAIN uplink' = {}
  BY LinkEmpty DEF InFlight
<1>6. InWindow'
  BY <1>1, <1>4, <1>5 DEF InWindow
<1>7. Answers' = <<>> => Clean'
  BY <1>1, <1>5, ToSetEmpty DEF Clean, AnswersOk
<1>8. early' = 0 => Punctual'
  BY <1>7 DEF Punctual
<1>9. BackPressure'
  BY <1>2, <1>5 DEF BackPressure
<1>10. LinkOk' /\ ThrowsOk' /\ FreshStart'
  BY <1>1, <1>5 DEF LinkOk, OnlyData, ThrowsOk, FreshStart, Starting
<1> QED
  BY <1>6, <1>8, <1>9, <1>10 DEF BInv

LEMMA BStartOk ==
    ASSUME TInv, BInv, SendStart \/ StartAck \/ StartTimeOut \/ StartRead
    PROVE  BInv'
<1>1. CASE SendStart
  <2>1. /\ client = "start" /\ client' = "startAck" /\ uplink = <<>>
        /\ uplink' = Append(uplink, StartPacket) /\ rx' = rx /\ downlink' = downlink
        /\ early' = early /\ notifyOk' = notifyOk /\ progress' = progress
    BY <1>1 DEF SendStart, Answered, Send, vars, chosen
  <2>2. StartPacket \in Link /\ StartPacket.op \notin {"data", "subscribe"}
    BY ControlOk DEF Link
  <2>3. /\ SubscribedOk' /\ (early' <= 1 => BackPressure') /\ Received' = Received
        /\ "data" \in Ops(uplink') => "data" \in Ops(uplink)
        /\ Answers' = Answers
    BY <2>1, <2>2, ClientSame
  <2>4. FreshStart /\ SubscribedOk
    BY DEF BInv
  <2>5. FreshStart' /\ ThrowsOk'
    BY <2>1, <2>3, <2>4 DEF FreshStart, ThrowsOk, Starting, progress
  <2>6. Answers = <<>> /\ Len(<<>>) = 0
    BY <2>1, <2>4, AnswersType, NoAnswers DEF SubscribedOk
  <2>7. Punctual' /\ LinkOk'
    BY <2>1, <2>3, <2>6 DEF Punctual, LinkOk
  <2> QED
    BY <2>1, <2>3, <2>5, <2>7 DEF BInv, Sending
<1>2. CASE StartAck
  <2>1. /\ client = "startAck" /\ client' \in {"startAck", "burst"}
        /\ uplink = <<>> /\ uplink' = uplink /\ notifyOk
        /\ rx' = rx /\ downlink # <<>> /\ downlink' = Tail(downlink)
        /\ early' = early /\ notifyOk' = notifyOk /\ mtu' = mtu /\ progress' = progress
    BY <1>2 DEF StartAck, Answered, vars, chosen
  <2>2. /\ SubscribedOk' /\ (early' <= 1 => BackPressure') /\ Received' = Received
        /\ "data" \in Ops(uplink') => "data" \in Ops(uplink)
    BY <2>1, ClientSame
  <2>3. early = 0 => Answers' = <<>>
    <3>1. early = 0 => Len(Answers) <= 1
      BY <2>1 DEF BInv, Punctual
    <3> QED
      BY <2>1, <3>1, TakeAnswer
  <2>4. CASE client' = "burst"
    BY <2>1, <2>2, <2>3, <2>4, FreshWindow
  <2>5. CASE client' = "startAck"
    <3>1. FreshStart' /\ ThrowsOk' /\ LinkOk'
      BY <2>1, <2>2, <2>5 DEF BInv, FreshStart, ThrowsOk, LinkOk, Starting, progress
    <3>2. early' = 0 => Punctual'
      <4>1. Len(<<>>) = 0
        OBVIOUS
      <4> QED
        BY <2>1, <2>3, <2>5, <4>1 DEF Punctual
    <3> QED
      BY <2>2, <2>5, <3>1, <3>2 DEF BInv, Sending
  <2> QED
    BY <2>1, <2>4, <2>5
<1>3. CASE StartTimeOut
  <2>1. /\ client = "startAck" /\ client' = "startRead" /\ uplink = <<>> /\ TimeOut
        /\ uplink' = Append(uplink, [op |-> "readStatus"]) /\ reply' = {}
        /\ rx' = rx /\ downlink' = downlink
        /\ notifyOk' = notifyOk /\ progress' = progress
    BY <1>3 DEF StartTimeOut, Answered, SendRead, Send, vars, chosen
  <2>2. [op |-> "readStatus"] \in Link /\ [op |-> "readStatus"].op = "readStatus"
    BY ControlOk DEF Link
  <2>3. early' \in {early, early + 1} /\ (early' = 0 => early = 0 /\ Answers = <<>>)
    BY TimeOutPunctual, <2>1
  <2>4. /\ SubscribedOk' /\ (early' <= 1 => BackPressure') /\ Received' = Received
        /\ "data" \in Ops(uplink') => "data" \in Ops(uplink)
        /\ Answers' = Answers
    BY <2>1, <2>2, <2>3, ClientSame
  <2>5. FreshStart' /\ ThrowsOk'
    BY <2>1, <2>4 DEF BInv, FreshStart, ThrowsOk, Starting, progress
  <2>6. LinkOk'
    <3>1. uplink' = <<[op |-> "readStatus"]>>
      BY <2>1
    <3> QED
      BY <2>1, <2>2, <3>1 DEF LinkOk, DataThen
  <2>7. early' = 0 => Punctual'
    BY <2>1, <2>3, <2>4 DEF Punctual
  <2> QED
    BY <2>1, <2>4, <2>5, <2>6, <2>7 DEF BInv, Sending
<1>4. CASE StartRead
  <2>1. /\ client = "startRead" /\ client' \in {"burst", "done"} /\ reply # {}
        /\ uplink' = uplink /\ rx' = rx /\ downlink' = downlink
        /\ early' = early /\ notifyOk' = notifyOk /\ mtu' = mtu /\ progress' = progress
    BY <1>4 DEF StartRead, Fail, vars, chosen, linkVars
  <2>2. /\ SubscribedOk' /\ (early' <= 1 => BackPressure') /\ Answers' = Answers
    BY <2>1, ClientSame
  <2>3. uplink = <<>>
    BY <2>1 DEF BInv, LinkOk
  <2>4. CASE client' = "burst"
    <3>1. early' = 0 => Answers' = <<>>
      BY <2>1, <2>2 DEF BInv, Punctual
    <3> QED
      BY <2>1, <2>2, <2>3, <2>4, <3>1, FreshWindow
  <2>5. CASE client' = "done"
    BY <2>2, <2>5, RestOk
  <2> QED
    BY <2>1, <2>4, <2>5
<1> QED
  BY <1>1, <1>2, <1>3, <1>4

\* The window as it stands.
LEMMA InWindowNow ==
    ASSUME BInv, early <= 1, client \in Sending
    PROVE  InWindow
BY DEF BInv

\* The next chunk ends where the window does, or where the payload does.
LEMMA NextChunk ==
    ASSUME TInv, InWindow, off < Len(Payload), sent < AckWindow,
           off' = off + Len(Part), sent' = sent + 1, chunk' = chunk, burstStart' = burstStart
    PROVE  /\ off' = WindowEnd' \/ (off' = Len(Payload) /\ off' <= WindowEnd')
           /\ off < off' /\ off' \in Nat /\ Reach' = Reach
           /\ off' = DataPacket.off + Len(DataPacket.bytes) /\ DataPacket.off = off
<1>1. /\ off \in Nat /\ burstStart \in Nat /\ sent \in Nat /\ chunk \in Nat \ {0}
      /\ Len(Payload) \in Nat /\ TransferTypeOK
  BY WindowType, AtHand
<1>2. Len(Part) \in 1..chunk /\ off + Len(Part) = Min({off + chunk, Len(Payload)})
  BY <1>1, PartOk
<1>3. off + Len(Part) = IF off + chunk <= Len(Payload) THEN off + chunk ELSE Len(Payload)
  BY <1>1, <1>2, MinOfTwo
<1>4. off = WindowEnd
  BY <1>1 DEF InWindow
<1>5. WindowEnd' = WindowEnd + chunk
  <2>1. \A s, c \in Nat : (s + 1) * c = s * c + c /\ s * c \in Nat
    OBVIOUS
  <2>2. (sent + 1) * chunk = sent * chunk + chunk /\ sent * chunk \in Nat
    BY <1>1, <2>1
  <2> QED
    BY <1>1, <2>2 DEF WindowEnd
<1> HIDE DEF WindowEnd
<1>6. DataPacket.off = off /\ DataPacket.bytes = Part
  BY DEF DataPacket
<1> QED
  BY <1>1, <1>2, <1>3, <1>4, <1>5, <1>6 DEF Reach

\* A chunk is sent: it joins the window on the link, or it is lost.
LEMMA SendWindow ==
    ASSUME TInv, InWindow, off < Len(Payload), sent < AckWindow, client' = "burst",
           off' = off + Len(Part), sent' = sent + 1, chunk' = chunk, burstStart' = burstStart,
           Received' = Received,
           uplink' = uplink \/ uplink' = Append(uplink, DataPacket)
    PROVE  /\ InWindow' /\ BackPressure'
           /\ \A i \in InFlight' :
                 \/ i \in InFlight /\ uplink'[i] = uplink[i]
                 \/ uplink'[i] = DataPacket
<1>1. /\ off' = WindowEnd' \/ (off' = Len(Payload) /\ off' <= WindowEnd')
      /\ off < off' /\ off' \in Nat /\ Reach' = Reach
      /\ off' = DataPacket.off + Len(DataPacket.bytes) /\ DataPacket.off = off
  BY NextChunk
<1>2. /\ off \in Nat /\ burstStart \in Nat /\ sent \in Nat /\ Received \in Nat /\ Reach \in Nat
      /\ AckWindow \in Nat /\ uplink \in Seq(Link)
      /\ \A i \in InFlight : uplink[i].off \in Nat /\ Len(uplink[i].bytes) \in Nat
  BY WindowType, AnswersType
<1>3. DataPacket \in Link /\ DataPacket.op = "data"
  BY AtHand, PartOk DEF Link
<1>4. /\ \A i \in InFlight' :
            \/ i \in InFlight /\ uplink'[i] = uplink[i] /\ i \in 1..Len(uplink)
            \/ i = Len(uplink) + 1 /\ uplink'[i] = DataPacket
      /\ Cardinality(InFlight') <= Cardinality(InFlight) + 1
      /\ Cardinality(InFlight) \in Nat /\ Cardinality(InFlight') \in Nat
      /\ Len(uplink) \in Nat
  <2>1. CASE uplink' = uplink
    <3>1. /\ IsFiniteSet(1..Len(uplink)) /\ InFlight \in SUBSET (1..Len(uplink))
          /\ InFlight' = InFlight /\ Len(uplink) \in Nat
      <4>1. Len(uplink) \in Nat /\ DOMAIN uplink = 1..Len(uplink)
        BY <1>2
      <4>2. IsFiniteSet(1..Len(uplink))
        BY <4>1, FS_Interval
      <4> QED
        BY <2>1, <4>1, <4>2 DEF InFlight
    <3>2. Cardinality(InFlight) \in Nat
      BY <3>1, FS_Subset, FS_CardinalityType
    <3> QED
      BY <2>1, <3>1, <3>2
  <2>2. CASE uplink' = Append(uplink, DataPacket)
    <3>1. /\ uplink'[Len(uplink) + 1] = DataPacket /\ Len(uplink) \in Nat
          /\ \A i \in DOMAIN uplink : uplink'[i] = uplink[i]
          /\ DOMAIN uplink = 1..Len(uplink)
          /\ InFlight' = InFlight \cup {Len(uplink) + 1}
          /\ Cardinality(InFlight) \in Nat
          /\ Cardinality(InFlight') = Cardinality(InFlight) + 1
      BY <1>2, <1>3, <2>2, LinkAppend
    <3>2. \A i \in InFlight : i \in DOMAIN uplink
      BY DEF InFlight
    <3> QED
      BY <3>1, <3>2
  <2> QED
    BY <2>1, <2>2
<1>5. \A i \in InFlight' :
         /\ burstStart <= uplink'[i].off
         /\ uplink'[i].off + Len(uplink'[i].bytes) <= off'
         /\ Received <= uplink'[i].off \/ Received < Reach
  <2> SUFFICES ASSUME NEW i \in InFlight'
               PROVE  /\ burstStart <= uplink'[i].off
                      /\ uplink'[i].off + Len(uplink'[i].bytes) <= off'
                      /\ Received <= uplink'[i].off \/ Received < Reach
    OBVIOUS
  <2>1. CASE i \in InFlight /\ uplink'[i] = uplink[i]
    <3>1. /\ burstStart <= uplink[i].off
          /\ uplink[i].off + Len(uplink[i].bytes) <= off
          /\ Received <= uplink[i].off \/ Received < Reach
      BY <2>1 DEF InWindow
    <3>2. off < off' /\ off \in Nat /\ off' \in Nat
          /\ uplink[i].off \in Nat /\ Len(uplink[i].bytes) \in Nat
      BY <1>1, <1>2, <2>1
    <3>3. uplink[i].off + Len(uplink[i].bytes) <= off'
      BY <3>1, <3>2
    <3> QED
      BY <2>1, <3>1, <3>3
  <2>2. CASE uplink'[i] = DataPacket
    <3>1. burstStart <= off /\ (Received <= off \/ Received < Reach)
      BY DEF InWindow
    <3> QED
      BY <1>1, <2>2, <3>1
  <2> QED
    BY <1>4, <2>1, <2>2
<1>6. \A i, j \in InFlight' : i < j => uplink'[i].off + Len(uplink'[i].bytes) <= uplink'[j].off
  <2> SUFFICES ASSUME NEW i \in InFlight', NEW j \in InFlight', i < j
               PROVE  uplink'[i].off + Len(uplink'[i].bytes) <= uplink'[j].off
    OBVIOUS
  <2>1. i \in InFlight /\ uplink'[i] = uplink[i]
    <3>1. i # Len(uplink) + 1
      <4>1. j <= Len(uplink) + 1 /\ i \in Nat /\ j \in Nat
        BY <1>4
      <4> QED
        BY <1>4, <4>1
    <3> QED
      BY <1>4, <3>1
  <2>2. CASE j \in InFlight /\ uplink'[j] = uplink[j]
    BY <2>1, <2>2 DEF InWindow
  <2>3. CASE uplink'[j] = DataPacket
    BY <1>1, <2>1, <2>3 DEF InWindow
  <2> QED
    BY <1>4, <2>2, <2>3
<1>7. Cardinality(InFlight') <= sent' /\ Cardinality(InFlight') <= AckWindow
  BY <1>2, <1>4 DEF InWindow
<1>8. burstStart <= off' /\ (Received <= off' \/ Received < Reach)
  BY <1>1, <1>2 DEF InWindow
<1>9. InWindow'
  BY <1>1, <1>5, <1>6, <1>7, <1>8 DEF InWindow
<1>10. AckWindow' = AckWindow
  OBVIOUS
<1> QED
  BY <1>4, <1>7, <1>9 DEF BackPressure

LEMMA BSendChunkOk ==
    ASSUME TInv, BInv, SendChunk
    PROVE  BInv'
<1>1. /\ client = "burst" /\ client' = "burst" /\ sent < AckWindow /\ off < Len(Payload)
      /\ ~(TooBig /\ mtu = "throws")
      /\ uplink' = uplink \/ uplink' = Append(uplink, DataPacket)
      /\ off' = off + Len(Part) /\ sent' = sent + 1 /\ chunk' = chunk /\ burstStart' = burstStart
      /\ rx' = rx /\ downlink' = downlink /\ early' = early /\ notifyOk' = notifyOk
      /\ mtu' = mtu
  BY DEF SendChunk, Send, Lose, vars, chosen
<1>2. /\ uplink \in Seq(Link) /\ DataPacket \in Link /\ DataPacket.op = "data"
      /\ Received' = Received /\ Answers' = Answers
  BY <1>1, AnswersType, AtHand, PartOk DEF Link, Received, Answers
<1>3. Ops(uplink') \subseteq Ops(uplink) \cup {"data"} /\ OnlyData'
  <2>1. OnlyData
    BY <1>1 DEF BInv, LinkOk
  <2>2. CASE uplink' = uplink
    BY <2>1, <2>2 DEF OnlyData
  <2>3. CASE uplink' = Append(uplink, DataPacket)
    <3>1. ToSet(uplink') = ToSet(uplink) \cup {DataPacket}
      BY <1>2, <2>3, ToSetOk
    <3>2. Ops(uplink') \subseteq Ops(uplink) \cup {"data"}
      BY <1>2, <3>1 DEF Ops
    <3>3. /\ DOMAIN uplink' = 1..(Len(uplink) + 1) /\ Len(uplink) \in Nat
          /\ uplink'[Len(uplink) + 1] = DataPacket
          /\ \A i \in DOMAIN uplink : uplink'[i] = uplink[i]
          /\ DOMAIN uplink = 1..Len(uplink)
      BY <1>2, <2>3, LinkAppend
    <3>4. \A i \in DOMAIN uplink' : i \in DOMAIN uplink \/ i = Len(uplink) + 1
      BY <3>3
    <3>5. OnlyData'
      BY <1>2, <2>1, <3>3, <3>4 DEF OnlyData
    <3> QED
      BY <3>2, <3>5
  <2> QED
    BY <1>1, <2>2, <2>3
<1>4. SubscribedOk'
  BY <1>1, <1>3 DEF BInv, SubscribedOk
<1>5. LinkOk' /\ FreshStart' /\ ThrowsOk'
  BY <1>1, <1>3 DEF LinkOk, FreshStart, ThrowsOk, TooBig, Starting
<1>6. ASSUME early <= 1
      PROVE  /\ InWindow /\ InWindow' /\ BackPressure'
             /\ \A i \in InFlight' :
                   \/ i \in InFlight /\ uplink'[i] = uplink[i]
                   \/ uplink'[i] = DataPacket
  <2>1. InWindow
    BY <1>1, <1>6, InWindowNow DEF Sending
  <2> QED
    BY <1>1, <1>2, <2>1, SendWindow
<1>7. ASSUME early = 0 PROVE Punctual'
  <2>1. InWindow /\ \A i \in InFlight' :
                   \/ i \in InFlight /\ uplink'[i] = uplink[i]
                   \/ uplink'[i] = DataPacket
    BY <1>6, <1>7
  <2>2. off < off' /\ off' \in Nat /\ DataPacket.off = off
    BY <1>1, <2>1, NextChunk
  <2>3. /\ off \in Nat /\ burstStart \in Nat /\ Received \in Nat
        /\ \A i \in InFlight : uplink[i].off \in Nat
        /\ \A st \in ToSet(Answers) : st.received \in Nat
    BY WindowType, AnswersType
  <2>4. Clean
    BY <1>1, <1>7 DEF BInv, Punctual
  <2>5. Answers # <<>> /\ Stuck => Stuck'
    <3>1. Answers # <<>> => DataPacket.off # burstStart
      BY <1>1, <2>2, <2>3, <2>4 DEF Clean
    <3> QED
      BY <1>1, <1>2, <2>1, <3>1 DEF Stuck
  <2>6. AnswersOk'
    <3>1. burstStart <= Received /\ Received <= off'
      BY <2>2, <2>3, <2>4 DEF Clean, AnswersOk
    <3>2. ASSUME NEW st \in ToSet(Answers)
          PROVE  burstStart <= st.received /\ (st.received = burstStart => Stuck')
      <4>1. Answers # <<>>
        BY <3>2, ToSetEmpty
      <4> QED
        BY <2>4, <2>5, <3>2, <4>1 DEF Clean, AnswersOk
    <3> QED
      BY <1>1, <1>2, <3>1, <3>2 DEF AnswersOk
  <2>7. burstStart < off' /\ \A i \in InFlight' : Received <= uplink'[i].off
    <3>1. burstStart <= off /\ Received <= off
      BY <2>1, <2>4 DEF InWindow, Clean, AnswersOk
    <3>2. burstStart < off'
      BY <2>2, <2>3, <3>1
    <3> QED
      BY <2>1, <2>2, <2>4, <3>1, <3>2 DEF Clean
  <2>8. \A k \in 1..(Len(Answers) - 1) : Answers[k].received < off'
    <3> SUFFICES ASSUME NEW k \in 1..(Len(Answers) - 1) PROVE Answers[k].received < off'
      OBVIOUS
    <3>1. Answers[k] \in ToSet(Answers)
      <4>1. Answers \in Seq(StatusMsg)
        BY AnswersType
      <4>2. k \in DOMAIN Answers
        BY <4>1
      <4> QED
        BY <4>2 DEF ToSet
    <3>2. Answers[k].received \in Nat /\ Answers[k].received < off
      BY <2>3, <2>4, <3>1 DEF Clean
    <3> QED
      BY <2>2, <2>3, <3>2
  <2> QED
    BY <1>1, <1>2, <2>6, <2>7, <2>8 DEF Punctual, Clean
<1> QED
  BY <1>1, <1>4, <1>5, <1>6, <1>7 DEF BInv

\* The burst ends: a chunk was too big for the link, or the window is sent.
LEMMA BBurstEndOk ==
    ASSUME TInv, BInv, ChunkThrows \/ BurstSent
    PROVE  BInv'
<1>1. /\ client = "burst" /\ client' = "ackWait"
      /\ off' = off /\ burstStart' = burstStart /\ sent' = sent
      /\ uplink' = uplink /\ rx' = rx /\ downlink' = downlink /\ early' = early
      /\ notifyOk' = notifyOk /\ mtu' = mtu
  BY DEF ChunkThrows, BurstSent, vars, chosen, progress, linkVars
<1>2. /\ chunk' = chunk /\ (sent = AckWindow \/ off = Len(Payload))
      \/ /\ chunk' = Small /\ sent = 0 /\ Received = 0 /\ "data" \notin Ops(uplink)
         /\ off < Len(Payload)
  BY <1>1 DEF ChunkThrows, BurstSent, progress, TooBig, BInv, ThrowsOk, Sending
<1>3. /\ Received' = Received /\ Answers' = Answers /\ InFlight' = InFlight
      /\ Ops(uplink') = Ops(uplink) /\ uplink \in Seq(Link)
  BY <1>1, AnswersType DEF Received, Answers, InFlight
<1>4. SubscribedOk' /\ LinkOk' /\ FreshStart'
  BY <1>1, <1>3 DEF BInv, SubscribedOk, LinkOk, OnlyData, FreshStart, Starting
<1>5. Small \in Nat /\ chunk \in Nat /\ burstStart \in Nat /\ off \in Nat /\ Len(Payload) \in Nat
  BY WindowType
<1>6. ThrowsOk'
  BY <1>1, <1>2, <1>3, <1>5 DEF BInv, ThrowsOk, Sending
<1>7. ASSUME early <= 1 PROVE InWindow'
  <2>1. InWindow
    BY <1>1, <1>7, InWindowNow DEF Sending
  <2>2. CASE chunk' = chunk /\ (sent = AckWindow \/ off = Len(Payload))
    <3>1. WindowEnd' = WindowEnd /\ Reach' = Reach
      BY <1>1, <2>2 DEF WindowEnd, Reach
    <3> QED
      BY <1>1, <1>3, <2>1, <2>2, <3>1 DEF InWindow
  <2>3. CASE chunk' = Small /\ sent = 0 /\ Received = 0 /\ "data" \notin Ops(uplink)
             /\ off < Len(Payload)
    <3>1. \A c \in Nat : 0 * c = 0
      OBVIOUS
    <3>2. WindowEnd = burstStart /\ WindowEnd' = burstStart
      BY <1>1, <1>5, <2>3, <3>1 DEF WindowEnd
    <3>3. InFlight = {} /\ Cardinality(InFlight) = 0
      BY <1>3, <2>3, LinkOps
    <3> QED
      BY <1>1, <1>3, <1>5, <2>1, <2>3, <3>2, <3>3 DEF InWindow
  <2> QED
    BY <1>2, <2>2, <2>3
<1>8. early <= 1 => BackPressure'
  BY <1>1, <1>3 DEF BInv, BackPressure
<1>9. early = 0 => Punctual'
  <2>1. Clean => Clean'
    BY <1>1, <1>3 DEF Clean, AnswersOk, Stuck
  <2> QED
    BY <1>1, <2>1 DEF BInv, Punctual
<1> QED
  BY <1>1, <1>4, <1>6, <1>7, <1>8, <1>9 DEF BInv

\* An answer to the window: it covers it, and is then the last one, or the
\* client goes on waiting.
LEMMA BAckWaitOk ==
    ASSUME TInv, BInv, AckWait
    PROVE  BInv'
<1> DEFINE st == Head(downlink)
<1>1. /\ client = "ackWait" /\ notifyOk /\ downlink # <<>> /\ downlink' = Tail(downlink)
      /\ uplink' = uplink /\ rx' = rx /\ early' = early /\ chunk' = chunk
      /\ notifyOk' = notifyOk /\ mtu' = mtu
      /\ \/ st.received >= off /\ NextWindow(off)
         \/ /\ client' = client /\ off' = off /\ burstStart' = burstStart /\ sent' = sent
            /\ ~(st.received >= off)
  BY DEF AckWait, Covers, vars, chosen
<1>2. /\ SubscribedOk' /\ (early' <= 1 => BackPressure') /\ Received' = Received
      /\ InFlight' = InFlight
  BY <1>1, ClientSame DEF NextWindow
<1>3. /\ st \in ToSet(Answers) /\ Answers[1] = st
      /\ Len(Answers) \in Nat \ {0} /\ Len(Answers') = Len(Answers) - 1
      /\ \A k \in 1..Len(Answers') : k + 1 \in 1..Len(Answers) /\ Answers'[k] = Answers[k + 1]
      /\ ToSet(Answers') \subseteq ToSet(Answers)
      /\ Len(Answers) = 1 => Answers' = <<>>
  BY <1>1, TakeAnswer
<1> HIDE DEF st
<1>4. st.received \in Nat /\ st.received <= Received
  BY <1>1, <1>3, AnswersType DEF Sending
<1>5. /\ off \in Nat /\ burstStart \in Nat /\ sent \in Nat /\ chunk \in Nat \ {0}
      /\ AckWindow \in Nat /\ Received \in Nat /\ Reach \in Nat /\ Len(Payload) \in Nat
      /\ \A i \in InFlight : uplink[i].off \in Nat /\ Len(uplink[i].bytes) \in Nat \ {0}
  BY WindowType
<1>6. OnlyData /\ ThrowsOk
  BY <1>1 DEF BInv, LinkOk
<1>7. CASE st.received >= off /\ NextWindow(off)
  <2>1. /\ off' = off /\ burstStart' = off /\ sent' = 0
        /\ client' = IF off < Len(Payload) THEN "burst" ELSE "commit"
    BY <1>7 DEF NextWindow
  <2>2. CASE off < Len(Payload)
    <3>1. ASSUME early <= 1 PROVE InFlight = {} /\ Received = off
      <4>1. InWindow
        BY <1>1, <3>1, InWindowNow DEF Sending
      <4>2. Received >= off
        BY <1>4, <1>5, <1>7
      <4>3. CASE sent = AckWindow
        <5>1. Reach = off
          BY <1>5, <2>2, <4>1, <4>3 DEF InWindow, WindowEnd, Reach
        <5>2. \A i \in InFlight : FALSE
          BY <1>5, <4>1, <4>2, <5>1 DEF InWindow
        <5> QED
          BY <1>5, <4>1, <4>2, <5>1, <5>2 DEF InWindow
      <4>4. CASE InFlight = {} /\ Received <= off
        BY <1>5, <4>2, <4>4
      <4> QED
        BY <1>1, <1>5, <2>2, <4>1, <4>3, <4>4 DEF InWindow
    <3>2. ASSUME early <= 1 PROVE InWindow'
      <4>1. \A c \in Nat : 0 * c = 0
        OBVIOUS
      <4>2. WindowEnd' = off
        BY <1>1, <1>5, <2>1, <4>1 DEF WindowEnd
      <4>3. InFlight = {} /\ Cardinality(InFlight) = 0 /\ Received = off
        BY <3>1, <3>2, FS_EmptySet
      <4> QED
        BY <1>2, <1>5, <2>1, <2>2, <4>2, <4>3 DEF InWindow
    <3>3. ASSUME early = 0 PROVE Punctual'
      <4>1. InFlight = {} /\ Received = off
        BY <3>1, <3>3
      <4>2. Clean
        BY <1>1, <3>3 DEF BInv, Punctual
      <4>3. Len(Answers) = 1
        <5>1. 1 \in 1..(Len(Answers) - 1) => Answers[1].received < off
          BY <4>2 DEF Clean
        <5> QED
          BY <1>3, <1>4, <1>5, <1>7, <5>1
      <4>4. Answers' = <<>>
        BY <1>3, <4>3
      <4>5. Clean'
        BY <1>2, <1>5, <2>1, <4>1, <4>4, ToSetEmpty DEF Clean, AnswersOk
      <4> QED
        BY <2>1, <2>2, <4>5 DEF Punctual
    <3>4. LinkOk' /\ FreshStart' /\ ThrowsOk'
      BY <1>1, <1>2, <1>6, <2>1, <2>2
      DEF LinkOk, OnlyData, FreshStart, ThrowsOk, Starting, Sending
    <3> QED
      BY <1>1, <1>2, <2>1, <2>2, <3>2, <3>3, <3>4 DEF BInv
  <2>3. CASE ~(off < Len(Payload))
    BY <1>2, <2>1, <2>3, RestOk DEF Committing
  <2> QED
    BY <2>2, <2>3
<1>8. CASE /\ client' = client /\ off' = off /\ burstStart' = burstStart /\ sent' = sent
           /\ ~(st.received >= off)
  <2>1. LinkOk' /\ FreshStart' /\ ThrowsOk'
    BY <1>1, <1>2, <1>6, <1>8
    DEF LinkOk, OnlyData, FreshStart, ThrowsOk, Starting, Sending
  <2>2. InWindow => InWindow'
    <3>1. WindowEnd' = WindowEnd /\ Reach' = Reach
      BY <1>1, <1>8 DEF WindowEnd, Reach
    <3> QED
      BY <1>1, <1>2, <1>8, <3>1 DEF InWindow
  <2>3. ASSUME Clean PROVE Clean'
    <3>1. AnswersOk'
      BY <1>1, <1>2, <1>3, <1>8, <2>3 DEF Clean, AnswersOk, Stuck
    <3>2. \A k \in 1..(Len(Answers') - 1) : Answers'[k].received < off
      <4> SUFFICES ASSUME NEW k \in 1..(Len(Answers') - 1) PROVE Answers'[k].received < off
        OBVIOUS
      <4>1. Answers'[k] = Answers[k + 1] /\ k + 1 \in 1..(Len(Answers) - 1)
        BY <1>3
      <4> QED
        BY <2>3, <4>1 DEF Clean
    <3> QED
      BY <1>1, <1>2, <1>8, <2>3, <3>1, <3>2 DEF Clean
  <2> QED
    BY <1>1, <1>2, <1>8, <2>1, <2>2, <2>3 DEF BInv, Punctual, Sending
<1> QED
  BY <1>1, <1>7, <1>8

\* An operation that joins the chunks on the link.
LEMMA AppendThen ==
    ASSUME TInv, OnlyData, NEW op \in {"sync", "readStatus"}, uplink' = Append(uplink, [op |-> op])
    PROVE  /\ [op |-> op] \in Link /\ uplink' # <<>>
           /\ \A i \in DOMAIN uplink' :
                 IF i = Len(uplink') THEN uplink'[i].op = op ELSE uplink'[i].op = "data"
<1>1. [op |-> op] \in Link /\ [op |-> op].op = op /\ uplink \in Seq(Link)
  BY ControlOk, AnswersType DEF Link
<1>2. /\ DOMAIN uplink' = 1..(Len(uplink) + 1) /\ Len(uplink') = Len(uplink) + 1
      /\ uplink'[Len(uplink) + 1] = [op |-> op] /\ Len(uplink) \in Nat
      /\ \A i \in DOMAIN uplink : uplink'[i] = uplink[i]
      /\ DOMAIN uplink = 1..Len(uplink)
  BY <1>1, LinkAppend
<1>3. \A i \in DOMAIN uplink' : i \in DOMAIN uplink \/ i = Len(uplink')
  BY <1>2
<1>4. uplink' # <<>>
  BY <1>1
<1> QED
  BY <1>1, <1>2, <1>3, <1>4 DEF OnlyData

\* No answer to the window in time.
LEMMA BAckTimeOutOk ==
    ASSUME TInv, BInv, AckTimeOut
    PROVE  BInv'
<1>1. /\ client = "ackWait" /\ TimeOut
      /\ \/ /\ notifyOk /\ uplink' = Append(uplink, [op |-> "sync"]) /\ client' = "syncAck"
         \/ /\ ~notifyOk /\ uplink' = Append(uplink, [op |-> "readStatus"])
            /\ client' = "syncRead" /\ reply' = {}
      /\ rx' = rx /\ downlink' = downlink /\ progress' = progress
      /\ notifyOk' = notifyOk /\ mtu' = mtu
  BY DEF AckTimeOut, SendRead, Send, vars, chosen
<1>2. /\ OnlyData /\ (early <= 1 => InWindow) /\ (early = 0 => Clean) /\ ThrowsOk
  BY <1>1 DEF BInv, LinkOk, Sending, Punctual
<1>3. /\ client' = "syncAck" => DataThen("sync")' /\ [op |-> "sync"] \in Link
      /\ client' = "syncRead" =>
            DataThen("readStatus")' /\ uplink' # <<>> /\ [op |-> "readStatus"] \in Link
  BY <1>1, <1>2, AppendThen DEF DataThen
<1>4. LinkOk' /\ client' \in {"syncAck", "syncRead"}
  BY <1>1, <1>3 DEF LinkOk
<1>5. /\ early' \in {early, early + 1} /\ (early' = 0 => early = 0)
      /\ early' = early \/ (early' = early + 1 /\ (early' <= 1 => early = 0))
      /\ early' = early => Answers = <<>> /\ (notifyOk => uplink = <<>>)
  BY <1>1, TimeOutPunctual
<1>6. /\ SubscribedOk' /\ (early' <= 1 => early <= 1 /\ BackPressure')
      /\ Received' = Received /\ InFlight' = InFlight
      /\ \A i \in InFlight : uplink'[i] = uplink[i]
      /\ "data" \in Ops(uplink') => "data" \in Ops(uplink)
      /\ Answers' = Answers
  BY <1>1, <1>3, <1>5, ClientSame
<1>7. FreshStart' /\ ThrowsOk'
  BY <1>1, <1>2, <1>4, <1>6 DEF FreshStart, ThrowsOk, Starting, Sending, progress
<1>8. /\ off' = off /\ burstStart' = burstStart /\ sent' = sent /\ chunk' = chunk
      /\ WindowEnd' = WindowEnd /\ Reach' = Reach
  BY <1>1 DEF progress, WindowEnd, Reach
<1>9. InWindow => InWindow'
  BY <1>4, <1>6, <1>8 DEF InWindow
<1>10. AnswersOk => AnswersOk'
  BY <1>6, <1>8 DEF AnswersOk, Stuck
<1>11. uplink = <<>> => InFlight = {}
  BY LinkEmpty
<1>12. early' <= 1 /\ client' = "syncAck" => SyncOk'
  BY <1>1, <1>2, <1>5, <1>6, <1>10, <1>11, ToSetEmpty DEF SyncOk, Clean
<1>13. ASSUME early' = 0 PROVE Punctual'
  <2>1. early = 0 /\ early' = early /\ Answers = <<>> /\ (notifyOk => uplink = <<>>) /\ Clean
    BY <1>2, <1>5, <1>13
  <2>2. Received <= off /\ Len(<<>>) = 0
    BY <2>1 DEF Clean, AnswersOk
  <2>3. client' = "syncAck" => InFlight = {}
    BY <1>1, <1>11, <2>1
  <2> QED
    BY <1>1, <1>4, <1>6, <1>8, <2>1, <2>2, <2>3, ToSetEmpty DEF Punctual
<1> QED
  BY <1>4, <1>6, <1>2, <1>7, <1>9, <1>12, <1>13 DEF BInv

\* The client goes on from what the device has, or from an answer of the
\* window: either way the next window is ahead of the device, or the device is
\* ahead of its start by less than a window of the next chunks.
LEMMA BResumeOk ==
    ASSUME TInv, BInv, client \in {"syncAck", "syncRead"}, uplink = <<>>, uplink' = uplink,
           rx' = rx, early' = early, notifyOk' = notifyOk, mtu' = mtu, SubscribedOk',
           NEW st \in StatusMsg, Resume(st), st.received <= Received,
           early <= 1 => \/ st.received = Received
                         \/ /\ burstStart <= st.received /\ Received <= off
                            /\ st.received = burstStart => Received = burstStart,
           early = 0 => st.received = Received /\ Answers' = <<>>
    PROVE  BInv'
<1> DEFINE o == Min({st.received, off})
<1>1. /\ off \in Nat /\ burstStart \in Nat /\ chunk \in Nat \ {0} /\ sent \in Nat
      /\ Small \in Nat /\ AckWindow \in Nat \ {0} /\ sent <= AckWindow
      /\ Received \in Nat /\ Reach \in Nat /\ WindowEnd \in Nat /\ WindowEnd <= Reach
      /\ st.received \in Nat /\ TransferTypeOK
  BY WindowType, AtHand DEF StatusMsg
<1>2. /\ InFlight' = {} /\ Cardinality(InFlight') = 0 /\ Received' = Received
      /\ Ops(uplink') = {} /\ DOMAIN uplink' = {}
  BY LinkEmpty DEF InFlight, Received
<1>3. BackPressure'
  BY <1>1, <1>2 DEF BackPressure
<1>4. CASE st.state # "receiving"
  BY <1>3, <1>4, RestOk DEF Resume, Fail
<1>5. CASE st.state = "receiving"
  <2>1. /\ chunk' = IF st.received < off /\ st.received = burstStart THEN Small ELSE chunk
        /\ off' = o /\ burstStart' = o /\ sent' = 0
        /\ client' = IF o < Len(Payload) THEN "burst" ELSE "commit"
    BY <1>5 DEF Resume, NextWindow
  <2>2. o = IF st.received <= off THEN st.received ELSE off
    BY <1>1, MinOfTwo
  <2> HIDE DEF o
  <2>3. o \in Nat /\ chunk' \in Nat \ {0}
    BY <1>1, <2>1, <2>2, WindowType, TransferAssumption
  <2>4. ASSUME early <= 1 PROVE InWindow' \/ client' # "burst"
    <3>1. /\ burstStart <= off /\ off <= WindowEnd
          /\ Received <= off \/ Received < Reach
      BY <1>1, <2>4, InWindowNow DEF InWindow, Sending
    <3>2. WindowEnd' = o
      <4>1. \A c \in Nat : 0 * c = 0
        OBVIOUS
      <4> QED
        BY <2>1, <2>3, <4>1 DEF WindowEnd
    <3>3. /\ Reach' = o + AckWindow * chunk' /\ Reach = burstStart + AckWindow * chunk
          /\ AckWindow * chunk \in Nat
      <4>1. \A a, c \in Nat : a * c \in Nat
        OBVIOUS
      <4> QED
        BY <1>1, <2>1, <4>1 DEF Reach
    <3>4. Received <= o \/ Received < Reach'
      <4>1. CASE st.received = Received /\ Received <= off
        BY <1>1, <2>2, <4>1
      <4>2. CASE st.received = Received /\ ~(Received <= off)
        <5>1. o = off /\ chunk' = chunk /\ Received < Reach
          BY <1>1, <2>1, <2>2, <3>1, <4>2
        <5> HIDE DEF Reach
        <5>2. AckWindow * chunk' = AckWindow * chunk
          BY <5>1
        <5> QED
          BY <1>1, <3>1, <3>3, <5>1, <5>2
      <4>3. CASE /\ burstStart <= st.received /\ Received <= off
                 /\ st.received = burstStart => Received = burstStart
        <5>1. o = st.received
          BY <1>1, <2>2, <4>3
        <5>2. CASE st.received = burstStart
          BY <1>1, <4>3, <5>1, <5>2
        <5>3. CASE st.received # burstStart
          <6>1. chunk' = chunk /\ burstStart < o /\ Received <= Reach
            BY <1>1, <2>1, <3>1, <4>3, <5>1, <5>3
          <6>2. AckWindow * chunk' = AckWindow * chunk
            BY <6>1
          <6> HIDE DEF Reach
          <6> QED
            BY <1>1, <2>3, <3>3, <6>1, <6>2
        <5> QED
          BY <5>2, <5>3
      <4> QED
        BY <2>4, <4>1, <4>2, <4>3
    <3>5. client' = "burst" => InWindow'
      BY <1>2, <2>1, <2>3, <3>2, <3>4 DEF InWindow
    <3> QED
      BY <3>5
  <2>5. ASSUME early = 0, client' = "burst" PROVE Punctual'
    <3>1. st.received = Received /\ Received <= off /\ Answers' = <<>>
      BY <2>5 DEF BInv, Punctual
    <3>2. off' = Received /\ burstStart' = Received
      BY <2>1, <2>2, <3>1
    <3>3. Clean'
      BY <1>1, <1>2, <3>1, <3>2, ToSetEmpty DEF Clean, AnswersOk
    <3> QED
      BY <2>5, <3>3 DEF Punctual
  <2>6. ThrowsOk'
    <3>1. chunk' > Small => chunk' = chunk
      BY <1>1, <2>1
    <3> QED
      BY <1>2, <2>1, <3>1 DEF BInv, ThrowsOk, Sending
  <2>7. CASE client' = "burst"
    <3>1. LinkOk' /\ FreshStart'
      BY <1>2, <2>7 DEF LinkOk, OnlyData, FreshStart, Starting
    <3> QED
      BY <1>3, <2>4, <2>5, <2>6, <2>7, <3>1 DEF BInv
  <2>8. CASE client' = "commit"
    BY <1>3, <2>8, RestOk DEF Committing
  <2> QED
    BY <2>1, <2>7, <2>8
<1> QED
  BY <1>4, <1>5

LEMMA BSyncOk ==
    ASSUME TInv, BInv, SyncAck \/ SyncTimeOut \/ SyncRead
    PROVE  BInv'
<1>1. CASE SyncAck
  <2> DEFINE st == Head(downlink)
  <2>1. /\ client = "syncAck" /\ uplink = <<>> /\ uplink' = uplink
        /\ downlink # <<>> /\ downlink' = Tail(downlink) /\ Resume(st)
        /\ rx' = rx /\ early' = early /\ notifyOk' = notifyOk /\ mtu' = mtu
    BY <1>1 DEF SyncAck, Answered, vars, chosen
  <2>2. /\ st \in ToSet(Answers) /\ Len(Answers) \in Nat \ {0}
        /\ Len(Answers) = 1 => Answers' = <<>>
    BY <2>1, TakeAnswer
  <2> HIDE DEF st
  <2>3. st \in StatusMsg /\ st.received <= Received
    BY <2>1, <2>2, AnswersType DEF Sending
  <2>4. client' # "start"
    BY <2>1 DEF Resume, Fail, NextWindow
  <2>5. notifyOk
    BY <2>1 DEF BInv, SubscribedOk
  <2>6. SubscribedOk'
    BY <2>1, <2>4, <2>5, ClientSame
  <2>7. early <= 1 => \/ st.received = Received
                      \/ /\ burstStart <= st.received /\ Received <= off
                         /\ st.received = burstStart => Received = burstStart
    BY <2>1, <2>2 DEF BInv, SyncOk, AnswersOk, Stuck
  <2>8. early = 0 => st.received = Received /\ Answers' = <<>>
    <3>1. early = 0 => st.received = Received /\ Len(Answers) <= 1
      BY <2>1, <2>2 DEF BInv, Punctual
    <3>2. ASSUME NEW n \in Nat \ {0}, n <= 1 PROVE n = 1
      BY <3>2
    <3>3. early = 0 => Len(Answers) = 1
      BY <2>2, <3>1, <3>2
    <3> QED
      BY <2>2, <3>1, <3>3
  <2> QED
    BY <2>1, <2>3, <2>6, <2>7, <2>8, BResumeOk
<1>2. CASE SyncTimeOut
  <2>1. /\ client = "syncAck" /\ client' = "syncRead" /\ uplink = <<>> /\ TimeOut
        /\ uplink' = Append(uplink, [op |-> "readStatus"]) /\ reply' = {}
        /\ rx' = rx /\ downlink' = downlink /\ progress' = progress
        /\ notifyOk' = notifyOk /\ mtu' = mtu
    BY <1>2 DEF SyncTimeOut, Answered, SendRead, Send, vars, chosen
  <2>2. [op |-> "readStatus"] \in Link /\ [op |-> "readStatus"].op = "readStatus"
    BY ControlOk DEF Link
  <2>3. /\ early' \in {early, early + 1}
        /\ early' = 0 => early = 0 /\ Answers = <<>>
    BY <2>1, TimeOutPunctual
  <2>4. /\ SubscribedOk' /\ (early' <= 1 => early <= 1 /\ BackPressure')
        /\ Received' = Received /\ InFlight' = InFlight /\ InFlight = {}
        /\ "data" \in Ops(uplink') => "data" \in Ops(uplink)
        /\ Answers' = Answers
    BY <2>1, <2>2, <2>3, ClientSame, LinkEmpty
  <2>5. FreshStart' /\ ThrowsOk'
    BY <2>1, <2>4 DEF BInv, FreshStart, ThrowsOk, Starting, Sending, progress
  <2>6. LinkOk'
    <3>1. uplink' = <<[op |-> "readStatus"]>>
      BY <2>1
    <3> QED
      BY <2>1, <2>2, <3>1 DEF LinkOk, DataThen
  <2>7. /\ off' = off /\ burstStart' = burstStart /\ sent' = sent /\ chunk' = chunk
        /\ WindowEnd' = WindowEnd /\ Reach' = Reach
    BY <2>1 DEF progress, WindowEnd, Reach
  <2>8. early <= 1 => InWindow'
    <3>1. early <= 1 => InWindow
      BY <2>1, InWindowNow DEF Sending
    <3> QED
      BY <2>1, <2>4, <2>7, <3>1 DEF InWindow
  <2>9. early' = 0 => Punctual'
    BY <2>1, <2>3, <2>4, <2>7 DEF BInv, Punctual
  <2> QED
    BY <2>1, <2>4, <2>5, <2>6, <2>8, <2>9 DEF BInv
<1>3. CASE SyncRead
  <2>1. PICK st \in reply : Resume(st)
    BY <1>3 DEF SyncRead
  <2>2. /\ client = "syncRead" /\ uplink' = uplink
        /\ downlink' = downlink /\ rx' = rx /\ early' = early
        /\ notifyOk' = notifyOk /\ mtu' = mtu
    BY <1>3 DEF SyncRead, vars, chosen, linkVars
  <2>3. uplink = <<>> /\ st.received = Received
    BY <2>1, <2>2 DEF BInv, LinkOk
  <2>4. st \in StatusMsg /\ st.received <= Received
    BY <2>1, <2>2, AnswersType DEF Sending
  <2>5. client' # "start"
    BY <2>1 DEF Resume, Fail, NextWindow
  <2>6. SubscribedOk' /\ Answers' = Answers
    BY <2>2, <2>5, ClientSame
  <2>7. early = 0 => Answers' = <<>>
    BY <2>2, <2>6 DEF BInv, Punctual
  <2> QED
    BY <2>1, <2>2, <2>3, <2>4, <2>6, <2>7, BResumeOk
<1> QED
  BY <1>1, <1>2, <1>3

\* COMMIT, the verdict and the end.
LEMMA BRestOk ==
    ASSUME TInv, BInv,
           SendCommit \/ CommitWait \/ CommitTimeOut \/ CommitRead \/ Close \/ Cut
    PROVE  BInv'
<1>1. /\ rx' = rx /\ notifyOk' = notifyOk
      /\ client' \in Committing \cup {"done", "closed"}
      /\ downlink' = downlink \/ (notifyOk /\ downlink' = Tail(downlink))
  BY DEF SendCommit, CommitWait, CommitTimeOut, CommitRead, Close, Cut, Conclude, SendRead,
         vars, chosen, linkVars, Committing
<1>2. early' \in {early, early + 1}
  BY DEF SendCommit, CommitWait, CommitTimeOut, CommitRead, Close, Cut, TimeOut
<1>3. \/ uplink' = uplink
      \/ \E op \in {"commit", "readStatus", "disconnect"} : uplink' = Append(uplink, [op |-> op])
  BY DEF SendCommit, CommitWait, CommitTimeOut, CommitRead, Close, Cut, SendRead, Send, Lose,
         linkVars
<1>4. \A op \in {"commit", "readStatus", "disconnect"} :
         [op |-> op] \in Link /\ [op |-> op].op \notin {"data", "subscribe"}
  BY ControlOk DEF Link
<1>5. client' # "start"
  BY <1>1 DEF Committing
<1>6. uplink' = uplink \/
         \E m \in Link : m.op \notin {"data", "subscribe"} /\ uplink' = Append(uplink, m)
  BY <1>3, <1>4
<1>7. SubscribedOk' /\ (early' <= 1 => BackPressure')
  BY <1>1, <1>2, <1>5, <1>6, ClientSame
<1> QED
  BY <1>1, <1>7, RestOk

LEMMA BInitOk == TInit => BInv
<1> SUFFICES ASSUME TInit PROVE BInv
  OBVIOUS
<1>1. /\ client = "start" /\ off = 0 /\ burstStart = 0 /\ sent = 0 /\ rx = DefaultRx
      /\ uplink = (IF notifyOk THEN <<[op |-> "subscribe"]>> ELSE <<>>)
      /\ downlink = <<>>
  BY DEF TInit, Init
<1>2. /\ rx.notify_on = FALSE /\ rx.pending_ntf = FALSE /\ Received = 0
  BY <1>1 DEF DefaultRx, Received
<1>3. InFlight = {} /\ Cardinality(InFlight) = 0
  BY <1>1, FS_EmptySet DEF InFlight
<1>4. Ops(uplink) \subseteq {"subscribe"} /\ (~notifyOk => Ops(uplink) = {})
  <2>1. CASE notifyOk
    <3>1. ToSet(uplink) = {[op |-> "subscribe"]}
      BY <1>1, <2>1 DEF ToSet
    <3> QED
      BY <2>1, <3>1 DEF Ops
  <2>2. CASE ~notifyOk
    BY <1>1, <2>2, ToSetEmpty DEF Ops
  <2> QED
    BY <2>1, <2>2
<1>5. SubscribedOk /\ FreshStart /\ LinkOk /\ ThrowsOk
  BY <1>1, <1>2, <1>4 DEF SubscribedOk, FreshStart, LinkOk, ThrowsOk
<1>6. BackPressure
  BY <1>3, AckAssumption, TransferAssumption DEF BackPressure
<1> QED
  BY <1>1, <1>5, <1>6 DEF BInv, Punctual, Sending

LEMMA BNextOk == TInv /\ BInv /\ [TNext]_tvars => BInv'
<1> SUFFICES ASSUME TInv, BInv, [TNext]_tvars PROVE BInv'
  OBVIOUS
<1>1. CASE UNCHANGED tvars
  <2>1. /\ UNCHANGED clientVars /\ uplink' = uplink /\ reply' = reply /\ downlink' = downlink
        /\ rx' = rx
    BY <1>1 DEF tvars, clientVars, linkVars, vars
  <2> QED
    BY <2>1, DeviceSame DEF Received, Answers
<1>2. CASE SendStart \/ StartAck \/ StartTimeOut \/ StartRead
  BY <1>2, BStartOk
<1>3. CASE SendChunk
  BY <1>3, BSendChunkOk
<1>4. CASE ChunkThrows \/ BurstSent
  BY <1>4, BBurstEndOk
<1>5. CASE AckWait
  BY <1>5, BAckWaitOk
<1>6. CASE AckTimeOut
  BY <1>6, BAckTimeOutOk
<1>7. CASE SyncAck \/ SyncTimeOut \/ SyncRead
  BY <1>7, BSyncOk
<1>8. CASE SendCommit \/ CommitWait \/ CommitTimeOut \/ CommitRead \/ Close \/ Cut
  BY <1>8, BRestOk
<1>9. CASE DevicePacket
  BY <1>9, BDevicePacketOk
<1>10. CASE DeviceDisconnect \/ DeviceNotify \/ DeviceLoop \/ DeviceQuiet \/ DeviceDoze
  BY <1>10, BDeviceOtherOk
<1> QED
  BY <1>1, <1>2, <1>3, <1>4, <1>5, <1>6, <1>7, <1>8, <1>9, <1>10
  DEF TNext, ClientStep, DeviceStep

\* "This gives back-pressure so the phone's write-without-response flood can
\* never overrun the device" (ble.rs:29): for any payload, window, chunk sizes,
\* losses and cuts, at most one window of DATA is on its way to the device, as
\* long as at most one timeout of the client raced an answer.
THEOREM BackPressured == TSpec => []BackPressure
<1>1. BInv /\ TInv => BackPressure
  BY AtHand DEF BInv, BackPressure
<1> QED
  BY <1>1, BInitOk, BNextOk, TransferInductive, PTL DEF TSpec
=============================================================================
