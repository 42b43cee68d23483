------------------------------- MODULE ImgRx -------------------------------
(***************************************************************************)
(* The receiver behind the GATT service: `struct ImgRx` of src/app/ble.rs  *)
(* and its handlers, each an operator from the receiver (and a packet) to  *)
(* the receiver.  Nothing here is a state machine: BleSession drives these *)
(* operators from the session loop, BleTransfer from the web client.       *)
(*                                                                         *)
(* Abstractions.  Bytes are members of Byte.  Crc and ValidPlain are any   *)
(* functions of a payload (the CRC may collide).  An Option<T> is a set    *)
(* with at most one element.  `last_ms` is kept as one bit, `recent`: was  *)
(* the last GATT interaction less than 3 s ago (BleSession lets it lapse). *)
(***************************************************************************)
EXTENDS Naturals, Sequences

CONSTANTS
    Byte,               \* payload bytes
    CrcVal,             \* values of a crc32 field
    Crc(_),             \* crc32()
    ValidPlain(_),      \* PlateContent::validate_plain() accepts the text
    MaxContentBytes,    \* MAX_CONTENT_BYTES, 1024
    MaxImageBytes,      \* MAX_IMAGE_BYTES, 48000
    MaxWidth,           \* 480
    MaxHeight,          \* 800
    DefaultAckEvery,    \* DEFAULT_ACK_EVERY, 8
    AckMax              \* u8::MAX

ASSUME LimitsAssumption ==
    /\ MaxContentBytes \in Nat \ {0}
    /\ MaxImageBytes \in Nat \ {0}
    /\ MaxWidth \in Nat \ {0}
    /\ MaxHeight \in Nat \ {0}

ASSUME AckAssumption ==
    /\ AckMax \in Nat
    /\ DefaultAckEvery \in 1..AckMax

ASSUME CrcAssumption == 0 \in CrcVal

-----------------------------------------------------------------------------
(* The receiver's fields. *)

State == {"idle", "receiving", "committed", "crc_error", "incomplete", "rejected"}

MonoImage == [width : Nat, height : Nat, bits : Seq(Byte)]

Receiver ==
    [state : State, kind : {"none", "image", "content"},
     width : Nat, height : Nat, expected : Nat, crc : CrcVal,
     ack_every : 0..AckMax, data : Seq(Byte),
     done : SUBSET MonoImage, done_content : SUBSET Seq(Byte),
     recent : BOOLEAN, notify_on : BOOLEAN, pending_ntf : BOOLEAN,
     since_ack : 0..AckMax, nak_sent : BOOLEAN,
     clear_image_req : BOOLEAN, doze_test_req : BOOLEAN]

\* ImgRx::default()
DefaultRx ==
    [state |-> "idle", kind |-> "none",
     width |-> 0, height |-> 0, expected |-> 0, crc |-> 0,
     ack_every |-> 0, data |-> <<>>, done |-> {}, done_content |-> {},
     recent |-> FALSE, notify_on |-> FALSE, pending_ntf |-> FALSE,
     since_ack |-> 0, nak_sent |-> FALSE,
     clear_image_req |-> FALSE, doze_test_req |-> FALSE]

Receiving(rx) == rx.state = "receiving"

-----------------------------------------------------------------------------
(* What a central can write or read. *)

ContentStartMsg == [op : {"contentStart"}, len : Nat, crc : CrcVal, ack : 0..AckMax]

ImageStartMsg ==
    [op : {"imageStart"}, w : Nat, h : Nat, len : Nat, crc : CrcVal, ack : 0..AckMax]

DataMsg == [op : {"data"}, off : Nat, bytes : Seq(Byte)]

PlainOp ==
    {"commit", "abort", "sync", "dozeTest", "clearImage", "unknown",
     "readStatus", "subscribe", "unsubscribe"}

PlainMsg == [op : PlainOp]

Packet == ContentStartMsg \cup ImageStartMsg \cup DataMsg \cup PlainMsg

-----------------------------------------------------------------------------
(* CTRL writes. *)

\* Mutant of Reset: a START keeps the commit that was not applied yet.
ResetKeepsParked(rx) ==
    [DefaultRx EXCEPT !.notify_on = rx.notify_on, !.recent = TRUE,
                      !.done = rx.done, !.done_content = rx.done_content]

\* reset(): everything but the subscription goes, a commit that was not
\* applied yet and a pending clear or doze request included.
Reset(rx) == [DefaultRx EXCEPT !.notify_on = rx.notify_on, !.recent = TRUE]

BadStart(rx) == [Reset(rx) EXCEPT !.pending_ntf = TRUE]

AckEvery(ack) == IF ack = 0 THEN DefaultAckEvery ELSE ack

ContentStart(rx, m) ==
    IF m.len \in 1..MaxContentBytes
    THEN [Reset(rx) EXCEPT !.state = "receiving", !.kind = "content",
                           !.expected = m.len, !.crc = m.crc,
                           !.ack_every = AckEvery(m.ack), !.pending_ntf = TRUE]
    ELSE BadStart(rx)

RowBytes(w) == (w + 7) \div 8

GoodGeometry(m) ==
    /\ m.w \in 1..MaxWidth
    /\ m.h \in 1..MaxHeight
    /\ m.len = RowBytes(m.w) * m.h
    /\ m.len <= MaxImageBytes

ImageStart(rx, m) ==
    IF GoodGeometry(m)
    THEN [Reset(rx) EXCEPT !.state = "receiving", !.kind = "image",
                           !.width = m.w, !.height = m.h,
                           !.expected = m.len, !.crc = m.crc,
                           !.ack_every = AckEvery(m.ack), !.pending_ntf = TRUE]
    ELSE BadStart(rx)

\* What COMMIT makes of the bytes received.
CommitVerdict(rx) ==
    IF Len(rx.data) # rx.expected THEN "incomplete"
    ELSE IF Crc(rx.data) # rx.crc THEN "crc_error"
    ELSE IF rx.kind = "content" /\ ~ValidPlain(rx.data) THEN "rejected"
    ELSE "committed"

Commit(rx) ==
    LET verdict == CommitVerdict(rx)
        good == verdict = "committed"
    IN  IF ~Receiving(rx)
        THEN [rx EXCEPT !.pending_ntf = TRUE]
        ELSE [rx EXCEPT
                !.state = verdict,
                !.data = <<>>,
                !.done_content = IF good /\ rx.kind = "content" THEN {rx.data} ELSE @,
                !.done = IF good /\ rx.kind # "content"
                         THEN {[width |-> rx.width, height |-> rx.height, bits |-> rx.data]}
                         ELSE @,
                !.pending_ntf = TRUE]

Abort(rx) == [Reset(rx) EXCEPT !.pending_ntf = TRUE]

\* ctrl(): the dispatch on the first byte.  A START too short to hold its
\* fields falls through to "unknown".
Ctrl(rx0, m) ==
    LET rx == [rx0 EXCEPT !.recent = TRUE]
    IN  CASE m.op = "contentStart" -> ContentStart(rx, m)
          [] m.op = "imageStart"   -> ImageStart(rx, m)
          [] m.op = "commit"       -> Commit(rx)
          [] m.op = "abort"        -> Abort(rx)
          [] m.op = "sync"         -> [rx EXCEPT !.pending_ntf = TRUE]
          [] m.op = "dozeTest"     -> [rx EXCEPT !.doze_test_req = TRUE]
          [] m.op = "clearImage"   -> [rx EXCEPT !.clear_image_req = TRUE, !.pending_ntf = TRUE]
          [] OTHER                 -> rx

-----------------------------------------------------------------------------
(* DATA writes, STATUS reads and notifications, the CCCD. *)

\* Mutant of InOrder: a packet may run past the announced length.
InOrderOnly(rx, m) == m.off = Len(rx.data)

\* The packet continues the payload and fits what START announced.
InOrder(rx, m) ==
    /\ m.off = Len(rx.data)
    /\ Len(rx.data) + Len(m.bytes) <= rx.expected

Accept(rx, m) ==
    LET data == rx.data \o m.bytes
        ack == rx.since_ack + 1 >= rx.ack_every \/ Len(data) = rx.expected
    IN  [rx EXCEPT !.data = data, !.nak_sent = FALSE,
                   !.since_ack = IF ack THEN 0 ELSE @ + 1,
                   !.pending_ntf = @ \/ ack]

\* Mutants of Push: the offset is not compared; the NAK flag outlives the
\* streak of dropped packets it belongs to.
PushAnyOffset(rx, m) ==
    IF ~Receiving(rx) \/ m.bytes = <<>> THEN rx ELSE Accept(rx, m)

PushStickyNak(rx, m) ==
    CASE ~Receiving(rx) \/ m.bytes = <<>> -> rx
      [] Receiving(rx) /\ m.bytes # <<>> /\ InOrder(rx, m) ->
            [Accept(rx, m) EXCEPT !.nak_sent = rx.nak_sent]
      [] Receiving(rx) /\ m.bytes # <<>> /\ ~InOrder(rx, m) ->
            [rx EXCEPT !.nak_sent = TRUE, !.pending_ntf = @ \/ ~rx.nak_sent]

\* push(): in order and fitting, or dropped; only the first packet dropped of
\* a streak is answered (NAK).
Push(rx0, m) ==
    LET rx == [rx0 EXCEPT !.recent = TRUE]
    IN  CASE ~Receiving(rx) \/ m.bytes = <<>> -> rx
          [] Receiving(rx) /\ m.bytes # <<>> /\ InOrder(rx, m) -> Accept(rx, m)
          [] Receiving(rx) /\ m.bytes # <<>> /\ ~InOrder(rx, m) ->
                IF rx.nak_sent THEN rx
                ELSE [rx EXCEPT !.nak_sent = TRUE, !.since_ack = 0, !.pending_ntf = TRUE]

\* status_bytes()
Status(rx) == [state |-> rx.state, received |-> Len(rx.data), expected |-> rx.expected]

StatusMsg == [state : State, received : Nat, expected : Nat]

\* take_notification(): the flag is cleared whether or not anybody subscribed.
TakeNotification(rx) == [rx EXCEPT !.pending_ntf = FALSE]

\* The notification take_notification() returns, none or one.
Notification(rx) ==
    IF rx.pending_ntf /\ rx.notify_on THEN <<Status(rx)>> ELSE <<>>

\* One GATT operation of the central, as the attribute table dispatches it.
Gatt(rx, m) ==
    CASE m.op = "data"        -> Push(rx, m)
      [] m.op = "readStatus"  -> [rx EXCEPT !.recent = TRUE]
      [] m.op = "subscribe"   -> [rx EXCEPT !.notify_on = TRUE]
      [] m.op = "unsubscribe" -> [rx EXCEPT !.notify_on = FALSE]
      [] OTHER                -> Ctrl(rx, m)
=============================================================================
