----------------------------- MODULE BleSession -----------------------------
(***************************************************************************)
(* One BLE session after another: App::ble_session of src/app/ble.rs, the  *)
(* loop that pumps HCI, applies what was committed and then decides what   *)
(* else may run.  The loop is the only task that touches the receiver, so  *)
(* its interleavings are with the central: which packets are waiting at an *)
(* iteration of the pump, and how many.  A central here may send anything; *)
(* BleTransfer replaces it with the web client.                            *)
(*                                                                         *)
(* The App is seen through what the session asks of it: the plate's text,  *)
(* its display image, and content_text, the copy of the text the CONTENT   *)
(* characteristic serves.  A phone may also write the text over NFC, in    *)
(* the slices tick() gives the tag emulation.                              *)
(***************************************************************************)
EXTENDS ImgRx

CONSTANTS
    Packets,        \* the packets a central sends (bounded for TLC)
    PumpMax,        \* iterations of the inner loop, 96
    MaxErrors,      \* work errors that restart the session, 8
    InitText,       \* the plate's text at boot
    NfcTexts        \* what a phone may write over NFC

ASSUME SessionAssumption ==
    /\ Packets \subseteq Packet
    /\ PumpMax \in Nat \ {0}
    /\ MaxErrors \in Nat \ {0}
    /\ InitText \in Seq(Byte)
    /\ NfcTexts \subseteq Seq(Byte)

VARIABLES
    rx,             \* the receiver (RefCell<ImgRx>)
    pc,             \* where the loop is
    iter,           \* iterations of the pump in this pass
    errors,         \* work errors since the last apply
    flushed,        \* STATUS at the last take_notification() that had one
    text,           \* App.content, the text
    image,          \* App.content.image
    content_text,   \* what the CONTENT characteristic serves
    end             \* why the last session ended

plate == <<text, image>>
vars == <<rx, pc, iter, errors, flushed, text, image, content_text, end>>

NoStatus == [state |-> "idle", received |-> 0, expected |-> 0]

Init ==
    /\ rx = DefaultRx
    /\ pc = "pump"
    /\ iter = 0
    /\ errors = 0
    /\ flushed = NoStatus
    /\ text = InitText
    /\ image = {}
    /\ content_text = InitText
    /\ end = "none"

-----------------------------------------------------------------------------
(* The pump. *)

\* take_notification() at the head of an iteration.
Flush ==
    flushed' = IF rx.pending_ntf THEN Status(rx) ELSE flushed

\* break 'session: a doze test that was asked for wins over the reason given.
EndSession(reason) ==
    /\ pc' = "ended"
    /\ end' = IF rx'.doze_test_req THEN "doze" ELSE reason

\* An iteration that handles packet m, after sending what was pending.
PumpPacket(m) ==
    /\ pc = "pump"
    /\ iter < PumpMax
    /\ Flush
    /\ rx' = Gatt(TakeNotification(rx), m)
    /\ iter' = iter + 1
    /\ UNCHANGED <<pc, errors, plate, content_text, end>>

\* An iteration without a GATT operation: it sends what was pending, or
\* handles another event of the controller.
PumpEvent ==
    /\ pc = "pump"
    /\ iter < PumpMax
    /\ Flush
    /\ rx' = TakeNotification(rx)
    /\ iter' = iter + 1
    /\ UNCHANGED <<pc, errors, plate, content_text, end>>

\* Nothing to send and nothing received.
PumpDry ==
    /\ pc = "pump"
    /\ iter < PumpMax
    /\ Notification(rx) = <<>>
    /\ Flush
    /\ rx' = TakeNotification(rx)
    /\ pc' = "apply"
    /\ UNCHANGED <<iter, errors, plate, content_text, end>>

\* The bound of the inner loop: a notification may still be pending.
PumpFull ==
    /\ pc = "pump"
    /\ iter = PumpMax
    /\ pc' = "apply"
    /\ UNCHANGED <<rx, iter, errors, flushed, plate, content_text, end>>

PumpDisconnect ==
    /\ pc = "pump"
    /\ iter < PumpMax
    /\ Flush
    /\ rx' = TakeNotification(rx)
    /\ EndSession("restart")
    /\ UNCHANGED <<iter, errors, plate, content_text>>

\* Mutant of PumpError: a failing controller is retried for ever.
PumpErrorForever ==
    /\ pc = "pump"
    /\ iter < PumpMax
    /\ Flush
    /\ rx' = TakeNotification(rx)
    /\ errors' = errors + 1
    /\ iter' = iter + 1
    /\ pc' = "apply"
    /\ UNCHANGED <<plate, content_text, end>>

\* do_work fails: leave the pump, or the session after MaxErrors.
PumpError ==
    /\ pc = "pump"
    /\ iter < PumpMax
    /\ Flush
    /\ rx' = TakeNotification(rx)
    /\ errors' = errors + 1
    /\ IF errors + 1 >= MaxErrors
       THEN EndSession("restart")
       ELSE pc' = "apply" /\ UNCHANGED end
    /\ iter' = iter + 1
    /\ UNCHANGED <<plate, content_text>>

-----------------------------------------------------------------------------
(* After the pump: apply what was committed, in the code's order. *)

\* Nothing is applied while a STATUS is pending.  (The mutant takes at once.)
TakeAtOnce(parked) == parked

Take(parked) == IF rx.pending_ntf THEN {} ELSE parked

\* Mutant of AfterApply: the receiver goes idle on every pass.
AlwaysIdle(img, txt, clear) ==
    [rx EXCEPT !.done = @ \ img, !.done_content = @ \ txt, !.state = "idle",
               !.clear_image_req = @ /\ ~clear]

AfterApply(img, txt, clear) ==
    [rx EXCEPT !.done = @ \ img,
               !.done_content = @ \ txt,
               !.state = IF img \cup txt # {} THEN "idle" ELSE @,
               !.clear_image_req = @ /\ ~clear]

Apply ==
    LET img == Take(rx.done)
        txt == Take(rx.done_content)
        clear == rx.clear_image_req /\ ~rx.pending_ntf
    IN  /\ pc = "apply"
        /\ rx' = AfterApply(img, txt, clear)
        /\ image' = IF clear THEN {} ELSE IF img # {} THEN img ELSE image
        /\ text' = IF txt # {} THEN CHOOSE t \in txt : TRUE ELSE text
        /\ content_text' = IF txt # {} THEN text' ELSE content_text
        /\ errors' = IF img # {} \/ txt # {} THEN 0 ELSE errors
        /\ pc' = "schedule"
        /\ UNCHANGED <<iter, flushed, end>>

-----------------------------------------------------------------------------
(* What else may run before the next pass. *)

NextPass ==
    /\ pc' = "pump"
    /\ iter' = 0

\* Time: the last GATT interaction is now more than 3 s old.
Quiet ==
    /\ pc = "schedule"
    /\ rx.recent
    /\ rx' = [rx EXCEPT !.recent = FALSE]
    /\ UNCHANGED <<pc, iter, errors, flushed, plate, content_text, end>>

\* A transfer is streaming: nothing but the pump.
Stream ==
    /\ pc = "schedule"
    /\ Receiving(rx)
    /\ NextPass
    /\ UNCHANGED <<rx, errors, flushed, plate, content_text, end>>

\* A central was active lately: touch and buttons, no NFC.
TickLight ==
    /\ pc = "schedule"
    /\ ~Receiving(rx)
    /\ rx.recent
    /\ NextPass
    /\ UNCHANGED <<rx, errors, flushed, plate, content_text, end>>

\* The bench client asked for a doze, or nothing has been heard for so long
\* that should_doze() agrees (then this pass pumped nothing).
DozeOff ==
    /\ pc = "schedule"
    /\ ~Receiving(rx)
    /\ ~rx.recent
    /\ rx.doze_test_req \/ iter = 0
    /\ UNCHANGED <<rx, iter, errors, flushed, plate, content_text>>
    /\ EndSession("doze")

\* The full tick, with a slice for the tag emulation.
Tick ==
    /\ pc = "schedule"
    /\ ~Receiving(rx)
    /\ ~rx.recent
    /\ ~rx.doze_test_req
    /\ NextPass
    /\ UNCHANGED <<rx, errors, flushed, plate, content_text, end>>

\* In that slice a phone has written the tag: on_tag_written().
TickNfcWrite(t) ==
    /\ pc = "schedule"
    /\ ~Receiving(rx)
    /\ ~rx.recent
    /\ ~rx.doze_test_req
    /\ NextPass
    /\ text' = t
    /\ UNCHANGED <<rx, errors, flushed, image, content_text, end>>

\* The main loop opens the next session (after a deep sleep: a reboot, which
\* restores the plate from flash).
Reopen ==
    /\ pc = "ended"
    /\ pc' = "pump"
    /\ rx' = DefaultRx
    /\ iter' = 0
    /\ errors' = 0
    /\ flushed' = NoStatus
    /\ content_text' = text
    /\ UNCHANGED <<plate, end>>

LoopStep ==
    \/ PumpEvent \/ PumpDry \/ PumpFull
    \/ Apply
    \/ Stream \/ TickLight \/ DozeOff \/ Tick
    \/ Reopen

Next ==
    \/ LoopStep
    \/ \E m \in Packets : PumpPacket(m)
    \/ PumpDisconnect
    \/ PumpError
    \/ Quiet
    \/ \E t \in NfcTexts : TickNfcWrite(t)

Spec == Init /\ [][Next]_vars

-----------------------------------------------------------------------------
(* Properties. *)

\* Every variable has its type.
TypeOK ==
    /\ rx \in Receiver
    /\ pc \in {"pump", "apply", "schedule", "ended"}
    /\ iter \in 0..PumpMax
    /\ errors \in 0..MaxErrors
    /\ flushed \in StatusMsg
    /\ text \in Seq(Byte)
    /\ image \in SUBSET MonoImage
    /\ content_text \in Seq(Byte)
    /\ end \in {"none", "restart", "doze"}

Parked == rx.done # {} \/ rx.done_content # {}

\* Whatever waits to be applied (ble.rs:259-260) is the one payload of the
\* latest START, has its length and CRC, was found valid, and its receiver is
\* still in state 2: no packet handled in between can have touched it.
ParkedIsVerified ==
    /\ Parked => rx.state = "committed" /\ (rx.done = {} \/ rx.done_content = {})
    /\ \A t \in rx.done_content :
            /\ rx.done_content = {t}
            /\ rx.kind = "content" /\ Len(t) = rx.expected /\ Crc(t) = rx.crc
            /\ ValidPlain(t)
    /\ \A i \in rx.done :
            /\ rx.done = {i}
            /\ rx.kind = "image" /\ Len(i.bits) = rx.expected /\ Crc(i.bits) = rx.crc
            /\ Len(i.bits) = RowBytes(i.width) * i.height

\* The window bookkeeping of push(): while receiving, the payload never runs
\* past what START announced, and the u8 counter of accepted packets stays
\* below ack_every, so that `since_ack += 1` cannot overflow.
WindowBounds ==
    Receiving(rx) =>
        /\ rx.expected \in 1..(IF rx.kind = "content" THEN MaxContentBytes ELSE MaxImageBytes)
        /\ Len(rx.data) <= rx.expected
        /\ rx.since_ack < rx.ack_every

\* Silence is never the answer a client waits for: when a NAK is being
\* suppressed (nak_sent) or the last byte is in, the STATUS that says so is
\* pending, or is the one that was last taken for sending.
SilenceMeansTold ==
    Receiving(rx) /\ (rx.nak_sent \/ Len(rx.data) = rx.expected)
        => rx.pending_ntf \/ flushed = Status(rx)

\* "Apply a committed image only after its STATUS notification went out"
\* (ble.rs:606): the step that takes a parked payload finds state 2 flushed.
ApplyAfterStatus ==
    [][pc = "apply" /\ Parked /\ rx'.done \cup rx'.done_content = {}
        => flushed.state = "committed"]_vars

\* `state = ST_IDLE` after an apply (ble.rs:618, 632) never ends a transfer
\* that is running: only a packet of the central or a new session does.
OnlyCentralEndsTransfer ==
    [][Receiving(rx) /\ pc \in {"apply", "schedule"}
        => rx'.state = rx.state /\ rx'.data = rx.data /\ rx'.since_ack = rx.since_ack]_vars

\* "commit: verify length + CRC and apply" (ble.rs:12): a payload whose
\* STATUS 2 went out leaves the receiver by being applied, never otherwise.
CommitIsApplied ==
    [][Parked /\ flushed'.state = "committed"
        => /\ rx'.done_content = rx.done_content \/ rx.done_content = {text'}
           /\ rx'.done = rx.done \/ pc = "apply"]_vars
=============================================================================
