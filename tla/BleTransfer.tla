---------------------------- MODULE BleTransfer ----------------------------
(***************************************************************************)
(* One acknowledged, windowed transfer of plate text: the web client's     *)
(* transfer() of docs/index.html over a link, against the device of        *)
(* BleSession.  The link is FIFO both ways; it loses writes without        *)
(* response (the controller's RX queue overflows) and may be cut.  A write *)
(* with response, and a read, return when the device handled them.         *)
(*                                                                         *)
(* Timeouts are not timed: a wait may end when nothing can answer it any   *)
(* more, and MaxEarly times while an answer is still under way, so that a  *)
(* late answer is found by a later wait.                                   *)
(***************************************************************************)
EXTENDS BleSession, SequencesExt, FiniteSets

CONSTANTS
    Payload,        \* the text to transfer
    AckWindow,      \* ACK_EVERY, 16
    Big, Small,     \* CHUNK_BIG and CHUNK_SMALL, in bytes of the model
    NotifyOk,       \* what startNotifications() may answer
    Mtu,            \* what the link may do with a big packet
    MaxLoss,        \* writes without response lost
    MaxCut,         \* connections cut
    MaxEarly        \* timeouts that race an answer

ASSUME TransferAssumption ==
    /\ Payload \in Seq(Byte) \ {<<>>, InitText}
    /\ ValidPlain(Payload)
    /\ Len(Payload) <= MaxContentBytes
    /\ Crc(Payload) \in CrcVal
    /\ AckWindow \in 1..AckMax
    /\ Big \in Nat /\ Small \in 1..Big
    /\ NotifyOk \subseteq BOOLEAN
    /\ Mtu \subseteq {"fits", "throws", "drops"}
    /\ MaxLoss \in Nat /\ MaxCut \in Nat /\ MaxEarly \in Nat

VARIABLES
    client,         \* where transfer() is
    off,            \* offset of the next chunk
    burstStart,     \* offset the window began at
    sent,           \* chunks sent in this window
    chunk,          \* chunk size
    verdict,        \* what the user is told
    notifyOk, mtu,  \* this browser and this link
    uplink,         \* packets on their way to the device
    downlink,       \* STATUS notifications on their way, or queued in the client
    reply,          \* answer to the outstanding STATUS read
    lost,           \* what the link did: losses of DATA, of COMMIT, cuts
    early,          \* early timeouts so far
    accepted        \* history: the device verified the payload

linkVars == <<uplink, downlink, reply>>
progress == <<off, burstStart, sent, chunk>>
chosen == <<notifyOk, mtu>>
tvars == <<vars, client, progress, verdict, chosen, linkVars, lost, early, accepted>>

Verdicts == {"ok", "rejected", "unknown", "failed"}

TInit ==
    /\ Init
    /\ client = "start"
    /\ off = 0 /\ burstStart = 0 /\ sent = 0
    /\ chunk = Big
    /\ verdict = "none"
    /\ notifyOk \in NotifyOk
    /\ mtu \in Mtu
    /\ uplink = IF notifyOk THEN <<[op |-> "subscribe"]>> ELSE <<>>
    /\ downlink = <<>>
    /\ reply = {}
    /\ lost = [data |-> 0, commit |-> 0, cut |-> 0]
    /\ early = 0
    /\ accepted = FALSE

-----------------------------------------------------------------------------
(* The client's means: connect() of docs/index.html. *)

Send(m) == uplink' = Append(uplink, m)

\* The write with response has been answered.
Answered == uplink = <<>>

\* A status read goes out; its answer is awaited in state `next`.
SendRead(next) ==
    /\ Send([op |-> "readStatus"])
    /\ client' = next
    /\ reply' = {}

\* Nothing under way can still become a notification.
Silent == uplink = <<>> /\ downlink = <<>> /\ Notification(rx) = <<>>

\* waitFor() gives up: at once without notifications, else after its time.
TimeOut ==
    \/ /\ ~notifyOk \/ Silent
       /\ UNCHANGED early
    \/ /\ notifyOk /\ ~Silent
       /\ early < MaxEarly
       /\ early' = early + 1

Fail ==
    /\ verdict' = "failed"
    /\ client' = "done"

-----------------------------------------------------------------------------
(* START. *)

StartPacket ==
    [op |-> "contentStart", len |-> Len(Payload), crc |-> Crc(Payload), ack |-> AckWindow]

SendStart ==
    /\ client = "start"
    /\ Answered
    /\ Send(StartPacket)
    /\ client' = "startAck"
    /\ UNCHANGED <<vars, progress, verdict, chosen, downlink, reply, lost, early, accepted>>

StartAck ==
    /\ client = "startAck"
    /\ notifyOk
    /\ Answered /\ downlink # <<>>
    /\ downlink' = Tail(downlink)
    /\ client' = IF Head(downlink).state = "receiving" THEN "burst" ELSE client
    /\ UNCHANGED <<vars, progress, verdict, chosen, uplink, reply, lost, early, accepted>>

StartTimeOut ==
    /\ client = "startAck"
    /\ Answered
    /\ TimeOut
    /\ SendRead("startRead")
    /\ UNCHANGED <<vars, progress, verdict, chosen, downlink, lost, accepted>>

StartRead ==
    /\ client = "startRead"
    /\ \E st \in reply :
          IF st.state = "receiving"
          THEN client' = "burst" /\ UNCHANGED verdict
          ELSE Fail
    /\ UNCHANGED <<vars, progress, chosen, linkVars, lost, early, accepted>>

-----------------------------------------------------------------------------
(* Windows of chunks. *)

\* The next chunk at the client's offset.
Part == SubSeq(Payload, off + 1, Min({off + chunk, Len(Payload)}))

DataPacket == [op |-> "data", off |-> off, bytes |-> Part]

Lose(kind) == lost' = [lost EXCEPT ![kind] = @ + 1] /\ UNCHANGED uplink

TooBig == chunk > Small /\ mtu # "fits"

SendChunk ==
    /\ client = "burst"
    /\ sent < AckWindow /\ off < Len(Payload)
    /\ ~(TooBig /\ mtu = "throws")
    /\ \/ ~TooBig /\ Send(DataPacket) /\ UNCHANGED lost
       \/ ~TooBig /\ lost.data < MaxLoss /\ Lose("data")
       \/ TooBig /\ UNCHANGED <<uplink, lost>>
    /\ off' = off + Len(Part)
    /\ sent' = sent + 1
    /\ UNCHANGED <<vars, client, burstStart, chunk, verdict, chosen, downlink, reply, early, accepted>>

\* writeValueWithoutResponse throws on a big chunk: smaller ones from here.
ChunkThrows ==
    /\ client = "burst"
    /\ sent < AckWindow /\ off < Len(Payload)
    /\ TooBig /\ mtu = "throws"
    /\ chunk' = Small
    /\ client' = "ackWait"
    /\ UNCHANGED <<vars, off, burstStart, sent, verdict, chosen, linkVars, lost, early, accepted>>

BurstSent ==
    /\ client = "burst"
    /\ sent = AckWindow \/ off = Len(Payload)
    /\ client' = "ackWait"
    /\ UNCHANGED <<vars, progress, verdict, chosen, linkVars, lost, early, accepted>>

\* The head of the window loop, with the client at offset o.
NextWindow(o) ==
    /\ off' = o
    /\ burstStart' = o
    /\ sent' = 0
    /\ client' = IF o < Len(Payload) THEN "burst" ELSE "commit"

\* A status covers the window: received >= burstEnd.  (The mutant takes any
\* acknowledgement for one of this window.)
CoversAny(st) == st.received >= burstStart

Covers(st) == st.received >= off

AckWait ==
    /\ client = "ackWait"
    /\ notifyOk
    /\ downlink # <<>>
    /\ downlink' = Tail(downlink)
    /\ IF Covers(Head(downlink))
       THEN NextWindow(off)
       ELSE UNCHANGED <<client, off, burstStart, sent>>
    /\ UNCHANGED <<vars, chunk, verdict, chosen, uplink, reply, lost, early, accepted>>

\* No acknowledgement in time: syncStatus().
AckTimeOut ==
    /\ client = "ackWait"
    /\ TimeOut
    /\ IF notifyOk
       THEN Send([op |-> "sync"]) /\ client' = "syncAck" /\ UNCHANGED reply
       ELSE SendRead("syncRead")
    /\ UNCHANGED <<vars, progress, verdict, chosen, downlink, lost, accepted>>

\* Mutants of Resume: the client goes on where it is, whatever was received;
\* waits again for the window it sent; never tries smaller chunks.
ResumeNoRewind(st) ==
    IF st.state # "receiving"
    THEN Fail /\ UNCHANGED progress
    ELSE NextWindow(off) /\ UNCHANGED <<verdict, chunk>>

ResumeWaiting(st) ==
    IF st.state # "receiving"
    THEN Fail /\ UNCHANGED progress
    ELSE /\ UNCHANGED <<verdict, chunk>>
         /\ IF st.received < off
            THEN client' = "ackWait" /\ UNCHANGED <<off, burstStart, sent>>
            ELSE NextWindow(off)

ResumeKeepChunk(st) ==
    IF st.state # "receiving"
    THEN Fail /\ UNCHANGED progress
    ELSE NextWindow(Min({st.received, off})) /\ UNCHANGED <<verdict, chunk>>

\* The client learned where the device is: rewind to it, or go on.
Resume(st) ==
    IF st.state # "receiving"
    THEN Fail /\ UNCHANGED progress
    ELSE /\ UNCHANGED verdict
         /\ chunk' = IF st.received < off /\ st.received = burstStart THEN Small ELSE chunk
         /\ NextWindow(Min({st.received, off}))

SyncAck ==
    /\ client = "syncAck"
    /\ Answered /\ downlink # <<>>
    /\ downlink' = Tail(downlink)
    /\ Resume(Head(downlink))
    /\ UNCHANGED <<vars, chosen, uplink, reply, lost, early, accepted>>

SyncTimeOut ==
    /\ client = "syncAck"
    /\ Answered
    /\ TimeOut
    /\ SendRead("syncRead")
    /\ UNCHANGED <<vars, progress, verdict, chosen, downlink, lost, accepted>>

SyncRead ==
    /\ client = "syncRead"
    /\ \E st \in reply : Resume(st)
    /\ UNCHANGED <<vars, chosen, linkVars, lost, early, accepted>>

-----------------------------------------------------------------------------
(* COMMIT, the verdict, the end of the connection. *)

SendCommit ==
    /\ client = "commit"
    /\ \/ Send([op |-> "commit"]) /\ UNCHANGED lost
       \/ lost.data + lost.commit < MaxLoss /\ Lose("commit")
    /\ client' = "commitWait"
    /\ UNCHANGED <<vars, progress, verdict, chosen, downlink, reply, early, accepted>>

\* Mutants of Conclude: the raw state is the verdict; any answer is a success.
ConcludeRaw(st) == verdict' = st.state /\ client' = "done"

ConcludeOk(st) == verdict' = "ok" /\ client' = "done"

\* What the user is told of the final status.
Conclude(st) ==
    /\ verdict' = IF st.state = "committed" THEN "ok" ELSE "rejected"
    /\ client' = "done"

CommitWait ==
    /\ client = "commitWait"
    /\ notifyOk
    /\ downlink # <<>>
    /\ downlink' = Tail(downlink)
    /\ IF Head(downlink).state # "receiving"
       THEN Conclude(Head(downlink))
       ELSE UNCHANGED <<client, verdict>>
    /\ UNCHANGED <<vars, progress, chosen, uplink, reply, lost, early, accepted>>

CommitTimeOut ==
    /\ client = "commitWait"
    /\ TimeOut
    /\ SendRead("commitRead")
    /\ UNCHANGED <<vars, progress, verdict, chosen, downlink, lost, accepted>>

CommitRead ==
    /\ client = "commitRead"
    /\ \E st \in reply : Conclude(st)
    /\ UNCHANGED <<vars, progress, chosen, linkVars, lost, early, accepted>>

\* withPlate() closes 300 ms after the verdict; that the pump has run dry by
\* then, and the device has applied what it parked, is an assumption on time.
Close ==
    /\ client = "done"
    /\ Answered /\ ~Parked
    /\ Send([op |-> "disconnect"])
    /\ client' = "closed"
    /\ UNCHANGED <<vars, progress, verdict, chosen, downlink, reply, lost, early, accepted>>

\* The connection is cut: what transfer() or its caller makes of the error.
Cut ==
    /\ client \notin {"done", "closed"}
    /\ lost.cut < MaxCut
    /\ lost' = [lost EXCEPT !.cut = @ + 1]
    /\ verdict' = IF client \in {"commitWait", "commitRead"} THEN "unknown" ELSE "failed"
    /\ client' = "closed"
    /\ Send([op |-> "disconnect"])
    /\ UNCHANGED <<vars, progress, chosen, downlink, reply, early, accepted>>

-----------------------------------------------------------------------------
(* The device of BleSession at the other end of the link. *)

clientVars == <<client, progress, verdict, chosen, lost, early>>

Arrived(op) == uplink # <<>> /\ Head(uplink).op = op

DevicePacket ==
    /\ uplink # <<>> /\ ~Arrived("disconnect")
    /\ PumpPacket(Head(uplink))
    /\ uplink' = Tail(uplink)
    /\ downlink' = downlink \o Notification(rx)
    /\ reply' = IF Arrived("readStatus") THEN {Status(rx)} ELSE reply
    /\ accepted' = (accepted \/ rx'.done_content # {})
    /\ UNCHANGED clientVars

DeviceDisconnect ==
    /\ Arrived("disconnect")
    /\ PumpDisconnect
    /\ uplink' = <<>>
    /\ UNCHANGED <<clientVars, downlink, reply, accepted>>

DeviceNotify ==
    /\ uplink = <<>> /\ Notification(rx) # <<>>
    /\ PumpEvent
    /\ downlink' = downlink \o Notification(rx)
    /\ UNCHANGED <<clientVars, uplink, reply, accepted>>

\* The rest of the loop.  It dozes only once the client is gone: a client
\* that transfers is never silent for the two minutes that takes.
DeviceLoop ==
    /\ \/ uplink = <<>> /\ PumpDry
       \/ PumpFull
       \/ Apply
       \/ Stream
       \/ TickLight
       \/ Tick
       \/ Reopen
    /\ UNCHANGED <<clientVars, linkVars, accepted>>

DeviceQuiet ==
    /\ Quiet
    /\ UNCHANGED <<clientVars, linkVars, accepted>>

DeviceDoze ==
    /\ client = "closed" /\ uplink = <<>>
    /\ DozeOff
    /\ UNCHANGED <<clientVars, linkVars, accepted>>

DeviceStep == DevicePacket \/ DeviceDisconnect \/ DeviceNotify \/ DeviceLoop

ClientStep ==
    \/ SendStart \/ StartAck \/ StartTimeOut \/ StartRead
    \/ SendChunk \/ ChunkThrows \/ BurstSent
    \/ AckWait \/ AckTimeOut \/ SyncAck \/ SyncTimeOut \/ SyncRead
    \/ SendCommit \/ CommitWait \/ CommitTimeOut \/ CommitRead
    \/ Close

TNext == ClientStep \/ DeviceStep \/ Cut \/ DeviceQuiet \/ DeviceDoze

TSpec == TInit /\ [][TNext]_tvars

\* The device's loop never blocks for good, and neither does the browser's
\* event loop; nothing is assumed of the link beyond its bounded losses.
FairTSpec == TSpec /\ WF_tvars(DeviceStep) /\ WF_tvars(ClientStep)

-----------------------------------------------------------------------------
(* Properties. *)

\* Every variable of the client and the link has its type.
TransferTypeOK ==
    /\ client \in {"start", "startAck", "startRead", "burst", "ackWait", "syncAck",
                   "syncRead", "commit", "commitWait", "commitRead", "done", "closed"}
    /\ off \in 0..Len(Payload) /\ burstStart \in 0..Len(Payload)
    /\ sent \in 0..AckWindow
    /\ chunk \in {Big, Small}
    /\ verdict \in Verdicts \cup {"none"}
    /\ notifyOk \in NotifyOk /\ mtu \in Mtu
    /\ uplink \in Seq(Packet \cup {[op |-> "disconnect"]})
    /\ downlink \in Seq(StatusMsg)
    /\ reply \subseteq StatusMsg
    /\ lost \in [{"data", "commit", "cut"} -> Nat]
    /\ early \in 0..MaxEarly
    /\ accepted \in BOOLEAN

\* "every loss is detected and repaired" (ble.rs:30): what the device holds is
\* always a prefix of the payload, whatever was lost, repeated or rewound.
ReceivedIsPrefix == Receiving(rx) => IsPrefix(rx.data, Payload)

\* A client that commits has every byte confirmed: the device never answers
\* COMMIT with missing data or a bad CRC (states 3, 4 and 5).
CommitIsComplete == rx.state \notin {"incomplete", "crc_error", "rejected"}

\* The chunks on their way to the device.
InFlight == {i \in DOMAIN uplink : uplink[i].op = "data"}

\* "This gives back-pressure so the phone's write-without-response flood can
\* never overrun the device" (ble.rs:29): at most one window is in flight, as
\* long as the client gave up at most one answer that came after all.  (After
\* two, a sync is answered by a stale status, the window is rewound, and the
\* acknowledgement of the first copy releases the next window over the second.)
BackPressure == early <= 1 => Cardinality(InFlight) <= AckWindow

\* The transfer implements the atomic update of PlateUpdate.
Update == INSTANCE PlateUpdate WITH plate <- text
UpdateSpec == Update!Spec

\* The user always gets an answer.
Terminates == <>(verdict # "none")

\* A transfer whose COMMIT and connection are not lost ends with the payload on
\* the plate, whatever DATA is lost, the link's MTU and the browser's
\* notifications, and however late its answers are.
Delivers == <>(text = Payload \/ lost.commit > 0 \/ lost.cut > 0)
=============================================================================
