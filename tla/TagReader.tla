------------------------------ MODULE TagReader -----------------------------
(* Reader mode: poll_nfc() and on_new_tag() of app/mod.rs over the reader    *)
(* half of st25r3916.rs, isodep.rs and ndef.rs.  Tags come and go between    *)
(* any two frames.  A tag is external and moves between the states of        *)
(* ISO 14443-3; one in "protocol" hears ISO-DEP blocks only, until the field *)
(* goes off.  A random UID is a new one at every activation; for the search  *)
(* among several tags it is one of the values it may have.                   *)
EXTENDS IsoDep, Anticollision

CONSTANTS
  Tag,
  None,       \* no tag
  Uid,        \* the responses of a tag, one per cascade level
  Type4,      \* tags that set bit 0x20 of SAK
  RandomUid,  \* those whose UID is random: phones
  File,       \* the NDEF message of a Type 4 tag
  NoFile,     \* Type 4 tags without the NDEF application
  Ok,         \* status 9000
  NotFound,   \* status 6A82
  MLE,        \* bytes a READ BINARY may ask for
  MaxFaults   \* failing I2C transfers and lost or damaged frames

ASSUME ReaderAssumption ==
  /\ None \notin Tag
  /\ \A t \in Tag : Uid[t] \in Seq(Response) /\ Len(Uid[t]) \in 1..3
  /\ Type4 \subseteq Tag /\ NoFile \subseteq Type4 /\ RandomUid \subseteq Tag
  /\ Data = Nat
  /\ File \in [Type4 -> Seq(Nat)]
  /\ Ok \in Nat /\ NotFound \in Nat /\ Ok # NotFound
  /\ MLE \in Nat \ {0}
  /\ MaxFaults \in Nat

VARIABLES
  emulate,   \* App.emulate
  last_tag,  \* App.last_tag
  old,       \* last_activity is more than TAG_FORGET_MS ago
  field,     \* the chip's field is on
  deaf,      \* the chip is not set up as a reader
  present,   \* tags near the antenna
  card,      \* what state each is in
  pc, lv, found, tag,      \* nfca_poll()
  step, nlen, msg, read,   \* read_type4()
  faults,
  alone      \* history: announced, and nothing happened since but time

poll == <<lv, found, tag>>
ndef == <<step, nlen, msg, read>>
app == <<emulate, last_tag, old>>
air == <<field, deaf, present, card>>
vars == <<app, air, pc, poll, ndef, faults, alone, depVars>>

\* A step in which something fails, and one in which nothing does.
Fault == faults < MaxFaults /\ faults' = faults + 1 /\ alone' = None
Fine == UNCHANGED <<faults, alone>>

Init ==
  /\ emulate = TRUE /\ last_tag = None /\ old = FALSE
  /\ field = FALSE /\ deaf = TRUE
  /\ present = {} /\ card = [t \in Tag |-> "off"]
  /\ pc = "idle" /\ lv = 1 /\ found = Empty /\ tag = None
  /\ step = 1 /\ nlen = 0 /\ msg = <<>> /\ read = FALSE
  /\ faults = 0 /\ alone = None
  /\ Activated

\* The tags after the field or their place changes.
Powered(on, near) ==
  [t \in Tag |-> IF on /\ t \in near
                 THEN IF card[t] = "off" THEN "idle" ELSE card[t]
                 ELSE "off"]

Arrive(t) ==
  /\ t \notin present /\ Cardinality(present) < 2
  /\ present' = present \cup {t}
  /\ card' = Powered(field, present')
  /\ alone' = None
  /\ UNCHANGED <<app, field, deaf, pc, poll, ndef, faults, depVars>>

Leave(t) ==
  /\ t \in present
  /\ present' = present \ {t}
  /\ card' = Powered(field, present')
  /\ alone' = None
  /\ UNCHANGED <<app, field, deaf, pc, poll, ndef, faults, depVars>>

Elapse ==
  /\ ~old
  /\ old' = TRUE
  /\ UNCHANGED <<emulate, last_tag, air, pc, poll, ndef, faults, alone, depVars>>

FieldOn == field' = TRUE
FieldOff == field' = FALSE
ConfigureNfca == deaf' = FALSE /\ FieldOn

\* Button A.  A failing configure_nfca() is ignored, whatever it had written.
ToReader ==
  /\ pc = "idle" /\ emulate
  /\ emulate' = FALSE /\ old' = FALSE
  /\ \/ Fine /\ ConfigureNfca
     \/ Fault /\ field' = field /\ deaf' \in {deaf, FALSE}
  /\ card' = Powered(field', present)
  /\ UNCHANGED <<last_tag, present, pc, poll, ndef, depVars>>

\* The next tick starts the emulator, and the chip is a target again.
ToEmulation ==
  /\ pc = "idle" /\ ~emulate
  /\ emulate' = TRUE /\ old' = FALSE
  /\ FieldOff /\ deaf' = TRUE
  /\ card' = Powered(FALSE, present)
  /\ Fine
  /\ UNCHANGED <<last_tag, present, pc, poll, ndef, depVars>>

-----------------------------------------------------------------------------
(* nfca_poll()                                                              *)

duty_cycling == last_tag = None

PollStart ==
  /\ pc = "idle" /\ ~emulate
  /\ \/ /\ Fine
        /\ IF duty_cycling THEN FieldOn ELSE field' = field
        /\ pc' = "request"
     \/ /\ duty_cycling /\ Fault
        /\ UNCHANGED <<field, pc>>
  /\ card' = Powered(field', present)
  /\ UNCHANGED <<app, deaf, present, poll, ndef, depVars>>

\* Tags that WUPA wakes.  (The mutant sends REQA.)
WokenByReqa == {t \in Tag : ~deaf /\ card[t] = "idle"}
Woken == {t \in Tag : ~deaf /\ card[t] \in {"idle", "halt"}}

\* One that was interrupted gives up instead of answering.
Request ==
  /\ pc = "request" /\ Woken # {}
  /\ card' = [t \in Tag |->
                CASE t \in Woken -> "ready"
                  [] ~deaf /\ card[t] \in {"ready", "active"} -> "idle"
                  [] OTHER -> card[t]]
  /\ lv' = 1 /\ pc' = "level"
  /\ Fine
  /\ UNCHANGED <<app, field, deaf, present, found, tag, ndef, depVars>>

\* The tag after a poll that found none.  (The mutant keeps it.)
Kept == last_tag
Remembered == IF old THEN None ELSE last_tag

\* Ok(None): no answer, or a lost one; and field_off(), which may fail.
NoTag ==
  /\ pc = "request" /\ pc' = "idle"
  /\ last_tag' = Remembered
  /\ \/ Woken = {} /\ Fine
     \/ Fault
  /\ \/ duty_cycling /\ FieldOff
     \/ (duty_cycling => faults' # faults) /\ field' = field
  /\ card' = [t \in Tag |->
                IF ~field' THEN "off"
                ELSE IF ~deaf /\ card[t] \in {"ready", "active"} THEN "idle"
                ELSE card[t]]
  /\ UNCHANGED <<emulate, old, deaf, present, poll, ndef, depVars>>

Ready == {t \in Tag : card[t] = "ready"}

\* The results of the search among any of the tags' responses.
Search ==
  LET all == UNION {{Uid[t][i] : i \in DOMAIN Uid[t]} : t \in Tag}
  IN  {[among |-> s, result |-> Level(s, high).result, rbuf |-> Level(s, high).rbuf] :
         s \in SUBSET all, high \in BOOLEAN}

\* nfca_anticollision_level() and its result.
AnticollisionLevel ==
  /\ pc = "level"
  /\ \E level \in Search :
       /\ level.among = {Uid[t][lv] : t \in Ready}
       /\ found' = level.rbuf
       /\ pc' = IF level.result = "ok" THEN "select" ELSE "idle"
  /\ Fine
  /\ UNCHANGED <<app, air, lv, tag, ndef, depVars>>

Selected == {t \in Ready : Uid[t][lv] = found}

\* SELECT with what was found; SAK says whether the UID is complete.
Select ==
  /\ pc = "select"
  /\ card' = [t \in Tag |->
                IF t \in Selected
                THEN IF lv = Len(Uid[t]) THEN "active" ELSE "ready"
                ELSE IF t \in Ready THEN "idle" ELSE card[t]]
  /\ \/ Selected = {} /\ pc' = "idle" /\ UNCHANGED <<lv, tag>>
     \/ \E t \in Selected :
          IF lv = Len(Uid[t])
          THEN pc' = "found" /\ tag' = t /\ lv' = lv
          ELSE pc' = "level" /\ tag' = tag /\ lv' = lv + 1
  /\ Fine
  /\ UNCHANGED <<app, field, deaf, present, found, ndef, depVars>>

\* A frame is lost or damaged: any error but I2C's changes nothing.
PollError ==
  /\ pc \in {"level", "select"} /\ Fault
  /\ pc' = "idle"
  /\ UNCHANGED <<app, air, poll, ndef, depVars>>

\* field_off() and configure_nfca(), each of which may fail as well.
PollI2cError ==
  /\ pc \in {"request", "level", "select"} /\ Fault
  /\ pc' = "idle"
  /\ ConfigureNfca \/ (field' \in {field, FALSE} /\ deaf' \in {deaf, FALSE})
  /\ card' \in {Powered(field', present),
                [t \in Tag |-> IF field' /\ t \in present THEN "idle" ELSE "off"]}
  /\ UNCHANGED <<app, present, poll, ndef, depVars>>

-----------------------------------------------------------------------------
(* on_new_tag()                                                             *)

\* Whether tag is the last one.  (The mutant compares the UIDs alone.)
SameUid == tag = last_tag /\ tag \notin RandomUid
Same ==
  \/ tag = last_tag /\ tag \notin RandomUid
  \/ tag \in RandomUid /\ last_tag \in RandomUid

\* nfca_halt(), which nobody checks.
Halt ==
  \/ /\ Fine
     /\ card' = [card EXCEPT ![tag] = IF @ = "active" THEN "halt" ELSE @]
  \/ /\ Fault
     /\ card' = card

KnownTag ==
  /\ pc = "found" /\ Same
  /\ old' = FALSE /\ pc' = "idle"
  /\ Halt
  /\ UNCHANGED <<emulate, last_tag, field, deaf, present, poll, ndef, depVars>>

NewTag ==
  /\ pc = "found" /\ ~Same
  /\ old' = FALSE
  /\ pc' = IF tag \in Type4 THEN "rats" ELSE "t2t"
  /\ alone' = IF present = {tag} THEN tag ELSE None
  /\ UNCHANGED <<emulate, last_tag, air, poll, ndef, faults, depVars>>

\* The panel shows it, whatever could be read.
Finish ==
  /\ pc' = "idle" /\ last_tag' = tag
  /\ step' = 1 /\ nlen' = 0 /\ msg' = <<>> /\ read' = FALSE

\* t2t_read(), whose result is drawn only, and nfca_halt().
ReadType2 ==
  /\ pc = "t2t"
  /\ Halt
  /\ Finish
  /\ UNCHANGED <<emulate, old, field, deaf, present, poll, depVars>>

Rats ==
  /\ pc = "rats" /\ card[tag] = "active"
  /\ card' = [card EXCEPT ![tag] = "protocol"]
  /\ pc' = "read"
  /\ Activate
  /\ Fine
  /\ UNCHANGED <<app, field, deaf, present, poll, ndef>>

RatsFails ==
  /\ pc = "rats"
  /\ \/ card[tag] # "active" /\ Fine /\ card' = card
     \/ /\ Fault
        /\ \E s \in {"active", "halt", "protocol"} :
             card' = [card EXCEPT ![tag] = IF @ = "active" THEN s ELSE @]
  /\ Finish
  /\ UNCHANGED <<emulate, old, field, deaf, present, poll, depVars>>

-----------------------------------------------------------------------------
(* read_type4()                                                             *)

Steps == <<"select-app", "select-cc", "read-cc", "select-ndef", "read-nlen", "read-ndef">>

chunk == IF nlen - Len(msg) < MLE THEN nlen - Len(msg) ELSE MLE

\* What the tag answers; data stands for CC and NLEN.
Answer ==
  CASE Steps[step] = "select-app" -> IF tag \in NoFile THEN <<NotFound>> ELSE <<Ok>>
    [] Steps[step] = "read-cc" -> <<MLE, Ok>>
    [] Steps[step] = "read-nlen" -> <<Len(File[tag]), Ok>>
    [] Steps[step] = "read-ndef" ->
         Append(SubSeq(File[tag], Len(msg) + 1, Len(msg) + chunk), Ok)
    [] OTHER -> <<Ok>>

SendApdu ==
  /\ pc = "read" /\ pc' = "exchange"
  /\ Exchange(Answer)
  /\ Fine
  /\ UNCHANGED <<app, air, poll, ndef>>

\* exchange() while the card is there, and when it is not.
Exchanging ==
  /\ pc = "exchange"
  /\ \/ card[tag] = "protocol" /\ Transceive /\ Fine
     \/ card[tag] # "protocol" /\ (Fails \/ GiveUp) /\ Fine
     \/ Fails /\ Fault
  /\ UNCHANGED <<app, air, pc, poll, ndef>>

status == rsp[Len(rsp)]

\* The exchange or the card's status ends the reading.
ReadFails ==
  /\ pc = "exchange"
  /\ ended = "error" \/ (ended = "ok" /\ status # Ok)
  /\ pc' = "deselect"
  /\ Fine
  /\ UNCHANGED <<app, air, poll, ndef, depVars>>

\* The loop condition of the chunks.
Chunks(m, n) ==
  IF Len(m) < n THEN pc' = "read" /\ step' = 6 /\ read' = FALSE
                ELSE pc' = "deselect" /\ step' = step /\ read' = TRUE

ReadStep ==
  /\ pc = "exchange" /\ ended = "ok" /\ status = Ok
  /\ CASE Steps[step] = "read-nlen" ->
            nlen' = rsp[1] /\ msg' = msg /\ Chunks(msg, rsp[1])
       [] Steps[step] = "read-ndef" ->
            /\ msg' = msg \o SubSeq(rsp, 1, chunk)
            /\ nlen' = nlen /\ Chunks(msg', nlen)
       [] OTHER ->
            pc' = "read" /\ step' = step + 1 /\ UNCHANGED <<nlen, msg, read>>
  /\ Fine
  /\ UNCHANGED <<app, air, poll, depVars>>

\* S(DESELECT), which nobody checks; the IsoDep value is dropped.
Deselect ==
  /\ pc = "deselect"
  /\ \/ /\ Fine
        /\ card' = [card EXCEPT ![tag] = IF @ = "protocol" THEN "halt" ELSE @]
     \/ /\ Fault
        /\ card' = card
  /\ Activate
  /\ Finish
  /\ UNCHANGED <<emulate, old, field, deaf, present, poll>>

-----------------------------------------------------------------------------
Device ==
  \/ PollStart \/ Request \/ NoTag \/ AnticollisionLevel \/ Select
  \/ PollError \/ PollI2cError
  \/ KnownTag \/ NewTag \/ ReadType2 \/ Rats \/ RatsFails
  \/ SendApdu \/ Exchanging \/ ReadFails \/ ReadStep \/ Deselect

Next ==
  \/ \E t \in Tag : Arrive(t) \/ Leave(t)
  \/ Elapse \/ ToReader \/ ToEmulation
  \/ Device

Fairness == WF_vars(Device) /\ WF_vars(Elapse)

Spec == Init /\ [][Next]_vars /\ Fairness

-----------------------------------------------------------------------------
Places == {"idle", "request", "level", "select", "found", "t2t", "rats",
           "read", "exchange", "deselect"}

CardStates == {"off", "idle", "ready", "active", "halt", "protocol"}

\* What each variable holds; exchange() makes no more than MAX_LOOPS
\* transceives (isodep.rs:117-120) and a message is not longer than NLEN.
ReaderTypeOK ==
  /\ emulate \in BOOLEAN /\ last_tag \in Tag \cup {None} /\ old \in BOOLEAN
  /\ field \in BOOLEAN /\ deaf \in BOOLEAN
  /\ present \subseteq Tag /\ card \in [Tag -> CardStates]
  /\ pc \in Places /\ lv \in 1..3 /\ found \in Response
  /\ tag \in Tag \cup {None}
  /\ step \in 1..6 /\ nlen \in Nat /\ msg \in Seq(Nat) /\ read \in BOOLEAN
  /\ Len(msg) <= nlen
  /\ faults \in 0..MaxFaults /\ alone \in Tag \cup {None}
  /\ DepTypeOK

\* A message that was read is the whole file of the tag, each byte once and
\* in order, however the card chained its answers, asked for time, or was
\* taken away (ndef.rs:42-99 over isodep.rs:86-149).
ReadIsWhole == read => msg = File[tag]

\* A tag that was announced and stays in the field alone is not announced
\* again while nothing fails: not after it is halted or deselected, not after
\* a time as long as one likes, not for its UID changing, and not for a visit
\* to emulation mode (mod.rs:720-733).
AnnouncedOnce == [][pc = "found" /\ pc' \in {"rats", "t2t"} => tag # alone]_vars

\* With no tag around the field goes off again and again, whatever was read
\* before and wherever a poll was left (mod.rs:694-748).
FieldGoesOff == <>[](present = {} /\ ~emulate) => []<>(~field)

\* A tag that stays, alone, is announced in the end and not forgotten again,
\* wherever a card that was interrupted was left, and however often it asks
\* for time (mod.rs:694-815, isodep.rs:117-120).
StayingTagIsFound ==
  \A t \in Tag :
    <>[](present = {t} /\ ~emulate /\ ~deaf) => <>[](last_tag = t)

\* One cascade level returns the response of some tag that answers
\* (st25r3916.rs:584-585).
LevelIsResponse ==
  pc = "select" => Ready = {} \/ found \in {Uid[t][lv] : t \in Ready}
=============================================================================
