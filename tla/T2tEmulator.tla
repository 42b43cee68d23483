---------------------------- MODULE T2tEmulator ----------------------------
(***************************************************************************)
(* The emulated Type 2 tag: T2tEmulator of src/t2t_emu.rs, the slices      *)
(* App::run_emulation_slice() of src/app/mod.rs gives it, the passive      *)
(* target logic of the ST25R3916 and a phone that reads or writes.  The    *)
(* chip latches what happens as interrupt flags; the emulator learns of it *)
(* when it polls, perhaps after the phone went on or went away.            *)
(*                                                                         *)
(* Abstractions.  User memory is the page with the TLV's length and two    *)
(* pages of data; a message fills both.  An update() is one step (a flag   *)
(* raised while it runs is seen by the next), its I2C accesses may fail.   *)
(* The oscillator is always found running (configure() leaves it on).      *)
(***************************************************************************)
EXTENDS Naturals, Sequences

CONSTANTS
    Msg,            \* NDEF messages
    Empty,          \* a TLV of length 0
    Erased,         \* no NDEF TLV: the terminator comes first
    Mixed,          \* what parsing yields when the pages do not fit together
    InitMsg,        \* the plate's message at boot
    Programs,       \* what a phone writes: sequences of [page, value]
    MaxField,       \* times a field appears
    MaxReinit,      \* failing updates, watchdog and button
    MaxBle          \* updates over BLE

Page == {"head", "p1", "p2"}
Value == Msg \cup {Empty, Erased, Mixed}

ASSUME TagAssumption ==
    /\ InitMsg \in Msg /\ Mixed \notin Msg \cup {Empty, Erased}
    /\ Programs \subseteq Seq([page : Page, value : Value])
    /\ MaxField \in Nat /\ MaxReinit \in Nat /\ MaxBle \in Nat

VARIABLES
    emu,            \* the emulator and the chip it configures
    memory,         \* user memory
    emu_running,    \* App.emu_running
    emulate,        \* App.emulate
    content,        \* the plate's message
    field,          \* a reader's field is there
    selected,       \* the reader thinks the tag is selected
    frame,          \* frame in the FIFO
    todo,           \* what the phone still has to write
    fields, reinits, bles,  \* bounds
    lost,           \* history: configure() dropped a dirty flag
    overlap         \* history: a BLE update came between a phone's writes

app == <<emu_running, emulate, content>>
reader == <<field, selected, frame, todo>>
counts == <<fields, reinits, bles>>
vars == <<emu, memory, app, reader, counts, lost, overlap>>

State == {"Off", "Idle", "Ready", "Active", "Halt"}
Irq == {"EON", "EOF", "NFCT", "RXE", "PTA", "WU_A", "WU_AX"}

\* auto: the chip answers anticollision; asleep: only to WUPA; no_crc: frames
\* are received without CRC, as anticollision needs.
Emulator ==
    [state : State, bitrate_106 : BOOLEAN, wakeup : BOOLEAN, dirty : BOOLEAN,
     auto : BOOLEAN, asleep : BOOLEAN, no_crc : BOOLEAN, irq : SUBSET Irq]

-----------------------------------------------------------------------------
(* Memory. *)

\* set_ndef()
Laid(m) == [head |-> m, p1 |-> m, p2 |-> m]

\* Mutant of Parsed: the data is read whatever length the TLV states.
ParsedPages(mem) == IF mem.p1 = mem.p2 THEN mem.p1 ELSE Mixed

\* ndef(), and what apply_ndef() would make of it.
Parsed(mem) ==
    IF mem.head \in {Empty, Erased} THEN mem.head
    ELSE IF mem.p1 = mem.head /\ mem.p2 = mem.head THEN mem.head
    ELSE Mixed

\* on_tag_written(): an erased or empty message keeps the content.  (The
\* mutant adopts whatever it finds.)
AdoptAnything(mem) == Parsed(mem)

Adopted(mem) == IF Parsed(mem) \in {Empty, Erased} THEN content ELSE Parsed(mem)

-----------------------------------------------------------------------------
(* The transitions of the emulator, each with the registers it sets. *)

Take(e, flags) == [e EXCEPT !.irq = @ \ flags]

\* Mutant of GotoIdle: the auto-responder stays off after a dropped command.
GotoIdleDeaf(e) == [e EXCEPT !.no_crc = TRUE, !.wakeup = FALSE, !.state = "Idle"]

GotoIdle(e) ==
    LET dropped == e.state = "Active" /\ ~e.wakeup
    IN  [e EXCEPT !.no_crc = TRUE, !.auto = @ \/ dropped, !.asleep = @ /\ ~dropped,
                  !.wakeup = FALSE, !.state = "Idle"]

\* Mutant of GotoOff: it forgets what was written.
GotoOffClean(e) ==
    LET o == [e EXCEPT !.bitrate_106 = FALSE, !.wakeup = FALSE, !.auto = TRUE,
                       !.asleep = FALSE, !.no_crc = TRUE, !.irq = {}, !.dirty = FALSE]
    IN  IF field THEN GotoIdle(o) ELSE [o EXCEPT !.state = "Off"]

GotoOff(e) ==
    LET o == [e EXCEPT !.bitrate_106 = FALSE, !.wakeup = FALSE, !.auto = TRUE,
                       !.asleep = FALSE, !.no_crc = TRUE, !.irq = {}]
    IN  IF field THEN GotoIdle(o) ELSE [o EXCEPT !.state = "Off"]

GotoReady(e) ==
    IF "EOF" \in e.irq THEN GotoOff(e)
    ELSE [e EXCEPT !.no_crc = FALSE, !.state = "Ready"]

GotoActive(e) == [e EXCEPT !.auto = FALSE, !.state = "Active"]

GotoHalt(e) ==
    IF field THEN [e EXCEPT !.auto = TRUE, !.asleep = TRUE, !.state = "Halt"]
    ELSE GotoOff(e)

-----------------------------------------------------------------------------
(* update(), by state.  Each yields the emulator; AfterUpdate adds the event. *)

OffUpdate ==
    IF "EON" \in emu.irq \/ field THEN GotoIdle(Take(emu, {"EON"})) ELSE emu

ListenUpdate ==
    LET e == Take(emu, {"NFCT", "RXE", "EOF", "PTA"})
        b == [e EXCEPT !.bitrate_106 = @ \/ "NFCT" \in emu.irq]
    IN  CASE "EOF" \in emu.irq -> GotoOff(b)
          [] "EOF" \notin emu.irq /\ "RXE" \in emu.irq -> b
          [] OTHER ->
                IF "PTA" \in emu.irq /\ b.bitrate_106
                THEN GotoReady([b EXCEPT !.wakeup = (emu.state = "Halt")])
                ELSE b

ReadyUpdate ==
    LET wake == IF emu.wakeup THEN "WU_AX" ELSE "WU_A"
        e == Take(emu, {"EOF", wake})
    IN  CASE "EOF" \in emu.irq -> GotoOff(e)
          [] "EOF" \notin emu.irq /\ wake \in emu.irq -> GotoActive(e)
          [] OTHER -> e

\* The frame is a command.
Command == [op : {"write"}, page : Page, value : Value] \cup [op : {"read", "hlta", "bad"}]

Drop(e) == IF e.wakeup THEN GotoHalt(e) ELSE GotoIdle(e)

HandleCommand(e) ==
    CASE frame.op = "write" -> [e EXCEPT !.dirty = TRUE]
      [] frame.op = "read"  -> e
      [] frame.op = "hlta"  -> GotoHalt(e)
      [] frame.op = "bad"   -> Drop(e)

\* Mutant of ActiveUpdate: a frame is served before the field is looked at.
ActiveUpdateFrameFirst ==
    LET e == Take(emu, {"EOF", "RXE"})
    IN  IF "RXE" \in emu.irq THEN HandleCommand(e)
        ELSE IF "EOF" \in emu.irq THEN GotoOff(e) ELSE e

ActiveUpdate ==
    LET e == Take(emu, {"EOF", "RXE"})
    IN  CASE "EOF" \in emu.irq -> GotoOff(e)
          [] "EOF" \notin emu.irq /\ "RXE" \in emu.irq -> HandleCommand(e)
          [] OTHER -> e

Updated ==
    CASE emu.state = "Off" -> OffUpdate
      [] emu.state \in {"Idle", "Halt"} -> ListenUpdate
      [] emu.state = "Ready" -> ReadyUpdate
      [] emu.state = "Active" -> ActiveUpdate

\* A WRITE that is served changes memory.
Served == emu.state = "Active" /\ "EOF" \notin emu.irq /\ "RXE" \in emu.irq

MemoryAfter ==
    IF Served /\ frame.op = "write" THEN [memory EXCEPT ![frame.page] = frame.value] ELSE memory

FifoAfter(e) == IF "RXE" \in e.irq THEN frame ELSE [op |-> "none"]

-----------------------------------------------------------------------------
(* The App's slices. *)

\* Event::FieldOff { written: true }
FieldOffWritten(e) == emu.state # "Off" /\ e.state = "Off" /\ e.dirty

Update ==
    /\ emulate /\ emu_running
    /\ frame' = FifoAfter(Updated)
    /\ IF FieldOffWritten(Updated)
       THEN /\ content' = Adopted(memory)
            /\ memory' = Laid(content')
            /\ emu' = [Updated EXCEPT !.dirty = FALSE]
       ELSE /\ memory' = MemoryAfter
            /\ emu' = [Updated EXCEPT !.dirty = @ /\ ~(emu.state # "Off" /\ Updated.state = "Off")]
            /\ UNCHANGED content
    /\ UNCHANGED <<emu_running, emulate, field, selected, todo, counts, lost, overlap>>

Reinit == reinits < MaxReinit /\ reinits' = reinits + 1

\* An I2C access of update() fails, the first or the one that answers a WRITE.
UpdateFails ==
    /\ emulate /\ emu_running
    /\ Reinit
    /\ emu_running' = FALSE
    /\ \/ UNCHANGED <<emu, memory, frame>>
       \/ /\ Served /\ frame.op = "write"
          /\ memory' = MemoryAfter
          /\ emu' = Updated
          /\ frame' = FifoAfter(Updated)
    /\ UNCHANGED <<emulate, content, field, selected, todo, fields, bles, lost, overlap>>

\* No event of the field for 120 s; a phone may be resting on the plate.
Watchdog ==
    /\ emulate /\ emu_running
    /\ Reinit
    /\ emu_running' = FALSE
    /\ UNCHANGED <<emu, memory, emulate, content, reader, fields, bles, lost, overlap>>

\* start(): the chip is initialised and configured.
Start ==
    /\ emulate /\ ~emu_running
    /\ emu_running' = TRUE
    /\ emu' = GotoOff([emu EXCEPT !.dirty = FALSE])
    /\ frame' = [op |-> "none"]
    /\ lost' = (lost \/ emu.dirty)
    /\ UNCHANGED <<memory, emulate, content, field, selected, todo, counts, overlap>>

\* Button A: to reader mode (stop(), then the chip is an initiator), and back.
ButtonA ==
    /\ IF emulate THEN Reinit ELSE UNCHANGED reinits
    /\ emulate' = ~emulate
    /\ emu_running' = FALSE
    /\ emu' = IF emulate /\ emu_running
              THEN [emu EXCEPT !.state = "Off", !.auto = FALSE, !.irq = {}]
              ELSE emu
    /\ frame' = [op |-> "none"]
    /\ UNCHANGED <<memory, content, field, selected, todo, fields, bles, lost, overlap>>

\* on_ble_content(): set_ndef() at any time between two slices.
BleContent(m) ==
    /\ bles < MaxBle
    /\ bles' = bles + 1
    /\ content' = m
    /\ memory' = Laid(m)
    /\ overlap' = (overlap \/ emu.dirty \/ todo # <<>>)
    /\ UNCHANGED <<emu, emu_running, emulate, reader, fields, reinits, lost>>

-----------------------------------------------------------------------------
(* The phone, and what the chip does by itself. *)

Raise(flags) == emu' = [emu EXCEPT !.irq = @ \cup flags]

FieldOn ==
    /\ ~field /\ fields < MaxField
    /\ field' = TRUE
    /\ fields' = fields + 1
    /\ Raise({"EON"})
    /\ UNCHANGED <<memory, app, selected, frame, todo, reinits, bles, lost, overlap>>

FieldOff ==
    /\ field
    /\ field' = FALSE /\ selected' = FALSE /\ todo' = <<>>
    /\ Raise({"EOF"})
    /\ UNCHANGED <<memory, app, frame, counts, lost, overlap>>

\* The chip answers anticollision: REQA, or WUPA when it sleeps.
Select ==
    /\ field /\ ~selected
    /\ emu_running /\ emu.auto
    /\ selected' = TRUE
    /\ todo' \in Programs
    /\ Raise({"NFCT", "PTA", IF emu.asleep THEN "WU_AX" ELSE "WU_A"})
    /\ UNCHANGED <<memory, app, field, frame, counts, lost, overlap>>

\* The reader's next command, when the last one was taken (answered or not).
Transmit ==
    /\ selected /\ frame.op = "none"
    /\ IF todo # <<>>
       THEN frame' = [op |-> "write", page |-> Head(todo).page, value |-> Head(todo).value]
       ELSE frame' \in [op : {"read", "hlta", "bad"}]
    /\ todo' = IF todo # <<>> THEN Tail(todo) ELSE todo
    /\ Raise({"RXE"})
    /\ UNCHANGED <<memory, app, field, selected, counts, lost, overlap>>

\* No answer, or none it expects: the reader polls afresh.
GiveUp ==
    /\ selected
    /\ selected' = FALSE /\ todo' = <<>>
    /\ UNCHANGED <<emu, memory, app, field, frame, counts, lost, overlap>>

\* A poll that the chip does not answer by itself is a stray frame.
Stray ==
    /\ field /\ ~selected /\ emu_running /\ ~emu.auto
    /\ frame.op = "none"
    /\ frame' = [op |-> "bad"]
    /\ Raise({"RXE"})
    /\ UNCHANGED <<memory, app, field, selected, todo, counts, lost, overlap>>

-----------------------------------------------------------------------------

Init ==
    /\ emu = [state |-> "Off", bitrate_106 |-> FALSE, wakeup |-> FALSE, dirty |-> FALSE,
              auto |-> FALSE, asleep |-> FALSE, no_crc |-> FALSE, irq |-> {}]
    /\ content = InitMsg
    /\ memory = Laid(InitMsg)
    /\ emu_running = FALSE
    /\ emulate = TRUE
    /\ field = FALSE /\ selected = FALSE
    /\ frame = [op |-> "none"]
    /\ todo = <<>>
    /\ fields = 0 /\ reinits = 0 /\ bles = 0
    /\ lost = FALSE /\ overlap = FALSE

Slice == Update \/ Start

Phone == FieldOn \/ FieldOff \/ Select \/ Transmit \/ GiveUp \/ Stray

Next ==
    \/ Slice \/ UpdateFails \/ Watchdog \/ ButtonA
    \/ \E m \in Msg : BleContent(m)
    \/ Phone

Spec == Init /\ [][Next]_vars

\* The main loop gives slices for ever, and every phone is taken away.
FairSpec == Spec /\ WF_vars(Slice) /\ WF_vars(FieldOff)

-----------------------------------------------------------------------------
(* Properties. *)

\* Every variable has its type.
TypeOK ==
    /\ emu \in Emulator
    /\ memory \in [Page -> Value]
    /\ emu_running \in BOOLEAN /\ emulate \in BOOLEAN
    /\ content \in Msg \cup {Mixed}
    /\ field \in BOOLEAN /\ selected \in BOOLEAN
    /\ frame \in Command \cup {[op |-> "none"]}
    /\ todo \in Seq([page : Page, value : Value])
    /\ fields \in 0..MaxField /\ reinits \in 0..MaxReinit /\ bles \in 0..MaxBle
    /\ lost \in BOOLEAN /\ overlap \in BOOLEAN

\* The chip is set for the state the emulator believes in: while it waits for
\* a reader the chip answers REQA by itself, without CRC; in Halt it answers
\* WUPA only; once selected the commands are ours.  A wrong bit left by any of
\* the transitions would make the tag invisible, or deaf when selected.
ChipFollowsState ==
    emu_running =>
        /\ emu.auto <=> emu.state # "Active"
        /\ emu.state \in {"Off", "Idle"} => emu.no_crc /\ ~emu.asleep
        /\ emu.state \in {"Ready", "Active"} => ~emu.no_crc /\ emu.asleep = emu.wakeup
        /\ emu.state = "Halt" => emu.asleep
        /\ emu.state = "Off" => ~emu.bitrate_106

\* Memory that is not what the plate last put there is reported when the
\* field goes.
WritesAreReported == memory # Laid(content) => emu.dirty

\* "`written` tells whether memory was modified during the session"
\* (t2t_emu.rs:66-67): it does for whatever a phone writes, as long as
\* configure() did not clear dirty (t2t_emu.rs:224) after the write.
WritesAreReportedOnce == ~lost => WritesAreReported

\* Whatever is interrupted, and however often the phone starts over, a phone
\* that writes in the order NDEF asks for (length 0, data, length) never leaves
\* a mixture of two messages on the plate; unless BLE rewrote the memory
\* between its writes.
PlateNotTorn == ~overlap => content # Mixed

\* What was written is adopted, once the phone is gone, and the memory that
\* the next phone reads is again the plate's own message: unless the button
\* ends emulation, or the emulator is configured anew.
WritesAreAdopted == emu.dirty ~> (memory = Laid(content) \/ lost \/ ~emulate)
=============================================================================
