------------------------- MODULE T2tEmulatorProofs -------------------------
(***************************************************************************)
(* The emulator's safety properties that hold for every set of messages,   *)
(* whatever phones write and whatever the bounds: types, ChipFollowsState, *)
(* WritesAreReportedOnce and, for phones that write in the order NDEF asks *)
(* for, PlateNotTorn.  IInv adds that a frame is there when the flag says  *)
(* one was received.                                                       *)
(***************************************************************************)
EXTENDS T2tEmulator, TLAPS

\* ChipFollowsState as a predicate of the emulator.
Chip(e) ==
    /\ e.auto <=> e.state # "Active"
    /\ e.state \in {"Off", "Idle"} => e.no_crc /\ ~e.asleep
    /\ e.state \in {"Ready", "Active"} => ~e.no_crc /\ e.asleep = e.wakeup
    /\ e.state = "Halt" => e.asleep
    /\ e.state = "Off" => ~e.bitrate_106

FrameThere == emu_running /\ "RXE" \in emu.irq => frame.op # "none"

IInv ==
    /\ TypeOK
    /\ FrameThere
    /\ ChipFollowsState
    /\ WritesAreReportedOnce

\* The rest of a sequence that is not empty.
LEMMA RestOk ==
    ASSUME NEW S, NEW s \in Seq(S), s # <<>>
    PROVE  Head(s) \in S /\ Tail(s) \in Seq(S)
OBVIOUS

LEMMA EmptyOk ==
    ASSUME NEW S
    PROVE  <<>> \in Seq(S)
OBVIOUS

\* What a transition from emulator d may do: it keeps the types, brings the
\* chip in line, raises no flag and keeps what was written.
Sound(d, e) == e \in Emulator /\ Chip(e) /\ e.irq \subseteq d.irq /\ e.dirty = d.dirty

-----------------------------------------------------------------------------
(* The transitions. *)

\* Taking flags changes nothing else.
LEMMA TakeOk ==
    ASSUME NEW e \in Emulator, NEW flags
    PROVE  LET t == Take(e, flags)
           IN  /\ t \in Emulator /\ t.irq \subseteq e.irq
               /\ t.state = e.state /\ t.bitrate_106 = e.bitrate_106
               /\ t.wakeup = e.wakeup /\ t.dirty = e.dirty /\ t.auto = e.auto
               /\ t.asleep = e.asleep /\ t.no_crc = e.no_crc
BY DEF Take, Emulator

\* goto_idle() needs an auto-responder that is on, unless it turns it on.
LEMMA GotoIdleOk ==
    ASSUME NEW e \in Emulator,
           (e.state = "Active" /\ ~e.wakeup) \/ (e.auto /\ ~e.asleep)
    PROVE  Sound(e, GotoIdle(e)) /\ GotoIdle(e).state = "Idle"
BY DEF Sound, Chip, GotoIdle, Emulator, State

\* goto_off() works from any state.
LEMMA GotoOffOk ==
    ASSUME NEW e \in Emulator
    PROVE  Sound(e, GotoOff(e)) /\ GotoOff(e).state \in {"Off", "Idle"}
<1> DEFINE o == [e EXCEPT !.bitrate_106 = FALSE, !.wakeup = FALSE, !.auto = TRUE,
                          !.asleep = FALSE, !.no_crc = TRUE, !.irq = {}]
<1>1. o \in Emulator /\ o.auto /\ ~o.asleep /\ o.no_crc /\ ~o.bitrate_106
      /\ o.irq = {} /\ o.dirty = e.dirty
  BY DEF Emulator
<1>2. CASE field
  <2>1. Sound(o, GotoIdle(o)) /\ GotoIdle(o).state = "Idle"
    BY <1>1, GotoIdleOk
  <2> QED
    BY <1>1, <1>2, <2>1 DEF GotoOff, Sound
<1>3. CASE ~field
  BY <1>1, <1>3 DEF GotoOff, Sound, Chip, Emulator, State
<1> QED
  BY <1>2, <1>3

\* goto_halt() works from any state.
LEMMA GotoHaltOk ==
    ASSUME NEW e \in Emulator
    PROVE  Sound(e, GotoHalt(e)) /\ GotoHalt(e).state \in {"Off", "Idle", "Halt"}
<1>1. CASE field
  BY <1>1 DEF GotoHalt, Sound, Chip, Emulator, State
<1>2. CASE ~field
  BY <1>2, GotoOffOk DEF GotoHalt
<1> QED
  BY <1>1, <1>2

\* goto_ready(), with wakeup remembering whether the chip slept.
LEMMA GotoReadyOk ==
    ASSUME NEW e \in Emulator, "EOF" \notin e.irq, e.auto, NEW h \in BOOLEAN, e.asleep = h
    PROVE  Sound(e, GotoReady([e EXCEPT !.wakeup = h]))
BY DEF GotoReady, Sound, Chip, Emulator, State

-----------------------------------------------------------------------------
(* update(), by state. *)

LEMMA OffUpdateOk ==
    ASSUME emu \in Emulator, Chip(emu), emu.state = "Off"
    PROVE  Sound(emu, OffUpdate)
<1>1. CASE "EON" \in emu.irq \/ field
  <2> DEFINE t == Take(emu, {"EON"})
  <2>1. t \in Emulator /\ t.irq \subseteq emu.irq /\ t.dirty = emu.dirty /\ t.auto /\ ~t.asleep
    BY TakeOk DEF Chip
  <2>2. Sound(t, GotoIdle(t))
    BY <2>1, GotoIdleOk
  <2> QED
    BY <1>1, <2>1, <2>2 DEF OffUpdate, Sound
<1>2. CASE ~("EON" \in emu.irq \/ field)
  BY <1>2 DEF OffUpdate, Sound
<1> QED
  BY <1>1, <1>2

\* In Idle and Halt the chip sleeps exactly in Halt, which is what wakeup
\* remembers in Ready.
LEMMA ListenUpdateOk ==
    ASSUME emu \in Emulator, Chip(emu), emu.state \in {"Idle", "Halt"}
    PROVE  Sound(emu, ListenUpdate)
<1> DEFINE t == Take(emu, {"NFCT", "RXE", "EOF", "PTA"})
           b == [t EXCEPT !.bitrate_106 = @ \/ "NFCT" \in emu.irq]
           w == [b EXCEPT !.wakeup = (emu.state = "Halt")]
<1>1. t \in Emulator /\ t.irq \subseteq emu.irq /\ t.state = emu.state /\ t.dirty = emu.dirty
      /\ t.auto = emu.auto /\ t.asleep = emu.asleep /\ t.no_crc = emu.no_crc
  BY TakeOk
<1>2. "EOF" \notin t.irq
  BY DEF Take, Emulator
<1>3. b \in Emulator /\ b.irq = t.irq /\ b.state = emu.state /\ b.dirty = emu.dirty
      /\ b.auto = emu.auto /\ b.asleep = emu.asleep /\ b.no_crc = emu.no_crc
  BY <1>1 DEF Emulator
<1>4. Sound(emu, b)
  BY <1>1, <1>3 DEF Sound, Chip
<1>5. Sound(emu, GotoOff(b))
  BY <1>1, <1>3, GotoOffOk DEF Sound
<1>6. Sound(emu, GotoReady(w))
  <2>1. (emu.state = "Halt") \in BOOLEAN
    OBVIOUS
  <2>2. emu.asleep = (emu.state = "Halt")
    <3>1. CASE emu.state = "Idle"
      BY <3>1 DEF Chip, Emulator
    <3>2. CASE emu.state = "Halt"
      BY <3>2 DEF Chip, Emulator
    <3> QED
      BY <3>1, <3>2
  <2>3. b \in Emulator /\ "EOF" \notin b.irq /\ b.auto /\ b.asleep = (emu.state = "Halt")
    BY <1>2, <1>3, <2>2 DEF Chip
  <2>4. Sound(b, GotoReady(w))
    BY <2>1, <2>3, GotoReadyOk, Zenon
  <2> QED
    BY <1>1, <1>3, <2>4 DEF Sound
<1>7. ListenUpdate \in {b, GotoOff(b), GotoReady(w)}
  BY DEF ListenUpdate
<1> QED
  BY <1>4, <1>5, <1>6, <1>7

LEMMA ReadyUpdateOk ==
    ASSUME emu \in Emulator, Chip(emu), emu.state = "Ready"
    PROVE  Sound(emu, ReadyUpdate)
<1> DEFINE wake == IF emu.wakeup THEN "WU_AX" ELSE "WU_A"
           t == Take(emu, {"EOF", wake})
<1>1. t \in Emulator /\ t.irq \subseteq emu.irq /\ t.state = "Ready" /\ t.dirty = emu.dirty
      /\ t.auto = emu.auto /\ t.asleep = emu.asleep /\ t.no_crc = emu.no_crc
      /\ t.wakeup = emu.wakeup
  BY TakeOk
<1>2. Sound(emu, t)
  BY <1>1 DEF Sound, Chip
<1>3. Sound(emu, GotoOff(t))
  BY <1>1, GotoOffOk DEF Sound
<1>4. Sound(emu, GotoActive(t))
  BY <1>1 DEF GotoActive, Sound, Chip, Emulator, State
<1>5. ReadyUpdate \in {t, GotoOff(t), GotoActive(t)}
  BY DEF ReadyUpdate
<1> QED
  BY <1>2, <1>3, <1>4, <1>5

\* A WRITE sets dirty and stays; every other command keeps dirty.
LEMMA ActiveUpdateOk ==
    ASSUME emu \in Emulator, Chip(emu), emu.state = "Active",
           frame \in Command \cup {[op |-> "none"]},
           "RXE" \in emu.irq => frame.op # "none"
    PROVE  /\ ActiveUpdate \in Emulator /\ Chip(ActiveUpdate)
           /\ ActiveUpdate.irq \subseteq emu.irq
           /\ Served /\ frame.op = "write" => ActiveUpdate.dirty /\ ActiveUpdate.state = "Active"
           /\ ~(Served /\ frame.op = "write") => ActiveUpdate.dirty = emu.dirty
<1> DEFINE t == Take(emu, {"EOF", "RXE"})
<1>1. t \in Emulator /\ t.irq \subseteq emu.irq /\ t.state = "Active" /\ t.dirty = emu.dirty
      /\ t.auto = emu.auto /\ t.asleep = emu.asleep /\ t.no_crc = emu.no_crc
      /\ t.wakeup = emu.wakeup
  BY TakeOk
<1>2. Sound(emu, t)
  BY <1>1 DEF Sound, Chip
<1>3. Sound(emu, GotoOff(t))
  BY <1>1, GotoOffOk DEF Sound
<1>4. Sound(emu, GotoHalt(t))
  BY <1>1, GotoHaltOk DEF Sound
<1>5. Sound(emu, Drop(t))
  BY <1>1, <1>4, GotoIdleOk DEF Drop, Sound
<1>6. CASE Served /\ frame.op = "write"
  <2>1. ActiveUpdate = [t EXCEPT !.dirty = TRUE]
    BY <1>6 DEF Served, ActiveUpdate, HandleCommand
  <2> QED
    BY <1>1, <1>6, <2>1 DEF Chip, Emulator, State
<1>7. CASE ~(Served /\ frame.op = "write")
  <2>1. Served => frame.op \in {"write", "read", "hlta", "bad"}
    BY DEF Served, Command
  <2>2. ActiveUpdate \in {t, GotoOff(t), GotoHalt(t), Drop(t)}
    BY <1>7, <2>1 DEF Served, ActiveUpdate, HandleCommand
  <2> QED
    BY <1>2, <1>3, <1>4, <1>5, <1>7, <2>2 DEF Sound
<1> QED
  BY <1>6, <1>7

\* What update() does to the emulator, in any state: see Sound and ActiveUpdateOk.
LEMMA UpdatedOk ==
    ASSUME IInv, emu_running
    PROVE  /\ Updated \in Emulator /\ Chip(Updated) /\ Updated.irq \subseteq emu.irq
           /\ Served /\ frame.op = "write" => Updated.dirty /\ Updated.state = "Active"
           /\ ~(Served /\ frame.op = "write") => Updated.dirty = emu.dirty
<1>1. emu \in Emulator /\ frame \in Command \cup {[op |-> "none"]}
  BY DEF IInv, TypeOK
<1>2. Chip(emu) /\ ("RXE" \in emu.irq => frame.op # "none")
  BY DEF IInv, ChipFollowsState, Chip, FrameThere
<1>3. CASE emu.state = "Off"
  BY <1>1, <1>2, <1>3, OffUpdateOk DEF Updated, Sound, Served
<1>4. CASE emu.state \in {"Idle", "Halt"}
  BY <1>1, <1>2, <1>4, ListenUpdateOk DEF Updated, Sound, Served
<1>5. CASE emu.state = "Ready"
  BY <1>1, <1>2, <1>5, ReadyUpdateOk DEF Updated, Sound, Served
<1>6. CASE emu.state = "Active"
  BY <1>1, <1>2, <1>6, ActiveUpdateOk DEF Updated
<1> QED
  BY <1>1, <1>3, <1>4, <1>5, <1>6 DEF Emulator, State

\* Memory and the FIFO keep their types, and only a served WRITE changes memory.
LEMMA MemoryOk ==
    ASSUME IInv, emu_running
    PROVE  /\ MemoryAfter \in [Page -> Value]
           /\ ~(Served /\ frame.op = "write") => MemoryAfter = memory
           /\ FifoAfter(Updated) \in Command \cup {[op |-> "none"]}
           /\ "RXE" \in Updated.irq => FifoAfter(Updated).op # "none"
<1>1. memory \in [Page -> Value] /\ frame \in Command \cup {[op |-> "none"]}
  BY DEF IInv, TypeOK
<1>2. frame.op = "write" => frame.page \in Page /\ frame.value \in Value
  BY <1>1 DEF Command
<1>3. MemoryAfter \in [Page -> Value]
  BY <1>1, <1>2 DEF MemoryAfter
<1>4. "RXE" \in Updated.irq => frame.op # "none"
  BY UpdatedOk DEF IInv, FrameThere
<1> QED
  BY <1>1, <1>3, <1>4 DEF MemoryAfter, FifoAfter

\* What set_ndef() lays out is a memory, and what is adopted is a message.
LEMMA ContentOk ==
    ASSUME IInv
    PROVE  /\ Adopted(memory) \in Msg \cup {Mixed}
           /\ \A m \in Msg \cup {Mixed} : Laid(m) \in [Page -> Value]
<1>1. memory.head \in Value /\ content \in Msg \cup {Mixed}
  <2>1. memory \in [Page -> Value] /\ content \in Msg \cup {Mixed}
    BY DEF IInv, TypeOK
  <2> QED
    BY <2>1 DEF Page
<1>2. Adopted(memory) \in Msg \cup {Mixed}
  BY <1>1 DEF Adopted, Parsed, Value
<1>3. ASSUME NEW m \in Msg \cup {Mixed} PROVE Laid(m) \in [Page -> Value]
  BY DEF Laid, Page, Value
<1> QED
  BY <1>2, <1>3

-----------------------------------------------------------------------------
(* The steps. *)

LEMMA InitOk == Init => IInv
<1> SUFFICES ASSUME Init PROVE IInv
  OBVIOUS
<1>1. Laid(InitMsg) \in [Page -> Value]
  BY TagAssumption DEF Laid, Page, Value
<1>2. todo \in Seq([page : Page, value : Value])
  BY EmptyOk DEF Init
<1>3. emu \in Emulator
  BY DEF Init, Emulator, State
<1>4. TypeOK
  <2>1. fields \in 0..MaxField /\ reinits \in 0..MaxReinit /\ bles \in 0..MaxBle
    BY TagAssumption DEF Init
  <2>2. content \in Msg \cup {Mixed} /\ memory \in [Page -> Value]
    BY <1>1, TagAssumption DEF Init
  <2>3. frame \in Command \cup {[op |-> "none"]}
    BY DEF Init
  <2> QED
    BY <1>2, <1>3, <2>1, <2>2, <2>3 DEF Init, TypeOK
<1> QED
  BY <1>4 DEF Init, IInv, FrameThere, ChipFollowsState, WritesAreReportedOnce, WritesAreReported

LEMMA UpdateStep == IInv /\ Update => IInv'
<1> SUFFICES ASSUME IInv, Update PROVE IInv'
  OBVIOUS
<1>1. TypeOK /\ emu_running /\ emu_running' /\ lost' = lost
  BY DEF IInv, Update
<1>2. frame' = FifoAfter(Updated)
  BY DEF Update
<1>3. CASE FieldOffWritten(Updated)
  <2>1. /\ content' = Adopted(memory) /\ memory' = Laid(content')
        /\ emu' = [Updated EXCEPT !.dirty = FALSE]
    BY <1>3 DEF Update
  <2>2. emu' \in Emulator /\ Chip(emu') /\ emu'.irq = Updated.irq
    BY <1>1, <2>1, UpdatedOk DEF Chip, Emulator
  <2>3. TypeOK'
    BY <1>1, <1>2, <2>1, <2>2, ContentOk, MemoryOk DEF TypeOK, Update, counts
  <2> QED
    BY <1>1, <1>2, <2>1, <2>2, <2>3, MemoryOk
    DEF IInv, FrameThere, ChipFollowsState, Chip, WritesAreReportedOnce, WritesAreReported
<1>4. CASE ~FieldOffWritten(Updated)
  <2> DEFINE left == emu.state # "Off" /\ Updated.state = "Off"
  <2>1. /\ memory' = MemoryAfter /\ content' = content
        /\ emu' = [Updated EXCEPT !.dirty = @ /\ ~left]
    BY <1>4 DEF Update
  <2>2. left => ~Updated.dirty
    BY <1>1, <1>4, UpdatedOk DEF FieldOffWritten
  <2>3. emu' = Updated
    BY <1>1, <2>1, <2>2, UpdatedOk DEF Emulator
  <2>4. TypeOK'
    BY <1>1, <1>2, <2>1, <2>3, UpdatedOk, MemoryOk DEF TypeOK, Update, counts
  <2>5. (memory # Laid(content) => emu.dirty) \/ lost
    BY DEF IInv, WritesAreReportedOnce, WritesAreReported
  <2>6. (memory' # Laid(content') => emu'.dirty) \/ lost'
    BY <1>1, <2>1, <2>3, <2>5, UpdatedOk, MemoryOk
  <2> QED
    BY <1>1, <1>2, <2>3, <2>4, <2>6, UpdatedOk, MemoryOk
    DEF IInv, FrameThere, ChipFollowsState, Chip, WritesAreReportedOnce, WritesAreReported
<1> QED
  BY <1>3, <1>4

\* A failing update() either did nothing or changed memory and set dirty.
LEMMA UpdateFailsStep == IInv /\ UpdateFails => IInv'
<1> SUFFICES ASSUME IInv, UpdateFails PROVE IInv'
  OBVIOUS
<1>1. TypeOK /\ emu_running /\ ~emu_running' /\ lost' = lost /\ content' = content
  BY DEF IInv, UpdateFails
<1>2. reinits' \in 0..MaxReinit
  BY <1>1, TagAssumption DEF TypeOK, UpdateFails, Reinit
<1>3. (memory # Laid(content) => emu.dirty) \/ lost
  BY DEF IInv, WritesAreReportedOnce, WritesAreReported
<1>4. CASE UNCHANGED <<emu, memory, frame>>
  <2>1. TypeOK'
    BY <1>1, <1>2, <1>4 DEF TypeOK, UpdateFails
  <2> QED
    BY <1>1, <1>3, <1>4, <2>1
    DEF IInv, FrameThere, ChipFollowsState, WritesAreReportedOnce, WritesAreReported
<1>5. CASE /\ Served /\ frame.op = "write" /\ memory' = MemoryAfter
           /\ emu' = Updated /\ frame' = FifoAfter(Updated)
  <2>1. emu' \in Emulator /\ emu'.dirty
    BY <1>1, <1>5, UpdatedOk
  <2>2. TypeOK'
    BY <1>1, <1>2, <1>5, <2>1, MemoryOk DEF TypeOK, UpdateFails
  <2> QED
    BY <1>1, <2>1, <2>2
    DEF IInv, FrameThere, ChipFollowsState, WritesAreReportedOnce, WritesAreReported
<1> QED
  BY <1>4, <1>5 DEF UpdateFails

\* start() forgets dirty, and lost remembers that it did.
LEMMA StartStep == IInv /\ Start => IInv'
<1> SUFFICES ASSUME IInv, Start PROVE IInv'
  OBVIOUS
<1> DEFINE c == [emu EXCEPT !.dirty = FALSE]
<1>1. TypeOK /\ emu_running' /\ emu' = GotoOff(c) /\ lost' = (lost \/ emu.dirty)
      /\ memory' = memory /\ content' = content
  BY DEF IInv, Start
<1>2. c \in Emulator
  BY <1>1 DEF TypeOK, Emulator
<1>3. emu' \in Emulator /\ Chip(emu')
  BY <1>1, <1>2, GotoOffOk DEF Sound
<1>4. emu'.irq = {}
  BY <1>1, <1>2 DEF GotoOff, GotoIdle, Emulator
<1>5. lost' \in BOOLEAN
  BY <1>1 DEF TypeOK, Emulator
<1>6. TypeOK'
  BY <1>1, <1>3, <1>5 DEF TypeOK, Start, counts
<1>7. (memory # Laid(content) => emu.dirty) \/ lost
  BY DEF IInv, WritesAreReportedOnce, WritesAreReported
<1> QED
  BY <1>1, <1>3, <1>4, <1>6, <1>7
  DEF IInv, FrameThere, ChipFollowsState, Chip, WritesAreReportedOnce, WritesAreReported

LEMMA ButtonAStep == IInv /\ ButtonA => IInv'
<1> SUFFICES ASSUME IInv, ButtonA PROVE IInv'
  OBVIOUS
<1>1. TypeOK /\ ~emu_running' /\ lost' = lost /\ memory' = memory /\ content' = content
  BY DEF IInv, ButtonA
<1>2. reinits' \in 0..MaxReinit
  BY <1>1, TagAssumption DEF TypeOK, ButtonA, Reinit
<1>3. emu' \in Emulator /\ emu'.dirty = emu.dirty
  BY <1>1 DEF TypeOK, ButtonA, Emulator, State
<1>4. TypeOK'
  BY <1>1, <1>2, <1>3 DEF TypeOK, ButtonA
<1> QED
  BY <1>1, <1>3, <1>4
  DEF IInv, FrameThere, ChipFollowsState, WritesAreReportedOnce, WritesAreReported

\* set_ndef() over BLE makes memory the plate's message, dirty or not.
LEMMA BleContentStep == IInv /\ (\E m \in Msg : BleContent(m)) => IInv'
<1> SUFFICES ASSUME IInv, NEW m \in Msg, BleContent(m) PROVE IInv'
  OBVIOUS
<1>1. TypeOK /\ UNCHANGED <<emu, emu_running, frame, lost>>
      /\ content' = m /\ memory' = Laid(m)
  BY DEF IInv, BleContent, reader
<1>2. overlap' \in BOOLEAN /\ bles' \in 0..MaxBle
  BY <1>1, TagAssumption DEF TypeOK, BleContent, Emulator
<1>3. TypeOK'
  BY <1>1, <1>2, ContentOk DEF TypeOK, BleContent, reader
<1> QED
  BY <1>1, <1>3
  DEF IInv, FrameThere, ChipFollowsState, WritesAreReportedOnce, WritesAreReported

\* The reader and the chip raise flags and put frames into the FIFO; nothing
\* that the emulator set changes.
LEMMA PhoneStep == IInv /\ Phone => IInv'
<1> SUFFICES ASSUME IInv, Phone PROVE IInv'
  OBVIOUS
<1>1. TypeOK /\ UNCHANGED <<memory, app, lost, overlap, reinits, bles>>
  BY DEF IInv, Phone, FieldOn, FieldOff, Select, Transmit, GiveUp, Stray, counts
<1>2. emu' \in Emulator /\ emu'.dirty = emu.dirty /\ (Chip(emu) => Chip(emu'))
  <2>1. ASSUME NEW flags \in SUBSET Irq, Raise(flags)
        PROVE  emu' \in Emulator /\ emu'.dirty = emu.dirty /\ (Chip(emu) => Chip(emu'))
    BY <1>1, <2>1 DEF TypeOK, Raise, Emulator, Chip
  <2>2. \/ emu' = emu
        \/ Raise({"EON"}) \/ Raise({"EOF"}) \/ Raise({"RXE"})
        \/ Raise({"NFCT", "PTA", "WU_AX"}) \/ Raise({"NFCT", "PTA", "WU_A"})
    BY DEF Phone, FieldOn, FieldOff, Select, Transmit, GiveUp, Stray
  <2> QED
    BY <1>1, <2>1, <2>2 DEF TypeOK, Irq
<1>3. frame' \in Command \cup {[op |-> "none"]} /\ todo' \in Seq([page : Page, value : Value])
  <2>1. CASE Transmit
    <3>1. CASE todo # <<>>
      <4>1. Head(todo) \in [page : Page, value : Value] /\ Tail(todo) \in Seq([page : Page, value : Value])
        BY <1>1, <3>1, RestOk DEF TypeOK
      <4> QED
        BY <2>1, <3>1, <4>1 DEF Transmit, Command
    <3>2. CASE todo = <<>>
      BY <1>1, <2>1, <3>2 DEF Transmit, Command, TypeOK
    <3> QED
      BY <3>1, <3>2
  <2>2. CASE Select
    BY <1>1, <2>2, TagAssumption DEF Select, TypeOK
  <2>3. CASE Stray
    BY <1>1, <2>3 DEF Stray, Command, TypeOK
  <2>4. CASE FieldOn \/ FieldOff \/ GiveUp
    <3>1. frame' = frame /\ (todo' = todo \/ todo' = <<>>)
      BY <2>4 DEF FieldOn, FieldOff, GiveUp
    <3> QED
      BY <1>1, <3>1, EmptyOk DEF TypeOK
  <2> QED
    BY <2>1, <2>2, <2>3, <2>4 DEF Phone
<1>4. field' \in BOOLEAN /\ selected' \in BOOLEAN /\ fields' \in 0..MaxField
  <2>1. field \in BOOLEAN /\ selected \in BOOLEAN /\ fields \in 0..MaxField /\ MaxField \in Nat
    BY <1>1, TagAssumption DEF TypeOK
  <2>2. CASE FieldOn
    BY <2>1, <2>2 DEF FieldOn
  <2>3. CASE FieldOff
    BY <2>1, <2>3 DEF FieldOff, counts
  <2>4. CASE Select \/ Transmit \/ GiveUp \/ Stray
    BY <2>1, <2>4 DEF Select, Transmit, GiveUp, Stray, counts
  <2> QED
    BY <2>2, <2>3, <2>4 DEF Phone
<1>5. FrameThere'
  <2>1. CASE Transmit \/ Stray
    BY <2>1 DEF Transmit, Stray, FrameThere
  <2>2. CASE FieldOn \/ FieldOff \/ Select \/ GiveUp
    <3>1. frame' = frame /\ ("RXE" \in emu'.irq => "RXE" \in emu.irq) /\ emu_running' = emu_running
      BY <1>1, <2>2 DEF TypeOK, Emulator, FieldOn, FieldOff, Select, GiveUp, Raise, app
    <3> QED
      BY <3>1 DEF IInv, FrameThere
  <2> QED
    BY <2>1, <2>2 DEF Phone
<1>6. TypeOK'
  BY <1>1, <1>2, <1>3, <1>4 DEF TypeOK, app
<1>7. ChipFollowsState'
  BY <1>1, <1>2 DEF IInv, ChipFollowsState, Chip, app
<1> QED
  BY <1>1, <1>2, <1>5, <1>6, <1>7 DEF IInv, WritesAreReportedOnce, WritesAreReported, app

-----------------------------------------------------------------------------
(* No mixture of two messages.                                              *)
(*                                                                          *)
(* A frame that the emulator drops could leave a gap in what the phone      *)
(* writes; the frames after it must not be served then.  Fine says so: the  *)
(* emulator either waits for a selection that has not come (a frame in the  *)
(* FIFO, or no PTA), or what it was sent, and what the phone still has to   *)
(* send, continues what memory holds.                                       *)

Write(p, v) == [page |-> p, value |-> v]

\* The order NDEF asks for: length 0, data, length; and what is left of it.
Whole(m) == <<Write("head", Empty), Write("p1", m), Write("p2", m), Write("head", m)>>
AfterHead(m) == <<Write("p1", m), Write("p2", m), Write("head", m)>>
AfterP1(m) == <<Write("p2", m), Write("head", m)>>
AfterP2(m) == <<Write("head", m)>>
Erase == <<Write("head", Erased)>>

Fresh(s) == s \in {<<>>, Erase} \/ \E m \in Msg : s = Whole(m)

InNdefOrder == \A s \in Programs : Fresh(s)

Rest(mem, s) ==
    /\ mem.head = Empty
    /\ \E m \in Msg : \/ s = AfterHead(m)
                      \/ s = AfterP1(m) /\ mem.p1 = m
                      \/ s = AfterP2(m) /\ mem.p1 = m /\ mem.p2 = m

\* Memory after the write in frame f.
Put(mem, f) == [mem EXCEPT ![f.page] = f.value]

Begins(f) == f.page = "head" /\ f.value \in {Empty, Erased}

Extends(mem, f) ==
    /\ mem.head = Empty
    /\ f.page = "head" => f.value \in Msg /\ mem.p1 = f.value /\ mem.p2 = f.value

\* d: memory was written in this session.
Fits(d, mem, f, s) ==
    IF f.op = "write"
    THEN /\ Begins(f) \/ (d /\ Extends(mem, f))
         /\ Fresh(s) \/ Rest(Put(mem, f), s)
    ELSE Fresh(s) \/ (d /\ Rest(mem, s))

Fine(e, mem, f, s) ==
    \/ e.state \in {"Off", "Idle", "Halt"} /\ (f.op # "none" \/ "PTA" \notin e.irq)
    \/ Fits(e.dirty, mem, f, s)

FrameFlag == frame.op # "none" => "RXE" \in emu.irq

Untorn ==
    ~overlap => /\ Parsed(memory) # Mixed /\ content # Mixed
                /\ emu_running => Fine(emu, memory, frame, todo)

TornInv == IInv /\ FrameFlag /\ Untorn

\* Taking the first write of a sequence.
LEMMA Sequences ==
    /\ Erase # <<>> /\ Head(Erase) = Write("head", Erased) /\ Tail(Erase) = <<>>
    /\ \A m : /\ Whole(m) # <<>> /\ Head(Whole(m)) = Write("head", Empty)
              /\ AfterHead(m) # <<>> /\ Head(AfterHead(m)) = Write("p1", m)
              /\ AfterP1(m) # <<>> /\ Head(AfterP1(m)) = Write("p2", m)
              /\ AfterP2(m) # <<>> /\ Head(AfterP2(m)) = Write("head", m)
    /\ \A m : /\ Tail(Whole(m)) = AfterHead(m) /\ Tail(AfterHead(m)) = AfterP1(m)
              /\ Tail(AfterP1(m)) = AfterP2(m) /\ Tail(AfterP2(m)) = <<>>
<1>1. Erase # <<>> /\ Head(Erase) = Write("head", Erased) /\ Tail(Erase) = <<>>
  BY DEF Erase
<1>2. ASSUME NEW m
      PROVE  /\ Whole(m) # <<>> /\ Head(Whole(m)) = Write("head", Empty)
             /\ Tail(Whole(m)) = AfterHead(m)
  BY DEF Whole, AfterHead
<1>3. ASSUME NEW m
      PROVE  /\ AfterHead(m) # <<>> /\ Head(AfterHead(m)) = Write("p1", m)
             /\ Tail(AfterHead(m)) = AfterP1(m)
  BY DEF AfterHead, AfterP1
<1>4. ASSUME NEW m
      PROVE  /\ AfterP1(m) # <<>> /\ Head(AfterP1(m)) = Write("p2", m)
             /\ Tail(AfterP1(m)) = AfterP2(m)
  BY DEF AfterP1, AfterP2
<1>5. ASSUME NEW m
      PROVE  /\ AfterP2(m) # <<>> /\ Head(AfterP2(m)) = Write("head", m)
             /\ Tail(AfterP2(m)) = <<>>
  BY DEF AfterP2
<1> QED
  BY <1>1, <1>2, <1>3, <1>4, <1>5

LEMMA ParsedOk ==
    ASSUME NEW mem
    PROVE  /\ mem.head \in {Empty, Erased} => Parsed(mem) # Mixed
           /\ mem.head \in Msg /\ mem.p1 = mem.head /\ mem.p2 = mem.head => Parsed(mem) # Mixed
<1>1. Mixed # Empty /\ Mixed # Erased /\ Mixed \notin Msg
  BY TagAssumption
<1> QED
  BY <1>1 DEF Parsed

\* A served write leaves a memory that parses, and the rest continues it.
LEMMA ServeOk ==
    ASSUME NEW mem \in [Page -> Value], NEW f \in Command, f.op = "write",
           NEW d \in BOOLEAN, NEW s, Fits(d, mem, f, s), NEW none, none.op = "none"
    PROVE  Parsed(Put(mem, f)) # Mixed /\ Fits(TRUE, Put(mem, f), none, s)
<1>1. f.page \in Page /\ f.value \in Value
  BY DEF Command
<1>2. /\ Put(mem, f)[f.page] = f.value
      /\ \A p \in Page : p # f.page => Put(mem, f)[p] = mem[p]
  BY <1>1 DEF Put
<1>3. Fits(TRUE, Put(mem, f), none, s)
  BY DEF Fits
<1> SUFFICES Parsed(Put(mem, f)) # Mixed
  BY <1>3
<1>4. CASE Begins(f)
  <2>1. Put(mem, f).head \in {Empty, Erased}
    BY <1>2, <1>4 DEF Begins
  <2> QED
    BY <2>1, ParsedOk
<1>5. CASE Extends(mem, f)
  <2>1. CASE f.page = "head"
    <3>1. /\ Put(mem, f).head = f.value /\ f.value \in Msg
          /\ Put(mem, f).p1 = f.value /\ Put(mem, f).p2 = f.value
      BY <1>2, <1>5, <2>1 DEF Extends, Page
    <3> QED
      BY <3>1, ParsedOk
  <2>2. CASE f.page # "head"
    <3>1. Put(mem, f).head = Empty
      BY <1>2, <1>5, <2>2 DEF Extends, Page
    <3> QED
      BY <3>1, ParsedOk
  <2> QED
    BY <2>1, <2>2
<1> QED
  BY <1>3, <1>4, <1>5 DEF Fits

\* The next write of a sequence that continues memory.
LEMMA SendOk ==
    ASSUME NEW d \in BOOLEAN, NEW mem \in [Page -> Value], NEW s, s # <<>>,
           NEW none, none.op = "none", Fits(d, mem, none, s),
           NEW f, f = [op |-> "write", page |-> Head(s).page, value |-> Head(s).value]
    PROVE  Fits(d, mem, f, Tail(s))
<1>1. Fresh(s) \/ (d /\ Rest(mem, s))
  BY DEF Fits
<1>2. CASE s = Erase
  BY <1>2, Sequences DEF Fits, Begins, Fresh, Write
<1>3. ASSUME NEW m \in Msg, s = Whole(m) PROVE Fits(d, mem, f, Tail(s))
  <2>1. f.op = "write" /\ f.page = "head" /\ f.value = Empty /\ Tail(s) = AfterHead(m)
    BY <1>3, Sequences DEF Write
  <2>2. Put(mem, f).head = Empty
    BY <2>1 DEF Put, Page
  <2> QED
    BY <2>1, <2>2 DEF Fits, Begins, Rest
<1>4. ASSUME NEW m \in Msg, d, mem.head = Empty, s = AfterHead(m)
      PROVE  Fits(d, mem, f, Tail(s))
  <2>1. f.op = "write" /\ f.page = "p1" /\ f.value = m /\ Tail(s) = AfterP1(m)
    BY <1>4, Sequences DEF Write
  <2>2. Put(mem, f).head = Empty /\ Put(mem, f).p1 = m
    BY <1>4, <2>1 DEF Put, Page
  <2> QED
    BY <1>4, <2>1, <2>2 DEF Fits, Extends, Rest
<1>5. ASSUME NEW m \in Msg, d, mem.head = Empty, s = AfterP1(m), mem.p1 = m
      PROVE  Fits(d, mem, f, Tail(s))
  <2>1. f.op = "write" /\ f.page = "p2" /\ f.value = m /\ Tail(s) = AfterP2(m)
    BY <1>5, Sequences DEF Write
  <2>2. Put(mem, f).head = Empty /\ Put(mem, f).p1 = m /\ Put(mem, f).p2 = m
    BY <1>5, <2>1 DEF Put, Page
  <2> QED
    BY <1>5, <2>1, <2>2 DEF Fits, Extends, Rest
<1>6. ASSUME NEW m \in Msg, d, mem.head = Empty, s = AfterP2(m), mem.p1 = m, mem.p2 = m
      PROVE  Fits(d, mem, f, Tail(s))
  <2>1. f.op = "write" /\ f.page = "head" /\ f.value = m /\ Tail(s) = <<>>
    BY <1>6, Sequences DEF Write
  <2> QED
    BY <1>6, <2>1 DEF Fits, Extends, Fresh
<1> QED
  BY <1>1, <1>2, <1>3, <1>4, <1>5, <1>6 DEF Fresh, Rest

\* What is dropped at the emulator's end does not come back: without PTA the
\* emulator waits for the next selection.
Quiet(e) == e.state \in {"Off", "Idle", "Halt"} /\ "PTA" \notin e.irq

LEMMA GotoOffQuiet ==
    ASSUME NEW e \in Emulator
    PROVE  Quiet(GotoOff(e)) /\ GotoOff(e).irq = {}
BY GotoOffOk DEF GotoOff, GotoIdle, Quiet, Emulator

\* update() leaves the emulator quiet, or lets the session go on without a loss.
LEMMA OffGoesOn ==
    ASSUME emu \in Emulator, emu.state = "Off"
    PROVE  /\ OffUpdate.state \in {"Off", "Idle"} /\ OffUpdate.dirty = emu.dirty
           /\ "PTA" \in OffUpdate.irq <=> "PTA" \in emu.irq
           /\ "RXE" \in OffUpdate.irq <=> "RXE" \in emu.irq
BY DEF OffUpdate, Take, GotoIdle, Emulator

LEMMA ListenGoesOn ==
    ASSUME emu \in Emulator, emu.state \in {"Idle", "Halt"}
    PROVE  /\ Quiet(ListenUpdate) \/ ("RXE" \notin emu.irq /\ "PTA" \in emu.irq)
           /\ ListenUpdate.dirty = emu.dirty /\ "RXE" \notin ListenUpdate.irq
           /\ ListenUpdate.state = "Off" => Quiet(ListenUpdate)
<1> DEFINE t == Take(emu, {"NFCT", "RXE", "EOF", "PTA"})
           b == [t EXCEPT !.bitrate_106 = @ \/ "NFCT" \in emu.irq]
           w == [b EXCEPT !.wakeup = (emu.state = "Halt")]
<1>1. /\ b \in Emulator /\ b.state = emu.state /\ b.dirty = emu.dirty
      /\ b.irq = emu.irq \ {"NFCT", "RXE", "EOF", "PTA"}
  BY DEF Take, Emulator
<1>2. Quiet(b)
  BY <1>1 DEF Quiet
<1>3. Quiet(GotoOff(b)) /\ GotoOff(b).irq = {} /\ GotoOff(b).dirty = b.dirty
  BY <1>1, GotoOffQuiet, GotoOffOk DEF Sound
<1>4. /\ GotoReady(w).state = "Ready" /\ GotoReady(w).irq = b.irq
      /\ GotoReady(w).dirty = b.dirty
  BY <1>1 DEF GotoReady, Emulator
<1>5. \/ ListenUpdate \in {b, GotoOff(b)}
      \/ ListenUpdate = GotoReady(w) /\ "RXE" \notin emu.irq /\ "PTA" \in emu.irq
  BY DEF ListenUpdate
<1> QED
  BY <1>1, <1>2, <1>3, <1>4, <1>5

LEMMA ReadyGoesOn ==
    ASSUME emu \in Emulator, emu.state = "Ready"
    PROVE  /\ ReadyUpdate.dirty = emu.dirty
           /\ \/ Quiet(ReadyUpdate) /\ ReadyUpdate.irq = {}
              \/ /\ ReadyUpdate.state \in {"Ready", "Active"}
                 /\ "RXE" \in ReadyUpdate.irq <=> "RXE" \in emu.irq
<1> DEFINE wake == IF emu.wakeup THEN "WU_AX" ELSE "WU_A"
           t == Take(emu, {"EOF", wake})
<1>1. /\ t \in Emulator /\ t.state = "Ready" /\ t.dirty = emu.dirty
      /\ "RXE" \in t.irq <=> "RXE" \in emu.irq
  BY DEF Take, Emulator
<1>2. Quiet(GotoOff(t)) /\ GotoOff(t).irq = {} /\ GotoOff(t).dirty = t.dirty
  BY <1>1, GotoOffQuiet, GotoOffOk DEF Sound
<1>3. /\ GotoActive(t).state = "Active" /\ GotoActive(t).irq = t.irq
      /\ GotoActive(t).dirty = t.dirty
  BY <1>1 DEF GotoActive, Emulator
<1>4. ReadyUpdate \in {t, GotoOff(t), GotoActive(t)}
  BY DEF ReadyUpdate
<1> QED
  BY <1>1, <1>2, <1>3, <1>4

LEMMA ActiveGoesOn ==
    ASSUME emu \in Emulator, emu.state = "Active",
           frame \in Command \cup {[op |-> "none"]}, "RXE" \in emu.irq => frame.op # "none"
    PROVE  /\ "RXE" \notin ActiveUpdate.irq
           /\ Quiet(ActiveUpdate) \/ Served \/ "RXE" \notin emu.irq
           /\ ActiveUpdate.state = "Off" => Quiet(ActiveUpdate)
<1> DEFINE t == Take(emu, {"EOF", "RXE"})
<1>1. t \in Emulator /\ t.state = "Active" /\ "RXE" \notin t.irq
  BY DEF Take, Emulator
<1>2. Quiet(GotoOff(t)) /\ GotoOff(t).irq = {}
  BY <1>1, GotoOffQuiet
<1>3. "RXE" \notin GotoHalt(t).irq /\ (GotoHalt(t).state = "Off" => Quiet(GotoHalt(t)))
  BY <1>1, <1>2 DEF GotoHalt, Emulator
<1>4. GotoIdle(t).irq = t.irq /\ GotoIdle(t).state = "Idle"
  BY <1>1 DEF GotoIdle, Emulator
<1>5. CASE "EOF" \in emu.irq
  BY <1>2, <1>5 DEF ActiveUpdate
<1>6. CASE "EOF" \notin emu.irq /\ "RXE" \in emu.irq
  <2>1. Served /\ frame.op \in {"write", "read", "hlta", "bad"}
    BY <1>6 DEF Served, Command
  <2>2. ActiveUpdate \in {[t EXCEPT !.dirty = TRUE], t, GotoHalt(t), GotoIdle(t)}
    BY <1>6, <2>1 DEF ActiveUpdate, HandleCommand, Drop
  <2>3. /\ [t EXCEPT !.dirty = TRUE].irq = t.irq
        /\ [t EXCEPT !.dirty = TRUE].state = "Active"
    BY <1>1 DEF Emulator
  <2> QED
    BY <1>1, <1>3, <1>4, <2>1, <2>2, <2>3
<1>7. CASE "EOF" \notin emu.irq /\ "RXE" \notin emu.irq
  BY <1>1, <1>7 DEF ActiveUpdate
<1> QED
  BY <1>5, <1>6, <1>7

\* A frame that was not taken, or none.
LEMMA FifoKept ==
    ASSUME FrameFlag, frame \in Command \cup {[op |-> "none"]}
    PROVE  /\ FifoAfter(Updated).op # "none" => "RXE" \in Updated.irq
           /\ "RXE" \notin Updated.irq => FifoAfter(Updated).op = "none"
           /\ ("RXE" \in Updated.irq <=> "RXE" \in emu.irq) => FifoAfter(Updated) = frame \/
                 (FifoAfter(Updated).op = "none" /\ frame.op = "none")
BY DEF FrameFlag, FifoAfter

\* update() keeps memory whole and the session fine.
LEMMA UpdateFine ==
    ASSUME TornInv, ~overlap, emu_running
    PROVE  /\ Parsed(MemoryAfter) # Mixed
           /\ Fine(Updated, MemoryAfter, FifoAfter(Updated), todo)
           /\ emu.state # "Off" /\ Updated.state = "Off" => Quiet(Updated)
<1>1. /\ emu \in Emulator /\ frame \in Command \cup {[op |-> "none"]}
      /\ memory \in [Page -> Value] /\ emu.dirty \in BOOLEAN
      /\ Parsed(memory) # Mixed /\ Fine(emu, memory, frame, todo)
      /\ "RXE" \in emu.irq <=> frame.op # "none"
  BY DEF TornInv, IInv, TypeOK, Emulator, Untorn, FrameFlag, FrameThere
<1>2. /\ FifoAfter(Updated).op # "none" => "RXE" \in Updated.irq
      /\ "RXE" \notin Updated.irq => FifoAfter(Updated).op = "none"
      /\ ("RXE" \in Updated.irq <=> "RXE" \in emu.irq) => FifoAfter(Updated) = frame \/
            (FifoAfter(Updated).op = "none" /\ frame.op = "none")
  BY <1>1, FifoKept DEF TornInv
<1>3. Quiet(Updated) /\ "RXE" \notin Updated.irq
        => Fine(Updated, MemoryAfter, FifoAfter(Updated), todo)
  BY DEF Quiet, Fine
<1>4. CASE emu.state = "Off"
  <2>1. MemoryAfter = memory /\ Updated = OffUpdate
    BY <1>4 DEF MemoryAfter, Served, Updated
  <2>2. Fine(Updated, memory, FifoAfter(Updated), todo)
    BY <1>1, <1>2, <1>4, <2>1, OffGoesOn DEF Fine, Fits
  <2> QED
    BY <1>1, <1>4, <2>1, <2>2
<1>5. CASE emu.state \in {"Idle", "Halt"}
  <2>1. MemoryAfter = memory /\ Updated = ListenUpdate
    BY <1>5 DEF MemoryAfter, Served, Updated
  <2>2. /\ Quiet(Updated) \/ ("RXE" \notin emu.irq /\ "PTA" \in emu.irq)
        /\ Updated.dirty = emu.dirty /\ "RXE" \notin Updated.irq
        /\ Updated.state = "Off" => Quiet(Updated)
    BY <1>1, <1>5, <2>1, ListenGoesOn
  <2>3. ASSUME "RXE" \notin emu.irq, "PTA" \in emu.irq
        PROVE  Fine(Updated, memory, FifoAfter(Updated), todo)
    <3>1. frame.op = "none" /\ Fits(emu.dirty, memory, frame, todo)
      BY <1>1, <1>5, <2>3 DEF Fine
    <3> QED
      BY <1>2, <2>2, <3>1 DEF Fine, Fits
  <2> QED
    BY <1>1, <1>3, <2>1, <2>2, <2>3 DEF Quiet, Fine
<1>6. CASE emu.state = "Ready"
  <2>1. MemoryAfter = memory /\ Updated = ReadyUpdate
    BY <1>6 DEF MemoryAfter, Served, Updated
  <2>2. /\ Updated.dirty = emu.dirty
        /\ \/ Quiet(Updated) /\ Updated.irq = {}
           \/ /\ Updated.state \in {"Ready", "Active"}
              /\ "RXE" \in Updated.irq <=> "RXE" \in emu.irq
    BY <1>1, <1>6, <2>1, ReadyGoesOn
  <2>3. Fits(emu.dirty, memory, frame, todo)
    BY <1>1, <1>6 DEF Fine
  <2>4. ("RXE" \in Updated.irq <=> "RXE" \in emu.irq)
          => Fine(Updated, memory, FifoAfter(Updated), todo)
    BY <1>2, <2>2, <2>3 DEF Fine, Fits
  <2> QED
    BY <1>1, <1>3, <2>1, <2>2, <2>4
<1>7. CASE emu.state = "Active"
  <2>1. Updated = ActiveUpdate
    BY <1>7 DEF Updated
  <2>2. /\ "RXE" \notin Updated.irq
        /\ Quiet(Updated) \/ Served \/ "RXE" \notin emu.irq
        /\ Updated.state = "Off" => Quiet(Updated)
    BY <1>1, <1>7, <2>1, ActiveGoesOn
  <2>3. Fits(emu.dirty, memory, frame, todo) /\ FifoAfter(Updated).op = "none"
    BY <1>1, <1>2, <1>7, <2>2 DEF Fine
  <2>4. CASE Served /\ frame.op = "write"
    <3>1. MemoryAfter = Put(memory, frame) /\ Updated.dirty
      BY <2>4, UpdatedOk DEF MemoryAfter, Put, TornInv
    <3>2. /\ Parsed(Put(memory, frame)) # Mixed
          /\ Fits(TRUE, Put(memory, frame), FifoAfter(Updated), todo)
      <4>1. frame \in Command
        BY <1>1, <2>4
      <4> QED
        BY <1>1, <2>3, <2>4, <4>1, ServeOk
    <3>3. Fine(Updated, MemoryAfter, FifoAfter(Updated), todo)
      BY <3>1, <3>2 DEF Fine, Fits
    <3> QED
      BY <2>2, <3>1, <3>2, <3>3
  <2>5. CASE ~(Served /\ frame.op = "write")
    <3>1. MemoryAfter = memory /\ Updated.dirty = emu.dirty
      BY <2>5, UpdatedOk DEF MemoryAfter, TornInv
    <3>2. CASE Quiet(Updated)
      BY <1>1, <1>3, <2>2, <3>1, <3>2
    <3>3. CASE Served \/ "RXE" \notin emu.irq
      <4>1. frame.op # "write"
        BY <1>1, <2>5, <3>3
      <4>2. Fits(emu.dirty, memory, FifoAfter(Updated), todo)
        BY <2>3, <4>1 DEF Fits
      <4> QED
        BY <1>1, <2>2, <3>1, <4>2 DEF Fine
    <3> QED
      BY <2>2, <3>2, <3>3
  <2> QED
    BY <2>4, <2>5
<1> QED
  BY <1>1, <1>4, <1>5, <1>6, <1>7 DEF Emulator, State

LEMMA LaidOk ==
    ASSUME NEW m \in Msg
    PROVE  Parsed(Laid(m)) # Mixed
BY TagAssumption DEF Laid, Parsed

LEMMA TornUpdate == TornInv /\ Update => FrameFlag' /\ Untorn'
<1> SUFFICES ASSUME TornInv, Update PROVE FrameFlag' /\ Untorn'
  OBVIOUS
<1>1. /\ emu_running /\ frame' = FifoAfter(Updated) /\ UNCHANGED <<todo, overlap>>
      /\ FifoAfter(Updated).op # "none" => "RXE" \in Updated.irq
      /\ Updated \in Emulator
  BY FifoKept, UpdatedOk DEF Update, TornInv, IInv, TypeOK
<1>2. CASE FieldOffWritten(Updated)
  <2>1. /\ content' = Adopted(memory) /\ memory' = Laid(content')
        /\ emu' = [Updated EXCEPT !.dirty = FALSE]
    BY <1>2 DEF Update
  <2>2. emu'.irq = Updated.irq /\ emu'.state = "Off" /\ emu.state # "Off" /\ Updated.state = "Off"
    BY <1>1, <1>2, <2>1 DEF FieldOffWritten, Emulator
  <2>3. ASSUME ~overlap
        PROVE  Parsed(memory') # Mixed /\ content' # Mixed /\ "PTA" \notin emu'.irq
    <3>1. content' # Mixed
      BY <2>1, <2>3, TagAssumption DEF Adopted, TornInv, Untorn
    <3>2. content' \in Msg
      BY <2>1, <3>1, ContentOk DEF TornInv
    <3>3. "PTA" \notin emu'.irq
      BY <1>1, <2>2, <2>3, UpdateFine DEF Quiet
    <3> QED
      BY <2>1, <3>1, <3>2, <3>3, LaidOk
  <2> QED
    BY <1>1, <2>2, <2>3 DEF FrameFlag, Untorn, Fine
<1>3. CASE ~FieldOffWritten(Updated)
  <2> DEFINE left == emu.state # "Off" /\ Updated.state = "Off"
  <2>1. /\ memory' = MemoryAfter /\ content' = content
        /\ emu' = [Updated EXCEPT !.dirty = @ /\ ~left]
    BY <1>3 DEF Update
  <2>2. left => ~Updated.dirty
    BY <1>1, <1>3 DEF FieldOffWritten
  <2>3. emu' = Updated
    BY <1>1, <2>1, <2>2 DEF Emulator
  <2>4. ~overlap => /\ Parsed(memory') # Mixed /\ content' # Mixed
                    /\ Fine(emu', memory', frame', todo')
    BY <1>1, <2>1, <2>3, UpdateFine DEF TornInv, Untorn
  <2> QED
    BY <1>1, <2>3, <2>4 DEF FrameFlag, Untorn
<1> QED
  BY <1>2, <1>3

LEMMA TornUpdateFails == TornInv /\ UpdateFails => FrameFlag' /\ Untorn'
<1> SUFFICES ASSUME TornInv, UpdateFails PROVE FrameFlag' /\ Untorn'
  OBVIOUS
<1>1. emu_running /\ ~emu_running' /\ UNCHANGED <<content, overlap>>
  BY DEF UpdateFails
<1>2. CASE UNCHANGED <<emu, memory, frame>>
  BY <1>1, <1>2 DEF TornInv, FrameFlag, Untorn
<1>3. CASE memory' = MemoryAfter /\ emu' = Updated /\ frame' = FifoAfter(Updated)
  <2>1. FifoAfter(Updated).op # "none" => "RXE" \in Updated.irq
    BY FifoKept DEF TornInv, IInv, TypeOK
  <2>2. ~overlap => Parsed(memory') # Mixed
    BY <1>1, <1>3, UpdateFine
  <2> QED
    BY <1>1, <1>3, <2>1, <2>2 DEF TornInv, FrameFlag, Untorn
<1> QED
  BY <1>2, <1>3 DEF UpdateFails

\* configure() and the button clear the flags and the FIFO.
LEMMA TornStart == TornInv /\ (Start \/ ButtonA \/ Watchdog) => FrameFlag' /\ Untorn'
<1> SUFFICES ASSUME TornInv, Start \/ ButtonA \/ Watchdog PROVE FrameFlag' /\ Untorn'
  OBVIOUS
<1>1. UNCHANGED <<memory, content, overlap>>
  BY DEF Start, ButtonA, Watchdog
<1>2. CASE Start
  <2>1. [emu EXCEPT !.dirty = FALSE] \in Emulator
    BY DEF TornInv, IInv, TypeOK, Emulator
  <2>2. Quiet(emu') /\ frame'.op = "none"
    BY <1>2, <2>1, GotoOffQuiet DEF Start
  <2> QED
    BY <1>1, <2>2 DEF TornInv, FrameFlag, Untorn, Fine, Quiet
<1>3. CASE ButtonA
  <2>1. ~emu_running' /\ frame'.op = "none"
    BY <1>3 DEF ButtonA
  <2> QED
    BY <1>1, <2>1 DEF TornInv, FrameFlag, Untorn
<1>4. CASE Watchdog
  <2>1. ~emu_running' /\ UNCHANGED <<emu, frame>>
    BY <1>4 DEF Watchdog, reader
  <2> QED
    BY <1>1, <2>1 DEF TornInv, FrameFlag, Untorn
<1> QED
  BY <1>2, <1>3, <1>4

\* BLE may rewrite memory under a frame that is the first write of a sequence.
LEMMA TornBle == TornInv /\ (\E m \in Msg : BleContent(m)) => FrameFlag' /\ Untorn'
<1> SUFFICES ASSUME TornInv, NEW m \in Msg, BleContent(m) PROVE FrameFlag' /\ Untorn'
  OBVIOUS
<1>1. /\ content' = m /\ memory' = Laid(m) /\ UNCHANGED <<emu, emu_running, frame, todo>>
      /\ overlap' = (overlap \/ emu.dirty \/ todo # <<>>)
  BY DEF BleContent, reader
<1>2. m # Mixed /\ Parsed(Laid(m)) # Mixed
  BY TagAssumption, LaidOk
<1>3. ASSUME ~overlap', emu_running PROVE Fine(emu, Laid(m), frame, todo)
  <2>1. ~overlap /\ ~emu.dirty /\ todo = <<>> /\ Fine(emu, memory, frame, todo)
    BY <1>1, <1>3 DEF TornInv, Untorn
  <2> QED
    BY <2>1 DEF Fine, Fits, Fresh
<1> QED
  BY <1>1, <1>2, <1>3 DEF TornInv, FrameFlag, Untorn

\* The phone and the chip.
LEMMA TornPhone == TornInv /\ InNdefOrder /\ Phone => FrameFlag' /\ Untorn'
<1> SUFFICES ASSUME TornInv, InNdefOrder, Phone PROVE FrameFlag' /\ Untorn'
  OBVIOUS
<1>1. /\ UNCHANGED <<memory, content, overlap, emu_running>>
      /\ emu \in Emulator /\ memory \in [Page -> Value] /\ emu.dirty \in BOOLEAN
  BY DEF Phone, FieldOn, FieldOff, Select, Transmit, GiveUp, Stray, TornInv, IInv, TypeOK, app,
         Emulator
<1> SUFFICES /\ FrameFlag'
             /\ ~overlap /\ emu_running => Fine(emu', memory, frame', todo')
  BY <1>1 DEF TornInv, Untorn
<1>2. ASSUME NEW flags, Raise(flags)
      PROVE  /\ emu'.irq = emu.irq \cup flags /\ emu'.state = emu.state
             /\ emu'.dirty = emu.dirty
  BY <1>1, <1>2 DEF Raise, Emulator
<1>3. ~overlap /\ emu_running => Fine(emu, memory, frame, todo)
  BY DEF TornInv, Untorn
<1>4. CASE FieldOn
  <2>1. Raise({"EON"}) /\ UNCHANGED <<frame, todo>>
    BY <1>4 DEF FieldOn
  <2> QED
    BY <1>2, <1>3, <2>1 DEF TornInv, FrameFlag, Fine
<1>5. CASE FieldOff
  <2>1. Raise({"EOF"}) /\ frame' = frame /\ todo' = <<>>
    BY <1>5 DEF FieldOff
  <2> QED
    BY <1>2, <1>3, <2>1 DEF TornInv, FrameFlag, Fine, Fits, Fresh
<1>6. CASE Select
  <2> DEFINE flags == {"NFCT", "PTA", IF emu.asleep THEN "WU_AX" ELSE "WU_A"}
  <2>1. /\ Raise(flags) /\ frame' = frame /\ Fresh(todo')
        /\ emu_running /\ emu.auto
    BY <1>6 DEF Select, InNdefOrder
  <2>2. emu.state \in {"Off", "Idle", "Halt", "Ready"}
    BY <1>1, <2>1 DEF TornInv, IInv, ChipFollowsState, Emulator, State
  <2>3. FrameFlag'
    BY <1>2, <2>1 DEF TornInv, FrameFlag
  <2>4. ASSUME ~overlap PROVE Fine(emu', memory, frame, todo')
    <3>1. CASE emu.state \in {"Off", "Idle", "Halt"} /\ frame.op # "none"
      BY <1>2, <2>1, <3>1 DEF Fine
    <3>2. CASE frame.op = "none"
      BY <2>1, <3>2 DEF Fine, Fits
    <3>3. CASE emu.state = "Ready"
      <4>1. Fits(emu.dirty, memory, frame, todo)
        BY <1>3, <2>1, <2>4, <3>3 DEF Fine
      <4> QED
        BY <1>2, <2>1, <4>1 DEF Fine, Fits
    <3> QED
      BY <2>2, <3>1, <3>2, <3>3
  <2> QED
    BY <2>1, <2>3, <2>4
<1>7. CASE Transmit
  <2>1. Raise({"RXE"}) /\ frame.op = "none"
    BY <1>7 DEF Transmit
  <2>2. FrameFlag'
    BY <1>2, <2>1 DEF FrameFlag
  <2>3. ASSUME ~overlap, emu_running PROVE Fine(emu', memory, frame', todo')
    <3>1. CASE emu.state \in {"Off", "Idle", "Halt"}
      <4>1. frame'.op # "none"
        BY <1>7 DEF Transmit
      <4> QED
        BY <1>2, <2>1, <3>1, <4>1 DEF Fine
    <3>2. CASE emu.state \notin {"Off", "Idle", "Halt"}
      <4>1. Fits(emu.dirty, memory, frame, todo)
        BY <1>3, <2>3, <3>2 DEF Fine
      <4>2. CASE todo # <<>>
        <5>1. /\ frame' = [op |-> "write", page |-> Head(todo).page, value |-> Head(todo).value]
              /\ todo' = Tail(todo)
          BY <1>7, <4>2 DEF Transmit
        <5>2. Fits(emu.dirty, memory, frame', todo')
          BY <1>1, <2>1, <4>1, <4>2, <5>1, SendOk
        <5> QED
          BY <1>2, <2>1, <5>2 DEF Fine
      <4>3. CASE todo = <<>>
        <5>1. frame'.op \in {"read", "hlta", "bad"} /\ todo' = <<>>
          BY <1>7, <4>3 DEF Transmit
        <5> QED
          BY <5>1 DEF Fine, Fits, Fresh
      <4> QED
        BY <4>2, <4>3
    <3> QED
      BY <3>1, <3>2
  <2> QED
    BY <2>2, <2>3
<1>8. CASE GiveUp
  <2>1. UNCHANGED <<emu, frame>> /\ todo' = <<>>
    BY <1>8 DEF GiveUp
  <2> QED
    BY <1>3, <2>1 DEF TornInv, FrameFlag, Fine, Fits, Fresh
<1>9. CASE Stray
  <2>1. /\ Raise({"RXE"}) /\ frame.op = "none" /\ frame'.op = "bad" /\ todo' = todo
    BY <1>9 DEF Stray
  <2>2. FrameFlag'
    BY <1>2, <2>1 DEF FrameFlag
  <2>3. ~overlap /\ emu_running => Fine(emu', memory, frame', todo')
    BY <1>2, <1>3, <2>1 DEF Fine, Fits
  <2> QED
    BY <2>2, <2>3
<1> QED
  BY <1>4, <1>5, <1>6, <1>7, <1>8, <1>9 DEF Phone

LEMMA TornInit == Init => FrameFlag /\ Untorn
<1> SUFFICES ASSUME Init PROVE FrameFlag /\ Untorn
  OBVIOUS
<1>1. InitMsg \in Msg /\ InitMsg # Mixed
  BY TagAssumption
<1>2. Parsed(memory) # Mixed
  BY <1>1, LaidOk DEF Init
<1> QED
  BY <1>1, <1>2 DEF Init, FrameFlag, Untorn

LEMMA TornNext == TornInv /\ InNdefOrder /\ [Next]_vars => FrameFlag' /\ Untorn'
<1>1. TornInv /\ UNCHANGED vars => FrameFlag' /\ Untorn'
  BY DEF TornInv, FrameFlag, Untorn, vars, app, reader
<1> QED
  BY <1>1, TornUpdate, TornUpdateFails, TornStart, TornBle, TornPhone DEF Next, Slice

-----------------------------------------------------------------------------
(* The theorems. *)

LEMMA NextOk == IInv /\ [Next]_vars => IInv'
<1> SUFFICES ASSUME IInv, [Next]_vars PROVE IInv'
  OBVIOUS
<1>1. CASE Watchdog
  <2>1. TypeOK /\ ~emu_running' /\ UNCHANGED <<emu, memory, content, frame, lost>>
    BY <1>1 DEF IInv, Watchdog, reader
  <2>2. TypeOK'
    <3>1. reinits' \in 0..MaxReinit
      BY <1>1, <2>1, TagAssumption DEF TypeOK, Watchdog, Reinit
    <3> QED
      BY <1>1, <2>1, <3>1 DEF TypeOK, Watchdog, reader
  <2> QED
    BY <2>1, <2>2 DEF IInv, FrameThere, ChipFollowsState, WritesAreReportedOnce, WritesAreReported
<1>2. CASE UNCHANGED vars
  BY <1>2 DEF vars, app, reader, counts, IInv, TypeOK, FrameThere, ChipFollowsState,
     WritesAreReportedOnce, WritesAreReported
<1> QED
  BY <1>1, <1>2, UpdateStep, StartStep, UpdateFailsStep, ButtonAStep, BleContentStep, PhoneStep
  DEF Next, Slice

\* IInv is an invariant.
THEOREM Inductive == Spec => []IInv
BY InitOk, NextOk, PTL DEF Spec

\* Every variable of the emulator, the chip and the phone keeps its type.
THEOREM TypeCorrect == Spec => []TypeOK
<1>1. IInv => TypeOK
  BY DEF IInv
<1> QED
  BY <1>1, Inductive, PTL

\* The chip is always set for the state the emulator believes in.
THEOREM ChipInStep == Spec => []ChipFollowsState
<1>1. IInv => ChipFollowsState
  BY DEF IInv
<1> QED
  BY <1>1, Inductive, PTL

\* Unless the emulator was configured anew in between, what a phone wrote is
\* reported when the field goes.
THEOREM WritesReported == Spec => []WritesAreReportedOnce
<1>1. IInv => WritesAreReportedOnce
  BY DEF IInv
<1> QED
  BY <1>1, Inductive, PTL

\* A phone that writes in the order NDEF asks for, or erases, never leaves a
\* mixture of two messages on the plate, whatever is interrupted, lost or
\* repeated, unless BLE rewrote the memory between its writes.
THEOREM NeverTorn ==
    ASSUME InNdefOrder
    PROVE  Spec => []PlateNotTorn
<1>1. Init => FrameFlag /\ Untorn
  BY TornInit
<1>2. IInv /\ FrameFlag /\ Untorn /\ [Next]_vars => FrameFlag' /\ Untorn'
  BY TornNext DEF TornInv
<1>3. Untorn => PlateNotTorn
  BY DEF Untorn, PlateNotTorn
<1> QED
  BY <1>1, <1>2, <1>3, Inductive, PTL DEF Spec
=============================================================================
