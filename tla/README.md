# Paper name plate: TLA+ models, checks and proofs

The firmware in `src/` runs a name plate on an ESP32: a 480x800 e-paper panel, an
ST25R3916 NFC front end that emulates an NTAG216, and a BLE service through which a
phone or a browser sends a text or an image. This directory holds TLA+ modules for the
parts of it whose behaviour depends on order (packets, interrupt flags, flash writes, frames
of a tag, resets), TLC configurations that check them, and TLAPS proofs about them. `PROJECT.json` lists the
runs, the source lines of every definition, a mutant that breaks each checked property,
the findings and the hazards.

To parse, check and prove, in this directory:

    tlasany BleSession.tla
    tlc -workers 4 -config MCBleSession.cfg MCBleSession
    tlapm PlateContentProofs.tla

Rust files are named below from the crate's `src/` directory: `app/ble.rs`, `t2t_emu.rs`.

## 1. Inventory

The firmware has one task. `App::run` restores the content and enters `main_loop`, which
opens one BLE session after another; everything else (NFC, touch, buttons, panel sleep)
runs inside `tick`, called by the session's loop. So no two pieces of firmware interleave:
the concurrency is between that loop and what it talks to. Packets queue in the controller
while the loop is elsewhere; the NFC chip answers a reader by itself and latches interrupt
flags; the panel is busy for seconds; the power may go at any moment.

| component | state it keeps | operations | what is hard | what makes it correct |
|---|---|---|---|---|
| **Transfer receiver** `ImgRx`, app/ble.rs 238-443 | state (idle, receiving, committed, and errors), announced size and CRC, data, window counter, NAK flag, pending notification, the verified payload, requests | `ctrl` (START of a text or an image, COMMIT, ABORT, clear, deep-sleep test), `push` (DATA), `status`, `take_notification`, `reset` | any order of packets, malformed ones, offsets a client chose; one NAK per gap; u8 counters | only a verified payload is parked; the window is bounded; whoever waits is told |
| **BLE session**, app/ble.rs 462-700 | pump iterations, error count, the copy of the text that the CONTENT characteristic serves | pump (up to 96 operations, one notification each), apply image / text / clear, housekeeping, doze, restart | several packets in one burst before anything is applied; a refresh that blocks for seconds; housekeeping next to a transfer | a payload is applied after its verdict is out; housekeeping leaves a transfer alone |
| **HCI reassembly** `BufferedHci`, app/ble.rs 81-176 | one buffer of packets, strays while gathering | fill, read | fragments with events between them, 200 ms limit, full buffers, a failing controller | whole packets in order |
| **Web client**, docs/index.html 325-530 | offset, window, chunk size, queue of notifications | connect, START, windows of DATA, resynchronise, COMMIT, verdict | losses, late answers, small MTU, no notifications, a cut connection | ends, delivers, reports what happened |
| **Plate content**, app/plate.rs | name, email, accounts, note, url, image | `to_ndef`, `apply_ndef`, `to_plain`, `apply_plain`, `draw` | forms that carry different fields; one-byte lengths; separators inside fields | what is served can be read; what was saved or read out comes back |
| **Configuration store**, config_store.rs | two flash records (NDEF, image) | save in two writes, load, clear | loss of power or a failing write in between | a record is read back whole or not at all |
| **App: updates**, app/mod.rs 201-271, 441-463, 587-646 | content, image_in_flash | on_ble_image, on_ble_content, on_tag_written, on_clear_image, commit_content, restore | five copies (memory, tag, two records, panel) changed one after the other | they agree after an update, and after a crash show something that was meant |
| **App: loop**, app/mod.rs 275-395, 466-523 | activity times, mode, touch and button edges | tick, should_doze, deep_sleep, buttons, touch | conditions that go stale | dozes only when all is quiet, wakes to the same panel |
| **Type 2 tag emulator**, t2t_emu.rs | state (Off, Idle, Ready, Active, Halt), wakeup, bit rate, dirty, memory | start, stop, update, commands, set_ndef, ndef | flags latched while the App is elsewhere; a reader that left; I2C failures; re-initialisation | chip and software agree; a write is reported once and adopted whole |
| **Reader mode**, st25r3916.rs 403-741, app/mod.rs 694-815 | the field, the chip's mode, the last tag and its time | poll (WUPA, anticollision, SELECT), read, HALT; Button A | tags that come and go between two frames, in whatever state the last poll left them; bit collisions; random UIDs; failing I2C | a tag that stays is found and announced once; without one the field goes off |
| **ISO-DEP, Type 4**, isodep.rs, ndef.rs | block number, guard, what was received | exchange, deselect, NDEF read in six steps | chaining, waiting time, a card that goes silent | a message is read whole or not at all; the exchange ends |
| **E-paper controller**, ssd1677/ | screen_on, face parity, sleep | init, refresh modes, deep_sleep | a refresh that times out | a differential update starts from the picture on the panel |
| **Board**, board.rs, pm1.rs, ioe1.rs, i2c_reg.rs | I2C speed of bus and devices, panel and NFC supply, whether there is an NFC chip | init, recover_i2c_speed | resets between the switches, single NACKs (retried, and not), NACKed writes that landed | the next boot works whatever the last left behind |
| ui.rs, lut.rs, build.rs, bin/ | none | drawing, tables, start | | not modelled |

How they interact: the GATT callbacks of the session call the receiver (a `RefCell`); the
session's loop takes what the receiver parked and calls the App's update functions; these
write content, tag memory (`emu.set_ndef`), flash and panel in a fixed order; `tick` gives
the emulator slices, whose event `FieldOff { written: true }` calls `on_tag_written`, an
update that did not come over BLE; `deep_sleep` is a reset that leaves only flash and panel.

## 2. Modules

| module | models | abstracts |
|---|---|---|
| `ImgRx` | the receiver, as operators on a record; one operator per handler, `Gatt` is the attribute table | payload bytes are members of a small set; the checksum is any function |
| `BleSession` | the session's loop around `ImgRx`, sessions one after another, the App's text and image as far as the session sees them | time: "3 s quiet" and "doze" are choices at the points where the code asks |
| `PlateUpdate` | what a transfer promises: accept, apply, report | everything else |
| `BleTransfer` | docs/index.html's `transfer()` and `withPlate()` against `BleSession`, with a FIFO link that may lose writes without response, delay notifications, cut the connection | one text payload; the image protocol differs in START only |
| `PlateStore` | the App's updates, `config_store.rs` and the restore, one step per flash write | checksums identify payloads; refreshes succeed |
| `T2tEmulator` | `t2t_emu.rs`, the App's slices, the chip's latched flags, a phone | memory is a length page and two data pages; an `update()` is one step |
| `EpdPanel` | the SSD1677, its driver, and the App's redraws, tag panels, panel sleep and boots | a picture is two pixels, one in the tag panel's window; an operation is a set of outcomes |
| `BufferedHci` | `fill()` and `read()`, the controller's queues of fragments and events, and bleps as the reader | a fragment is one unit of payload, an event two |
| `PlateContent` | the NDEF and plain forms of plate.rs, and the updates and the boot that go through them | a string is a sequence of pieces of known width; a message a sequence of records with the length their header names |
| `IsoDep` | `exchange()` and the card at the other end | an APDU stands for its answer; frame sizes and times |
| `Anticollision` | `nfca_anticollision_level()` as a function of the tags that answer | bytes of `BITS` bits |
| `TagReader` | `poll_nfc()`, `on_new_tag()`, `nfca_poll()` and `read_type4()` on the two above, with tags as state machines | the panel (see `EpdPanel`); a random UID is one of the values it may have |
| `BoardBringup` | `Board::init()`, `recover_i2c_speed()`, the I2C speed of bus, PM1 and IOE1, and the bring-up of the ST25R3916 | an access is one step, and so is the configuration of the NFC chip, which fails as a whole; SPI and touch initialisation; the board is a Pro |
| `MC...` | values of the constants for TLC | |
| `BleTransferProofs`, `PlateContentProofs`, `PlateStoreProofs`, `T2tEmulatorProofs`, `EpdPanelProofs`, `BufferedHciProofs`, `BoardBringupProofs`, `TagReaderProofs` | the theorems of section 5 | |

Names of states, variables and actions are those of the source, in the case TLA+ wants.
State to code:

* `rx` is `ImgRx` field by field (`done`, `done_content`: sets of at most one, for `Option`).
  `last_ms` is one bit, `recent`, which `Quiet` lets lapse. `flushed` is a history
  variable: the STATUS that `take_notification` last handed over.
* `pc` is the place in the session's loop: `pump`, `apply`, `schedule`, `ended`. Each
  `PumpPacket` is one iteration of the inner `for`, including the notification it sends
  first; `Apply` is lines 606-645; `Stream`, `TickLight`, `Tick`, `DozeOff` are the branches
  of lines 647-670.
* In `PlateStore`, `job` is the list of steps that remain of the running update. A power
  loss replaces everything but flash by what `run()` makes of it. `old`, `new` are history.
* In `T2tEmulator`, `emu` holds the emulator's fields together with the registers it sets
  (auto-responder, sleep mode, CRC) and the flags that are latched. `lost` and `overlap` are
  history.
* In `EpdPanel`, `dev.chip` is the controller and the glass, `dev.drv` the fields of
  `Ssd1677`; the driver's operations map a device to the outcomes it may have, one for each
  place where `wait_busy` may give up. `stray` and `doubt` are history.
* In `BufferedHci`, `buf`, `start` and `stray` are the fields of the struct, as packets
  instead of bytes; `gathering` is the inner loop of `fill()`. A packet keeps apart what its
  header announces (`len`) and what is there (`size`). `late`, `cut` and `failed` are history.
* In `PlateContent`, every step is a whole update: `content`, the message for the tag
  (`served`) and the one in flash (`saved`). What lies between them is `PlateStore`'s.
* In `TagReader`, `pc` is the place in `poll_nfc()` and below; each frame is a step, and tags
  arrive and leave between any two. `card` holds the ISO 14443-3 state of each tag, `deaf`
  says that the chip is still set up as a target, `old` that `TAG_FORGET_MS` have passed.
  `alone` is history: the tag that was announced and has been alone, without faults, since.
* In `BoardBringup`, `pc` is the place in `init()`; `found`, `nacks` and `lastClean` are
  history. A reset may come between any two steps and keeps the devices' speeds. `epdOn` and
  `nfcOn` are the two supplies, `nfc` is whether the chip answered and its configuration
  went through: at the end, whether `Board.nfc` is `Some`.

The next-state relations are composed: `BleTransfer` EXTENDS `BleSession` and conjoins its
actions with the link's, so the device it is checked against is the one whose safety is
proved. `TagReader` EXTENDS `IsoDep` and `Anticollision`: an exchange runs inside the
reading of a file, and the search inside a poll, with the tag leaving at any frame.
`PlateStore`, `PlateContent` and `T2tEmulator` take one side of each other as an input
(`OnTagWritten`, `BleContent`).

## 3. Runs

| run | question | bounds | result |
|---|---|---|---|
| `ble_session` | any packets from any central | texts and images of 1 or 2 bytes (one of them wider than a byte), 20 packets with wrong offsets, overruns, bad geometry; bursts of 2, 2 errors | 1.4 million states, pass |
| `ble_transfer` | the web client over a bad link | 5 bytes in chunks of 2 or 1, windows of 2, 2 losses, 1 cut, 2 early timeouts, with and without notifications, three MTU behaviours | 0.53 million states, pass |
| `plate_store` | updates, crashes, failing writes | an image of each size class, texts with and without ';', 1 failed write, 2 power losses | 1.1 million states, pass |
| `t2t_emulator` | a phone at the worst moments | 2 fields, 1 re-initialisation, 1 BLE update, three programs (read, NDEF write, erase) | 0.42 million states, pass |
| `epd_panel` | faults at any wait for the panel | two plates and three tag panels, 3 time-outs, 1 failed reset, 2 boots, a full refresh every 3 | 94 thousand states, pass |
| `hci` | whole packets, however fragments and events fall | PDUs of 1, 2, 3 and 6 fragments, 7 fragments, 3 events, a buffer of 6 units and strays of 4 | 1.1 million states, pass |
| `board` | resets and NACKs during bring-up | 5 attempts, 5 NACKs in a boot, any number of boots | 3358 states, pass |
| `plate_content` | do the forms come back? | 6 texts, 10 messages and 4 images around the limits of the records, in any order | 560 states, pass |
| `tag_reader` | tags at the worst moments | any two of three tags, 1 fault, 4 transceives per exchange, a message of 3 bytes read two at a time | 98 thousand states, pass |
| `ble_commit_lost` | is a commit always applied? | as `ble_session` | violated |
| `plate_long_text` | can the next phone read what a phone wrote? | as `plate_content` | violated |
| `reader_collision` | does the search find a tag's response? | as `tag_reader` | violated |

What the passing runs show:

* `ble_session`. `ParkedIsVerified`: no sequence of packets makes the device apply a payload
  that is not the one of its latest START. `WindowBounds`: the u8 counter cannot overflow
  (`ack_every` 0 is replaced). `SilenceMeansTold`: a NAK is suppressed only while the first
  one is on its way or was the last STATUS taken. `ApplyAfterStatus` and
  `OnlyCentralEndsTransfer`: the order of lines 606-645 and their assignments are right for
  every burst.
* `ble_transfer`. `ReceivedIsPrefix`, `CommitIsComplete`: resynchronisation never leaves a
  hole, and no COMMIT is refused. `BackPressure`: one window in flight, as long as
  at most one answer came later than the client's timeout. `UpdateSpec`: the transfer refines `PlateUpdate`.
  `Terminates`, `Delivers`: liveness under the fairness below.
* `plate_store`. `StoreAgrees`, `PanelShows`: after an update, flash, memory and panel agree.
  `CrashRestoresOldOrNew`: a power loss at any step or inside a write restores an old, a new
  or the default text and image. `HeapIsFree`: no full-screen image stays in memory.
* `t2t_emulator`. `ChipFollowsState`: the chip's auto-responder, sleep mode and CRC setting
  are those of the emulator's state. `WritesAreReportedOnce`, `WritesAreAdopted`: a write
  reaches the plate, unless the emulator was configured anew. `PlateNotTorn`: a phone that
  leaves in the middle of its writes never puts a mixture on the plate, since the length is
  written first as 0 and last as its value.
* `epd_panel`. `DriverInStep`: after an `init()` that worked, face parity, supply and sleep are
  what the driver believes, through any refreshes, sleeps and boots. `BaselineIsGlass`: a
  differential update starts from what is on the glass, unless a fault happened since the
  last full refresh that worked.
* `hci`. `ReadyIsWhole`: what bleps finds in the buffer can be read to its end, and a
  fragmented PDU is complete unless its continuation was late; `NothingSkipped`: bleps reads
  every fragment and every event once and in order. Both leave out a buffer that overflowed
  and a controller that failed, which the code does not handle.
* `board`. `CleanBootWorks`: a boot without NACKs works whatever reset, NACK or firmware came
  before, except for one boot after a PM1 at 100 kHz was found with an IOE1 at 400 kHz.
  `NacksAreSurvived`: it takes five NACKs to lose the supply of panel or NFC chip, or not to
  find the chip. It ends where the chip is configured (`NfcSetup`): from there on the code
  repeats nothing, one NACK costs the chip or the 400 kHz, and what remains is
  `CleanBootWorks`, by which the next boot without one has both.
* `plate_content`. `ServedIsReadable`: lengths, first and last flags of a served message are
  right whenever the fields fit short records. `BootKeepsFields`, `EchoKeepsFields`: saving
  and booting, or reading the text out over BLE and writing it back, changes no field (with
  the exceptions their comments name).
* `tag_reader`. `ReadIsWhole`: a message that was read is the tag's file, however the card
  chained. `AnnouncedOnce`: a tag that stays is not announced again, a phone with a new UID
  at each poll included. `FieldGoesOff` and `StayingTagIsFound`: liveness, from whatever state
  a fault or a departure left chip and card in. The assumption `EarlyCollisionsResolve` of
  `MCTagReader`, which TLC evaluates, says that the search finds one of any two tags that
  first differ elsewhere than in the last bit of a byte, for all pairs of responses of three
  two-bit bytes.

Why the bounds are enough. A burst of two operations already holds every pair whose order
matters inside one pass (COMMIT then START); longer bursts repeat it over passes, which are
not bounded. Two losses include the loss of a packet and of its repetition; two windows and
a rest exercise the rewind at, before and after a window's end. Two fields are the phone
that leaves and the next one. Two power losses include one during the recovery of the
other. Three time-outs fail both attempts of `epd_refresh` and one more wait, of its recovery
or of the next operation; a full refresh every third time leaves two differential updates
between full ones. Six fragments overflow the buffer in the middle of a PDU, and three
events overflow the strays. Three speeds and an unbounded number of boots leave nothing of the
bring-up out but more NACKs, which the proof covers. The texts and images of `plate_content`
lie on both sides of each limit (240 and 200 bytes, 252 and 256, 700). Two bits per byte give a
byte a last bit and another one, three bytes a boundary before, inside and at the end of a
response; four transceives are fewer than an exchange with requests for time may take, so that
the guard strikes;
a file of three bytes takes two READs. Bounds on failures, fields and re-initialisations are guards (`MaxFail`, `MaxField`,
...): they only stop the environment.

Deadlock is checked, except in `hci` and `tag_reader` (and `reader_collision`): the queue is
empty when the bounded traffic has ended, and a reader whose faults are spent, in a room
without tags, may have nothing left to do but wait.

## 4. Fairness

* `FairTSpec`: weak fairness of the device's loop and of the client's steps. The loop never
  blocks for good (`do_work` and the refresh return), and the browser's event loop runs
  timers and callbacks. Nothing is assumed of the link: losses and cuts are bounded by
  constants, and a lost COMMIT or a cut is an outcome of `Delivers`.
* `FairSpec` of `T2tEmulator`: weak fairness of the App's slices (`tick` is called for ever)
  and of the phone's departure. No fairness of the phone's commands, of the button or of I2C
  failures.
* `Spec` of `TagReader`: weak fairness of the device's steps (`tick` is called for ever, each
  frame is bounded by the chip's timers, an exchange by its guard) and of the passing of
  `TAG_FORGET_MS`. No fairness of tags, of the button or of faults, which are bounded.
* The other modules state safety only.

## 5. Proofs

The first part of `BleTransferProofs` is about `BleSession`. It proves, for every set of
packets, every checksum, every validator and every bound that satisfies the named ASSUMEs, that `Spec` implies

* `TypeCorrect` ([]TypeOK), `ParkedVerified`, `WindowBounded`, `NeverSilent`,
  `TransferUndisturbed` and `AppliedAfterStatus`: the six properties of `ble_session`.

Assumptions: `LimitsAssumption` (the size limits are positive), `AckAssumption` (the default
window is at least 1 and within the u8's range), `CrcAssumption` (0 is a checksum value) and
`SessionAssumption` (packets are packets, the pump makes at least one iteration, at least one
error restarts).
The proofs use nothing else of the constants.

The argument. None of the six is inductive. `IInv` adds to `TypeOK` what each field of the
receiver means in each state: `RxInv` (while receiving, the payload is within what START
announced and nothing is parked; what is parked was verified and its state is committed)
and two facts that relate the receiver to the last STATUS taken: `Told` (a suppressed NAK,
or a complete payload, has its STATUS pending or taken) and `CommitTold` (a parked payload
has its verdict pending or taken). They are needed together: that a step of the loop leaves
a transfer alone follows from "nothing is parked while receiving", which holds because
every START resets the receiver. The lemmas before it show handler by
handler (`ResetOk`, `ContentStartOk`, `ImageStartOk`, `CommitOk`, `PushOk`, ...) that `RxInv` is
kept and what each does to the pending notification; the invariant has one step per action.

The second part joins the client to that device (`BleTransfer`). For every payload the device would accept,
every window, pair of chunk sizes and MTU behaviour, and any number of losses, cuts and early
timeouts, `TSpec` implies

* `TransferTypes` ([]TransferTypeOK), `PrefixReceived` ([]ReceivedIsPrefix), `CommitComplete`
  ([]CommitIsComplete), `SessionSafe` (the safety of the session holds with the client in place
  of arbitrary packets) and `ImplementsUpdate` (`UpdateSpec`: `PlateUpdate` is implemented).
  The invariant is `TInv`: it adds to the session's what is on the link in each state of the
  client (`UplinkOk`), that the device holds a prefix of the payload or nothing (`Holds`), that no
  answer under way claims more than the device has (`StatusesOk`: so the client never confirms
  a byte that is not there), and that a COMMIT on the link finds the payload complete
  (`CommitReady`). The refinement is a step simulation: the first time the device commits is
  `PlateUpdate`'s acceptance, the loop's `Apply` its application, the end of the
  client's function its report, and every other action a stutter.
* `BackPressured` ([]BackPressure). Whether one window at most is in flight depends on where
  chunks, device and answers stand relative to the window, and on how many answers came after
  the client had given them up. `BInv` says it in three layers: what holds always (`LinkOk`,
  `FreshStart`, `ThrowsOk`), what holds until a second early timeout (`InWindow`: the chunks on
  the link are in order, within the window and no more than were sent; `SyncOk`), and what holds
  until the first (`Punctual`, `Clean`: every answer under way is about this window, only the
  last can cover it, and one that says nothing of it arrived will stay true).

Assumptions: those of the session, and `TransferAssumption` (the payload is a text the device
validates, not empty, within the size limit and not the text the plate starts with; a window is
1 to 16 chunks of positive size).

`PlateStoreProofs` proves, for all texts, urls and images, every `Size`, `Reparse` and
`FitsTag`, and any number of failed writes and power losses, `TypeCorrect`, `CopiesAgree`
([]StoreAgrees) and `HeapStaysFree` ([]HeapIsFree), from `StoreAssumption`: the sets are what
their names say, the demo content has no image, and a message a phone writes holds no
full-screen image (the tag has 888 bytes). `StoreAgrees` speaks of an idle plate, so the
invariant has to follow the updates between two idle states:

* `Always` holds whatever fails: types, `job` is one of the sixteen remainders an update can
  have, NDEF records carry only images that fit the tag, and memory is free of a full-screen
  image except inside `on_ble_image`.
* `Progress` holds while no write has failed. It says for each remainder how far the copies
  have got: after the first write the record's header is the new payload's, after the second
  the record holds it, and so on to `Agreed`, which is where the next update starts.

One lemma per action shows that both are kept; `BootOk` shows that a reboot re-establishes
`Agreed` from whatever flash holds, half-written records included, which is why losses of
power need no case of their own in `Progress`.

On the same invariant rest `PanelUpToDate` ([]PanelShows) and `CrashKeepsOldOrNew`
(`CrashRestoresOldOrNew`). Both assume `ReparseSettles`: splitting a text into lines twice is
splitting it once. The code does so for every text but one with two carriage returns at the end
of a line, of which `lines()` takes one each time. What a loss of power restores may stem from
the update before the one it met, so `Past` says of what each record loads that it is the old or
the new text (`TextKnown`) and, until the first loss of power, the old or the new image or none
(`ImagesKnown`).

`PlateContentProofs` proves the three properties of `plate_content` for any pieces of any widths,
any texts and images from BLE and any messages a phone may write: `ServedReadable`
([]ServedIsReadable), `EchoKeeps` (`EchoKeepsFields`) and `BootKeeps` (`BootKeepsFields`); and
`ContentTypes`, that fields stay texts and messages sequences of records. `ContentAssumption` says that the separators and schemes are
pieces, that the constants have their types, that `None` is no text, and of the demo content
what `demo()` shows: no line feed in a field and no "@" before an account name.

* The conversions are folds (`Total`, `Join`, `ApplyNdef`), and a fold over n elements is a
  function of the sets of positions. `FoldExists` builds that function, `Segment` and `FoldStays`
  say what it returns, and `TotalSteps`, `JoinSteps` and `ApplySteps` give the three folds as
  their partial results, on which a proof goes by induction in set form, as in `TagReaderProofs`.
* `JoinLine` is what the two forms rest on: the k-th line of joined strings is the k-th string,
  if none up to it holds a separator. The strings after it may, as a url may that comes
  last in the plain form. `Between` says where a part lies: behind k - 1 separators, the last of
  them just before it, and before another or the end.
* `ContentInv` is inductive: the content is `Tidy`, and what is served and saved is `to_ndef()` of a
  tidy content. `Tidy` says that no field holds a line feed and that `Handle`, which takes the
  "@" off account names, would change nothing: without it neither form reads back. Whatever the
  content was before, each conversion yields such fields (`LineNoFeed`, `FieldInOrder`).
* For a boot that is not enough: the message in flash must be that of the content shown.
  `SavedIsShown` says so, or else that the content was read from it, in which case another
  boot changes nothing. `RoundTrip` walks over the records (`ApplyWalk`): the text record gives
  every field, the uri record the url, and neither takes back what the other gave.

`T2tEmulatorProofs` proves `TypeCorrect`, `ChipInStep` ([]ChipFollowsState), `NeverTorn` and
`WritesReported` ([]WritesAreReportedOnce) for all messages, all sequences of page writes and
all bounds, from `TagAssumption` (types of the constants; a mixture is not a message). The invariant
adds `FrameThere`: the "frame received" flag is latched only if there is a frame. `NeverTorn`
([]PlateNotTorn) assumes `InNdefOrder`: a phone writes length 0, the data and the length, or
erases, or only reads. Its invariant `Untorn` says by `Fine` that a frame the emulator drops
cannot leave a gap in what a phone writes: either what it was sent and has still to send
continues what memory holds, or the emulator will take no write before a selection that
has not come. The model-checked instances satisfy `ReparseSettles` and `InNdefOrder`.

`EpdPanelProofs` proves `TypeCorrect`, `DriverKnows` ([]DriverInStep) and `BaselineCorrect`
([]BaselineIsGlass) for all plates, tag panels, numbers of faults and boots and every
`FASTEST_PER_FULL`, from `PanelAssumption` (types of the constants, at least one plate). The
invariant joins the two properties by `dev.stray => doubt`: a differential update copies what
the driver did into `displayed`, which is right because a driver in step with its controller
does what `ApplyMonoRegion` says, and the full refresh that ends a doubt is one whose driver
was in step. One lemma per operation of the driver says what each outcome means
(`InitDriverOk`, `ActivateOk`, `RefreshGray4Ok`, `RefreshFastestOk`, `DeepSleepOk`), the
recovery and the boot follow (`AttemptOk`, `EpdRefreshOk`, `BoardInitOk`), then one lemma per
action.

`BufferedHciProofs` proves `HciTypeCorrect`, `ReadyWhole` and `NoneSkipped` for all PDUs, all
traffic and all buffer sizes, from `HciAssumption` (naturals; room for one fragment).
`QueuesInOrder` numbers what the controller still has, `GatherInOrder` says that while
`fill()` waits the next fragment continues the one in the buffer, and `HandedInOrder` joins
what bleps has read to what lies in the buffer and among the strays.

`BoardBringupProofs` proves `BoardTypeCorrect`, `CleanBoot` and `NacksSurvived`
([]NacksAreSurvived) for every number of attempts (`BoardAssumption`: at least one).
`KnownWhileClean` says for each place in `init()` what the speeds, the supplies and the chip
are, as a function of what the boot found; `AttemptsCounted` that every failed attempt on a
device that answers has cost a NACK.

`TagReaderProofs` proves `ReadWhole` ([]ReadIsWhole), and with it that an exchange returns the
card's whole answer (`AnswerWhole`), for every file, chunk size, guard, number of tags and
faults, from `ReaderAssumption` and `DepAssumption` (files are sequences of bytes, read as
naturals; the two statuses differ; a UID has one to three levels). `DepInv` relates driver and card across the air: which block is expected next
under which number (`Expecting`), and that what was received followed by what the card has
left is its answer. `Reading` says for each step of `read_type4()` that what was read is a
prefix of the file of the tag. `ReaderTypes` ([]ReaderTypeOK) and `NotAnnouncedAgain`
(`AnnouncedOnce`) rest on a second invariant, `AnnounceInv`: what each tag's state and the
chip's mode are at each place of a poll (`CardsOk`, `PlaceOk`) and, for the tag that was
announced and has been alone since, that it can be woken, is the one the search finds and is
the one remembered (`AloneOk`). That needs what `nfca_anticollision_level()` computes, for every
width of a byte and number of bytes (`SearchAssumption`: both positive): `LevelType`, that its
result is a response or a failure whatever the tags answer, and `LevelOne`, that a tag that is
alone is found. The search is a recursive function over its rounds. The library's induction
theorems cannot be instantiated, but a smallest element can be taken by well-foundedness of
strict inclusion on finite sets (`Least`, `Induct`), and with sets for predicates that is the
induction needed to show that the function exists and what it returns (`RunTo`, `LevelRuns`).

Every invariant and every action property of the runs above is proved. Only model-checked:
`WritesAreAdopted` of `T2tEmulator` and the liveness of `BleTransfer` and `TagReader`, since
fairness and ENABLED are beyond the prover; and the three findings, which are counterexamples.

## 6. Findings

1. **A committed payload can be dropped** (`ble_commit_lost`). `reset()` clears `done` and
   `done_content`; a START, ABORT or disconnect handled in the burst that sent STATUS 2
   loses an acknowledged payload.
2. **A long text cannot be read back** (`plate_long_text`). `to_ndef()` casts the text's record
   length to u8. A text of more than 252 bytes, which fits the tag and is adopted over NFC, is
   served and saved with a length that wrapped; the next phone, and the next boot, read a cut
   text and nothing after it.
3. **Tags that collide in the last bit of a byte are not told apart** (`reader_collision`).
   `rbuf_offset` stays at the byte of the collision while the next answer starts with the
   following one; the result belongs to neither tag, and SELECT fails.

Also met while modelling. Of these, properties leave out what their comments say:

* A phone's write during a session changes the plate; the CONTENT characteristic serves the old
  text until the session ends (app/ble.rs:541).
* Without notifications the web client reads STATUS after the device has applied the payload and
  gone idle, and reports a refusal (docs/index.html:442).
* Two late answers let a client have two windows in flight (`BackPressure`).
* A failing `save_image()` destroys the stored image and leaves `image_in_flash` set; the next
  redraw finds none, and a large image is dropped from memory as well (app/mod.rs:447).
* A wake-up from deep sleep takes what flash restores for what the panel shows, but a url that
  was cleared comes back as the demo url, and a ';' that came over BLE splits a field
  (`StoreAgrees`, `PanelShows`, `BootKeepsFields`).
* A power loss in `on_ble_image` followed by one in `on_clear_image` brings back an icon that
  NDEF still held (`CrashRestoresOldOrNew`).
* `configure()` clears `dirty`: an I2C error, the 120 s watchdog or the button in the middle of a
  session loses a phone's write (`WritesAreReportedOnce`).
* A BLE update between two page writes of a phone mixes the two (`PlateNotTorn`).
* A differential update that times out may have been carried out; the driver's parity stays,
  and the next full refresh exchanges the middle grays and reports success (`DriverInStep`).
* A redraw that failed twice sets `fast_refreshes` to 1, and the next tag panel is a
  differential update of a picture that is not on the glass (`BaselineIsGlass`).
* A `mailto:` or `tel:` URI is adopted whole and served behind `https://`, an `http://` one as
  `https://` (app/plate.rs:206, 354).
* A PM1 at 100 kHz with an IOE1 at 400 kHz, as a reset in the middle of the recovery or a NACK
  leaves them, is not noticed: that boot has no panel, and no NFC chip unless its supply was
  still on; the next one is right again (`CleanBootWorks`). The comment at board.rs:276-277 says the recovery copes.
* One NACK in `st25.init()` after its probe, or in `configure_nfca()`, leaves the board without its
  NFC chip until the next boot, as if it were a Lite (board.rs:254-267); the retries of
  board.rs:172-199 are for the supplies only (`NacksAreSurvived`).
* `configure_nfca()` that fails when Button A is used is ignored: the reader stays deaf until the
  button is used again or a poll meets an I2C error (app/mod.rs:509).
* A poll that ends in an error other than I2C's leaves the field on until one ends otherwise;
  two tags that collide as in finding 3 keep it on (app/mod.rs:714, 742).
* The READ BINARY offset is cast to u16 with the file's bound of 64 KB, while commands with
  bit 15 of the offset set mean a short file identifier (ndef.rs:89).

## 7. Plan

Done: the BLE transfer with its abstract specification and the proofs of the device's side; the
HCI adapter below it; the content's forms and copies; the tag emulator; the reader with ISO-DEP
and the anticollision search; the panel; bring-up. Left, in this order:

1. The session on top of `BufferedHci`: a PDU that was given up misleads the GATT library, whose
   behaviour is not in the sources.

## 8. Not modelled

The panel's behaviour is an assumption read from the driver: a mode-1 activation resets the
face and a mode-2 one swaps it, a controller that sleeps or is held in reset ignores commands,
and an activation without configuration or supply shows nothing. SPI transfers do not fail.
The refresh modes the App never calls are left out.

Rendering (`plate::draw`, ui.rs, fonts), waveform voltages, register-level I/O
of the expanders and the touch controller, the GATT library, the radio's advertising
commands, the bench tools, and memory allocation beyond "a large image stays or goes". The
one-in-256 chance that a torn record passes its eight-bit check is left out.
