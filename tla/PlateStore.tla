----------------------------- MODULE PlateStore -----------------------------
(***************************************************************************)
(* The plate's content and its copies: App.content in memory, the NDEF     *)
(* message the emulated tag serves, two records in flash, and the panel.   *)
(* src/app/mod.rs changes them in a fixed order, in steps between which    *)
(* the power may go; every step that writes flash may fail.                *)
(*                                                                         *)
(* Abstractions.  A record's checksum identifies its payload: that its     *)
(* eight bits also accept one wrong payload in 256 is left out.  Each      *)
(* write of save_rec() is atomic or, if the power goes, may leave the      *)
(* record unreadable (the driver erases the sector first).  The panel's    *)
(* refreshes succeed here (EpdPanel has their failures).                   *)
(***************************************************************************)
EXTENDS Naturals, Sequences

CONSTANTS
    Nothing,        \* None, an empty url, a blank flash header or payload
    Text, Url, Image,
    Demo,           \* PlateContent::demo()
    Size(_),        \* of an image: see ImageSize
    Reparse(_),     \* the text apply_ndef() makes of a text record: ';' splits
    FitsTag(_),     \* does the NDEF message fit the 888 bytes of the tag
    BleTexts,       \* valid plain texts a central commits
    NfcMsgs,        \* messages a phone writes
    MaxFail, MaxCrash

\* Fits an NDEF record (4 + bits <= 700); stays in memory (IMAGE_KEEP_MAX);
\* is read from flash for each redraw.
ImageSize == {"tag", "small", "large"}

Plain == [text : Text, url : Url \cup {Nothing}]
Content == [text : Text, url : Url \cup {Nothing}, image : Image \cup {Nothing}]
Ndef == [text : Text \cup {Nothing}, url : Url \cup {Nothing}, image : Image \cup {Nothing}]

ASSUME StoreAssumption ==
    /\ Nothing \notin Text \cup Url \cup Image \cup Ndef
    /\ \A i \in Image : Size(i) \in ImageSize
    /\ \A t \in Text : Reparse(t) \in Text
    /\ Demo \in Content /\ Demo.image = Nothing
    /\ BleTexts \subseteq Plain
    /\ NfcMsgs \subseteq Ndef
    /\ \A m \in NfcMsgs : m.image # Nothing => Size(m.image) # "large" \* 888 bytes
    /\ MaxFail \in Nat /\ MaxCrash \in Nat

VARIABLES
    content,        \* App.content
    image_in_flash, \* App.image_in_flash
    tag,            \* NDEF message in the emulated tag
    flash,          \* the two records
    panel,          \* the content that plate::draw() last put on the panel
    job,            \* steps the current update still has to make
    incoming,       \* the image that update is saving
    old, new,       \* history: what was shown before it, what it is to show
    failed, crashes \* flash writes that failed, losses of power

vars == <<content, image_in_flash, tag, flash, panel, job, incoming, old, new, failed, crashes>>

-----------------------------------------------------------------------------
(* config_store.rs *)

Record(payload) ==
    [head : payload \cup {Nothing}, body : payload \cup {Nothing}]

Flash == [ndef : Record(Ndef), image : Record(Image)]

Blank == [head |-> Nothing, body |-> Nothing]

\* load_rec(): the header's length and checksum must be those of the payload.
Load(rec) == IF rec.head # Nothing /\ rec.body = rec.head THEN rec.head ELSE Nothing

-----------------------------------------------------------------------------
(* plate.rs *)

\* PlateContent::to_ndef()
ToNdef(c) ==
    [text |-> c.text, url |-> c.url,
     image |-> IF c.image # Nothing /\ Size(c.image) = "tag" THEN c.image ELSE Nothing]

Given(field, kept) == IF field = Nothing THEN kept ELSE field

\* Mutant of ApplyNdef: a missing text record clears the text.
ApplyNdefClearing(c, m) ==
    [text |-> IF m.text = Nothing THEN Nothing ELSE Reparse(m.text),
     url |-> Given(m.url, c.url),
     image |-> Given(m.image, c.image)]

\* PlateContent::apply_ndef(): a record that is missing changes nothing.
ApplyNdef(c, m) ==
    [text |-> IF m.text = Nothing THEN c.text ELSE Reparse(m.text),
     url |-> Given(m.url, c.url),
     image |-> Given(m.image, c.image)]

-----------------------------------------------------------------------------
(* App *)

\* trim_image()
Trim(c, in_flash) ==
    IF in_flash /\ c.image # Nothing /\ Size(c.image) = "large"
    THEN [c EXCEPT !.image = Nothing]
    ELSE c

\* What draw_plate() draws: an image that is not resident comes from flash.
Drawn(c, in_flash, f) ==
    IF c.image = Nothing /\ in_flash THEN [c EXCEPT !.image = Load(f.image)] ELSE c

\* The content run() restores at boot: the image slot wins over NDEF.
Restored(f) ==
    LET ndef == Load(f.ndef)
        c == IF ndef = Nothing THEN Demo ELSE ApplyNdef(Demo, ndef)
    IN  [c EXCEPT !.image = Given(Load(f.image), @)]

\* emu.set_ndef(): a message that is too long leaves the tag as it is, and
\* nobody looks at the result.
SetNdef(m) == tag' = IF FitsTag(m) THEN m ELSE tag

Init ==
    /\ flash = [ndef |-> Blank, image |-> Blank]
    /\ content = Demo
    /\ image_in_flash = FALSE
    /\ tag = ToNdef(Demo)
    /\ panel = Demo
    /\ job = <<>>
    /\ incoming = Nothing
    /\ old = Demo /\ new = Demo
    /\ failed = 0 /\ crashes = 0

Idle == job = <<>>

\* Mutant of SavesImage: an image that came over NFC is not saved.
SavesNone(c) == FALSE

\* Only a resident image that is not large is saved again by commit_content().
SavesImage(c) == c.image # Nothing /\ Size(c.image) # "large"

\* commit_content() after the content changed, up to its first write.
Commit(c, in_flash, f) ==
    /\ content' = c
    /\ SetNdef(ToNdef(c))
    /\ incoming' = c.image
    /\ old' = panel
    /\ new' = Drawn(c, in_flash, f)

CommitSteps(c) ==
    IF SavesImage(c)
    THEN <<"ndefHead", "ndefBody", "imageHead", "imageBody", "drawPlate">>
    ELSE <<"ndefHead", "ndefBody", "drawPlate">>

\* on_ble_content(): the image is left alone.
OnBleContent(p) ==
    LET c == [content EXCEPT !.text = p.text, !.url = p.url]
    IN  /\ Idle
        /\ Commit(c, image_in_flash, flash)
        /\ job' = CommitSteps(c)
        /\ UNCHANGED <<image_in_flash, flash, panel, failed, crashes>>

\* on_tag_written(): tag memory m, or no message in it (erased).
OnTagWritten(m) ==
    LET c == ApplyNdef(content, m)
    IN  /\ Idle
        /\ Commit(c, image_in_flash, flash)
        /\ job' = CommitSteps(c)
        /\ UNCHANGED <<image_in_flash, flash, panel, failed, crashes>>

OnTagErased ==
    /\ Idle
    /\ Commit(content, image_in_flash, flash)
    /\ job' = CommitSteps(content)
    /\ UNCHANGED <<image_in_flash, flash, panel, failed, crashes>>

\* Mutant of OnClearImage: the slot in flash is not invalidated.
ClearMemoryOnly ==
    /\ Idle
    /\ content' = [content EXCEPT !.image = Nothing]
    /\ image_in_flash' = FALSE
    /\ incoming' = Nothing
    /\ old' = panel
    /\ new' = [content EXCEPT !.image = Nothing]
    /\ job' = <<"commit">>
    /\ UNCHANGED <<tag, flash, panel, failed, crashes>>

\* on_clear_image(), up to the write that invalidates the slot.
OnClearImage ==
    /\ Idle
    /\ content' = [content EXCEPT !.image = Nothing]
    /\ image_in_flash' = FALSE
    /\ incoming' = Nothing
    /\ old' = panel
    /\ new' = [content EXCEPT !.image = Nothing]
    /\ job' = <<"imageClear", "commit">>
    /\ UNCHANGED <<tag, flash, panel, failed, crashes>>

\* on_ble_image(): the previous image goes first, then the new one is saved.
OnBleImage(i) ==
    /\ Idle
    /\ content' = [content EXCEPT !.image = Nothing]
    /\ incoming' = i
    /\ old' = panel
    /\ new' = [content EXCEPT !.image = i]
    /\ job' = <<"imageHead", "imageBody", "adopt", "ndefHead", "ndefBody", "drawImage">>
    /\ UNCHANGED <<image_in_flash, tag, flash, panel, failed, crashes>>

-----------------------------------------------------------------------------
(* The steps of an update. *)

Step(s) == job # <<>> /\ Head(job) = s

Writes == {"ndefHead", "ndefBody", "imageHead", "imageBody", "imageClear"}

Slot(s) == IF s \in {"ndefHead", "ndefBody"} THEN "ndef" ELSE "image"

\* The record after write s of save_rec() or clear_image().
Written(s) ==
    LET payload == IF Slot(s) = "ndef" THEN ToNdef(content) ELSE incoming
        rec == flash[Slot(s)]
    IN  CASE s \in {"ndefHead", "imageHead"} -> [rec EXCEPT !.head = payload]
          [] s \in {"ndefBody", "imageBody"} -> [rec EXCEPT !.body = payload]
          [] s = "imageClear"                -> [rec EXCEPT !.head = Nothing]

WriteFlash ==
    /\ job # <<>> /\ Head(job) \in Writes
    /\ flash' = [flash EXCEPT ![Slot(Head(job))] = Written(Head(job))]
    /\ image_in_flash' = (image_in_flash \/ Step("imageBody"))
    /\ job' = Tail(job)
    /\ UNCHANGED <<content, tag, panel, incoming, old, new, failed, crashes>>

\* A write fails: its record is as it was or unreadable; save_rec() returns
\* without its second write, the error is logged, the update goes on.
WriteFails ==
    /\ job # <<>> /\ Head(job) \in Writes
    /\ failed < MaxFail
    /\ failed' = failed + 1
    /\ \E rec \in {flash[Slot(Head(job))], Blank} :
          flash' = [flash EXCEPT ![Slot(Head(job))] = rec]
    /\ job' = IF Head(job) \in {"ndefHead", "imageHead"} THEN Tail(Tail(job)) ELSE Tail(job)
    /\ UNCHANGED <<content, image_in_flash, tag, panel, incoming, old, new, crashes>>

\* on_ble_image() takes the image over and serves the new NDEF.
Adopt ==
    /\ Step("adopt")
    /\ content' = [content EXCEPT !.image = incoming]
    /\ SetNdef(ToNdef(content'))
    /\ job' = Tail(job)
    /\ UNCHANGED <<image_in_flash, flash, panel, incoming, old, new, failed, crashes>>

\* on_clear_image() ends with commit_content().
CommitAfterClear ==
    /\ Step("commit")
    /\ SetNdef(ToNdef(content))
    /\ job' = CommitSteps(content)
    /\ UNCHANGED <<content, image_in_flash, flash, panel, incoming, old, new, failed, crashes>>

\* The end of on_ble_image().  (The mutant keeps the image in memory.)
DrawUntrimmed ==
    /\ Step("drawImage")
    /\ panel' = content
    /\ job' = Tail(job)
    /\ UNCHANGED <<content, image_in_flash, tag, flash, incoming, old, new, failed, crashes>>

DrawImage ==
    /\ Step("drawImage")
    /\ panel' = content
    /\ content' = Trim(content, image_in_flash)
    /\ job' = Tail(job)
    /\ UNCHANGED <<image_in_flash, tag, flash, incoming, old, new, failed, crashes>>

\* The end of commit_content().  (The mutant draws what is in memory.)
DrawResident ==
    /\ Step("drawPlate")
    /\ panel' = content
    /\ job' = Tail(job)
    /\ UNCHANGED <<content, image_in_flash, tag, flash, incoming, old, new, failed, crashes>>

DrawPlate ==
    /\ Step("drawPlate")
    /\ panel' = Drawn(content, image_in_flash, flash)
    /\ job' = Tail(job)
    /\ UNCHANGED <<content, image_in_flash, tag, flash, incoming, old, new, failed, crashes>>

-----------------------------------------------------------------------------
(* run(): from flash f to the main loop. *)

Boot(f, redraw) ==
    LET c == Restored(f)
    IN  /\ flash' = f
        /\ image_in_flash' = (Load(f.image) # Nothing)
        /\ content' = Trim(c, image_in_flash')
        /\ panel' = IF redraw THEN c ELSE panel
        /\ tag' = IF FitsTag(ToNdef(content')) THEN ToNdef(content') ELSE Nothing
        /\ job' = <<>>
        /\ incoming' = Nothing
        /\ old' = c /\ new' = c
        /\ UNCHANGED failed

\* The power goes, between two steps or during a write.
Crash ==
    /\ crashes < MaxCrash
    /\ crashes' = crashes + 1
    /\ \/ Boot(flash, TRUE)
       \/ /\ job # <<>> /\ Head(job) \in Writes
          /\ Boot([flash EXCEPT ![Slot(Head(job))] = Blank], TRUE)

\* Deep sleep and wake-up: a reboot that leaves the panel as it is.
SleepAndWake ==
    /\ Idle
    /\ Boot(flash, FALSE)
    /\ UNCHANGED crashes

Begin ==
    \/ \E p \in BleTexts : OnBleContent(p)
    \/ \E m \in NfcMsgs : OnTagWritten(m)
    \/ OnTagErased
    \/ OnClearImage
    \/ \E i \in Image : OnBleImage(i)

Continue == WriteFlash \/ Adopt \/ CommitAfterClear \/ DrawImage \/ DrawPlate

Next == Begin \/ Continue \/ WriteFails \/ Crash \/ SleepAndWake

Spec == Init /\ [][Next]_vars

-----------------------------------------------------------------------------
(* Properties. *)

\* Every variable has its type.
TypeOK ==
    /\ content \in Content /\ panel \in Content /\ old \in Content /\ new \in Content
    /\ image_in_flash \in BOOLEAN
    /\ tag \in Ndef \cup {Nothing}
    /\ flash \in Flash
    /\ job \in Seq(Writes \cup {"adopt", "commit", "drawImage", "drawPlate"})
    /\ incoming \in Image \cup {Nothing}
    /\ failed \in 0..MaxFail /\ crashes \in 0..MaxCrash

\* What flash would restore is what the plate holds, once an update is over
\* (ble, tag and clear alike) and whatever was interrupted before, unless a
\* write failed: "so the flash copy never disagrees with what is shown"
\* (mod.rs:630-631).  An empty url is the exception: to_ndef() omits it and a
\* boot starts from the demo url (plate.rs:194, mod.rs:231-258).
StoreAgrees ==
    Idle /\ failed = 0 =>
        /\ Restored(flash).text \in {content.text, Reparse(content.text)}
        /\ Restored(flash).image = Drawn(content, image_in_flash, flash).image

\* What is on the panel is what would be drawn again (a wake-up does not draw).
PanelShows ==
    Idle /\ failed = 0 =>
        /\ content.text \in {panel.text, Reparse(panel.text)}
        /\ panel.image = Drawn(content, image_in_flash, flash).image

\* A loss of power in the middle of an update, or of a write, restores a text
\* and an image that were shown or were about to be, or the defaults: never
\* anything older and never a mixture of two payloads (load_rec(), save_rec()).
\* Of images only the first loss keeps this: one between the two records of
\* on_ble_image() leaves an old icon in NDEF behind the new image, and a second
\* one in the middle of on_clear_image() brings it back.
CrashRestoresOldOrNew ==
    [][crashes' # crashes /\ failed = 0 =>
        /\ content'.text \in {Reparse(old.text), Reparse(new.text), Demo.text}
        /\ crashes = 0 => new'.image \in {old.image, new.image, Nothing}]_vars

\* "larger ones are re-read from flash for each redraw" (mod.rs:159-161): once
\* an update is over, no full-screen image that flash holds stays in the heap
\* an incoming one needs.
HeapIsFree ==
    Idle /\ image_in_flash /\ content.image # Nothing => Size(content.image) # "large"
=============================================================================
