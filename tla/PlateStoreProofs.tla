-------------------------- MODULE PlateStoreProofs --------------------------
(***************************************************************************)
(* That the plate's copies agree, for all contents, all sizes of images    *)
(* and any number of power losses; that no full-screen image stays in      *)
(* memory, also when flash writes fail; that the panel shows the content;  *)
(* and what a loss of power restores.  The invariant follows the running   *)
(* update: for each list of steps that may remain, it says how far the     *)
(* copies have got.  Past adds what the earlier update has left behind.    *)
(***************************************************************************)
EXTENDS PlateStore, TLAPS

\* What may remain of commit_content() without and with an image to save, of
\* on_clear_image() before it commits, and of on_ble_image().
Draw1 == <<"drawPlate">>
Plain2 == <<"ndefBody", "drawPlate">>
Plain3 == <<"ndefHead", "ndefBody", "drawPlate">>
Image2 == <<"imageBody", "drawPlate">>
Image3 == <<"imageHead", "imageBody", "drawPlate">>
Image4 == <<"ndefBody", "imageHead", "imageBody", "drawPlate">>
Image5 == <<"ndefHead", "ndefBody", "imageHead", "imageBody", "drawPlate">>
Clear1 == <<"commit">>
Clear2 == <<"imageClear", "commit">>
Ble1 == <<"drawImage">>
Ble2 == <<"ndefBody", "drawImage">>
Ble3 == <<"ndefHead", "ndefBody", "drawImage">>
Ble4 == <<"adopt", "ndefHead", "ndefBody", "drawImage">>
Ble5 == <<"imageBody", "adopt", "ndefHead", "ndefBody", "drawImage">>
Ble6 == <<"imageHead", "imageBody", "adopt", "ndefHead", "ndefBody", "drawImage">>

CommitJob == {Draw1, Plain2, Plain3, Image2, Image3, Image4, Image5}
ClearJob == {Clear1, Clear2}
BleJob == {Ble1, Ble2, Ble3, Ble4, Ble5, Ble6}
Jobs == {<<>>} \cup CommitJob \cup ClearJob \cup BleJob

-----------------------------------------------------------------------------
(* What holds whatever fails. *)

\* A resident image that flash holds is not large.
HeapOk == image_in_flash /\ content.image # Nothing => Size(content.image) # "large"

\* The image that a commit still has to save is not large.
Saving == content.image # Nothing /\ Size(content.image) # "large"

\* An NDEF record carries no image that does not fit the tag.
TagSized(m) == m # Nothing /\ m.image # Nothing => Size(m.image) = "tag"
NdefOk == TagSized(flash.ndef.head) /\ TagSized(flash.ndef.body)

\* By what remains of the update.
Always ==
    /\ TypeOK
    /\ NdefOk
    /\ job \in Jobs
    /\ job \in {<<>>} \cup CommitJob \cup ClearJob => HeapOk
    /\ job \in {Image2, Image3, Image4, Image5} => Saving

-----------------------------------------------------------------------------
(* What holds as long as no write has failed. *)

HeadIs(slot, payload) == flash[slot].head = payload
Holds(slot, payload) == flash[slot].head = payload /\ flash[slot].body = payload

FlagOk == image_in_flash <=> Load(flash.image) # Nothing

\* The copies agree: StoreAgrees, and what the next update starts from.
CopiesOk(c, in_flash, f) ==
    /\ Restored(f).text \in {c.text, Reparse(c.text)}
    /\ Restored(f).image = Drawn(c, in_flash, f).image
    /\ c.image # Nothing => Size(c.image) # "large"
    /\ in_flash <=> Load(f.image) # Nothing

Agreed == CopiesOk(content, image_in_flash, flash)

Progress ==
    \/ job \in {<<>>, Draw1} /\ Agreed
    \/ job = Plain3 /\ content.image = Nothing /\ FlagOk
    \/ job = Plain2 /\ content.image = Nothing /\ FlagOk /\ HeadIs("ndef", ToNdef(content))
    \/ job = Image5 /\ Saving /\ incoming = content.image
    \/ job = Image4 /\ Saving /\ incoming = content.image /\ HeadIs("ndef", ToNdef(content))
    \/ job = Image3 /\ Saving /\ incoming = content.image /\ Holds("ndef", ToNdef(content))
    \/ /\ job = Image2 /\ Saving /\ incoming = content.image /\ Holds("ndef", ToNdef(content))
       /\ HeadIs("image", incoming)
    \/ job = Clear2 /\ content.image = Nothing /\ ~image_in_flash
    \/ job = Clear1 /\ content.image = Nothing /\ FlagOk
    \/ job = Ble6 /\ incoming # Nothing
    \/ job = Ble5 /\ incoming # Nothing /\ HeadIs("image", incoming)
    \/ job = Ble4 /\ incoming # Nothing /\ Holds("image", incoming) /\ image_in_flash
    \/ /\ job = Ble3 /\ incoming # Nothing /\ Holds("image", incoming) /\ image_in_flash
       /\ content.image = incoming
    \/ /\ job = Ble2 /\ incoming # Nothing /\ Holds("image", incoming) /\ image_in_flash
       /\ content.image = incoming /\ HeadIs("ndef", ToNdef(content))
    \/ /\ job = Ble1 /\ incoming # Nothing /\ Holds("image", incoming) /\ image_in_flash
       /\ content.image = incoming /\ Holds("ndef", ToNdef(content))

IInv == Always /\ (failed = 0 => Progress)

-----------------------------------------------------------------------------
(* The steps that remain. *)

LEMMA JobHeads ==
    /\ \A j \in {Draw1} : j # <<>> /\ Head(j) = "drawPlate"
    /\ \A j \in {Plain3, Image5, Ble3} : j # <<>> /\ Head(j) = "ndefHead"
    /\ \A j \in {Plain2, Image4, Ble2} : j # <<>> /\ Head(j) = "ndefBody"
    /\ \A j \in {Image3, Ble6} : j # <<>> /\ Head(j) = "imageHead"
    /\ \A j \in {Image2, Ble5} : j # <<>> /\ Head(j) = "imageBody"
    /\ \A j \in {Clear2} : j # <<>> /\ Head(j) = "imageClear"
    /\ \A j \in {Clear1} : j # <<>> /\ Head(j) = "commit"
    /\ \A j \in {Ble4} : j # <<>> /\ Head(j) = "adopt"
    /\ \A j \in {Ble1} : j # <<>> /\ Head(j) = "drawImage"
BY DEF Draw1, Plain2, Plain3, Image2, Image3, Image4, Image5, Clear1, Clear2,
   Ble1, Ble2, Ble3, Ble4, Ble5, Ble6

LEMMA JobTails ==
    /\ Tail(Draw1) = <<>> /\ Tail(Plain2) = Draw1 /\ Tail(Plain3) = Plain2
    /\ Tail(Image2) = Draw1 /\ Tail(Image3) = Image2
    /\ Tail(Image4) = Image3 /\ Tail(Image5) = Image4
    /\ Tail(Clear1) = <<>> /\ Tail(Clear2) = Clear1
    /\ Tail(Ble1) = <<>> /\ Tail(Ble2) = Ble1 /\ Tail(Ble3) = Ble2
    /\ Tail(Ble4) = Ble3 /\ Tail(Ble5) = Ble4 /\ Tail(Ble6) = Ble5
<1>1. Tail(Draw1) = <<>> /\ Tail(Plain2) = Draw1 /\ Tail(Plain3) = Plain2
  BY DEF Draw1, Plain2, Plain3
<1>2. Tail(Image2) = Draw1 /\ Tail(Image3) = Image2
  BY DEF Draw1, Image2, Image3
<1>3. Tail(Image4) = Image3
  BY DEF Image3, Image4
<1>4. Tail(Image5) = Image4
  BY DEF Image4, Image5
<1>5. Tail(Clear1) = <<>> /\ Tail(Clear2) = Clear1
  BY DEF Clear1, Clear2
<1>6. Tail(Ble1) = <<>> /\ Tail(Ble2) = Ble1 /\ Tail(Ble3) = Ble2
  BY DEF Ble1, Ble2, Ble3
<1>7. Tail(Ble4) = Ble3
  BY DEF Ble3, Ble4
<1>8. Tail(Ble5) = Ble4
  BY DEF Ble4, Ble5
<1>9. Tail(Ble6) = Ble5
  BY DEF Ble5, Ble6
<1> QED
  BY <1>1, <1>2, <1>3, <1>4, <1>5, <1>6, <1>7, <1>8, <1>9

LEMMA TupleOk ==
    ASSUME NEW S, NEW a \in S, NEW b \in S, NEW c \in S, NEW d \in S, NEW e \in S, NEW f \in S
    PROVE  /\ <<>> \in Seq(S) /\ <<a>> \in Seq(S) /\ <<a, b>> \in Seq(S)
           /\ <<a, b, c>> \in Seq(S) /\ <<a, b, c, d>> \in Seq(S)
           /\ <<a, b, c, d, e>> \in Seq(S) /\ <<a, b, c, d, e, f>> \in Seq(S)
OBVIOUS

JobStep == Writes \cup {"adopt", "commit", "drawImage", "drawPlate"}

LEMMA JobsTyped == Jobs \subseteq Seq(JobStep)
<1>1. {"drawPlate", "commit", "adopt", "drawImage", "ndefHead", "ndefBody", "imageHead",
       "imageBody", "imageClear"} \subseteq JobStep
  BY DEF JobStep, Writes
<1>2. {<<>>, Draw1, Plain2, Plain3, Image2, Image3} \subseteq Seq(JobStep)
  BY <1>1, TupleOk DEF Draw1, Plain2, Plain3, Image2, Image3
<1>3. {Image4, Image5} \subseteq Seq(JobStep)
  BY <1>1, TupleOk DEF Image4, Image5
<1>4. {Clear1, Clear2, Ble1, Ble2, Ble3} \subseteq Seq(JobStep)
  BY <1>1, TupleOk DEF Clear1, Clear2, Ble1, Ble2, Ble3
<1>5. Ble4 \in Seq(JobStep)
  BY <1>1, TupleOk DEF Ble4
<1>6. Ble5 \in Seq(JobStep)
  BY <1>1, TupleOk DEF Ble5
<1>7. Ble6 \in Seq(JobStep)
  BY <1>1, TupleOk DEF Ble6
<1> QED
  BY <1>2, <1>3, <1>4, <1>5, <1>6, <1>7 DEF Jobs, CommitJob, ClearJob, BleJob

-----------------------------------------------------------------------------
(* The content and its forms. *)

\* A whole record loads as its payload.
LEMMA LoadOk ==
    ASSUME NEW P, NEW rec \in Record(P)
    PROVE  /\ Load(rec) \in P \cup {Nothing}
           /\ Load(rec) # Nothing => rec.head = Load(rec) /\ rec.body = Load(rec)
           /\ rec.head # Nothing /\ rec.body = rec.head => Load(rec) = rec.head
           /\ rec.head = Nothing => Load(rec) = Nothing
BY DEF Load, Record

LEMMA ContentFields ==
    ASSUME NEW c \in Content
    PROVE  /\ c.text \in Text /\ c.url \in Url \cup {Nothing} /\ c.image \in Image \cup {Nothing}
           /\ c.text # Nothing
BY StoreAssumption DEF Content

LEMMA ToNdefOk ==
    ASSUME NEW c \in Content
    PROVE  /\ ToNdef(c) \in Ndef /\ ToNdef(c) # Nothing /\ TagSized(ToNdef(c))
           /\ ToNdef(c).text = c.text
           /\ c.image = Nothing => ToNdef(c).image = Nothing
<1>1. c.text \in Text /\ c.url \in Url \cup {Nothing} /\ c.image \in Image \cup {Nothing}
  BY ContentFields
<1>2. ToNdef(c) \in Ndef
  BY <1>1 DEF ToNdef, Ndef
<1>3. ToNdef(c) # Nothing
  BY <1>2, StoreAssumption
<1> QED
  BY <1>1, <1>2, <1>3 DEF ToNdef, TagSized

LEMMA ApplyNdefOk ==
    ASSUME NEW c \in Content, NEW m \in Ndef
    PROVE  /\ ApplyNdef(c, m) \in Content
           /\ ApplyNdef(c, m).text = (IF m.text = Nothing THEN c.text ELSE Reparse(m.text))
           /\ ApplyNdef(c, m).image = (IF m.image = Nothing THEN c.image ELSE m.image)
<1>1. m.text \in Text \cup {Nothing} /\ m.url \in Url \cup {Nothing} /\ m.image \in Image \cup {Nothing}
  BY DEF Ndef
<1>2. m.text # Nothing => Reparse(m.text) \in Text
  BY <1>1, StoreAssumption
<1> QED
  BY <1>1, <1>2, ContentFields DEF ApplyNdef, Given, Content

LEMMA DrawnOk ==
    ASSUME NEW c \in Content, NEW fl \in BOOLEAN, NEW f \in Flash
    PROVE  /\ Drawn(c, fl, f) \in Content
           /\ Drawn(c, fl, f).text = c.text
           /\ Drawn(c, fl, f).image = (IF c.image = Nothing /\ fl THEN Load(f.image) ELSE c.image)
<1>1. Load(f.image) \in Image \cup {Nothing}
  BY LoadOk DEF Flash
<1> QED
  BY <1>1 DEF Drawn, Content

LEMMA TrimOk ==
    ASSUME NEW c \in Content, NEW fl \in BOOLEAN
    PROVE  /\ Trim(c, fl) \in Content
           /\ Trim(c, fl).text = c.text
           /\ Trim(c, fl).image \in {c.image, Nothing}
           /\ fl /\ Trim(c, fl).image # Nothing => Size(Trim(c, fl).image) # "large"
           /\ ~fl => Trim(c, fl) = c
BY DEF Trim, Content

\* What run() restores: the message that loads, over the demo content, and
\* the image that loads instead of the message's.
LEMMA RestoredOk ==
    ASSUME NEW f \in Flash
    PROVE  /\ Restored(f) \in Content
           /\ Load(f.ndef) = Nothing => Restored(f).text = Demo.text
           /\ \A m \in Ndef : Load(f.ndef) = m /\ m.text # Nothing => Restored(f).text = Reparse(m.text)
           /\ Load(f.image) # Nothing => Restored(f).image = Load(f.image)
           /\ Load(f.image) = Nothing /\ Load(f.ndef) = Nothing => Restored(f).image = Nothing
           /\ \A m \in Ndef : Load(f.ndef) = m /\ Load(f.image) = Nothing => Restored(f).image = m.image
<1> DEFINE c == IF Load(f.ndef) = Nothing THEN Demo ELSE ApplyNdef(Demo, Load(f.ndef))
<1>1. Load(f.ndef) \in Ndef \cup {Nothing} /\ Load(f.image) \in Image \cup {Nothing}
  BY LoadOk DEF Flash
<1>2. Demo \in Content /\ Demo.image = Nothing /\ Nothing \notin Ndef
  BY StoreAssumption
<1>3. c \in Content
  BY <1>1, <1>2, ApplyNdefOk
<1>4. Restored(f) = [c EXCEPT !.image = Given(Load(f.image), @)]
  BY DEF Restored
<1>5. /\ Restored(f) \in Content /\ Restored(f).text = c.text
      /\ Restored(f).image = (IF Load(f.image) = Nothing THEN c.image ELSE Load(f.image))
  BY <1>1, <1>3, <1>4 DEF Given, Content
<1>6. CASE Load(f.ndef) = Nothing
  BY <1>1, <1>2, <1>5, <1>6
<1>7. CASE Load(f.ndef) # Nothing
  <2>1. Load(f.ndef) \in Ndef /\ c = ApplyNdef(Demo, Load(f.ndef))
    BY <1>1, <1>7
  <2>2. /\ Load(f.ndef).text # Nothing => c.text = Reparse(Load(f.ndef).text)
        /\ c.image = Load(f.ndef).image
    BY <1>2, <2>1, ApplyNdefOk
  <2> QED
    BY <1>2, <1>5, <1>7, <2>2
<1> QED
  BY <1>6, <1>7

-----------------------------------------------------------------------------
(* Boot, from whatever flash holds. *)

LEMMA BootOk ==
    ASSUME NEW f \in Flash, NEW redraw \in BOOLEAN, TypeOK, Boot(f, redraw),
           TagSized(f.ndef.head), TagSized(f.ndef.body), crashes' \in 0..MaxCrash
    PROVE  IInv'
<1> DEFINE c == Restored(f)
<1>1. c \in Content /\ Load(f.image) \in Image \cup {Nothing}
  BY RestoredOk, LoadOk DEF Flash
<1>2. /\ flash' = f /\ image_in_flash' = (Load(f.image) # Nothing)
      /\ content' = Trim(c, image_in_flash')
      /\ job' = <<>> /\ incoming' = Nothing /\ old' = c /\ new' = c /\ failed' = failed
      /\ panel' = (IF redraw THEN c ELSE panel)
      /\ tag' = (IF FitsTag(ToNdef(content')) THEN ToNdef(content') ELSE Nothing)
  BY DEF Boot
<1>3. image_in_flash' \in BOOLEAN
  BY <1>2
<1>4. /\ content' \in Content /\ content'.text = c.text
      /\ content'.image \in {c.image, Nothing}
      /\ image_in_flash' /\ content'.image # Nothing => Size(content'.image) # "large"
      /\ ~image_in_flash' => content' = c
  BY <1>1, <1>2, <1>3, TrimOk
<1>5. TypeOK'
  <2>1. tag' \in Ndef \cup {Nothing}
    BY <1>2, <1>4, ToNdefOk
  <2>2. job' \in Seq(JobStep)
    BY <1>2, JobsTyped DEF Jobs
  <2> QED
    BY <1>1, <1>2, <1>3, <1>4, <2>1, <2>2 DEF TypeOK, JobStep
<1>6. Always'
  <2>1. NdefOk'
    BY <1>2 DEF NdefOk
  <2>2. HeapOk'
    BY <1>4 DEF HeapOk
  <2>3. job' \in Jobs /\ job' \notin {Image2, Image3, Image4, Image5}
    BY <1>2, JobHeads DEF Jobs
  <2> QED
    BY <1>5, <2>1, <2>2, <2>3 DEF Always
<1>7. Agreed'
  <2>1. Restored(flash').text = content'.text
    BY <1>2, <1>4
  <2>2. FlagOk'
    BY <1>2 DEF FlagOk
  <2>3. Drawn(content', image_in_flash', flash').image
          = (IF content'.image = Nothing /\ image_in_flash' THEN Load(f.image) ELSE content'.image)
    BY <1>2, <1>3, <1>4, DrawnOk
  <2>4. CASE Load(f.image) # Nothing
    <3>1. c.image = Load(f.image)
      BY <2>4, RestoredOk
    <3> QED
      BY <1>2, <1>4, <2>1, <2>2, <2>3, <2>4, <3>1 DEF Agreed, CopiesOk
  <2>5. CASE Load(f.image) = Nothing
    <3>1. content' = c /\ ~image_in_flash'
      BY <1>2, <1>4, <2>5
    <3>2. c.image # Nothing => Size(c.image) # "large"
      <4>1. Load(f.ndef) \in Ndef \cup {Nothing} /\ Nothing \notin Ndef
        BY LoadOk, StoreAssumption DEF Flash
      <4>2. Load(f.ndef) # Nothing => f.ndef.head = Load(f.ndef)
        BY LoadOk DEF Flash
      <4>3. Load(f.ndef) # Nothing => c.image = Load(f.ndef).image
        BY <2>5, <4>1, RestoredOk
      <4>4. Load(f.ndef) = Nothing => c.image = Nothing
        BY <2>5, RestoredOk
      <4> QED
        BY <4>2, <4>3, <4>4 DEF TagSized
    <3> QED
      BY <1>2, <2>1, <2>2, <2>3, <3>1, <3>2 DEF Agreed, CopiesOk
  <2> QED
    BY <2>4, <2>5
<1> QED
  BY <1>2, <1>6, <1>7 DEF IInv, Progress

-----------------------------------------------------------------------------
(* The first step of an update. *)

LEMMA BlankOk ==
    /\ Blank \in Record(Ndef) /\ Blank \in Record(Image)
    /\ Load(Blank) = Nothing
    /\ Blank.head = Nothing /\ Blank.body = Nothing
BY DEF Blank, Record, Load

LEMMA InitOk == Init => IInv
<1> SUFFICES ASSUME Init PROVE IInv
  OBVIOUS
<1>1. Demo \in Content /\ Demo.image = Nothing
  BY StoreAssumption
<1>2. flash \in Flash /\ Load(flash.ndef) = Nothing /\ Load(flash.image) = Nothing
  BY BlankOk DEF Init, Flash
<1>3. <<>> \in Seq(JobStep) /\ <<>> \notin {Image2, Image3, Image4, Image5}
  BY JobsTyped, JobHeads DEF Jobs
<1>4. TypeOK
  <2>1. failed \in 0..MaxFail /\ crashes \in 0..MaxCrash
    BY StoreAssumption DEF Init
  <2>2. tag \in Ndef \cup {Nothing}
    BY <1>1, ToNdefOk DEF Init
  <2> QED
    BY <1>1, <1>2, <1>3, <2>1, <2>2 DEF Init, TypeOK, JobStep
<1>5. Always
  BY <1>1, <1>3, <1>4, BlankOk DEF Init, Always, NdefOk, TagSized, HeapOk, Jobs
<1>6. Restored(flash).text = Demo.text /\ Restored(flash).image = Nothing
  BY <1>2, RestoredOk
<1>7. Drawn(content, image_in_flash, flash) = Demo
  BY DEF Init, Drawn
<1>8. Agreed
  BY <1>1, <1>2, <1>6, <1>7 DEF Init, Agreed, CopiesOk
<1> QED
  BY <1>5, <1>8 DEF Init, IInv, Progress

\* When no update runs, and no write has failed, the copies agree.
LEMMA IdleOk ==
    ASSUME IInv, Idle
    PROVE  HeapOk /\ (failed = 0 => Agreed)
<1>1. HeapOk
  BY DEF IInv, Always, Idle
<1>2. failed = 0 => Agreed
  BY JobHeads DEF IInv, Progress, Idle
<1> QED
  BY <1>1, <1>2

\* commit_content() with new content c begins; a new image of c is not large.
LEMMA CommitStart ==
    ASSUME IInv, Idle, NEW c \in Content,
           c.image \in {Nothing, content.image} \/ Size(c.image) # "large",
           Commit(c, image_in_flash, flash), job' = CommitSteps(c),
           UNCHANGED <<image_in_flash, flash, panel, failed, crashes>>
    PROVE  IInv'
<1>1. TypeOK /\ HeapOk /\ (failed = 0 => Agreed)
  BY IdleOk DEF IInv, Always
<1>2. /\ content' = c /\ incoming' = c.image /\ old' = panel
      /\ new' = Drawn(c, image_in_flash, flash)
      /\ tag' \in {tag, ToNdef(c)}
  BY DEF Commit, SetNdef
<1>3. job' = (IF SavesImage(c) THEN Image5 ELSE Plain3)
  BY DEF CommitSteps, Image5, Plain3
<1>4. image_in_flash \in BOOLEAN /\ flash \in Flash
  BY <1>1 DEF TypeOK
<1>5. new' \in Content
  BY <1>2, <1>4, DrawnOk
<1>6. job' \in Jobs /\ job' \in Seq(JobStep)
  BY <1>3, JobsTyped DEF Jobs, CommitJob
<1>7. TypeOK'
  BY <1>1, <1>2, <1>5, <1>6, ToNdefOk, ContentFields DEF TypeOK, JobStep
<1>8. HeapOk'
  BY <1>1, <1>2 DEF HeapOk
<1>9. CASE SavesImage(c)
  <2>1. Saving' /\ job' = Image5
    BY <1>2, <1>3, <1>9 DEF SavesImage, Saving
  <2>2. Always'
    BY <1>6, <1>7, <1>8, <2>1 DEF Always, IInv, NdefOk
  <2> QED
    BY <1>2, <2>1, <2>2 DEF IInv, Progress
<1>10. CASE ~SavesImage(c)
  <2>1. job' = Plain3
    BY <1>3, <1>10
  <2>2. Plain3 \notin {Image2, Image3, Image4, Image5}
    <3>1. Plain3 \notin {Image2, Image3, Image4}
      BY JobHeads
    <3>2. Plain3 # Image5
      BY JobTails, JobHeads
    <3> QED
      BY <3>1, <3>2
  <2>3. Always'
    BY <1>6, <1>7, <1>8, <2>1, <2>2 DEF Always, IInv, NdefOk
  <2>4. failed' = 0 => content'.image = Nothing /\ FlagOk'
    BY <1>1, <1>2, <1>10 DEF SavesImage, Agreed, CopiesOk, FlagOk
  <2> QED
    BY <2>1, <2>3, <2>4 DEF IInv, Progress
<1> QED
  BY <1>9, <1>10

LEMMA ContentStep ==
    ASSUME IInv, NEW p \in BleTexts, OnBleContent(p)
    PROVE  IInv'
<1> DEFINE c == [content EXCEPT !.text = p.text, !.url = p.url]
<1>1. p \in Plain /\ content \in Content
  BY StoreAssumption DEF IInv, Always, TypeOK
<1>2. c \in Content /\ c.image = content.image
  BY <1>1 DEF Plain, Content
<1> QED
  BY <1>2, CommitStart DEF OnBleContent

LEMMA TagStep ==
    ASSUME IInv, NEW m \in NfcMsgs, OnTagWritten(m)
    PROVE  IInv'
<1> DEFINE c == ApplyNdef(content, m)
<1>1. m \in Ndef /\ (m.image # Nothing => Size(m.image) # "large") /\ content \in Content
  BY StoreAssumption DEF IInv, Always, TypeOK
<1>2. c \in Content /\ (c.image = content.image \/ (m.image # Nothing /\ c.image = m.image))
  BY <1>1, ApplyNdefOk
<1>3. c.image \in {Nothing, content.image} \/ Size(c.image) # "large"
  BY <1>1, <1>2
<1> QED
  BY <1>2, <1>3, CommitStart DEF OnTagWritten

LEMMA ErasedStep ==
    ASSUME IInv, OnTagErased
    PROVE  IInv'
<1>1. content \in Content
  BY DEF IInv, Always, TypeOK
<1> QED
  BY <1>1, CommitStart DEF OnTagErased

LEMMA ClearStep ==
    ASSUME IInv, OnClearImage
    PROVE  IInv'
<1>1. TypeOK /\ job' = Clear2
  BY DEF IInv, Always, OnClearImage, Clear2
<1>2. content' \in Content /\ content'.image = Nothing /\ new' \in Content
  BY <1>1 DEF TypeOK, OnClearImage, Content
<1>3. job' \in Jobs /\ job' \in Seq(JobStep) /\ job' \notin {Image2, Image3, Image4, Image5}
  BY <1>1, JobsTyped, JobHeads DEF Jobs, ClearJob
<1>4. TypeOK'
  BY <1>1, <1>2, <1>3 DEF TypeOK, OnClearImage, JobStep
<1>5. Always'
  BY <1>2, <1>3, <1>4 DEF IInv, Always, NdefOk, HeapOk, OnClearImage
<1> QED
  BY <1>1, <1>2, <1>5 DEF IInv, Progress, OnClearImage

LEMMA BleNotCommit ==
    /\ BleJob \cap ({<<>>} \cup CommitJob \cup ClearJob) = {}
    /\ {Draw1, Plain2, Plain3} \cap {Image2, Image3, Image4, Image5} = {}
<1>1. Ble1 \notin {<<>>} \cup CommitJob \cup ClearJob
  BY JobHeads DEF CommitJob, ClearJob
<1>2. Ble4 \notin {<<>>} \cup CommitJob \cup ClearJob
  BY JobHeads DEF CommitJob, ClearJob
<1>3. Ble2 \notin {<<>>} \cup CommitJob \cup ClearJob
  BY JobHeads, JobTails DEF CommitJob, ClearJob
<1>4. Ble3 \notin {<<>>} \cup CommitJob \cup ClearJob
  BY <1>3, JobHeads, JobTails DEF CommitJob, ClearJob
<1>5. Ble5 \notin {<<>>} \cup CommitJob \cup ClearJob
  BY JobHeads, JobTails DEF CommitJob, ClearJob
<1>6. Ble6 \notin {<<>>} \cup CommitJob \cup ClearJob
  BY <1>5, JobHeads, JobTails DEF CommitJob, ClearJob
<1>7. Draw1 \notin {Image2, Image3, Image4, Image5}
  BY JobHeads
<1>8. Plain2 \notin {Image2, Image3, Image4, Image5}
  BY <1>7, JobHeads, JobTails
<1>9. Plain3 \notin {Image2, Image3, Image4, Image5}
  BY <1>8, JobHeads, JobTails
<1> QED
  BY <1>1, <1>2, <1>3, <1>4, <1>5, <1>6, <1>7, <1>8, <1>9 DEF BleJob

LEMMA BleImageStep ==
    ASSUME IInv, NEW i \in Image, OnBleImage(i)
    PROVE  IInv'
<1>1. TypeOK /\ job' = Ble6 /\ i # Nothing
  BY StoreAssumption DEF IInv, Always, OnBleImage, Ble6
<1>2. content' \in Content /\ new' \in Content /\ incoming' = i
  BY <1>1 DEF TypeOK, OnBleImage, Content
<1>3. job' \in Jobs /\ job' \in Seq(JobStep) /\ job' \notin {<<>>} \cup CommitJob \cup ClearJob
  BY <1>1, JobsTyped, BleNotCommit DEF Jobs, BleJob
<1>4. TypeOK'
  BY <1>1, <1>2, <1>3 DEF TypeOK, OnBleImage, JobStep
<1>5. Always'
  BY <1>3, <1>4 DEF IInv, Always, NdefOk, OnBleImage, CommitJob
<1> QED
  BY <1>1, <1>2, <1>5 DEF IInv, Progress

-----------------------------------------------------------------------------
(* The writes. *)

\* What writing record `rec` to slot `s` of flash does.
Write(s, rec) == flash' = [flash EXCEPT ![s] = rec]

LEMMA WriteOk ==
    ASSUME NEW s \in {"ndef", "image"}, NEW rec, flash \in Flash, Write(s, rec),
           rec \in Record(IF s = "ndef" THEN Ndef ELSE Image)
    PROVE  /\ flash' \in Flash
           /\ s = "ndef" => flash'.ndef = rec /\ flash'.image = flash.image
           /\ s = "image" => flash'.image = rec /\ flash'.ndef = flash.ndef
<1>1. CASE s = "ndef"
  BY <1>1 DEF Write, Flash
<1>2. CASE s = "image"
  BY <1>2 DEF Write, Flash
<1> QED
  BY <1>1, <1>2

\* The jobs that begin with a write, and what they leave.
LEMMA WriteJobs ==
    ASSUME job \in Jobs, job # <<>>
    PROVE  /\ Head(job) = "ndefHead" => job \in {Plain3, Image5, Ble3}
           /\ Head(job) = "ndefBody" => job \in {Plain2, Image4, Ble2}
           /\ Head(job) = "imageHead" => job \in {Image3, Ble6}
           /\ Head(job) = "imageBody" => job \in {Image2, Ble5}
           /\ Head(job) = "imageClear" => job = Clear2
           /\ Head(job) = "commit" => job = Clear1
           /\ Head(job) = "adopt" => job = Ble4
           /\ Head(job) = "drawImage" => job = Ble1
           /\ Head(job) = "drawPlate" => job = Draw1
BY JobHeads DEF Jobs, CommitJob, ClearJob, BleJob

\* A later part of a job is a job, of the same update.
LEMMA TailJobs ==
    /\ \A j \in Jobs \ {<<>>} : Tail(j) \in Jobs
    /\ \A j \in CommitJob \cup ClearJob : Tail(j) \in {<<>>} \cup CommitJob \cup ClearJob
    /\ \A j \in BleJob : Tail(j) \in {<<>>} \cup BleJob
    /\ \A j \in Jobs \ {<<>>} : Tail(j) \in {Image2, Image3, Image4, Image5}
                              => j \in {Image2, Image3, Image4, Image5}
<1>1. \A j \in CommitJob : Tail(j) \in {<<>>} \cup CommitJob
  BY JobTails DEF CommitJob
<1>2. \A j \in ClearJob : Tail(j) \in {<<>>} \cup ClearJob
  BY JobTails DEF ClearJob
<1>3. \A j \in BleJob : Tail(j) \in {<<>>} \cup BleJob
  BY JobTails DEF BleJob
<1>4. {<<>>, Clear1} \cap {Image2, Image3, Image4, Image5} = {}
  BY JobHeads
<1>5. ASSUME NEW j \in Jobs \ {<<>>}, Tail(j) \in {Image2, Image3, Image4, Image5}
      PROVE  j \in {Image2, Image3, Image4, Image5}
  <2>1. CASE j \in {Draw1, Plain2, Plain3}
    BY <1>4, <1>5, <2>1, BleNotCommit, JobTails
  <2>2. CASE j \in ClearJob
    BY <1>4, <1>5, <2>2, JobTails DEF ClearJob
  <2>3. CASE j \in BleJob
    BY <1>3, <1>4, <1>5, <2>3, BleNotCommit DEF CommitJob
  <2> QED
    BY <1>5, <2>1, <2>2, <2>3 DEF Jobs, CommitJob
<1> QED
  BY <1>1, <1>2, <1>3, <1>5 DEF Jobs

\* What every write keeps, also one that fails: `rec` goes to the slot of the
\* first step, `next` is what remains.
LEMMA WriteKeeps ==
    ASSUME IInv, job # <<>>, Head(job) \in Writes,
           NEW rec, rec \in Record(IF Slot(Head(job)) = "ndef" THEN Ndef ELSE Image),
           Slot(Head(job)) = "ndef" => TagSized(rec.head) /\ TagSized(rec.body),
           Write(Slot(Head(job)), rec),
           image_in_flash' = image_in_flash
             \/ (image_in_flash' = TRUE /\ Head(job) = "imageBody"),
           job' \in Jobs, job' \in BleJob <=> job \in BleJob,
           job' \in {Image2, Image3, Image4, Image5} => job \in {Image2, Image3, Image4, Image5},
           UNCHANGED <<content, tag, panel, incoming, old, new, crashes>>,
           failed' \in 0..MaxFail
    PROVE  Always'
<1>1. TypeOK /\ job \in Jobs /\ NdefOk /\ flash \in Flash
  BY DEF IInv, Always, TypeOK
<1>2. Slot(Head(job)) \in {"ndef", "image"}
  BY DEF Slot
<1>3. flash' \in Flash
  BY <1>1, <1>2, WriteOk
<1>4. job' \in Seq(JobStep)
  BY JobsTyped
<1>5. image_in_flash' \in BOOLEAN
  BY <1>1 DEF TypeOK
<1>6. TypeOK'
  BY <1>1, <1>3, <1>4, <1>5 DEF TypeOK, JobStep
<1>7. NdefOk'
  BY <1>1, <1>2, WriteOk DEF NdefOk
<1>8. job' \in {Image2, Image3, Image4, Image5} => Saving'
  BY DEF IInv, Always, Saving
<1>9. job' \in {<<>>} \cup CommitJob \cup ClearJob => HeapOk'
  <2> SUFFICES ASSUME job' \in {<<>>} \cup CommitJob \cup ClearJob PROVE HeapOk'
    OBVIOUS
  <2>1. job \in {<<>>} \cup CommitJob \cup ClearJob /\ job \notin BleJob
    BY <1>1, BleNotCommit DEF Jobs
  <2>2. CASE image_in_flash' = image_in_flash
    BY <2>1, <2>2 DEF IInv, Always, HeapOk
  <2>3. CASE Head(job) = "imageBody"
    <3>1. job = Image2
      BY <1>1, <2>1, <2>3, WriteJobs DEF BleJob
    <3> QED
      BY <3>1 DEF IInv, Always, HeapOk, Saving
  <2> QED
    BY <2>2, <2>3
<1> QED
  BY <1>6, <1>7, <1>8, <1>9 DEF Always

\* Every write but those of the record that is drawn next keeps its update's kind.
LEMMA WriteKinds ==
    ASSUME job \in Jobs, job # <<>>, Head(job) \in Writes
    PROVE  /\ Tail(job) \in Jobs
           /\ Tail(job) \in BleJob <=> job \in BleJob
           /\ Tail(job) \in {Image2, Image3, Image4, Image5} => job \in {Image2, Image3, Image4, Image5}
<1>1. Tail(job) \in Jobs
      /\ (Tail(job) \in {Image2, Image3, Image4, Image5} => job \in {Image2, Image3, Image4, Image5})
  BY TailJobs
<1>2. CASE job \in BleJob
  <2>1. job \in {Ble2, Ble3, Ble5, Ble6}
    BY <1>2, JobHeads DEF BleJob, Writes
  <2> QED
    BY <1>1, <1>2, <2>1, JobTails DEF BleJob
<1>3. CASE job \notin BleJob
  <2>1. job \in CommitJob \cup ClearJob
    BY <1>3 DEF Jobs
  <2>2. Tail(job) \in {<<>>} \cup CommitJob \cup ClearJob
    BY <2>1, TailJobs
  <2> QED
    BY <1>1, <1>3, <2>2, BleNotCommit
<1> QED
  BY <1>2, <1>3

\* The record that a write makes.
LEMMA WrittenOk ==
    ASSUME TypeOK, NdefOk, NEW s \in Writes
    PROVE  /\ Written(s) \in Record(IF Slot(s) = "ndef" THEN Ndef ELSE Image)
           /\ Slot(s) = "ndef" => TagSized(Written(s).head) /\ TagSized(Written(s).body)
           /\ s = "ndefHead" => Written(s).head = ToNdef(content)
           /\ s = "ndefBody" => Written(s).head = flash.ndef.head /\ Written(s).body = ToNdef(content)
           /\ s = "imageHead" => Written(s).head = incoming
           /\ s = "imageBody" => Written(s).head = flash.image.head /\ Written(s).body = incoming
           /\ s = "imageClear" => Written(s).head = Nothing
<1>1. /\ flash.ndef \in Record(Ndef) /\ flash.image \in Record(Image)
      /\ incoming \in Image \cup {Nothing}
      /\ ToNdef(content) \in Ndef /\ TagSized(ToNdef(content))
  BY ToNdefOk DEF TypeOK, Flash
<1>2. CASE s = "ndefHead"
  BY <1>1, <1>2 DEF Written, Slot, Record, NdefOk
<1>3. CASE s = "ndefBody"
  BY <1>1, <1>3 DEF Written, Slot, Record, NdefOk
<1>4. CASE s = "imageHead"
  BY <1>1, <1>4 DEF Written, Slot, Record
<1>5. CASE s = "imageBody"
  BY <1>1, <1>5 DEF Written, Slot, Record
<1>6. CASE s = "imageClear"
  BY <1>1, <1>6 DEF Written, Slot, Record
<1> QED
  BY <1>2, <1>3, <1>4, <1>5, <1>6 DEF Writes

\* Flash agrees with content once its NDEF record is content's, and its image
\* record content's image, or what it was while content has none.
LEMMA AgreedOk ==
    ASSUME NEW c \in Content, NEW fl \in BOOLEAN, NEW f \in Flash,
           f.ndef.head = ToNdef(c), f.ndef.body = ToNdef(c),
           fl <=> Load(f.image) # Nothing,
           c.image # Nothing =>
             /\ fl /\ Size(c.image) # "large"
             /\ f.image.head = c.image /\ f.image.body = c.image
    PROVE  CopiesOk(c, fl, f)
<1> DEFINE m == ToNdef(c)
<1>2. m \in Ndef /\ m # Nothing /\ m.text = c.text /\ m.text # Nothing
      /\ (c.image = Nothing => m.image = Nothing)
  BY ToNdefOk, ContentFields
<1>3. Load(f.ndef) = m
  BY <1>2, LoadOk DEF Flash
<1>4. Restored(f).text = Reparse(c.text)
  BY <1>2, <1>3, RestoredOk
<1>5. Drawn(c, fl, f).image = (IF c.image = Nothing /\ fl THEN Load(f.image) ELSE c.image)
  BY DrawnOk
<1>6. CASE Load(f.image) = Nothing
  <2>1. c.image = Nothing /\ ~fl
    BY <1>6
  <2>2. Restored(f).image = Nothing
    BY <1>2, <1>3, <1>6, <2>1, RestoredOk
  <2> QED
    BY <1>4, <1>5, <2>1, <2>2 DEF CopiesOk
<1>7. CASE Load(f.image) # Nothing
  <2>1. Restored(f).image = Load(f.image)
    BY <1>7, RestoredOk
  <2>2. c.image # Nothing => Load(f.image) = c.image
    BY LoadOk DEF Flash
  <2> QED
    BY <1>4, <1>5, <1>7, <2>1, <2>2 DEF CopiesOk
<1> QED
  BY <1>6, <1>7

-----------------------------------------------------------------------------
(* Progress, read off the remaining steps. *)

LEMMA JobsDiffer ==
    /\ Plain3 # Image5 /\ Plain3 # Ble3 /\ Image5 # Ble3
    /\ Plain2 # Image4 /\ Plain2 # Ble2 /\ Image4 # Ble2
    /\ Image3 # Ble6 /\ Image2 # Ble5
BY BleNotCommit DEF BleJob, CommitJob

LEMMA ProgressCommit ==
    ASSUME Progress
    PROVE  /\ job = Draw1 => Agreed
           /\ job = Plain3 => content.image = Nothing /\ FlagOk
           /\ job = Plain2 => content.image = Nothing /\ FlagOk /\ HeadIs("ndef", ToNdef(content))
           /\ job \in {Image2, Image3, Image4, Image5} => Saving /\ incoming = content.image
           /\ job = Image4 => HeadIs("ndef", ToNdef(content))
           /\ job \in {Image2, Image3} => Holds("ndef", ToNdef(content))
           /\ job = Image2 => HeadIs("image", incoming)
           /\ job = Clear2 => content.image = Nothing /\ ~image_in_flash
           /\ job = Clear1 => content.image = Nothing /\ FlagOk
<1>1. CASE job \in {<<>>, Draw1, Clear1, Clear2}
  BY <1>1, JobHeads DEF Progress
<1>2. CASE job \in {Plain3, Image5, Ble3}
  BY <1>2, JobHeads, JobsDiffer DEF Progress
<1>3. CASE job \in {Plain2, Image4, Ble2}
  BY <1>3, JobHeads, JobsDiffer DEF Progress
<1>4. CASE job \in {Image3, Ble6, Image2, Ble5}
  BY <1>4, JobHeads, JobsDiffer DEF Progress
<1>5. CASE job \in {Ble1, Ble4}
  BY <1>5, JobHeads DEF Progress
<1> QED
  BY <1>1, <1>2, <1>3, <1>4, <1>5 DEF Progress

LEMMA ProgressBle ==
    ASSUME Progress
    PROVE  /\ job \in BleJob => incoming # Nothing
           /\ job = Ble5 => HeadIs("image", incoming)
           /\ job \in {Ble1, Ble2, Ble3, Ble4} => Holds("image", incoming) /\ image_in_flash
           /\ job \in {Ble1, Ble2, Ble3} => content.image = incoming
           /\ job = Ble2 => HeadIs("ndef", ToNdef(content))
           /\ job = Ble1 => Holds("ndef", ToNdef(content))
<1>1. CASE job \in {<<>>} \cup CommitJob \cup ClearJob
  BY <1>1, BleNotCommit DEF BleJob
<1>2. CASE job = Ble1
  BY <1>2, JobHeads DEF Progress, BleJob
<1>3. CASE job = Ble2
  BY <1>3, JobHeads, JobsDiffer DEF Progress, BleJob
<1>4. CASE job = Ble3
  BY <1>4, JobHeads, JobsDiffer DEF Progress, BleJob
<1>5. CASE job \in {Ble4, Ble5, Ble6}
  BY <1>5, JobHeads, JobsDiffer DEF Progress, BleJob
<1> QED
  BY <1>1, <1>2, <1>3, <1>4, <1>5 DEF Progress, CommitJob, ClearJob

-----------------------------------------------------------------------------
(* WriteFlash and WriteFails. *)

\* What a write changes, and that it keeps what every write keeps.
LEMMA WriteFlashOk ==
    ASSUME IInv, WriteFlash
    PROVE  /\ Always'
           /\ job # <<>> /\ job \in Jobs /\ job' = Tail(job)
           /\ Slot(Head(job)) = "ndef" =>
                flash'.ndef = Written(Head(job)) /\ flash'.image = flash.image
           /\ Slot(Head(job)) = "image" =>
                flash'.image = Written(Head(job)) /\ flash'.ndef = flash.ndef
           /\ image_in_flash' = (image_in_flash \/ Head(job) = "imageBody")
           /\ UNCHANGED <<content, incoming, failed>>
<1>1. TypeOK /\ NdefOk /\ flash \in Flash /\ job \in Jobs
  BY DEF IInv, Always, TypeOK
<1>2. /\ job # <<>> /\ Head(job) \in Writes /\ job' = Tail(job)
      /\ Write(Slot(Head(job)), Written(Head(job)))
      /\ UNCHANGED <<content, tag, panel, incoming, old, new, failed, crashes>>
  BY DEF WriteFlash, Write
<1>3. image_in_flash' = (image_in_flash \/ Head(job) = "imageBody")
  BY <1>2 DEF WriteFlash, Step
<1>4. /\ Written(Head(job)) \in Record(IF Slot(Head(job)) = "ndef" THEN Ndef ELSE Image)
      /\ Slot(Head(job)) = "ndef" =>
           TagSized(Written(Head(job)).head) /\ TagSized(Written(Head(job)).body)
  BY <1>1, <1>2, WrittenOk
<1>5. Slot(Head(job)) \in {"ndef", "image"}
  BY DEF Slot
<1>6. failed' \in 0..MaxFail
  BY <1>1, <1>2 DEF TypeOK
<1>7. image_in_flash' = image_in_flash \/ (image_in_flash' = TRUE /\ Head(job) = "imageBody")
  BY <1>1, <1>3 DEF TypeOK
<1>8. /\ job' \in Jobs /\ (job' \in BleJob <=> job \in BleJob)
      /\ job' \in {Image2, Image3, Image4, Image5} => job \in {Image2, Image3, Image4, Image5}
  BY <1>1, <1>2, WriteKinds
<1>9. Always'
  BY <1>2, <1>4, <1>6, <1>7, <1>8, WriteKeeps
<1> QED
  BY <1>1, <1>2, <1>3, <1>4, <1>5, <1>9, WriteOk

LEMMA WriteFlashStep ==
    ASSUME IInv, WriteFlash
    PROVE  IInv'
<1>1. Always'
  BY WriteFlashOk
<1> SUFFICES ASSUME failed' = 0 PROVE Progress'
  BY <1>1 DEF IInv
<1>2. /\ job # <<>> /\ job \in Jobs /\ job' = Tail(job)
      /\ Slot(Head(job)) = "ndef" =>
           flash'.ndef = Written(Head(job)) /\ flash'.image = flash.image
      /\ Slot(Head(job)) = "image" =>
           flash'.image = Written(Head(job)) /\ flash'.ndef = flash.ndef
      /\ image_in_flash' = (image_in_flash \/ Head(job) = "imageBody")
      /\ content' = content /\ incoming' = incoming
  BY WriteFlashOk
<1>3. Progress /\ TypeOK /\ NdefOk /\ TypeOK' /\ Head(job) \in Writes
  BY <1>1, WriteFlashOk DEF IInv, Always, WriteFlash
<1>4. image_in_flash \in BOOLEAN /\ flash \in Flash /\ flash' \in Flash
  BY <1>3 DEF TypeOK
<1>5. CASE Head(job) = "ndefHead"
  <2>1. flash'.ndef.head = ToNdef(content) /\ flash'.image = flash.image
        /\ image_in_flash' = image_in_flash
    BY <1>2, <1>3, <1>4, <1>5, WrittenOk DEF Slot
  <2>2. job \in {Plain3, Image5, Ble3}
    BY <1>2, <1>5, WriteJobs
  <2>3. CASE job = Plain3
    <3>1. job' = Plain2 /\ content'.image = Nothing /\ FlagOk' /\ HeadIs("ndef", ToNdef(content))'
      BY <1>2, <1>3, <2>1, <2>3, JobTails, ProgressCommit DEF FlagOk, HeadIs
    <3> QED
      BY <3>1 DEF Progress
  <2>4. CASE job = Image5
    <3>1. /\ job' = Image4 /\ Saving' /\ incoming' = content'.image
          /\ HeadIs("ndef", ToNdef(content))'
      BY <1>2, <1>3, <2>1, <2>4, JobTails, ProgressCommit DEF Saving, HeadIs
    <3> QED
      BY <3>1 DEF Progress
  <2>5. CASE job = Ble3
    <3>1. /\ job' = Ble2 /\ incoming' # Nothing /\ Holds("image", incoming)' /\ image_in_flash'
          /\ content'.image = incoming' /\ HeadIs("ndef", ToNdef(content))'
      BY <1>2, <1>3, <2>1, <2>5, JobTails, ProgressBle DEF HeadIs, Holds, BleJob
    <3> QED
      BY <3>1 DEF Progress
  <2> QED
    BY <2>2, <2>3, <2>4, <2>5
<1>6. CASE Head(job) = "ndefBody"
  <2>1. /\ flash'.ndef.head = flash.ndef.head /\ flash'.ndef.body = ToNdef(content)
        /\ flash'.image = flash.image /\ image_in_flash' = image_in_flash
    BY <1>2, <1>3, <1>4, <1>6, WrittenOk DEF Slot
  <2>2. job \in {Plain2, Image4, Ble2}
    BY <1>2, <1>6, WriteJobs
  <2>3. CASE job = Plain2
    <3>1. /\ job' = Draw1 /\ content'.image = Nothing /\ FlagOk'
          /\ Holds("ndef", ToNdef(content))'
      BY <1>2, <1>3, <2>1, <2>3, JobTails, ProgressCommit DEF FlagOk, HeadIs, Holds
    <3>2. Agreed'
      BY <1>3, <3>1, AgreedOk DEF Agreed, TypeOK, Holds, FlagOk
    <3> QED
      BY <3>1, <3>2 DEF Progress
  <2>4. CASE job = Image4
    <3>1. /\ job' = Image3 /\ Saving' /\ incoming' = content'.image
          /\ Holds("ndef", ToNdef(content))'
      BY <1>2, <1>3, <2>1, <2>4, JobTails, ProgressCommit DEF Saving, HeadIs, Holds
    <3> QED
      BY <3>1 DEF Progress
  <2>5. CASE job = Ble2
    <3>1. /\ job' = Ble1 /\ incoming' # Nothing /\ Holds("image", incoming)' /\ image_in_flash'
          /\ content'.image = incoming' /\ Holds("ndef", ToNdef(content))'
      BY <1>2, <1>3, <2>1, <2>5, JobTails, ProgressBle DEF HeadIs, Holds, BleJob
    <3> QED
      BY <3>1 DEF Progress
  <2> QED
    BY <2>2, <2>3, <2>4, <2>5
<1>7. CASE Head(job) = "imageHead"
  <2>1. flash'.image.head = incoming /\ flash'.ndef = flash.ndef
    BY <1>2, <1>3, <1>4, <1>7, WrittenOk DEF Slot
  <2>2. job \in {Image3, Ble6}
    BY <1>2, <1>7, WriteJobs
  <2>3. CASE job = Image3
    <3>1. /\ job' = Image2 /\ Saving' /\ incoming' = content'.image
          /\ Holds("ndef", ToNdef(content))' /\ HeadIs("image", incoming)'
      BY <1>2, <1>3, <2>1, <2>3, JobTails, ProgressCommit DEF Saving, HeadIs, Holds
    <3> QED
      BY <3>1 DEF Progress
  <2>4. CASE job = Ble6
    <3>1. job' = Ble5 /\ incoming' # Nothing /\ HeadIs("image", incoming)'
      BY <1>2, <1>3, <2>1, <2>4, JobTails, ProgressBle DEF HeadIs, BleJob
    <3> QED
      BY <3>1 DEF Progress
  <2> QED
    BY <2>2, <2>3, <2>4
<1>8. CASE Head(job) = "imageBody"
  <2>1. /\ flash'.image.head = flash.image.head /\ flash'.image.body = incoming
        /\ flash'.ndef = flash.ndef /\ image_in_flash'
    BY <1>2, <1>3, <1>4, <1>8, WrittenOk DEF Slot
  <2>2. job \in {Image2, Ble5}
    BY <1>2, <1>8, WriteJobs
  <2>3. CASE job = Image2
    <3>1. /\ job' = Draw1 /\ content'.image # Nothing /\ Size(content'.image) # "large"
          /\ Holds("ndef", ToNdef(content))' /\ Holds("image", content.image)'
      BY <1>2, <1>3, <2>1, <2>3, JobTails, ProgressCommit DEF Saving, HeadIs, Holds
    <3>2. FlagOk'
      BY <1>4, <2>1, <3>1, LoadOk DEF FlagOk, Holds, Flash
    <3> QED
      <4>1. Agreed'
        BY <1>3, <2>1, <3>1, <3>2, AgreedOk DEF Agreed, TypeOK, Holds, FlagOk
      <4> QED
        BY <3>1, <4>1 DEF Progress
  <2>4. CASE job = Ble5
    <3>1. /\ job' = Ble4 /\ incoming' # Nothing /\ Holds("image", incoming)' /\ image_in_flash'
      BY <1>2, <1>3, <2>1, <2>4, JobTails, ProgressBle DEF HeadIs, Holds, BleJob
    <3> QED
      BY <3>1 DEF Progress
  <2> QED
    BY <2>2, <2>3, <2>4
<1>9. CASE Head(job) = "imageClear"
  <2>1. flash'.image.head = Nothing /\ image_in_flash' = image_in_flash
    BY <1>2, <1>3, <1>4, <1>9, WrittenOk DEF Slot
  <2>2. job = Clear2
    BY <1>2, <1>9, WriteJobs
  <2>3. job' = Clear1 /\ content'.image = Nothing /\ ~image_in_flash'
    BY <1>2, <1>3, <2>1, <2>2, JobTails, ProgressCommit
  <2>4. FlagOk'
    BY <1>4, <2>1, <2>3, LoadOk DEF FlagOk, Flash
  <2> QED
    BY <2>3, <2>4 DEF Progress
<1> QED
  BY <1>3, <1>5, <1>6, <1>7, <1>8, <1>9 DEF Writes

\* A failed write keeps what every write keeps; no more is claimed after it.
LEMMA WriteFailsStep ==
    ASSUME IInv, WriteFails
    PROVE  IInv'
<1>1. TypeOK /\ NdefOk /\ job \in Jobs /\ job # <<>> /\ Head(job) \in Writes
  BY DEF IInv, Always, WriteFails
<1>2. /\ failed \in Nat /\ MaxFail \in Nat /\ failed' = failed + 1 /\ failed < MaxFail
      /\ UNCHANGED <<content, image_in_flash, tag, panel, incoming, old, new, crashes>>
  BY <1>1, StoreAssumption DEF TypeOK, WriteFails
<1>3. failed' \in 0..MaxFail /\ failed' # 0
  BY <1>2
<1>4. PICK rec \in {flash[Slot(Head(job))], Blank} : Write(Slot(Head(job)), rec)
  BY DEF WriteFails, Write
<1>5. /\ rec \in Record(IF Slot(Head(job)) = "ndef" THEN Ndef ELSE Image)
      /\ Slot(Head(job)) = "ndef" => TagSized(rec.head) /\ TagSized(rec.body)
  <2>1. flash.ndef \in Record(Ndef) /\ flash.image \in Record(Image)
    BY <1>1 DEF TypeOK, Flash
  <2>2. TagSized(Nothing)
    BY DEF TagSized
  <2>3. Slot(Head(job)) \in {"ndef", "image"}
    BY DEF Slot
  <2> QED
    BY <1>1, <1>4, <2>1, <2>2, <2>3, BlankOk DEF NdefOk
<1>6. /\ job' \in Jobs /\ (job' \in BleJob <=> job \in BleJob)
      /\ job' \in {Image2, Image3, Image4, Image5} => job \in {Image2, Image3, Image4, Image5}
  <2>1. CASE Head(job) \notin {"ndefHead", "imageHead"}
    <3>1. job' = Tail(job)
      BY <2>1 DEF WriteFails
    <3> QED
      BY <1>1, <3>1, WriteKinds
  <2>2. CASE Head(job) \in {"ndefHead", "imageHead"}
    <3>1. job' = Tail(Tail(job)) /\ job \in {Plain3, Image5, Ble3, Image3, Ble6}
      BY <1>1, <2>2, WriteJobs DEF WriteFails
    <3>2. CASE job = Plain3
      BY <3>1, <3>2, JobTails, BleNotCommit DEF Jobs, CommitJob
    <3>3. CASE job = Image5
      BY <3>1, <3>3, JobTails, BleNotCommit DEF Jobs, CommitJob
    <3>4. CASE job = Image3
      BY <3>1, <3>4, JobTails, BleNotCommit DEF Jobs, CommitJob
    <3>5. CASE job \in {Ble3, Ble6}
      <4>1. job \in BleJob /\ job' \in BleJob
        BY <3>1, <3>5, JobTails DEF BleJob
      <4> QED
        BY <4>1, BleNotCommit DEF Jobs, CommitJob
    <3> QED
      BY <3>1, <3>2, <3>3, <3>4, <3>5
  <2> QED
    BY <2>1, <2>2
<1>7. Always'
  BY <1>1, <1>2, <1>3, <1>4, <1>5, <1>6, WriteKeeps
<1> QED
  BY <1>3, <1>7 DEF IInv

-----------------------------------------------------------------------------
(* The steps that do not write. *)

LEMMA AdoptStep ==
    ASSUME IInv, Adopt
    PROVE  IInv'
<1>1. TypeOK /\ NdefOk /\ job = Ble4
  BY WriteJobs DEF IInv, Always, Adopt, Step
<1>2. /\ job' = Ble3 /\ content' = [content EXCEPT !.image = incoming]
      /\ tag' \in {tag, ToNdef(content')}
      /\ UNCHANGED <<image_in_flash, flash, panel, incoming, old, new, failed, crashes>>
  BY <1>1, JobTails DEF Adopt, SetNdef
<1>3. content' \in Content /\ content'.image = incoming
  BY <1>1, <1>2 DEF TypeOK, Content
<1>4. job' \in Jobs /\ job' \in Seq(JobStep) /\ job' \notin {<<>>} \cup CommitJob \cup ClearJob
  BY <1>2, JobsTyped, BleNotCommit DEF Jobs, BleJob
<1>5. TypeOK'
  BY <1>1, <1>2, <1>3, <1>4, ToNdefOk DEF TypeOK, JobStep
<1>6. Always'
  BY <1>1, <1>2, <1>4, <1>5 DEF Always, NdefOk, CommitJob
<1>7. failed' = 0 => Progress'
  <2> SUFFICES ASSUME failed' = 0 PROVE Progress'
    OBVIOUS
  <2>1. incoming # Nothing /\ Holds("image", incoming) /\ image_in_flash
    BY <1>1, <1>2, ProgressBle DEF IInv, BleJob
  <2> QED
    BY <1>2, <1>3, <2>1 DEF Progress, Holds
<1> QED
  BY <1>6, <1>7 DEF IInv

LEMMA CommitAfterClearStep ==
    ASSUME IInv, CommitAfterClear
    PROVE  IInv'
<1>1. TypeOK /\ NdefOk /\ job = Clear1 /\ HeapOk
  BY WriteJobs DEF IInv, Always, CommitAfterClear, Step, ClearJob
<1>2. /\ job' = (IF SavesImage(content) THEN Image5 ELSE Plain3)
      /\ tag' \in {tag, ToNdef(content)}
      /\ UNCHANGED <<content, image_in_flash, flash, panel, incoming, old, new, failed, crashes>>
  BY <1>1 DEF CommitAfterClear, SetNdef, CommitSteps, Image5, Plain3
<1>3. job' \in Jobs /\ job' \in Seq(JobStep)
  BY <1>2, JobsTyped DEF Jobs, CommitJob
<1>4. TypeOK'
  BY <1>1, <1>2, <1>3, ToNdefOk DEF TypeOK, JobStep
<1>5. job' \in {Image2, Image3, Image4, Image5} => Saving'
  BY <1>2, BleNotCommit DEF SavesImage, Saving
<1>6. Always'
  BY <1>1, <1>2, <1>3, <1>4, <1>5 DEF Always, NdefOk, HeapOk
<1>7. failed' = 0 => Progress'
  <2> SUFFICES ASSUME failed' = 0 PROVE Progress'
    OBVIOUS
  <2>1. content.image = Nothing /\ FlagOk
    BY <1>1, <1>2, ProgressCommit DEF IInv
  <2>2. job' = Plain3 /\ content'.image = Nothing /\ FlagOk'
    BY <1>2, <2>1 DEF SavesImage, FlagOk
  <2> QED
    BY <2>2 DEF Progress
<1> QED
  BY <1>6, <1>7 DEF IInv

LEMMA DrawPlateStep ==
    ASSUME IInv, DrawPlate
    PROVE  IInv'
<1>1. TypeOK /\ NdefOk /\ job = Draw1 /\ HeapOk
  BY WriteJobs DEF IInv, Always, DrawPlate, Step, CommitJob
<1>2. /\ job' = <<>> /\ panel' = Drawn(content, image_in_flash, flash)
      /\ UNCHANGED <<content, image_in_flash, tag, flash, incoming, old, new, failed, crashes>>
  BY <1>1, JobTails DEF DrawPlate
<1>3. panel' \in Content
  BY <1>1, <1>2, DrawnOk DEF TypeOK
<1>4. job' \in Jobs /\ job' \in Seq(JobStep) /\ job' \notin {Image2, Image3, Image4, Image5}
  BY <1>2, JobsTyped, JobHeads DEF Jobs
<1>5. TypeOK'
  BY <1>1, <1>2, <1>3, <1>4 DEF TypeOK, JobStep
<1>6. Always'
  BY <1>1, <1>2, <1>4, <1>5 DEF Always, NdefOk, HeapOk
<1>7. failed' = 0 => Agreed'
  BY <1>1, <1>2, ProgressCommit DEF IInv, Agreed
<1> QED
  BY <1>2, <1>6, <1>7 DEF IInv, Progress

\* on_ble_image() ends with a record of the image in each slot that can hold
\* it; only then may it leave memory.
LEMMA DrawImageStep ==
    ASSUME IInv, DrawImage
    PROVE  IInv'
<1>1. TypeOK /\ NdefOk /\ job = Ble1
  BY WriteJobs DEF IInv, Always, DrawImage, Step
<1>2. /\ job' = <<>> /\ panel' = content /\ content' = Trim(content, image_in_flash)
      /\ UNCHANGED <<image_in_flash, tag, flash, incoming, old, new, failed, crashes>>
  BY <1>1, JobTails DEF DrawImage
<1>3. content \in Content /\ image_in_flash \in BOOLEAN /\ flash \in Flash
  BY <1>1 DEF TypeOK
<1>4. /\ content' \in Content /\ content'.text = content.text
      /\ content'.image \in {content.image, Nothing}
      /\ image_in_flash /\ content'.image # Nothing => Size(content'.image) # "large"
  BY <1>2, <1>3, TrimOk
<1>5. job' \in Jobs /\ job' \in Seq(JobStep) /\ job' \notin {Image2, Image3, Image4, Image5}
  BY <1>2, JobsTyped, JobHeads DEF Jobs
<1>6. TypeOK'
  BY <1>1, <1>2, <1>4, <1>5 DEF TypeOK, JobStep
<1>7. Always'
  BY <1>1, <1>2, <1>4, <1>5, <1>6 DEF Always, NdefOk, HeapOk
<1>8. ASSUME failed' = 0 PROVE Agreed'
  <2> DEFINE m == ToNdef(content)
  <2>1. /\ incoming # Nothing /\ Holds("image", incoming) /\ image_in_flash
        /\ content.image = incoming /\ Holds("ndef", m)
    BY <1>1, <1>2, <1>8, ProgressBle DEF IInv, BleJob
  <2>2. Load(flash.image) = incoming
    BY <1>3, <2>1, LoadOk DEF Holds, Flash
  <2>3. m \in Ndef /\ m # Nothing /\ m.text = content.text /\ m.text # Nothing
    BY <1>3, ToNdefOk, ContentFields
  <2>4. Load(flash.ndef) = m
    BY <1>3, <2>1, <2>3, LoadOk DEF Holds, Flash
  <2>5. Restored(flash).text = Reparse(content.text) /\ Restored(flash).image = incoming
    BY <1>3, <2>1, <2>2, <2>3, <2>4, RestoredOk
  <2>6. Drawn(content', image_in_flash, flash).image = incoming
    BY <1>3, <1>4, <2>1, <2>2, DrawnOk
  <2> QED
    BY <1>2, <1>4, <2>1, <2>2, <2>5, <2>6 DEF Agreed, CopiesOk
<1> QED
  BY <1>2, <1>7, <1>8 DEF IInv, Progress

-----------------------------------------------------------------------------
(* Losses of power, and sleep. *)

LEMMA CrashStep ==
    ASSUME IInv, Crash
    PROVE  IInv'
<1>1. TypeOK /\ NdefOk /\ flash \in Flash
  BY DEF IInv, Always, TypeOK
<1>2. crashes' \in 0..MaxCrash
  BY <1>1, StoreAssumption DEF TypeOK, Crash
<1>3. CASE Boot(flash, TRUE)
  BY <1>1, <1>2, <1>3, BootOk DEF NdefOk
<1>4. CASE Boot([flash EXCEPT ![Slot(Head(job))] = Blank], TRUE)
  <2> DEFINE f == [flash EXCEPT ![Slot(Head(job))] = Blank]
  <2>1. f \in Flash /\ f.ndef \in {flash.ndef, Blank}
    BY <1>1, BlankOk DEF Slot, Flash
  <2>2. TagSized(f.ndef.head) /\ TagSized(f.ndef.body)
    BY <1>1, <2>1, BlankOk DEF NdefOk, TagSized
  <2> QED
    BY <1>1, <1>2, <1>4, <2>1, <2>2, BootOk
<1> QED
  BY <1>3, <1>4 DEF Crash

LEMMA SleepStep ==
    ASSUME IInv, SleepAndWake
    PROVE  IInv'
<1>1. TypeOK /\ NdefOk /\ flash \in Flash
  BY DEF IInv, Always, TypeOK
<1>2. crashes' \in 0..MaxCrash
  BY <1>1 DEF TypeOK, SleepAndWake
<1> QED
  BY <1>1, <1>2, BootOk DEF SleepAndWake, NdefOk

LEMMA StutterStep ==
    ASSUME IInv, UNCHANGED vars
    PROVE  IInv'
<1>1. TypeOK'
  BY DEF IInv, Always, TypeOK, vars
<1>2. Always'
  BY <1>1 DEF IInv, Always, NdefOk, HeapOk, Saving, vars
<1>3. failed' = 0 => Progress'
  BY DEF IInv, Progress, Agreed, FlagOk, Saving, HeadIs, Holds, vars
<1> QED
  BY <1>2, <1>3 DEF IInv

LEMMA NextOk ==
    ASSUME IInv, [Next]_vars
    PROVE  IInv'
<1>1. CASE Begin
  BY <1>1, ContentStep, TagStep, ErasedStep, ClearStep, BleImageStep DEF Begin
<1>2. CASE Continue
  BY <1>2, WriteFlashStep, AdoptStep, CommitAfterClearStep, DrawImageStep, DrawPlateStep DEF Continue
<1>3. CASE WriteFails \/ Crash \/ SleepAndWake
  BY <1>3, WriteFailsStep, CrashStep, SleepStep
<1> QED
  BY <1>1, <1>2, <1>3, StutterStep DEF Next

-----------------------------------------------------------------------------
(* What is on the panel, when no update runs. *)

\* Splitting a text that is split already changes nothing.  (lines() removes one
\* carriage return from the end of a line: a text with two there is left out.)
ReparseSettles == \A t \in Text : Reparse(Reparse(t)) = Reparse(t)

LEMMA IdleAfter ==
    ASSUME IInv', job' = <<>>, failed' = 0
    PROVE  Agreed'
BY JobHeads DEF IInv, Progress

\* A boot without a redraw: what flash restores is what the panel shows.
LEMMA WakePanel ==
    ASSUME ReparseSettles, IInv, IInv', PanelShows, SleepAndWake, failed' = 0
    PROVE  PanelShows'
<1>1. /\ content' = Trim(Restored(flash), image_in_flash') /\ panel' = panel
      /\ flash' = flash /\ failed' = failed /\ job' = <<>>
  BY DEF SleepAndWake, Boot
<1>2. Agreed /\ Agreed' /\ Idle
  BY <1>1, IdleOk, IdleAfter DEF SleepAndWake
<1>3. TypeOK /\ TypeOK' /\ flash \in Flash /\ image_in_flash' \in BOOLEAN
  BY DEF IInv, Always, TypeOK
<1>4. content'.text = Restored(flash).text
  BY <1>1, <1>3, RestoredOk, TrimOk
<1>5. Restored(flash).text \in {content.text, Reparse(content.text)}
  BY <1>2 DEF Agreed, CopiesOk
<1>6. content.text \in {panel.text, Reparse(panel.text)} /\ panel.text \in Text
  BY <1>1, <1>2, <1>3, ContentFields DEF PanelShows, TypeOK
<1>7. content'.text \in {panel.text, Reparse(panel.text)}
  BY <1>4, <1>5, <1>6 DEF ReparseSettles
<1>8. panel.image = Drawn(content, image_in_flash, flash).image
  BY <1>1, <1>2 DEF PanelShows
<1>9. Drawn(content', image_in_flash', flash').image = panel.image
  BY <1>1, <1>2, <1>8 DEF Agreed, CopiesOk
<1> QED
  BY <1>1, <1>7, <1>9 DEF PanelShows

\* A boot that redraws shows what it restored.
LEMMA CrashPanel ==
    ASSUME IInv, IInv', Crash, failed' = 0
    PROVE  PanelShows'
<1>1. PICK f \in {flash, [flash EXCEPT ![Slot(Head(job))] = Blank]} : Boot(f, TRUE)
  BY DEF Crash
<1>2. /\ content' = Trim(Restored(f), image_in_flash') /\ panel' = Restored(f)
      /\ flash' = f /\ job' = <<>>
  BY <1>1 DEF Boot
<1>3. Agreed' /\ TypeOK' /\ f \in Flash /\ image_in_flash' \in BOOLEAN
  <2>1. flash \in Flash /\ f \in Flash
    BY BlankOk DEF IInv, Always, TypeOK, Flash, Slot
  <2> QED
    BY <1>2, <2>1, IdleAfter DEF IInv, Always, TypeOK
<1>4. content'.text = panel'.text
  BY <1>2, <1>3, RestoredOk, TrimOk
<1>5. Drawn(content', image_in_flash', flash').image = panel'.image
  BY <1>2, <1>3 DEF Agreed, CopiesOk
<1> QED
  BY <1>4, <1>5 DEF PanelShows

\* The last step of an update puts on the panel what would be drawn again.
LEMMA DrawPanel ==
    ASSUME IInv, IInv', DrawPlate \/ DrawImage, failed' = 0
    PROVE  PanelShows'
<1>1. /\ content \in Content /\ image_in_flash \in BOOLEAN /\ flash \in Flash
      /\ job \in Jobs
  BY DEF IInv, Always, TypeOK
<1>2. CASE DrawPlate
  <2>1. /\ panel' = Drawn(content, image_in_flash, flash)
        /\ UNCHANGED <<content, image_in_flash, flash>>
    BY <1>2 DEF DrawPlate
  <2>2. panel'.text = content'.text
    BY <1>1, <2>1, DrawnOk
  <2> QED
    BY <2>1, <2>2 DEF PanelShows
<1>3. CASE DrawImage
  <2>1. /\ panel' = content /\ content' = Trim(content, image_in_flash)
        /\ UNCHANGED <<image_in_flash, flash, incoming, failed>>
    BY <1>3 DEF DrawImage
  <2>2. job = Ble1
    BY <1>1, <1>3, WriteJobs DEF DrawImage, Step
  <2>3. /\ incoming # Nothing /\ Holds("image", incoming) /\ image_in_flash
        /\ content.image = incoming
    BY <2>1, <2>2, ProgressBle DEF IInv, BleJob
  <2>4. Load(flash.image) = incoming
    BY <1>1, <2>3, LoadOk DEF Holds, Flash
  <2>5. /\ content' \in Content /\ content'.text = content.text
        /\ content'.image \in {incoming, Nothing}
    BY <1>1, <2>1, <2>3, TrimOk
  <2>6. Drawn(content', image_in_flash', flash').image = incoming
    BY <1>1, <2>1, <2>3, <2>4, <2>5, DrawnOk
  <2> QED
    BY <2>1, <2>3, <2>5, <2>6 DEF PanelShows
<1> QED
  BY <1>2, <1>3

\* Every other step leaves an update running, or has seen a write fail.
LEMMA BusyAfter ==
    ASSUME IInv, Begin \/ WriteFlash \/ Adopt \/ CommitAfterClear
    PROVE  job' # <<>>
<1>1. job \in Jobs
  BY DEF IInv, Always
<1>2. CASE Begin
  <2>1. \A c : CommitSteps(c) # <<>>
    BY DEF CommitSteps
  <2>2. CASE \E p \in BleTexts : OnBleContent(p)
    BY <2>1, <2>2 DEF OnBleContent
  <2>3. CASE \E m \in NfcMsgs : OnTagWritten(m)
    BY <2>1, <2>3 DEF OnTagWritten
  <2>4. CASE OnTagErased
    BY <2>1, <2>4 DEF OnTagErased
  <2>5. CASE OnClearImage
    BY <2>5 DEF OnClearImage
  <2>6. CASE \E i \in Image : OnBleImage(i)
    BY <2>6 DEF OnBleImage
  <2> QED
    BY <1>2, <2>2, <2>3, <2>4, <2>5, <2>6 DEF Begin
<1>3. CASE WriteFlash
  <2>1. job \in {Plain3, Image5, Ble3, Plain2, Image4, Ble2, Image3, Ble6, Image2, Ble5, Clear2}
    BY <1>1, <1>3, WriteJobs DEF WriteFlash, Writes
  <2>2. Tail(job) # <<>>
    BY <2>1, JobTails, JobHeads, ZenonT(30)
  <2> QED
    BY <1>3, <2>2 DEF WriteFlash
<1>4. CASE Adopt
  <2>1. job = Ble4 /\ job' = Tail(job)
    BY <1>1, <1>4, WriteJobs DEF Adopt, Step
  <2> QED
    BY <2>1, JobTails, JobHeads
<1>5. CASE CommitAfterClear
  BY <1>5 DEF CommitAfterClear, CommitSteps
<1> QED
  BY <1>2, <1>3, <1>4, <1>5

LEMMA PanelStep ==
    ASSUME ReparseSettles, IInv, IInv', PanelShows, [Next]_vars
    PROVE  PanelShows'
<1> SUFFICES ASSUME job' = <<>>, failed' = 0 PROVE PanelShows'
  BY DEF PanelShows, Idle
<1>1. CASE Begin \/ WriteFlash \/ Adopt \/ CommitAfterClear
  BY <1>1, BusyAfter
<1>2. CASE DrawImage \/ DrawPlate
  BY <1>2, DrawPanel
<1>3. CASE WriteFails
  <2>1. failed \in Nat /\ failed' = failed + 1
    BY <1>3, StoreAssumption DEF IInv, Always, TypeOK, WriteFails
  <2> QED
    BY <2>1
<1>4. CASE Crash
  BY <1>4, CrashPanel
<1>5. CASE SleepAndWake
  BY <1>5, WakePanel
<1>6. CASE UNCHANGED vars
  BY <1>6 DEF PanelShows, Idle, vars
<1> QED
  BY <1>1, <1>2, <1>3, <1>4, <1>5, <1>6 DEF Next, Continue

-----------------------------------------------------------------------------
(* What a loss of power can bring back.                                     *)
(*                                                                          *)
(* Past ties both records to what the running update found and to what it   *)
(* makes: a text in flash is one of the two, and so is, until power is lost *)
(* for the first time, an image.                                            *)

NdefImage(f) == IF Load(f.ndef) = Nothing THEN Nothing ELSE Load(f.ndef).image

NdefText == flash.ndef.head # Nothing => flash.ndef.head.text # Nothing

Running ==
    job # <<>> => /\ content.text = new.text
                  /\ content.image \in {new.image, Nothing}
                  /\ incoming \in {new.image, Nothing}

TextKnown ==
    Load(flash.ndef) # Nothing =>
        Reparse(Load(flash.ndef).text) \in {Reparse(old.text), Reparse(new.text)}

ImagesKnown ==
    /\ NdefImage(flash) \in {old.image, new.image, Nothing}
    /\ Load(flash.image) \in {old.image, new.image, Nothing}
    /\ job = Draw1 => NdefImage(flash) \in {content.image, Nothing}
    /\ Idle => NdefImage(flash) \in {panel.image, Nothing}

Past ==
    /\ NdefText
    /\ Running
    /\ failed = 0 => TextKnown
    /\ failed = 0 /\ crashes = 0 => ImagesKnown

\* A record of content c loads as c's message or not at all.
LEMMA NdefLoads ==
    ASSUME NEW f \in Flash, NEW c \in Content, f.ndef.head = ToNdef(c)
    PROVE  /\ Load(f.ndef) # Nothing => Load(f.ndef).text = c.text
           /\ NdefImage(f) \in {c.image, Nothing}
<1>1. Load(f.ndef) # Nothing => Load(f.ndef) = ToNdef(c)
  BY LoadOk DEF Flash
<1>2. ToNdef(c).text = c.text /\ ToNdef(c).image \in {c.image, Nothing}
  BY DEF ToNdef
<1> QED
  BY <1>1, <1>2 DEF NdefImage

\* The image that a boot restores.
LEMMA RestoredImage ==
    ASSUME NEW f \in Flash
    PROVE  Restored(f).image = IF Load(f.image) # Nothing THEN Load(f.image) ELSE NdefImage(f)
<1>1. Load(f.ndef) \in Ndef \cup {Nothing}
  BY LoadOk DEF Flash
<1> QED
  BY <1>1, RestoredOk DEF NdefImage

\* The text that a boot restores.
LEMMA RestoredText ==
    ASSUME NEW f \in Flash, f.ndef.head # Nothing => f.ndef.head.text # Nothing
    PROVE  Restored(f).text = IF Load(f.ndef) = Nothing THEN Demo.text
                                                        ELSE Reparse(Load(f.ndef).text)
<1>1. Load(f.ndef) \in Ndef \cup {Nothing} /\ (Load(f.ndef) # Nothing => Load(f.ndef) = f.ndef.head)
  BY LoadOk DEF Flash
<1> QED
  BY <1>1, RestoredOk

\* Between two updates flash holds what the panel shows.
LEMMA IdleKnown ==
    ASSUME ReparseSettles, IInv, PanelShows, NdefText, Idle, failed = 0
    PROVE  /\ Load(flash.ndef) # Nothing => Reparse(Load(flash.ndef).text) = Reparse(panel.text)
           /\ Load(flash.image) \in {panel.image, Nothing}
           /\ Restored(flash).image = panel.image
<1>1. Agreed /\ flash \in Flash /\ panel.text \in Text
  BY IdleOk, ContentFields DEF IInv, Always, TypeOK
<1>2. Restored(flash).image = panel.image
  BY <1>1 DEF PanelShows, Agreed, CopiesOk
<1>3. Load(flash.image) \in {panel.image, Nothing}
  BY <1>1, <1>2, RestoredImage
<1>4. ASSUME Load(flash.ndef) # Nothing
      PROVE  Reparse(Load(flash.ndef).text) = Reparse(panel.text)
  <2> DEFINE t == Load(flash.ndef).text
  <2>1. /\ Restored(flash).text = Reparse(t)
        /\ Restored(flash).text \in {content.text, Reparse(content.text)}
    BY <1>1, <1>4, RestoredText DEF NdefText, Agreed, CopiesOk
  <2>2. content.text \in {panel.text, Reparse(panel.text)}
    BY DEF PanelShows
  <2>3. t \in Text
    <3>1. Load(flash.ndef) \in Ndef /\ Load(flash.ndef) = flash.ndef.head
      BY <1>1, <1>4, LoadOk DEF Flash
    <3> QED
      BY <1>4, <3>1 DEF NdefText, Ndef
  <2> HIDE DEF t
  <2>4. Reparse(t) \in {panel.text, Reparse(panel.text)}
    BY <1>1, <2>1, <2>2 DEF ReparseSettles
  <2>5. Reparse(Reparse(t)) = Reparse(t) /\ Reparse(Reparse(panel.text)) = Reparse(panel.text)
    BY <1>1, <2>3 DEF ReparseSettles
  <2>6. Reparse(t) = Reparse(panel.text)
    BY <2>4, <2>5
  <2> QED
    BY <2>6 DEF t
<1> QED
  BY <1>2, <1>3, <1>4

\* An update begins with what the panel shows as its old content.
LEMMA PastAtStart ==
    ASSUME ReparseSettles, IInv, PanelShows, Past, Idle, Running',
           old' = panel, job' # <<>>, job' # Draw1, UNCHANGED <<flash, failed, crashes>>
    PROVE  Past'
<1>1. NdefText'
  BY DEF Past, NdefText
<1>2. failed' = 0 => TextKnown'
  BY IdleKnown DEF Past, TextKnown
<1>3. failed' = 0 /\ crashes' = 0 => ImagesKnown'
  BY IdleKnown DEF Past, ImagesKnown, Idle, NdefImage
<1> QED
  BY <1>1, <1>2, <1>3 DEF Past

LEMMA PastCommit ==
    ASSUME ReparseSettles, IInv, PanelShows, Past, Idle, NEW c \in Content,
           Commit(c, image_in_flash, flash), job' = CommitSteps(c),
           UNCHANGED <<image_in_flash, flash, panel, failed, crashes>>
    PROVE  Past'
<1>1. /\ content' = c /\ incoming' = c.image /\ old' = panel
      /\ new' = Drawn(c, image_in_flash, flash)
  BY DEF Commit
<1>2. job' \in {Image5, Plain3}
  BY DEF CommitSteps, Image5, Plain3
<1>3. job' # <<>> /\ job' # Draw1
  BY <1>2, JobHeads
<1>4. /\ Drawn(c, image_in_flash, flash).text = c.text
      /\ c.image # Nothing => Drawn(c, image_in_flash, flash).image = c.image
  BY DrawnOk DEF IInv, Always, TypeOK
<1>5. Running'
  BY <1>1, <1>4 DEF Running
<1> QED
  BY <1>1, <1>3, <1>5, PastAtStart

LEMMA PastBegin ==
    ASSUME ReparseSettles, IInv, PanelShows, Past, Begin
    PROVE  Past'
<1>1. content \in Content
  BY DEF IInv, Always, TypeOK
<1>2. ASSUME NEW p \in BleTexts, OnBleContent(p) PROVE Past'
  <2>1. [content EXCEPT !.text = p.text, !.url = p.url] \in Content
    BY <1>1, StoreAssumption DEF Plain, Content
  <2> QED
    BY <1>2, <2>1, PastCommit DEF OnBleContent
<1>3. ASSUME NEW m \in NfcMsgs, OnTagWritten(m) PROVE Past'
  <2>1. ApplyNdef(content, m) \in Content
    BY <1>1, ApplyNdefOk, StoreAssumption
  <2> QED
    BY <1>3, <2>1, PastCommit DEF OnTagWritten
<1>4. CASE OnTagErased
  BY <1>1, <1>4, PastCommit DEF OnTagErased
<1>5. CASE OnClearImage
  <2>1. job' # <<>> /\ job' # Draw1
    BY <1>5 DEF OnClearImage, Draw1
  <2>2. Running'
    BY <1>1, <1>5 DEF OnClearImage, Running, Content
  <2> QED
    BY <1>5, <2>1, <2>2, PastAtStart DEF OnClearImage
<1>6. ASSUME NEW i \in Image, OnBleImage(i) PROVE Past'
  <2>1. job' = Ble6
    BY <1>6 DEF OnBleImage, Ble6
  <2>2. job' # <<>> /\ job' # Draw1
    BY <2>1, JobHeads
  <2>3. Running'
    BY <1>1, <1>6 DEF OnBleImage, Running, Content
  <2> QED
    BY <1>6, <2>2, <2>3, PastAtStart DEF OnBleImage
<1> QED
  BY <1>2, <1>3, <1>4, <1>5, <1>6 DEF Begin

\* A write of flash that succeeds puts a part of the new content there.
LEMMA PastWrite ==
    ASSUME IInv, IInv', Past, WriteFlash
    PROVE  Past'
<1>1. /\ job # <<>> /\ job \in Jobs /\ job' = Tail(job)
      /\ Slot(Head(job)) = "ndef" =>
           flash'.ndef = Written(Head(job)) /\ flash'.image = flash.image
      /\ Slot(Head(job)) = "image" =>
           flash'.image = Written(Head(job)) /\ flash'.ndef = flash.ndef
      /\ UNCHANGED <<content, panel, incoming, old, new, failed, crashes>>
  BY WriteFlashOk DEF WriteFlash
<1>2. /\ TypeOK /\ NdefOk /\ Head(job) \in Writes /\ content \in Content
      /\ flash \in Flash /\ flash' \in Flash
  BY DEF IInv, Always, TypeOK, WriteFlash
<1>3. Running'
  BY <1>1 DEF Past, Running
<1>4. /\ content.text = new.text /\ content.image \in {new.image, Nothing}
      /\ incoming \in {new.image, Nothing}
  BY <1>1 DEF Past, Running
<1>5. job' # <<>>
  BY BusyAfter
<1>6. job' = Draw1 => job \in {Plain2, Image2}
  <2>1. job \in {Plain3, Image5, Ble3, Plain2, Image4, Ble2, Image3, Ble6, Image2, Ble5, Clear2}
    BY <1>1, <1>2, WriteJobs DEF Writes
  <2>2. Draw1 \notin {Plain2, Image2, Image3, Image4, Ble1, Ble2, Ble4, Ble5, Clear1}
    BY JobHeads
  <2> QED
    BY <1>1, <2>1, <2>2, JobTails
<1>7. CASE Head(job) \in {"ndefHead", "ndefBody"}
  <2>1. flash'.ndef = Written(Head(job)) /\ flash'.image = flash.image
    BY <1>1, <1>7 DEF Slot
  <2>2. NdefText'
    <3>1. flash'.ndef.head \in {flash.ndef.head, ToNdef(content)}
      BY <1>2, <1>7, <2>1, WrittenOk
    <3>2. ToNdef(content).text # Nothing
      BY <1>2, ToNdefOk, ContentFields
    <3> QED
      BY <3>1, <3>2 DEF Past, NdefText
  <2>3. ASSUME failed = 0 PROVE flash'.ndef.head = ToNdef(content)
    <3>1. CASE Head(job) = "ndefHead"
      BY <1>2, <2>1, <3>1, WrittenOk
    <3>2. CASE Head(job) = "ndefBody"
      <4>1. job \in {Plain2, Image4, Ble2} /\ Progress
        BY <1>1, <2>3, <3>2, WriteJobs DEF IInv
      <4>2. flash.ndef.head = ToNdef(content)
        BY <4>1, ProgressCommit, ProgressBle DEF HeadIs
      <4> QED
        BY <1>2, <2>1, <3>2, <4>2, WrittenOk
    <3> QED
      BY <1>7, <3>1, <3>2
  <2>4. failed = 0 => /\ Load(flash'.ndef) # Nothing => Load(flash'.ndef).text = new.text
                      /\ NdefImage(flash') \in {content.image, Nothing}
    BY <1>2, <1>4, <2>3, NdefLoads
  <2>5. failed' = 0 => TextKnown'
    BY <1>1, <2>4 DEF TextKnown
  <2>6. failed' = 0 /\ crashes' = 0 => ImagesKnown'
    BY <1>1, <1>4, <1>5, <2>1, <2>4 DEF Past, ImagesKnown, Idle
  <2> QED
    BY <1>3, <2>2, <2>5, <2>6 DEF Past
<1>8. CASE Head(job) \in {"imageHead", "imageBody", "imageClear"}
  <2>1. flash'.image = Written(Head(job)) /\ flash'.ndef = flash.ndef
    BY <1>1, <1>8 DEF Slot
  <2>2. NdefText' /\ NdefImage(flash') = NdefImage(flash)
    BY <2>1 DEF Past, NdefText, NdefImage
  <2>3. failed' = 0 => TextKnown'
    BY <1>1, <2>1 DEF Past, TextKnown
  <2>4. ASSUME failed = 0 PROVE flash'.image.head \in {incoming, Nothing}
    <3>1. CASE Head(job) \in {"imageHead", "imageClear"}
      BY <1>2, <2>1, <3>1, WrittenOk
    <3>2. CASE Head(job) = "imageBody"
      <4>1. job \in {Image2, Ble5} /\ Progress
        BY <1>1, <2>4, <3>2, WriteJobs DEF IInv
      <4>2. flash.image.head = incoming
        BY <4>1, ProgressCommit, ProgressBle DEF HeadIs
      <4> QED
        BY <1>2, <2>1, <3>2, <4>2, WrittenOk
    <3> QED
      BY <1>8, <3>1, <3>2
  <2>5. failed = 0 => Load(flash'.image) \in {new.image, Nothing}
    <3>1. Load(flash'.image) # Nothing => flash'.image.head = Load(flash'.image)
      BY <1>2, LoadOk DEF Flash
    <3> QED
      BY <1>4, <2>4, <3>1
  <2>6. failed = 0 /\ job' = Draw1 => NdefImage(flash) \in {content.image, Nothing}
    <3>1. job' = Draw1 => job = Image2
      BY <1>6, <1>8, JobHeads
    <3>2. failed = 0 /\ job = Image2 => flash.ndef.head = ToNdef(content)
      BY ProgressCommit DEF IInv, Holds
    <3> QED
      BY <1>2, <3>1, <3>2, NdefLoads
  <2>7. failed' = 0 /\ crashes' = 0 => ImagesKnown'
    BY <1>1, <1>5, <2>2, <2>5, <2>6 DEF Past, ImagesKnown, Idle
  <2> QED
    BY <1>3, <2>2, <2>3, <2>7 DEF Past
<1> QED
  BY <1>2, <1>7, <1>8 DEF Writes

LEMMA PastWriteFails ==
    ASSUME IInv, Past, WriteFails
    PROVE  Past'
<1>1. failed' # 0 /\ UNCHANGED <<content, incoming, new>> /\ job # <<>>
  BY StoreAssumption DEF IInv, Always, TypeOK, WriteFails
<1>2. flash'.ndef \in {flash.ndef, Blank}
  <2>1. PICK rec \in {flash[Slot(Head(job))], Blank} :
            flash' = [flash EXCEPT ![Slot(Head(job))] = rec]
    BY DEF WriteFails
  <2>2. flash \in Flash /\ Slot(Head(job)) \in {"ndef", "image"}
    BY DEF IInv, Always, TypeOK, Slot
  <2> QED
    BY <2>1, <2>2 DEF Flash
<1>3. NdefText'
  BY <1>2, BlankOk DEF Past, NdefText
<1> QED
  BY <1>1, <1>3 DEF Past, Running

LEMMA PastAdopt ==
    ASSUME IInv, Past, Adopt
    PROVE  Past'
<1>1. job = Ble4 /\ job' = Ble3 /\ content \in Content
  BY WriteJobs, JobTails DEF IInv, Always, TypeOK, Adopt, Step
<1>2. /\ content' = [content EXCEPT !.image = incoming]
      /\ UNCHANGED <<flash, incoming, old, new, failed, crashes>>
  BY DEF Adopt
<1>3. job # <<>> /\ job' # <<>> /\ job' # Draw1
  BY <1>1, JobHeads
<1>4. Running'
  BY <1>1, <1>2, <1>3 DEF Past, Running, Content
<1> QED
  BY <1>2, <1>3, <1>4 DEF Past, NdefText, TextKnown, ImagesKnown, NdefImage, Idle

LEMMA PastCommitAfterClear ==
    ASSUME IInv, Past, CommitAfterClear
    PROVE  Past'
<1>1. job' \in {Image5, Plain3}
  BY DEF CommitAfterClear, CommitSteps, Image5, Plain3
<1>2. job # <<>> /\ job' # <<>> /\ job' # Draw1
  BY <1>1, JobHeads DEF CommitAfterClear, Step
<1>3. UNCHANGED <<content, flash, incoming, old, new, failed, crashes>>
  BY DEF CommitAfterClear
<1> QED
  BY <1>2, <1>3 DEF Past, Running, NdefText, TextKnown, ImagesKnown, NdefImage, Idle

LEMMA PastDraw ==
    ASSUME IInv, Past, DrawPlate \/ DrawImage
    PROVE  Past'
<1>1. /\ content \in Content /\ image_in_flash \in BOOLEAN /\ flash \in Flash
      /\ job \in Jobs
  BY DEF IInv, Always, TypeOK
<1>2. job \in {Draw1, Ble1} /\ job' = <<>> /\ job' # Draw1
  BY <1>1, WriteJobs, JobTails, JobHeads, ZenonT(30) DEF DrawPlate, DrawImage, Step
<1>3. UNCHANGED <<flash, old, new, failed, crashes>>
  BY DEF DrawPlate, DrawImage
<1>4. content.image # Nothing => panel'.image = content.image
  BY <1>1, DrawnOk DEF DrawPlate, DrawImage
<1>5. failed = 0 /\ crashes = 0 => NdefImage(flash) \in {content.image, Nothing}
  <2>1. CASE job = Draw1
    BY <2>1 DEF Past, ImagesKnown
  <2>2. CASE job = Ble1
    <3>1. failed = 0 => flash.ndef.head = ToNdef(content)
      BY <2>2, ProgressBle DEF IInv, Holds
    <3> QED
      BY <1>1, <3>1, NdefLoads
  <2> QED
    BY <1>2, <2>1, <2>2
<1>6. failed' = 0 /\ crashes' = 0 => ImagesKnown'
  BY <1>2, <1>3, <1>4, <1>5 DEF Past, ImagesKnown, NdefImage
<1> QED
  BY <1>2, <1>3, <1>6 DEF Past, Running, NdefText, TextKnown

\* A boot takes what it restored for both the old and the new content.
LEMMA PastBoot ==
    ASSUME ReparseSettles, IInv, NEW f \in Flash, NEW redraw \in BOOLEAN, Boot(f, redraw),
           f.ndef.head # Nothing => f.ndef.head.text # Nothing,
           failed = 0 /\ crashes' = 0 =>
             NdefImage(f) \in {Restored(f).image, Nothing} /\ panel'.image = Restored(f).image
    PROVE  Past'
<1>1. /\ flash' = f /\ job' = <<>> /\ old' = Restored(f) /\ new' = Restored(f)
      /\ failed' = failed
  BY DEF Boot
<1>2. NdefText' /\ Running'
  BY <1>1 DEF NdefText, Running
<1>3. TextKnown'
  <2> SUFFICES ASSUME Load(f.ndef) # Nothing
               PROVE  Reparse(Load(f.ndef).text) = Reparse(Restored(f).text)
    BY <1>1 DEF TextKnown
  <2>1. Restored(f).text = Reparse(Load(f.ndef).text)
    BY RestoredText
  <2>2. Load(f.ndef) \in Ndef /\ Load(f.ndef) = f.ndef.head
    BY LoadOk DEF Flash
  <2>3. Load(f.ndef).text \in Text
    BY <2>2 DEF Ndef
  <2> QED
    BY <2>1, <2>3 DEF ReparseSettles
<1>4. failed' = 0 /\ crashes' = 0 => ImagesKnown'
  <2>1. Load(f.image) \in {Restored(f).image, Nothing}
    BY RestoredImage
  <2>2. <<>> # Draw1
    BY JobHeads
  <2> QED
    BY <1>1, <2>1, <2>2 DEF ImagesKnown
<1> QED
  BY <1>2, <1>3, <1>4 DEF Past

LEMMA PastSleep ==
    ASSUME ReparseSettles, IInv, PanelShows, Past, SleepAndWake
    PROVE  Past'
<1>1. flash \in Flash /\ Idle /\ Boot(flash, FALSE) /\ crashes' = crashes /\ panel' = panel
  BY DEF IInv, Always, TypeOK, SleepAndWake, Boot
<1>2. flash.ndef.head # Nothing => flash.ndef.head.text # Nothing
  BY DEF Past, NdefText
<1>3. failed = 0 => Restored(flash).image = panel.image
  BY <1>1, IdleKnown DEF Past
<1>4. failed = 0 /\ crashes' = 0 => NdefImage(flash) \in {panel.image, Nothing}
  BY <1>1 DEF Past, ImagesKnown
<1> QED
  BY <1>1, <1>2, <1>3, <1>4, PastBoot

\* The flash that a loss of power leaves: one record may be unreadable.
LEMMA CrashFlash ==
    ASSUME IInv, Crash
    PROVE  \E f \in Flash : /\ Boot(f, TRUE)
                           /\ f.ndef \in {flash.ndef, Blank}
                           /\ f.image \in {flash.image, Blank}
<1>1. flash \in Flash /\ Slot(Head(job)) \in {"ndef", "image"}
  BY DEF IInv, Always, TypeOK, Slot
<1>2. PICK f \in {flash, [flash EXCEPT ![Slot(Head(job))] = Blank]} : Boot(f, TRUE)
  BY DEF Crash
<1>3. f \in Flash /\ f.ndef \in {flash.ndef, Blank} /\ f.image \in {flash.image, Blank}
  BY <1>1, <1>2, BlankOk DEF Flash
<1> QED
  BY <1>2, <1>3

LEMMA CrashCounts ==
    ASSUME IInv, Crash
    PROVE  crashes' # 0
BY StoreAssumption DEF IInv, Always, TypeOK, Crash

LEMMA PastCrash ==
    ASSUME ReparseSettles, IInv, Past, Crash
    PROVE  Past'
<1>1. PICK f \in Flash : Boot(f, TRUE) /\ f.ndef \in {flash.ndef, Blank}
  BY CrashFlash
<1>2. f.ndef.head # Nothing => f.ndef.head.text # Nothing
  BY <1>1, BlankOk DEF Past, NdefText
<1> QED
  BY <1>1, <1>2, CrashCounts, PastBoot

LEMMA PastStep ==
    ASSUME ReparseSettles, IInv, IInv', PanelShows, Past, [Next]_vars
    PROVE  Past'
<1>1. CASE UNCHANGED vars
  BY <1>1 DEF Past, NdefText, Running, TextKnown, ImagesKnown, NdefImage, Idle, vars
<1> QED
  BY <1>1, PastBegin, PastWrite, PastAdopt, PastCommitAfterClear, PastDraw, PastWriteFails,
     PastCrash, PastSleep DEF Next, Continue

\* The step that loses power restores what Past knows of the two records.
LEMMA CrashRestores ==
    ASSUME IInv, Past, Crash, failed = 0
    PROVE  /\ content'.text \in {Reparse(old.text), Reparse(new.text), Demo.text}
           /\ crashes = 0 => new'.image \in {old.image, new.image, Nothing}
<1>1. PICK f \in Flash : /\ Boot(f, TRUE)
                         /\ f.ndef \in {flash.ndef, Blank}
                         /\ f.image \in {flash.image, Blank}
  BY CrashFlash
<1>2. /\ new' = Restored(f) /\ content' = Trim(Restored(f), image_in_flash')
      /\ image_in_flash' \in BOOLEAN
  BY <1>1 DEF Boot
<1>3. content'.text = Restored(f).text
  BY <1>2, RestoredOk, TrimOk
<1>4. f.ndef.head # Nothing => f.ndef.head.text # Nothing
  BY <1>1, BlankOk DEF Past, NdefText
<1>5. Load(f.ndef) # Nothing => f.ndef = flash.ndef
  BY <1>1, BlankOk
<1>6. Restored(f).text \in {Reparse(old.text), Reparse(new.text), Demo.text}
  BY <1>4, <1>5, RestoredText DEF Past, TextKnown
<1>7. Load(f.image) \in {Load(flash.image), Nothing} /\ NdefImage(f) \in {NdefImage(flash), Nothing}
  BY <1>1, BlankOk DEF NdefImage
<1>8. crashes = 0 => Restored(f).image \in {old.image, new.image, Nothing}
  BY <1>7, RestoredImage DEF Past, ImagesKnown
<1> QED
  BY <1>2, <1>3, <1>6, <1>8

-----------------------------------------------------------------------------
(* Results. *)

\* The running update and the copies are always in step, as IInv says.
THEOREM Inductive == Spec => []IInv
<1>1. Init => IInv
  BY InitOk
<1>2. IInv /\ [Next]_vars => IInv'
  BY NextOk
<1> QED
  BY <1>1, <1>2, PTL DEF Spec

\* Every variable keeps its type through every update, failure and reboot.
THEOREM TypeCorrect == Spec => []TypeOK
<1>1. IInv => TypeOK
  BY DEF IInv, Always
<1> QED
  BY <1>1, Inductive, PTL

\* Once an update is over (ble, tag or clear alike), flash restores the text
\* and the image that the plate holds, unless a write failed: also when losses
\* of power interrupted any number of updates before it (mod.rs:630-631).
THEOREM CopiesAgree == Spec => []StoreAgrees
<1>1. IInv => StoreAgrees
  BY IdleOk DEF StoreAgrees, Agreed, CopiesOk
<1> QED
  BY <1>1, Inductive, PTL

\* Once an update is over, no full-screen image that flash holds stays in
\* memory, also when writes to flash failed (trim_image(), mod.rs:159-161).
THEOREM HeapStaysFree == Spec => []HeapIsFree
<1>1. IInv => HeapIsFree
  BY IdleOk DEF HeapIsFree, HeapOk
<1> QED
  BY <1>1, Inductive, PTL

\* What the next two theorems rest on besides IInv.
LEMMA ShownAndPast ==
    ASSUME ReparseSettles
    PROVE  Spec => [](IInv /\ PanelShows /\ Past)
<1>1. Init => PanelShows /\ Past
  <2> SUFFICES ASSUME Init PROVE PanelShows /\ Past
    OBVIOUS
  <2>1. content = Demo /\ panel = Demo /\ Drawn(content, image_in_flash, flash) = Demo
    BY DEF Init, Drawn
  <2>2. /\ Load(flash.ndef) = Nothing /\ Load(flash.image) = Nothing
        /\ flash.ndef.head = Nothing /\ job = <<>> /\ job # Draw1
    BY BlankOk, JobHeads DEF Init
  <2> QED
    BY <2>1, <2>2 DEF PanelShows, Past, NdefText, Running, TextKnown, ImagesKnown, NdefImage
<1>2. IInv /\ IInv' /\ PanelShows /\ [Next]_vars => PanelShows'
  BY PanelStep
<1>3. IInv /\ IInv' /\ PanelShows /\ Past /\ [Next]_vars => Past'
  BY PastStep
<1> QED
  BY <1>1, <1>2, <1>3, Inductive, PTL DEF Spec

\* Once an update is over, the panel shows the text and the image that would be
\* drawn again, unless a write failed: a wake-up from deep sleep, which does not
\* draw (run(), mod.rs:231-258), finds on the panel what it restored.
THEOREM PanelUpToDate ==
    ASSUME ReparseSettles
    PROVE  Spec => []PanelShows
BY ShownAndPast, PTL

\* A loss of power in the middle of an update, or of a write, restores a text
\* that was shown or about to be, or the default one, and the first loss such an
\* image or none (load_rec(), save_rec()).
THEOREM CrashKeepsOldOrNew ==
    ASSUME ReparseSettles
    PROVE  Spec => CrashRestoresOldOrNew
<1>1. ASSUME IInv, Past, [Next]_vars, crashes' # crashes, failed = 0
      PROVE  /\ content'.text \in {Reparse(old.text), Reparse(new.text), Demo.text}
             /\ crashes = 0 => new'.image \in {old.image, new.image, Nothing}
  <2>1. Crash
    BY <1>1 DEF Next, Begin, Continue, OnBleContent, OnTagWritten, OnTagErased, OnClearImage,
                OnBleImage, WriteFlash, WriteFails, Adopt, CommitAfterClear, DrawImage,
                DrawPlate, SleepAndWake, vars
  <2> QED
    BY <1>1, <2>1, CrashRestores
<1>2. IInv /\ Past /\ [Next]_vars =>
        [crashes' # crashes /\ failed = 0 =>
           /\ content'.text \in {Reparse(old.text), Reparse(new.text), Demo.text}
           /\ crashes = 0 => new'.image \in {old.image, new.image, Nothing}]_vars
  BY <1>1
<1> QED
  BY <1>2, ShownAndPast, PTL DEF Spec, CrashRestoresOldOrNew
=============================================================================
