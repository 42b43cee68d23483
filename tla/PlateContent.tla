---------------------------- MODULE PlateContent ----------------------------
(* What plate.rs makes of a plate's content: the NDEF message that the       *)
(* emulated tag serves and that is saved to flash (to_ndef), and the plain   *)
(* text of the BLE characteristic (to_plain); and what it makes of the ones  *)
(* that come back: from a phone or from flash (apply_ndef), from a central   *)
(* (apply_plain).  PlateStore has the copies in flash and on the panel.      *)
(*                                                                          *)
(* A string is a sequence of pieces: a letter, a separator, a scheme or a    *)
(* long word, each of Width(piece) bytes.  A message is a sequence of        *)
(* records with the length their header names; one whose payload has another *)
(* length is read as far as that length goes, and nothing is found after it  *)
(* (bytes of printable text do not start a record that apply_ndef() takes).  *)
(* An image is its size and the number of bytes of its rows.  Carriage       *)
(* returns and invalid UTF-8 are left out.                                   *)
EXTENDS Integers, FiniteSets, Sequences, FiniteSetsExt, SequencesExt

CONSTANTS
  None,
  Piece,       \* what strings are made of
  Width(_),    \* bytes of a piece
  Demo,        \* PlateContent::demo()
  PlainTexts,  \* what a central writes to the content characteristic
  NfcMsgs,     \* what a phone writes to the tag: well-formed messages
  BleImages    \* images that came over BLE

MAX_TEXT_PAYLOAD == 240
MAX_URL_LEN == 200
MAX_TAG_IMAGE == 700   \* of to_ndef(): header and rows
BYTE == 256

VARIABLES
  content,  \* App.content
  served,   \* the message for the tag (PlateStore has the ones it refuses)
  saved     \* the message in flash

vars == <<content, served, saved>>

Total(ns) == FoldLeft(LAMBDA a, b : a + b, 0, ns)

Bytes(s) == Total([i \in DOMAIN s |-> Width(s[i])])

-----------------------------------------------------------------------------
(* Strings.                                                                  *)
TrimStart(s, pieces) ==
  LET keep == {i \in DOMAIN s : s[i] \notin pieces}
  IN  IF keep = {} THEN <<>> ELSE SubSeq(s, Min(keep), Len(s))

Trim(s) == Reverse(TrimStart(Reverse(TrimStart(s, {" "})), {" "}))

\* The n-th part of s between separators; empty when there are fewer.
Line(s, separators, n) ==
  LET Before(i) == Cardinality({j \in 1..i : s[j] \in separators})
      part == {i \in DOMAIN s : s[i] \notin separators /\ Before(i) = n - 1}
  IN  IF part = {} THEN <<>> ELSE SubSeq(s, Min(part), Max(part))

Scheme(s) == TrimStart(TrimStart(s, {"https://"}), {"http://"})

Field == {"name", "email", "github", "x", "note"}

FieldOrder == <<"name", "email", "github", "x", "note">>

FieldNo(f) == CHOOSE n \in DOMAIN FieldOrder : FieldOrder[n] = f

Handle(f, s) == IF f \in {"github", "x"} THEN TrimStart(s, {"@"}) ELSE s

Join(parts) ==
  FoldLeft(LAMBDA s, part : s \o <<"nl">> \o part, Head(parts), Tail(parts))

\* text_payload()
TextPayload(c) == Join([n \in 1..5 |-> c[FieldOrder[n]]])

-----------------------------------------------------------------------------
(* MonoImage.  A payload holds a size and `have` bytes of rows.              *)
RowBytes(w) == (w + 7) \div 8

\* decode()
DecodedImage(p) ==
  LET need == RowBytes(p.width) * p.height
  IN  IF p.width = 0 \/ p.height = 0 \/ p.width > 480 \/ p.height > 800 \/ p.have < need
      THEN None
      ELSE [width |-> p.width, height |-> p.height, bits |-> need]

\* encode()
EncodedImage(img) ==
  [form |-> "raw", width |-> img.width, height |-> img.height, have |-> img.bits]

-----------------------------------------------------------------------------
(* NDEF messages.                                                            *)
PayloadBytes(r) ==
  CASE r.type = "T" -> 1 + r.lang + Bytes(r.text)
    [] r.type = "U" -> 1 + Bytes(r.rest)
    [] r.type = "image" -> 4 + r.payload.have
    [] OTHER -> 0

UriRecord(url, last) ==
  [type |-> "U", mb |-> TRUE, me |-> last, sr |-> TRUE,
   len |-> (Bytes(url) + 1) % BYTE, code |-> 4, rest |-> url]

TextRecord(text, first, last) ==
  [type |-> "T", mb |-> first, me |-> last, sr |-> TRUE,
   len |-> (Bytes(text) + 3) % BYTE, lang |-> 2, text |-> text]

ImageRecord(img) ==
  LET size == 4 + img.bits
  IN  [type |-> "image", mb |-> FALSE, me |-> TRUE, sr |-> size < BYTE,
       len |-> size, payload |-> EncodedImage(img)]

\* Records whose header names another length than they have.
Short(msg) == {i \in DOMAIN msg : msg[i].len # PayloadBytes(msg[i])}

\* What record_at() can walk over.
Reached(msg) == IF Short(msg) = {} THEN Len(msg) ELSE Min(Short(msg))

\* After a short record the flag goes to a byte of its payload instead.
FixMeFlag(msg) == IF Short(msg) = {} THEN [msg EXCEPT ![Len(msg)].me = TRUE] ELSE msg

\* to_ndef().  (The mutant forgets fix_me_flag().)
ToNdefUnfixed(c) ==
  LET hasUrl == c.url # <<>>
      text == TextRecord(TextPayload(c), ~hasUrl, c.image = None)
      uri == IF hasUrl THEN <<UriRecord(c.url, FALSE)>> ELSE <<>>
      fits == c.image # None /\ 4 + c.image.bits =< MAX_TAG_IMAGE
  IN  uri \o <<text>> \o IF fits THEN <<ImageRecord(c.image)>> ELSE <<>>

ToNdef(c) ==
  LET hasUrl == c.url # <<>>
      text == TextRecord(TextPayload(c), ~hasUrl, c.image = None)
      msg == IF hasUrl THEN <<UriRecord(c.url, FALSE), text>> ELSE <<text>>
  IN  CASE c.image = None -> msg
        [] c.image # None /\ 4 + c.image.bits > MAX_TAG_IMAGE -> FixMeFlag(msg)
        [] OTHER -> Append(msg, ImageRecord(c.image))

\* The pieces of s that lie within the first n bytes.
Within(s, n) == SubSeq(s, 1, Max({k \in 0..Len(s) : Bytes(SubSeq(s, 1, k)) =< n}))

ReadText(r) == IF r.len < 1 + r.lang THEN None ELSE Within(r.text, r.len - 1 - r.lang)

UriPrefix(code) ==
  CASE code = 3 -> <<"http://">> [] code = 4 -> <<"https://">>
    [] code = 6 -> <<"mailto:">> [] OTHER -> <<>>

\* b64_decode() of the "B64:" form gives None when it is damaged.
ImageOf(p) == IF p.form = "damaged" THEN None ELSE DecodedImage(p)

\* The url of a record, stored without its scheme.  (The mutant takes off
\* "http://" alone.)
ReadUrlHttp(r) == TrimStart(UriPrefix(r.code) \o Within(r.rest, r.len - 1), {"http://"})

ReadUrl(r) == Scheme(UriPrefix(r.code) \o Within(r.rest, r.len - 1))

\* apply_ndef() of one record.
ApplyRecord(c, r) ==
  CASE r.type = "T" /\ ReadText(r) # None ->
         [f \in DOMAIN c |->
            IF f \in Field THEN Handle(f, Line(ReadText(r), {"nl", ";"}, FieldNo(f))) ELSE c[f]]
    [] r.type = "U" /\ r.len > 0 ->
         [c EXCEPT !.url = ReadUrl(r)]
    [] r.type = "image" /\ ImageOf(r.payload) # None ->
         [c EXCEPT !.image = ImageOf(r.payload)]
    [] OTHER -> c

ApplyNdef(c, msg) == FoldLeft(ApplyRecord, c, SubSeq(msg, 1, Reached(msg)))

-----------------------------------------------------------------------------
(* The plain text of the content characteristic.                             *)
ToPlain(c) == Join([n \in 1..6 |-> IF n = 6 THEN c.url ELSE c[FieldOrder[n]]])

TextFields(c) == Total([n \in 1..5 |-> Bytes(c[FieldOrder[n]])])

FromLines(c, text) ==
  [f \in DOMAIN c |->
     CASE f \in Field -> Handle(f, Trim(Line(text, {"nl"}, FieldNo(f))))
       [] f = "url" -> Scheme(Trim(Line(text, {"nl"}, 6)))
       [] f = "image" -> c.image]

\* The content that apply_plain() makes.  (The mutant trims the whole text.)
PlainAppliedTrimmed(c, text) == FromLines(c, TrimStart(text, {" ", "nl"}))

PlainApplied(c, text) == FromLines(c, text)

\* validate_plain()
Acceptable(text) ==
  LET c == PlainApplied(Demo, text)
  IN  TextFields(c) + 4 =< MAX_TEXT_PAYLOAD /\ Bytes(c.url) =< MAX_URL_LEN

-----------------------------------------------------------------------------
(* Types of the data.                                                        *)
Text == Seq(Piece)

Image == [width : Nat, height : Nat, bits : Nat]

Content ==
  [name : Text, email : Text, github : Text, x : Text, note : Text, url : Text,
   image : Image \cup {None}]

Payload == [form : {"raw", "b64", "damaged"}, width : Nat, height : Nat, have : Nat]

Record ==
  [type : {"T"}, mb : BOOLEAN, me : BOOLEAN, sr : BOOLEAN, len : Nat, lang : Nat, text : Text]
  \cup
  [type : {"U"}, mb : BOOLEAN, me : BOOLEAN, sr : BOOLEAN, len : Nat, code : Nat, rest : Text]
  \cup
  [type : {"image"}, mb : BOOLEAN, me : BOOLEAN, sr : BOOLEAN, len : Nat, payload : Payload]

ASSUME ContentAssumption ==
  /\ {"nl", " ", ";", "@", "http://", "https://", "mailto:"} \subseteq Piece
  /\ \A piece \in Piece : Width(piece) \in Nat
  /\ None \notin Text
  /\ Demo \in Content
  /\ \A f \in Field :
        Handle(f, Demo[f]) = Demo[f] /\ \A i \in DOMAIN Demo[f] : Demo[f][i] # "nl"
  /\ PlainTexts \subseteq Text
  /\ NfcMsgs \subseteq Seq(Record)
  /\ BleImages \subseteq Image

-----------------------------------------------------------------------------
Init == content = Demo /\ served = ToNdef(Demo) /\ saved = served

(* commit_content()                                                          *)
Commit(c) == content' = c /\ served' = ToNdef(c) /\ saved' = served'

(* on_ble_content(): text that is too long is refused and changes nothing.   *)
OnBleContent(text) == Acceptable(text) /\ Commit(PlainApplied(content, text))

(* A central reads the characteristic and writes the same text back.         *)
Echo == OnBleContent(ToPlain(content))

(* on_tag_written(), on_ble_image() and on_clear_image().  trim_image() takes *)
(* a large image out of memory again: its message is that of no image.       *)
OnTagWritten == \E msg \in NfcMsgs : Commit(ApplyNdef(content, msg))

OnBleImage == \E img \in BleImages : Commit([content EXCEPT !.image = img])

OnClearImage == Commit([content EXCEPT !.image = None])

(* run(): the content restored over the default.  An image has a copy of its *)
(* own in flash (see PlateStore), which is as new as the content here.       *)
Boot ==
  /\ content' = [ApplyNdef(Demo, saved) EXCEPT !.image = content.image]
  /\ served' = ToNdef(content')
  /\ saved' = saved

Next ==
  \/ \E text \in PlainTexts : OnBleContent(text)
  \/ Echo
  \/ OnTagWritten
  \/ OnBleImage
  \/ OnClearImage
  \/ Boot

Spec == Init /\ [][Next]_vars

-----------------------------------------------------------------------------
(* A reader of the message walks all of it: every record has the length its  *)
(* header names, the first alone begins the message, the last alone ends it, *)
(* and a short record's length fits its byte.                                *)
Readable(msg) ==
  \A i \in DOMAIN msg :
    /\ msg[i].len = PayloadBytes(msg[i])
    /\ msg[i].mb <=> i = 1
    /\ msg[i].me <=> i = Len(msg)
    /\ msg[i].sr => msg[i].len < BYTE

FitsShortRecords(c) == Bytes(TextPayload(c)) + 3 < BYTE /\ Bytes(c.url) + 1 < BYTE

(* Whatever changes the content, and whether the image fits the tag or is    *)
(* left out, a message made of fields that fit short records is readable     *)
(* (plate.rs:57-58, 187-254).                                                *)
ServedIsReadable == FitsShortRecords(content) => Readable(served)

(* plate.rs:8-9: "The same NDEF message is what the emulated tag serves, so  *)
(* whatever a phone writes is what the next phone reads."                    *)
NextPhoneReads == Readable(served)

NoSemicolon(c) == \A f \in Field : \A i \in DOMAIN c[f] : c[f][i] # ";"

(* A boot brings the fields back as they were shown: the message saved by    *)
(* commit_content() and read by apply_ndef() loses nothing, except that a    *)
(* ';' that came over BLE now separates fields, an empty url becomes the     *)
(* default's, a scheme hidden behind "http://" goes, and what does not fit a *)
(* short record is cut.                                                      *)
BootKeepsFields ==
  [][Boot /\ FitsShortRecords(content) /\ NoSemicolon(content) =>
       /\ \A f \in Field : content'[f] = content[f]
       /\ content.url # <<>> => content'.url = Scheme(content.url)]_vars

(* Text that the device gave out is taken back with every field in its       *)
(* place, whatever fields are empty; only spaces around a field, which a     *)
(* phone may have written, are lost (plate.rs:267-311).  A text that is too  *)
(* long for apply_plain(), which NFC may bring, is refused and changes       *)
(* nothing: there is no such step.                                           *)
EchoKeepsFields ==
  [][Echo => \A f \in Field : content'[f] = Handle(f, Trim(content[f]))]_vars
=============================================================================
