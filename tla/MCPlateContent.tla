--------------------------- MODULE MCPlateContent ---------------------------
(* Values of PlateContent's constants for TLC: fields that are empty, hold a *)
(* ';', an '@', spaces or long words, urls of every kind, and images around  *)
(* the limits of the records.                                                *)
EXTENDS PlateContent

MCPiece ==
  {"nl", " ", ";", "@", "http://", "https://", "mailto:", "word", "a", "b", "c", "d", "e"}

MCWidth(piece) ==
  CASE piece = "word" -> 100 [] piece = "https://" -> 8 [] piece = "http://" -> 7
    [] piece = "mailto:" -> 7 [] OTHER -> 1

MCDemo ==
  [name |-> <<"a">>, email |-> <<"b">>, github |-> <<"c">>, x |-> <<"d">>,
   note |-> <<>>, url |-> <<"e">>, image |-> None]

MCPlainTexts ==
  { <<"nl", "@", "@", "a", "nl", " ", "b">>,
    <<" ", "a", "nl", "b", "nl", "@", "c", "nl", "nl", "d", "nl", "https://", "e">>,
    <<"a", ";", "b", "nl", "nl", "nl", "@", "nl", "c", "nl", "http://", "word">>,
    <<"word", "nl", "word", "nl", "a", "nl", "b", "nl", "c", "nl", "word", "word">>,
    <<"word", "nl", "word", "nl", "word", "nl", "a">>,
    <<"a", "nl", "nl", "nl", "nl", "nl", "word", "word", "e">> }

Note(text) ==
  [type |-> "T", mb |-> TRUE, me |-> TRUE, sr |-> Bytes(text) + 3 < BYTE,
   len |-> Bytes(text) + 3, lang |-> 2, text |-> text]

Uri(code, rest) ==
  [type |-> "U", mb |-> TRUE, me |-> TRUE, sr |-> Bytes(rest) + 1 < BYTE,
   len |-> Bytes(rest) + 1, code |-> code, rest |-> rest]

Picture(form, w, h, have) ==
  [type |-> "image", mb |-> TRUE, me |-> TRUE, sr |-> 4 + have < BYTE,
   len |-> 4 + have,
   payload |-> [form |-> form, width |-> w, height |-> h, have |-> have]]

MCNfcMsgs ==
  { <<Note(<<"a", ";", "b", ";", "@", "@", "c">>)>>,
    <<Note(<<" ", "a", " ", "nl", "nl", "nl", "@", "nl", "b", "nl", "c">>)>>,
    <<Note(<<"word", "nl", "word", "word", "nl", "@", "a">>)>>,
    <<Note(<<>>), Uri(4, <<"e">>)>>,
    <<Uri(3, <<"https://", "word", "word">>)>>,
    <<Uri(6, <<"a", "@", "b">>), Picture("raw", 8, 40, 42)>>,
    <<Uri(0, <<"http://", "http://", "e">>)>>,
    <<Picture("raw", 20, 100, 310)>>,
    <<Picture("damaged", 8, 8, 8)>>,
    <<Picture("raw", 20, 100, 299)>> }

MCBleImages ==
  { [width |-> 8, height |-> 251, bits |-> 251], [width |-> 7, height |-> 252, bits |-> 252],
    [width |-> 24, height |-> 232, bits |-> 696], [width |-> 480, height |-> 800, bits |-> 48000] }
=============================================================================
