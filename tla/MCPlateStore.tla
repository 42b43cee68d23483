---------------------------- MODULE MCPlateStore ----------------------------
(* Values of PlateStore's constants for TLC: an image of each size, a text  *)
(* with a ';', a message that is too long for the tag, and messages that    *)
(* leave out each record.                                                   *)
EXTENDS PlateStore

CONSTANTS
    demoText, plain, semicolon, split,  \* texts
    demoUrl, link,                      \* urls
    icon, badge, screen                 \* images

MCText == {demoText, plain, semicolon, split}
MCUrl == {demoUrl, link}
MCImage == {icon, badge, screen}
MCDemo == [text |-> demoText, url |-> demoUrl, image |-> Nothing]

MCSize(i) == CASE i = icon -> "tag" [] i = badge -> "small" [] i = screen -> "large"
MCReparse(t) == IF t = semicolon THEN split ELSE t
MCFitsTag(m) == m.image = Nothing \/ m.url # link

MCBleTexts == [text : {plain, semicolon}, url : {link, Nothing}]
MCNfcMsgs ==
    {[text |-> semicolon, url |-> Nothing, image |-> Nothing],
     [text |-> Nothing, url |-> link, image |-> icon]}
=============================================================================
