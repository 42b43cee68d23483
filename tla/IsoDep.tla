-------------------------------- MODULE IsoDep ------------------------------
(* exchange() of isodep.rs: one APDU to a card, and its answer in one I-block *)
(* or chained over several, with requests for waiting time in between.  The  *)
(* card is external: it numbers its blocks as ISO 14443-4 tells it to, splits *)
(* its answer as it likes, and may be silent or answer something else at any *)
(* time.  An APDU stands for its answer; frame sizes and times are left out. *)
EXTENDS Integers, Sequences

CONSTANTS
  Data,      \* what an answer is made of
  MAX_LOOPS  \* transceives per exchange: 32

ASSUME DepAssumption == MAX_LOOPS \in Nat \ {0}

VARIABLES
  block_num,  \* IsoDep.block_num
  guard,      \* transceives of this exchange
  tx,         \* the block to send
  rsp,        \* what was received of the answer
  ended,      \* "no", or how exchange() returned
  answer,     \* the card's answer to this APDU
  card_num,   \* the block number of the card
  to_send,    \* what the card has not sent of its answer yet
  sent        \* its last I-block, which it would repeat

driver == <<block_num, guard, tx, rsp, ended>>
picc == <<answer, card_num, to_send, sent>>
depVars == <<driver, picc>>

Block == {"I", "R", "WTX"}

Flip(n) == 1 - n

\* activate() after the card answered RATS: numbers as the standard starts.
Activated ==
  /\ block_num = 0 /\ guard = 0 /\ tx = <<"I", 0>> /\ rsp = <<>> /\ ended = "ok"
  /\ answer = <<>> /\ card_num = 1 /\ to_send = <<>> /\ sent = <<>>

Activate ==
  /\ block_num' = 0 /\ guard' = 0 /\ tx' = <<"I", 0>> /\ rsp' = <<>> /\ ended' = "ok"
  /\ answer' = <<>> /\ card_num' = 1 /\ to_send' = <<>> /\ sent' = <<>>

\* exchange() is called with an APDU that the card will answer with a.
Exchange(a) ==
  /\ ended = "ok"
  /\ rsp' = <<>> /\ tx' = <<"I", block_num>> /\ guard' = 0 /\ ended' = "no"
  /\ answer' = a
  /\ UNCHANGED <<block_num, card_num, to_send, sent>>

-----------------------------------------------------------------------------
(* The card gets the block tx: what it has to send then, and its number.     *)
CardNum ==
  CASE tx[1] = "I" -> Flip(card_num)
    [] tx[1] = "R" /\ tx[2] # card_num -> Flip(card_num)
    [] OTHER -> card_num

CardHas ==
  CASE tx[1] = "I" -> answer
    [] tx[1] = "R" /\ tx[2] = card_num -> sent \o to_send
    [] OTHER -> to_send

\* One more transceive.  (The mutant counts one too many.)
AgainOnceMore == guard <= MAX_LOOPS /\ guard' = guard + 1
Again == guard < MAX_LOOPS /\ guard' = guard + 1

\* It asks for more time, which exchange() grants.
AskTime ==
  /\ ended = "no" /\ Again
  /\ card_num' = CardNum /\ to_send' = CardHas /\ sent' = <<>>
  /\ tx' = <<"WTX", 0>>
  /\ UNCHANGED <<block_num, rsp, ended, answer>>

\* What exchange() does with an I-block that holds data.  (The mutant leaves
\* the block number alone while the card chains.)
TakeKeepingNumber(num, data, more) ==
  /\ IF num # block_num
     THEN ended' = "error" /\ UNCHANGED <<block_num, tx, rsp>>
     ELSE /\ rsp' = rsp \o data
          /\ IF more THEN tx' = <<"R", block_num>> /\ UNCHANGED <<block_num, ended>>
                     ELSE ended' = "ok" /\ block_num' = Flip(block_num) /\ tx' = tx

Take(num, data, more) ==
  IF num # block_num
  THEN ended' = "error" /\ UNCHANGED <<block_num, tx, rsp>>
  ELSE /\ rsp' = rsp \o data
       /\ block_num' = Flip(block_num)
       /\ IF more THEN tx' = <<"R", Flip(block_num)>> /\ ended' = ended
                  ELSE ended' = "ok" /\ tx' = tx

\* It sends the first k of what it has, and chains if that is not all.
SendBlock(k) ==
  /\ ended = "no" /\ Again
  /\ k \in 0..Len(CardHas)
  /\ k = 0 => CardHas = <<>>
  /\ card_num' = CardNum
  /\ sent' = SubSeq(CardHas, 1, k)
  /\ to_send' = SubSeq(CardHas, k + 1, Len(CardHas))
  /\ Take(CardNum, SubSeq(CardHas, 1, k), k < Len(CardHas))
  /\ UNCHANGED answer

\* No answer, or one that is damaged, an R-block or of another number.
Fails ==
  /\ ended = "no" /\ Again
  /\ ended' = "error"
  /\ UNCHANGED <<block_num, tx, rsp, picc>>

\* The guard runs out.
GiveUp ==
  /\ ended = "no" /\ guard = MAX_LOOPS
  /\ ended' = "error"
  /\ UNCHANGED <<block_num, guard, tx, rsp, picc>>

Transceive == AskTime \/ (\E k \in 0..Len(CardHas) : SendBlock(k)) \/ GiveUp

-----------------------------------------------------------------------------
DepTypeOK ==
  /\ block_num \in 0..1 /\ card_num \in 0..1
  /\ guard \in 0..MAX_LOOPS
  /\ tx \in Block \X (0..1)
  /\ ended \in {"no", "ok", "error"}
  /\ rsp \in Seq(Data) /\ answer \in Seq(Data)
  /\ to_send \in Seq(Data) /\ sent \in Seq(Data)

(* An exchange that returns Ok has the card's whole answer, each part once   *)
(* and in order, however the card chained it and asked for time              *)
(* (isodep.rs:83-149).                                                       *)
AnswerIsWhole == ended = "ok" => rsp = answer
=============================================================================
