-------------------------- MODULE TagReaderProofs ---------------------------
(* A message that was read from a Type 4 tag is the tag's file, for any file *)
(* and chunk size, any number of transceives, tags and faults, and any way   *)
(* of chaining and of asking for time.  A tag that was announced and stays   *)
(* alone is found by every search and is not announced again.                *)
EXTENDS TagReader, SequenceTheorems, FiniteSetTheorems, TLAPS

(* The block in flight and the numbers of the two sides agree, and what was  *)
(* received and what the card has not sent yet make its answer.              *)
Expecting ==
  \/ tx[1] = "I" /\ card_num = 1 - block_num /\ rsp = <<>>
  \/ tx[1] = "WTX" /\ card_num = block_num /\ rsp \o to_send = answer
  \/ tx[1] = "R" /\ tx[2] = block_num /\ card_num = 1 - block_num
       /\ rsp \o to_send = answer

DepInv ==
  /\ block_num \in 0..1 /\ card_num \in 0..1
  /\ rsp \in Seq(Nat) /\ answer \in Seq(Nat) /\ to_send \in Seq(Nat)
  /\ ended = "no" => Expecting
  /\ ended = "ok" => rsp = answer /\ card_num = 1 - block_num

-----------------------------------------------------------------------------
(* Sequences                                                                *)

\* A sequence is its first k elements and the others.
LEMMA Split ==
  ASSUME NEW s \in Seq(Nat), NEW k \in 0..Len(s)
  PROVE  /\ SubSeq(s, 1, k) \in Seq(Nat)
         /\ SubSeq(s, k + 1, Len(s)) \in Seq(Nat)
         /\ SubSeq(s, 1, k) \o SubSeq(s, k + 1, Len(s)) = s
         /\ k = Len(s) => SubSeq(s, 1, k) = s
<1>1. Len(s) \in Nat /\ \A i \in 1..Len(s) : s[i] \in Nat
  BY ElementOfSeq, LenProperties
<1>2. k \in Nat /\ k <= Len(s)
  BY <1>1
<1>3. SubSeq(s, 1, k) \in Seq(Nat)
  <2>1. \A i \in 1..k : s[i] \in Nat
    BY <1>1, <1>2
  <2> QED BY <2>1, <1>2, SubSeqProperties
<1>4. SubSeq(s, k + 1, Len(s)) \in Seq(Nat)
  <2>1. \A i \in k + 1..Len(s) : s[i] \in Nat
    BY <1>1, <1>2
  <2> QED BY <2>1, <1>1, <1>2, SubSeqProperties
<1>5. SubSeq(s, 1, k) \o SubSeq(s, k + 1, Len(s)) = SubSeq(s, 1, Len(s))
  <2>1. 1 \in 1..Len(s) + 1 /\ k \in 1 - 1..Len(s) /\ Len(s) \in k..Len(s)
    BY <1>1, <1>2
  <2> QED BY <2>1, ConcatAdjacentSubSeq
<1>6. SubSeq(s, 1, Len(s)) = s
  BY SubSeqFull
<1> QED BY <1>3, <1>4, <1>5, <1>6

\* Data and a status: the data, and the status.
LEMMA StatusLast ==
  ASSUME NEW s \in Seq(Nat), NEW x \in Nat
  PROVE  /\ Append(s, x) \in Seq(Nat)
         /\ SubSeq(Append(s, x), 1, Len(s)) = s
<1> DEFINE r == Append(s, x)
<1>1. Len(s) \in Nat /\ r \in Seq(Nat) /\ Len(r) = Len(s) + 1
  BY LenProperties
<1>2. \A i \in 1..Len(s) : r[i] = s[i] /\ r[i] \in Nat
  BY ElementOfSeq
<1> HIDE DEF r
<1>3. /\ SubSeq(r, 1, Len(s)) \in Seq(Nat)
      /\ Len(SubSeq(r, 1, Len(s))) = IF 1 <= Len(s) THEN Len(s) - 1 + 1 ELSE 0
      /\ \A i \in 1..Len(s) - 1 + 1 : SubSeq(r, 1, Len(s))[i] = r[1 + i - 1]
  <2>1. 1 \in Int /\ Len(s) \in Int /\ \A i \in 1..Len(s) : r[i] \in Nat
    BY <1>1, <1>2
  <2> QED BY <2>1, SubSeqProperties
<1>4. Len(SubSeq(r, 1, Len(s))) = Len(s)
  BY <1>1, <1>3
<1>5. \A i \in 1..Len(s) : SubSeq(r, 1, Len(s))[i] = s[i]
  BY <1>1, <1>2, <1>3
<1>6. SubSeq(r, 1, Len(s)) = s
  BY <1>3, <1>4, <1>5, SeqEqual
<1> QED BY <1>1, <1>6 DEF r

LEMMA Associative ==
  ASSUME NEW r \in Seq(Nat), NEW s \in Seq(Nat), NEW t \in Seq(Nat)
  PROVE  (r \o s) \o t = r \o (s \o t)
BY ConcatAssociative, SMTT(30)

-----------------------------------------------------------------------------
(* exchange()                                                               *)

LEMMA ActivateDep == ASSUME Activate PROVE DepInv'
BY DEF Activate, DepInv, Expecting

LEMMA ExchangeDep ==
  ASSUME DepInv, NEW a \in Seq(Nat), Exchange(a)
  PROVE  DepInv'
BY DEF Exchange, DepInv, Expecting

LEMMA FailsDep == ASSUME DepInv, Fails \/ GiveUp PROVE DepInv'
BY DEF Fails, GiveUp, DepInv, Expecting, picc

\* What the card has, and its number, when a block reaches it.
LEMMA CardFollows ==
  ASSUME DepInv, ended = "no"
  PROVE  /\ CardNum = block_num
         /\ CardHas \in Seq(Nat)
         /\ rsp \o CardHas = answer
<1>1. CASE tx[1] = "I" /\ card_num = 1 - block_num /\ rsp = <<>>
  <2>1. CardNum = block_num
    BY <1>1 DEF CardNum, Flip, DepInv
  <2>2. CardHas = answer
    BY <1>1 DEF CardHas
  <2> QED BY <1>1, <2>1, <2>2, ConcatEmptySeq DEF DepInv
<1>2. CASE tx[1] = "WTX" /\ card_num = block_num /\ rsp \o to_send = answer
  BY <1>2 DEF CardNum, CardHas, DepInv
<1>3. CASE /\ tx[1] = "R" /\ tx[2] = block_num /\ card_num = 1 - block_num
           /\ rsp \o to_send = answer
  BY <1>3 DEF CardNum, CardHas, Flip, DepInv
<1> QED BY <1>1, <1>2, <1>3 DEF DepInv, Expecting

LEMMA AskTimeDep == ASSUME DepInv, AskTime PROVE DepInv'
<1>1. /\ CardNum = block_num /\ CardHas \in Seq(Nat)
      /\ rsp \o CardHas = answer
  BY CardFollows DEF AskTime
<1> QED BY <1>1 DEF AskTime, DepInv, Expecting

LEMMA SendBlockDep ==
  ASSUME DepInv, NEW k \in 0..Len(CardHas), SendBlock(k)
  PROVE  DepInv'
<1> DEFINE has == CardHas
           first == SubSeq(has, 1, k)
           rest == SubSeq(has, k + 1, Len(has))
<1>1. CardNum = block_num /\ has \in Seq(Nat) /\ rsp \o has = answer
  BY CardFollows DEF SendBlock
<1>2. /\ first \in Seq(Nat) /\ rest \in Seq(Nat) /\ first \o rest = has
      /\ k = Len(has) => first = has
  BY <1>1, Split
<1>3. /\ rsp \in Seq(Nat) /\ block_num \in 0..1 /\ card_num \in 0..1
      /\ answer \in Seq(Nat)
  BY DEF DepInv
<1>4. /\ card_num' = CardNum /\ to_send' = rest /\ answer' = answer
      /\ Take(CardNum, first, k < Len(has)) /\ ended = "no"
  BY DEF SendBlock
<1> HIDE DEF has, first, rest
<1>5. (rsp \o first) \o rest = answer /\ rsp \o first \in Seq(Nat)
  <2>1. rsp \o first \in Seq(Nat)
    BY <1>2, <1>3, ConcatProperties
  <2>2. (rsp \o first) \o rest = rsp \o (first \o rest)
    BY <1>2, <1>3, Associative
  <2> QED BY <1>1, <1>2, <2>1, <2>2
<1>6. k = Len(has) \/ k < Len(has)
  BY <1>1, LenProperties DEF has
<1>7. /\ rsp' = rsp \o first /\ block_num' = 1 - block_num
      /\ IF k < Len(has)
         THEN tx' = <<"R", 1 - block_num>> /\ ended' = ended
         ELSE ended' = "ok" /\ tx' = tx
  BY <1>1, <1>4 DEF Take, Flip
<1>8. /\ block_num' \in 0..1 /\ card_num' \in 0..1 /\ rsp' \in Seq(Nat)
      /\ answer' \in Seq(Nat) /\ to_send' \in Seq(Nat)
      /\ card_num' = 1 - block_num'
  BY <1>1, <1>2, <1>3, <1>4, <1>5, <1>7
<1>9. CASE k < Len(has)
  <2>1. tx' = <<"R", block_num'>> /\ ended' = "no"
    BY <1>4, <1>7, <1>9
  <2>2. rsp' \o to_send' = answer'
    BY <1>4, <1>5, <1>7
  <2> QED BY <1>8, <2>1, <2>2 DEF DepInv, Expecting
<1>10. CASE ~(k < Len(has))
  <2>1. ended' = "ok"
    BY <1>7, <1>10
  <2>2. rsp' = answer'
    BY <1>1, <1>2, <1>4, <1>6, <1>7, <1>10
  <2> QED BY <1>8, <2>1, <2>2 DEF DepInv
<1> QED BY <1>9, <1>10
-----------------------------------------------------------------------------
(* read_type4()                                                             *)

(* What was read so far is a prefix of the file; an exchange in progress is  *)
(* about the step's answer.                                                  *)
Reading ==
  /\ tag \in Type4 /\ ~read
  /\ step \in 1..6
  /\ msg \in Seq(Nat)
  /\ step < 6 => msg = <<>>
  /\ step = 6 => /\ nlen = Len(File[tag]) /\ Len(msg) < nlen
                 /\ msg = SubSeq(File[tag], 1, Len(msg))

ReaderInv ==
  /\ DepInv
  /\ pc \in {"read", "exchange"} => Reading
  /\ pc = "exchange" => answer = Answer
  /\ pc = "rats" => tag \in Type4
  /\ pc \notin {"read", "exchange", "deselect"} => step = 1 /\ msg = <<>> /\ ~read
  /\ read => pc = "deselect" /\ msg = File[tag]

LEMMA Constants ==
  /\ \A t \in Type4 : File[t] \in Seq(Nat) /\ Len(File[t]) \in Nat
  /\ Ok \in Nat /\ NotFound \in Nat /\ MLE \in Nat \ {0} /\ Type4 \subseteq Tag
BY ReaderAssumption, LenProperties

\* The size of the next chunk, and the file's bytes in it.
LEMMA ChunkOfFile ==
  ASSUME Reading, step = 6
  PROVE  /\ chunk \in Nat \ {0} /\ Len(msg) \in Nat
         /\ Len(msg) + chunk <= Len(File[tag])
         /\ SubSeq(File[tag], Len(msg) + 1, Len(msg) + chunk) \in Seq(Nat)
         /\ Len(SubSeq(File[tag], Len(msg) + 1, Len(msg) + chunk)) = chunk
         /\ SubSeq(File[tag], 1, Len(msg))
              \o SubSeq(File[tag], Len(msg) + 1, Len(msg) + chunk)
              = SubSeq(File[tag], 1, Len(msg) + chunk)
<1> DEFINE f == File[tag]
           n == Len(msg)
<1>1. f \in Seq(Nat) /\ Len(f) \in Nat /\ n \in Nat /\ n < Len(f) /\ nlen = Len(f)
      /\ MLE \in Nat \ {0}
  BY Constants, LenProperties DEF Reading
<1>2. chunk = IF nlen - n < MLE THEN nlen - n ELSE MLE
  BY DEF chunk
<1> HIDE DEF f, n
<1>3. chunk \in Nat \ {0} /\ n + chunk <= Len(f)
  BY <1>1, <1>2
<1> DEFINE c == chunk
<1> HIDE DEF c
<1>4. c \in Nat \ {0} /\ n + c <= Len(f)
  BY <1>3 DEF c
<1> DEFINE lo == n + 1
           hi == n + c
<1>5. /\ lo \in Int /\ hi \in Int /\ lo <= hi /\ hi - lo + 1 = c
      /\ \A i \in lo..hi : i \in 1..Len(f)
  BY <1>1, <1>4
<1> HIDE DEF lo, hi
<1>6. \A i \in lo..hi : f[i] \in Nat
  BY <1>1, <1>5, ElementOfSeq
<1>7. SubSeq(f, lo, hi) \in Seq(Nat) /\ Len(SubSeq(f, lo, hi)) = c
  BY <1>5, <1>6, SubSeqProperties
<1>8. 1 \in 1..Len(f) + 1 /\ n \in 1 - 1..Len(f) /\ n + c \in n..Len(f)
  BY <1>1, <1>4
<1>9. SubSeq(f, 1, n) \o SubSeq(f, n + 1, n + c) = SubSeq(f, 1, n + c)
  BY <1>1, <1>8, ConcatAdjacentSubSeq
<1> QED BY <1>1, <1>4, <1>7, <1>9 DEF f, n, c, lo, hi

LEMMA AnswerSeq == ASSUME Reading PROVE Answer \in Seq(Nat)
<1>1. CASE step = 6
  BY <1>1, ChunkOfFile, StatusLast, Constants DEF Answer, Steps
<1>2. CASE step # 6
  BY <1>2, Constants DEF Answer, Steps, Reading
<1> QED BY <1>1, <1>2

LEMMA SendApduStep == ASSUME ReaderInv, SendApdu PROVE ReaderInv'
<1>1. Reading /\ DepInv /\ ~read
  BY DEF ReaderInv, SendApdu
<1>2. UNCHANGED <<tag, step, nlen, msg, read>> /\ pc' = "exchange"
  BY DEF SendApdu, ndef, poll
<1>3. DepInv'
  BY <1>1, AnswerSeq, ExchangeDep DEF SendApdu
<1>4. Answer' = Answer /\ Reading'
  BY <1>1, <1>2 DEF Answer, chunk, Reading
<1>5. answer' = Answer'
  BY <1>4 DEF SendApdu, Exchange
<1> QED BY <1>1, <1>2, <1>3, <1>4, <1>5 DEF ReaderInv

LEMMA ExchangingStep == ASSUME ReaderInv, Exchanging PROVE ReaderInv'
<1>1. UNCHANGED <<tag, step, nlen, msg, read, pc>> /\ pc = "exchange"
  BY DEF Exchanging, ndef, poll
<1>2. DepInv /\ answer = Answer /\ Reading
  BY <1>1 DEF ReaderInv
<1>3. Transceive \/ Fails \/ GiveUp
  BY DEF Exchanging
<1>4. DepInv'
  BY <1>2, <1>3, AskTimeDep, SendBlockDep, FailsDep DEF Transceive
<1>5. answer' = answer
  BY <1>3 DEF Transceive, AskTime, SendBlock, Fails, GiveUp, picc
<1>6. Answer' = Answer /\ Reading'
  BY <1>1, <1>2 DEF Answer, chunk, Reading
<1> QED BY <1>1, <1>2, <1>4, <1>5, <1>6 DEF ReaderInv, Reading

LEMMA ReadStepStep == ASSUME ReaderInv, ReadStep PROVE ReaderInv'
<1>1. /\ pc = "exchange" /\ ended = "ok" /\ status = Ok /\ tag' = tag
      /\ UNCHANGED depVars
  BY DEF ReadStep, poll
<1>2. DepInv /\ Reading /\ rsp = Answer
  BY <1>1 DEF ReaderInv, DepInv
<1>3. DepInv'
  BY <1>1, <1>2 DEF DepInv, Expecting, depVars, driver, picc
<1>4. step \in 1..6 /\ tag \in Type4 /\ File[tag] \in Seq(Nat) /\ ~read
      /\ Len(File[tag]) \in Nat /\ msg \in Seq(Nat)
  BY <1>2, Constants DEF Reading
<1>5. CASE step < 5
  <2>1. pc' = "read" /\ step' = step + 1 /\ UNCHANGED <<nlen, msg, read>>
    BY <1>4, <1>5 DEF ReadStep, Steps
  <2>2. Reading'
    BY <1>1, <1>2, <1>5, <2>1 DEF Reading
  <2> QED BY <1>3, <1>4, <2>1, <2>2 DEF ReaderInv
<1>6. CASE step = 5
  <2>1. nlen' = rsp[1] /\ msg' = msg /\ Chunks(msg, rsp[1])
    BY <1>6 DEF ReadStep, Steps
  <2>2. rsp = <<Len(File[tag]), Ok>> /\ msg = <<>>
    BY <1>2, <1>6 DEF Answer, Steps, Reading
  <2>3. nlen' = Len(File[tag]) /\ Len(msg) = 0
    BY <2>1, <2>2
  <2>4. CASE 0 < Len(File[tag])
    <3>1. pc' = "read" /\ step' = 6 /\ read' = FALSE
      BY <2>1, <2>2, <2>3, <2>4 DEF Chunks
    <3>2. SubSeq(File[tag], 1, 0) = <<>>
      BY SubSeqEmpty
    <3>3. Len(msg') = 0 /\ nlen' = Len(File[tag']) /\ 0 < nlen'
      BY <1>1, <2>1, <2>3, <2>4
    <3>4. msg' = SubSeq(File[tag'], 1, Len(msg'))
      BY <1>1, <2>1, <2>2, <3>2, <3>3
    <3>5. Reading'
      BY <1>1, <1>4, <2>1, <3>1, <3>3, <3>4 DEF Reading
    <3> QED BY <1>3, <3>1, <3>5 DEF ReaderInv
  <2>5. CASE ~(0 < Len(File[tag]))
    <3>1. pc' = "deselect"
      BY <2>1, <2>2, <2>3, <2>5 DEF Chunks
    <3>2. File[tag] = <<>>
      BY <1>4, <2>5, EmptySeq
    <3> QED BY <1>1, <1>3, <2>1, <2>2, <3>1, <3>2 DEF ReaderInv
  <2> QED BY <2>4, <2>5
<1>7. CASE step = 6
  <2> DEFINE data == SubSeq(File[tag], Len(msg) + 1, Len(msg) + chunk)
             prefix == SubSeq(File[tag], 1, Len(msg))
  <2>1. /\ msg' = msg \o SubSeq(rsp, 1, chunk)
        /\ nlen' = nlen /\ Chunks(msg', nlen)
    BY <1>7 DEF ReadStep, Steps
  <2>2. /\ chunk \in Nat \ {0} /\ Len(msg) \in Nat
        /\ Len(msg) + chunk <= Len(File[tag])
        /\ data \in Seq(Nat) /\ Len(data) = chunk
        /\ prefix \o data = SubSeq(File[tag], 1, Len(msg) + chunk)
    BY <1>2, <1>7, ChunkOfFile
  <2>3. rsp = Append(data, Ok)
    BY <1>2, <1>7 DEF Answer, Steps
  <2>4. msg = prefix /\ nlen = Len(File[tag])
    BY <1>2, <1>7 DEF Reading
  <2> HIDE DEF data, prefix
  <2>5. SubSeq(rsp, 1, chunk) = data
    BY <2>2, <2>3, StatusLast, Constants
  <2>6. msg' = SubSeq(File[tag], 1, Len(msg) + chunk)
    BY <2>1, <2>2, <2>4, <2>5
  <2>7. msg' \in Seq(Nat) /\ Len(msg') = Len(msg) + chunk
    <3>1. msg' = msg \o data
      BY <2>1, <2>5
    <3> QED BY <3>1, <1>4, <2>2, ConcatProperties
  <2>8. msg' = SubSeq(File[tag], 1, Len(msg'))
    BY <2>6, <2>7
  <2>9. CASE Len(msg') < nlen
    <3>1. pc' = "read" /\ step' = 6 /\ read' = FALSE
      BY <2>1, <2>9 DEF Chunks
    <3>2. nlen' = Len(File[tag']) /\ Len(msg') < nlen'
      BY <1>1, <2>1, <2>4, <2>9
    <3>3. msg' = SubSeq(File[tag'], 1, Len(msg'))
      BY <1>1, <2>8
    <3>4. Reading'
      BY <1>1, <1>4, <2>7, <3>1, <3>2, <3>3 DEF Reading
    <3> QED BY <1>3, <3>1, <3>4 DEF ReaderInv
  <2>10. CASE ~(Len(msg') < nlen)
    <3>1. pc' = "deselect"
      BY <2>1, <2>10 DEF Chunks
    <3>2. Len(msg') = Len(File[tag])
      BY <1>4, <2>2, <2>4, <2>7, <2>10, SMTT(30)
    <3>3. msg' = File[tag]
      BY <1>4, <2>8, <3>2, SubSeqFull
    <3> QED BY <1>1, <1>3, <3>1, <3>3 DEF ReaderInv
  <2> QED BY <2>9, <2>10
<1> QED BY <1>4, <1>5, <1>6, <1>7

\* The other steps leave the reading alone, start it or end it.
LEMMA OtherStep ==
  ASSUME ReaderInv, [Next]_vars, ~SendApdu, ~Exchanging, ~ReadStep
  PROVE  ReaderInv'
<1> DEFINE same == UNCHANGED <<tag, ndef, depVars>>
<1>1. CASE same /\ pc' = pc
  BY <1>1 DEF ReaderInv, Reading, DepInv, Expecting, Answer, chunk, ndef,
              depVars, driver, picc
<1>2. CASE same /\ pc \notin {"read", "exchange", "deselect"}
             /\ pc' \notin {"read", "exchange", "deselect"} /\ (pc' = "rats" => tag \in Type4)
  BY <1>2 DEF ReaderInv, DepInv, Expecting, ndef, depVars, driver, picc
<1>3. CASE \E t \in Tag : Arrive(t) \/ Leave(t)
  BY <1>1, <1>3 DEF Arrive, Leave, poll
<1>4. CASE Elapse \/ ToReader \/ ToEmulation \/ UNCHANGED vars
  BY <1>1, <1>4 DEF Elapse, ToReader, ToEmulation, vars, poll
<1>5. CASE PollStart \/ Request \/ NoTag \/ AnticollisionLevel \/ PollError
             \/ PollI2cError \/ KnownTag \/ NewTag
  <2>1. CASE PollStart
    BY <1>1, <1>2, <2>1 DEF PollStart, poll
  <2>2. CASE Request
    BY <1>2, <2>2 DEF Request
  <2>3. CASE NoTag
    BY <1>2, <2>3 DEF NoTag, poll
  <2>4. CASE AnticollisionLevel
    BY <1>2, <2>4 DEF AnticollisionLevel
  <2>5. CASE PollError \/ PollI2cError
    BY <1>2, <2>5 DEF PollError, PollI2cError, poll
  <2>6. CASE KnownTag
    BY <1>2, <2>6 DEF KnownTag, poll
  <2>7. CASE NewTag
    BY <1>2, <2>7 DEF NewTag, poll
  <2> QED BY <1>5, <2>1, <2>2, <2>3, <2>4, <2>5, <2>6, <2>7
<1>6. CASE Select
  <2>1. pc = "select" /\ pc' \in {"idle", "found", "level"} /\ UNCHANGED <<ndef, depVars>>
    BY <1>6 DEF Select
  <2> QED BY <2>1 DEF ReaderInv, DepInv, Expecting, ndef, depVars, driver, picc
<1>7. CASE ReadType2 \/ RatsFails
  <2>1. /\ pc' = "idle" /\ step' = 1 /\ msg' = <<>> /\ read' = FALSE
        /\ UNCHANGED depVars
    BY <1>7 DEF ReadType2, RatsFails, Finish
  <2> QED BY <2>1 DEF ReaderInv, DepInv, Expecting, depVars, driver, picc
<1>8. CASE Rats
  <2>1. /\ pc = "rats" /\ pc' = "read" /\ UNCHANGED <<tag, ndef>>
        /\ Activate
    BY <1>8 DEF Rats, poll
  <2>2. DepInv'
    BY <2>1, ActivateDep
  <2> QED BY <2>1, <2>2 DEF ReaderInv, Reading, ndef
<1>9. CASE ReadFails
  <2>1. /\ pc = "exchange" /\ pc' = "deselect" /\ UNCHANGED <<tag, ndef, depVars>>
    BY <1>9 DEF ReadFails, poll
  <2> QED BY <2>1 DEF ReaderInv, Reading, DepInv, Expecting, ndef, depVars, driver, picc
<1>10. CASE Deselect
  <2>1. /\ pc' = "idle" /\ step' = 1 /\ msg' = <<>> /\ read' = FALSE /\ Activate
    BY <1>10 DEF Deselect, Finish
  <2>2. DepInv'
    BY <2>1, ActivateDep
  <2> QED BY <2>1, <2>2 DEF ReaderInv
<1> QED BY <1>3, <1>4, <1>5, <1>6, <1>7, <1>8, <1>9, <1>10 DEF Next, Device

LEMMA ReaderInvInductive == ReaderInv /\ [Next]_vars => ReaderInv'
BY SendApduStep, ExchangingStep, ReadStepStep, OtherStep

LEMMA ReaderInvInit == Init => ReaderInv
BY DEF Init, Activated, ReaderInv, DepInv, Expecting

\* A message that was read from a Type 4 tag is its whole file, each byte
\* once and in order (ndef.rs:42-99 over isodep.rs:86-149).
THEOREM ReadWhole == Spec => []ReadIsWhole
<1>1. ReaderInv => ReadIsWhole
  BY DEF ReaderInv, ReadIsWhole
<1> QED BY <1>1, ReaderInvInit, ReaderInvInductive, PTL DEF Spec

\* An exchange that returns Ok has the card's whole answer, each part once
\* and in order (isodep.rs:83-149).
THEOREM AnswerWhole == Spec => []AnswerIsWhole
<1>1. ReaderInv => AnswerIsWhole
  BY DEF ReaderInv, DepInv, AnswerIsWhole
<1> QED BY <1>1, ReaderInvInit, ReaderInvInductive, PTL DEF Spec

-----------------------------------------------------------------------------
(* Natural numbers                                                          *)

\* A set of natural numbers that is not empty has a least one.
LEMMA Least ==
  ASSUME NEW S \in SUBSET Nat, S # {}
  PROVE  \E n \in S : \A m \in S : n <= m
<1> DEFINE R == StrictSubsetOrdering(Nat)
           T == {0..n : n \in S}
<1>1. IsWellFoundedOn(R, FiniteSubsetsOf(Nat))
  BY FS_StrictSubsetOrderingWellFounded
<1>2. T \subseteq FiniteSubsetsOf(Nat) /\ T # {}
  <2>1. ASSUME NEW n \in S PROVE 0..n \in FiniteSubsetsOf(Nat)
    <3>1. 0 \in Int /\ n \in Int /\ 0..n \subseteq Nat
      OBVIOUS
    <3>2. IsFiniteSet(0..n)
      BY <3>1, FS_Interval, Zenon
    <3> QED BY <3>1, <3>2 DEF FiniteSubsetsOf
  <2> QED BY <2>1
<1>3. \E x \in T : \A y \in T : ~ (<<y, x>> \in R)
  <2> HIDE DEF R, T
  <2> QED BY <1>1, <1>2, WFMin
<1>4. PICK n \in S : \A m \in S : ~ (<<0..m, 0..n>> \in R)
  BY <1>3
<1>5. ASSUME NEW m \in S, m < n PROVE FALSE
  <2>1. 0..m \subseteq 0..n /\ n \in 0..n /\ n \notin 0..m
    BY <1>5
  <2>2. <<0..m, 0..n>> \in R
    BY <2>1 DEF StrictSubsetOrdering
  <2> QED BY <2>2, <1>4
<1> QED BY <1>4, <1>5

\* A set with 0 and with the successor of each of its numbers has them all.
LEMMA Induct ==
  ASSUME NEW P, 0 \in P, \A n \in Nat : n \in P => n + 1 \in P
  PROVE  Nat \subseteq P
<1> SUFFICES ASSUME NEW k \in Nat, k \notin P PROVE FALSE
  OBVIOUS
<1> DEFINE S == Nat \ P
<1>1. PICK n \in S : \A m \in S : n <= m
  <2>1. S \in SUBSET Nat /\ S # {}
    OBVIOUS
  <2> HIDE DEF S
  <2> QED BY <2>1, Least
<1>2. n \in Nat /\ n # 0
  OBVIOUS
<1>3. n - 1 \in Nat /\ n - 1 \notin S
  BY <1>1, <1>2
<1> QED BY <1>1, <1>2, <1>3

LEMMA MinIsLeast ==
  ASSUME NEW S \in SUBSET Nat, S # {}
  PROVE  Min(S) \in S /\ \A m \in S : Min(S) <= m
<1>1. \E n \in S : \A m \in S : n <= m
  BY Least
<1> QED BY <1>1 DEF Min

\* Where bit number n is.
LEMMA BitPlace ==
  ASSUME NEW n \in Nat
  PROVE  /\ n \div BITS \in Nat /\ n % BITS \in 0..BITS - 1
         /\ n = BITS * (n \div BITS) + (n % BITS)
<1> BITS \in Nat \ {0}
  BY SearchAssumption
<1> QED OBVIOUS

LEMMA Scale ==
  ASSUME NEW p \in Nat, NEW q \in Nat, p < q
  PROVE  BITS * p + BITS <= BITS * q
<1> BITS \in Nat \ {0}
  BY SearchAssumption
<1>1. PICK d \in Nat : q = p + 1 + d
  <2>1. q - p - 1 \in Nat /\ q = p + 1 + (q - p - 1)
    OBVIOUS
  <2> QED BY <2>1
<1>2. BITS * q = BITS * p + BITS + BITS * d
  BY <1>1
<1>3. BITS * d \in Nat /\ BITS * p \in Nat
  OBVIOUS
<1> QED BY <1>2, <1>3

\* The bit in place b of byte j.
LEMMA BitNumber ==
  ASSUME NEW j \in Nat, NEW b \in 0..BITS - 1
  PROVE  /\ BITS * j + b \in Nat
         /\ (BITS * j + b) \div BITS = j /\ (BITS * j + b) % BITS = b
<1> BITS \in Nat \ {0}
  BY SearchAssumption
<1> DEFINE n == BITS * j + b
           q == n \div BITS
           r == n % BITS
<1>1. n \in Nat /\ BITS * j \in Nat
  OBVIOUS
<1>2. q \in Nat /\ r \in 0..BITS - 1 /\ n = BITS * q + r
  <2> HIDE DEF n
  <2> QED BY <1>1, BitPlace
<1> HIDE DEF q, r
<1>3. ~(j < q)
  BY <1>1, <1>2, Scale
<1>4. ~(q < j)
  BY <1>1, <1>2, Scale
<1>5. q = j
  BY <1>2, <1>3, <1>4
<1>6. r = b
  BY <1>2, <1>5
<1> QED BY <1>1, <1>5, <1>6 DEF q, r

-----------------------------------------------------------------------------
(* nfca_anticollision_level()                                               *)

\* The states of the loop up to round k, one after the other.
IsRun(R, h, k, f) ==
  f = [n \in 0..k |-> IF n = 0 THEN Start ELSE Round(R, h, f[n - 1])]

LEMMA RunTo ==
  ASSUME NEW R, NEW h, NEW k \in Nat
  PROVE  \E f : IsRun(R, h, k, f)
<1> DEFINE P == {m \in Nat : \E f : IsRun(R, h, m, f)}
<1>1. 0 \in P
  <2> DEFINE f == [n \in 0..0 |-> Start]
  <2>1. IsRun(R, h, 0, f)
    BY DEF IsRun
  <2> QED BY <2>1
<1>2. ASSUME NEW m \in Nat, m \in P PROVE m + 1 \in P
  <2>1. PICK f : IsRun(R, h, m, f)
    BY <1>2
  <2>2. \A n \in 0..m : f[n] = IF n = 0 THEN Start ELSE Round(R, h, f[n - 1])
    BY <2>1 DEF IsRun
  <2> DEFINE g == [n \in 0..m + 1 |-> IF n = m + 1 THEN Round(R, h, f[m]) ELSE f[n]]
  <2>3. ASSUME NEW n \in 0..m + 1
        PROVE  g[n] = IF n = 0 THEN Start ELSE Round(R, h, g[n - 1])
    <3>1. CASE n = 0
      BY <2>2, <3>1
    <3>2. CASE n = m + 1
      BY <3>2
    <3>3. CASE n # 0 /\ n # m + 1
      <4>1. n \in 0..m /\ n - 1 \in 0..m + 1 /\ n - 1 # m + 1
        BY <3>3
      <4>2. g[n] = f[n] /\ g[n - 1] = f[n - 1]
        BY <3>3, <4>1
      <4>3. f[n] = Round(R, h, f[n - 1])
        BY <2>2, <3>3, <4>1
      <4> QED BY <3>3, <4>2, <4>3
    <3> QED BY <3>1, <3>2, <3>3
  <2>4. IsRun(R, h, m + 1, g)
    <3>1. g = [n \in 0..m + 1 |-> g[n]]
      OBVIOUS
    <3> HIDE DEF g
    <3> QED BY <2>3, <3>1 DEF IsRun
  <2> QED BY <2>4
<1>3. Nat \subseteq P
  <2> HIDE DEF P
  <2> QED BY <1>1, <1>2, Induct
<1> QED BY <1>3

LEMMA LevelRuns ==
  ASSUME NEW R, NEW h
  PROVE  \E f : /\ f[0] = Start
                /\ \A n \in 1..Rounds : f[n] = Round(R, h, f[n - 1])
                /\ Level(R, h) = IF f[Rounds].result = "none"
                                 THEN [f[Rounds] EXCEPT !.result = "collision"]
                                 ELSE f[Rounds]
<1> DEFINE run == CHOOSE f : IsRun(R, h, Rounds, f)
<1>1. Rounds \in Nat
  BY DEF Rounds
<1>2. IsRun(R, h, Rounds, run)
  <2>1. \E f : IsRun(R, h, Rounds, f)
    BY <1>1, RunTo
  <2> QED BY <2>1, Zenon
<1>3. Level(R, h) = IF run[Rounds].result = "none"
                    THEN [run[Rounds] EXCEPT !.result = "collision"]
                    ELSE run[Rounds]
  BY Zenon DEF Level, IsRun
<1> HIDE DEF run
<1>4. run[0] = Start /\ \A n \in 1..Rounds : run[n] = Round(R, h, run[n - 1])
  BY <1>1, <1>2 DEF IsRun
<1> QED BY <1>3, <1>4

SearchState ==
  [frame : Response, rbuf : Response, sbytes : Nat, sbits : 0..BITS - 1,
   rbuf_offset : 0..BYTES - 1, coll_byte : Byte, result : {"none", "ok", "timeout"}]

LEMMA Places0 == BITS \in Nat \ {0} /\ BYTES \in Nat \ {0} /\ BITS * BYTES \in Nat
BY SearchAssumption

LEMMA CopyType ==
  ASSUME NEW buf \in Response, NEW at \in Nat, NEW n \in Nat,
         NEW value, \A j \in Nat : j < n /\ at + j < BYTES => value[j] \in Byte
  PROVE  Copy(buf, at, n, value) \in Response
<1>1. ASSUME NEW i \in 0..BYTES - 1
      PROVE  (IF i >= at /\ i < at + n THEN value[i - at] ELSE buf[i]) \in Byte
  <2>1. CASE i >= at /\ i < at + n
    <3>1. i - at \in Nat /\ i - at < n /\ at + (i - at) < BYTES
      BY <2>1, Places0
    <3> QED BY <2>1, <3>1
  <2>2. CASE ~(i >= at /\ i < at + n)
    BY <2>2 DEF Response
  <2> QED BY <2>1, <2>2
<1>2. DOMAIN buf = 0..BYTES - 1
  BY DEF Response
<1> QED BY <1>1, <1>2 DEF Copy, Response

LEMMA JoinedType ==
  ASSUME NEW buf \in Response, NEW at \in 0..BYTES - 1, NEW bits, NEW low \in Byte
  PROVE  Joined(buf, at, bits, low) \in Response
BY DEF Joined, Merge, Response, Byte

LEMMA RoundType ==
  ASSUME NEW R \in SUBSET Response, NEW h, NEW s \in SearchState
  PROVE  Round(R, h, s) \in SearchState
<1> DEFINE tags == Answering(R, s.frame, s.sbytes, s.sbits)
           first == BITS * s.sbytes + s.sbits
           differ == Differing(tags, first)
           end == IF differ = {} THEN BITS * BYTES ELSE Min(differ)
           last == IF differ = {} THEN BYTES - 1 ELSE end \div BITS
           one == CHOOSE u \in tags : TRUE
           fifo == [j \in 0..last - s.sbytes |->
                 {b \in 0..BITS - 1 :
                    LET n == BITS * (s.sbytes + j) + b
                    IN  n >= first /\ (IF n = end THEN h ELSE n < end /\ Bit(one, n))}]
           actual == Min({last - s.sbytes + 1, BYTES - s.rbuf_offset})
           rbuf == Copy(s.rbuf, s.rbuf_offset, actual, fifo)
           cbits == end % BITS
           coll == rbuf[s.rbuf_offset + actual - 1] \cup {cbits}
           sbytes == last + (IF cbits = BITS - 1 THEN 1 ELSE 0)
           sbits == (cbits + 1) % BITS
           received == Copy(s.frame, s.rbuf_offset, actual,
                       [j \in 0..actual - 1 |-> rbuf[s.rbuf_offset + j]])
<1> DEFINE timedOut == [s EXCEPT !.result = "timeout"]
           whole == [s EXCEPT !.rbuf = Joined(rbuf, s.rbuf_offset, s.sbits, s.coll_byte),
                              !.result = "ok"]
           more == [frame |-> Copy(received, sbytes, 1, [j \in {0} |-> coll]),
                    rbuf |-> Joined(rbuf, actual - 1, sbits, coll),
                    sbytes |-> sbytes, sbits |-> sbits,
                    rbuf_offset |-> actual - 1, coll_byte |-> coll, result |-> "none"]
<1>1. Round(R, h, s) =
        CASE s.result # "none" -> s
          [] s.result = "none" /\ (tags = {} \/ s.sbytes >= BYTES) -> timedOut
          [] s.result = "none" /\ tags # {} /\ s.sbytes < BYTES /\ differ = {} -> whole
          [] OTHER -> more
  BY Zenon DEF Round
<1> HIDE DEF timedOut, whole, more
<1>5. s.sbytes \in Nat /\ BYTES \in Nat
  BY Places0 DEF SearchState
<1>2. CASE s.result # "none"
  BY <1>1, <1>2
<1>3. CASE s.result = "none" /\ (tags = {} \/ s.sbytes >= BYTES)
  <2>1. Round(R, h, s) = timedOut
    <3> HIDE DEF tags, differ
    <3> QED BY <1>1, <1>3, <1>5
  <2> QED BY <2>1 DEF timedOut, SearchState
<1>4. CASE s.result = "none" /\ tags # {} /\ s.sbytes < BYTES
  <2>1. Round(R, h, s) = IF differ = {} THEN whole ELSE more
    <3> HIDE DEF tags, differ
    <3> QED BY <1>1, <1>4, <1>5
  <2>2. /\ s.sbytes \in Nat /\ s.sbits \in 0..BITS - 1 /\ s.rbuf_offset \in 0..BYTES - 1
        /\ s.frame \in Response /\ s.rbuf \in Response /\ s.coll_byte \in Byte
        /\ s.sbytes < BYTES
    BY <1>4 DEF SearchState
  <2>3. first \in Nat /\ BITS * s.sbytes \in Nat /\ BITS * s.sbytes <= first
    BY <2>2, Places0
  <2> HIDE DEF tags
  <2>4. differ \in SUBSET Nat /\ \A n \in differ : first <= n /\ n < BITS * BYTES
    BY <2>3, Places0 DEF Differing
  <2> HIDE DEF first, differ
  <2>5. end \in Nat /\ last \in s.sbytes..BYTES - 1
    <3>1. CASE differ = {}
      BY <2>2, <3>1, Places0
    <3>2. CASE differ # {}
      <4>1. end \in differ
        BY <2>4, <3>2, MinIsLeast
      <4>2. end \in Nat /\ first <= end /\ end < BITS * BYTES /\ last = end \div BITS
        BY <2>4, <3>2, <4>1
      <4> HIDE DEF end, last
      <4>3. last \in Nat /\ end = BITS * last + (end % BITS) /\ end % BITS \in 0..BITS - 1
        BY <4>2, BitPlace
      <4>4. BITS * last \in Nat /\ BITS \in Nat
        BY <4>3, Places0
      <4>5. ~(last < s.sbytes)
        BY <2>2, <2>3, <4>2, <4>3, <4>4, Scale
      <4>6. ~(BYTES < last) /\ last # BYTES
        BY <4>2, <4>3, <4>4, Places0, Scale
      <4>7. last \in s.sbytes..BYTES - 1
        BY <2>2, <4>3, <4>5, <4>6, Places0
      <4> QED BY <4>2, <4>7
    <3> QED BY <3>1, <3>2
  <2> HIDE DEF end, last, one
  <2>6. /\ actual \in Nat \ {0} /\ actual <= last - s.sbytes + 1
        /\ actual <= BYTES - s.rbuf_offset
    <3> DEFINE S == {last - s.sbytes + 1, BYTES - s.rbuf_offset}
    <3>1. S \in SUBSET Nat /\ S # {} /\ 0 \notin S
      BY <2>2, <2>5, Places0
    <3>2. Min(S) \in S /\ \A m \in S : Min(S) <= m
      BY <3>1, MinIsLeast
    <3> QED BY <3>1, <3>2
  <2> HIDE DEF actual
  <2>7. \A j \in Nat : j < actual => fifo[j] \in Byte
    <3>1. \A j \in 0..last - s.sbytes : fifo[j] \in Byte
      BY DEF Byte
    <3> HIDE DEF fifo
    <3> QED BY <2>2, <2>5, <2>6, <3>1
  <2> HIDE DEF fifo
  <2>8. rbuf \in Response
    <3>1. s.rbuf_offset \in Nat /\ actual \in Nat /\ s.rbuf \in Response
      BY <2>2, <2>6, Places0
    <3>2. \A j \in Nat : j < actual /\ s.rbuf_offset + j < BYTES => fifo[j] \in Byte
      BY <2>7
    <3> QED BY <3>1, <3>2, CopyType, Zenon
  <2> HIDE DEF rbuf
  <2>9. CASE differ = {}
    <3>1. Joined(rbuf, s.rbuf_offset, s.sbits, s.coll_byte) \in Response
      BY <2>2, <2>8, JoinedType
    <3>2. whole \in SearchState
      BY <3>1 DEF SearchState, whole
    <3> QED BY <2>1, <2>9, <3>2
  <2>10. CASE differ # {}
    <3>1. cbits \in 0..BITS - 1 /\ sbits \in 0..BITS - 1
      BY <2>5, Places0
    <3> HIDE DEF cbits, sbits
    <3>2. coll \in Byte
      <4>1. s.rbuf_offset + actual - 1 \in 0..BYTES - 1
        BY <2>2, <2>6, Places0
      <4> QED BY <2>8, <3>1, <4>1 DEF Response, Byte
    <3> HIDE DEF coll
    <3>3. sbytes \in Nat
      BY <2>2, <2>5, Places0
    <3> HIDE DEF sbytes
    <3>4. received \in Response
      <4>1. \A j \in Nat : j < actual => rbuf[s.rbuf_offset + j] \in Byte
        BY <2>2, <2>6, <2>8, Places0 DEF Response
      <4> DEFINE value == [j \in 0..actual - 1 |-> rbuf[s.rbuf_offset + j]]
      <4>2. \A j \in Nat : j < actual => value[j] \in Byte
        BY <2>6, <4>1
      <4> HIDE DEF value
      <4>3. Copy(s.frame, s.rbuf_offset, actual, value) \in Response
        BY <2>2, <2>6, <4>2, CopyType
      <4> QED BY <4>3 DEF value
    <3> HIDE DEF received
    <3>5. Copy(received, sbytes, 1, [j \in {0} |-> coll]) \in Response
      <4> DEFINE value == [j \in {0} |-> coll]
      <4>1. \A j \in Nat : j < 1 => value[j] \in Byte
        BY <3>2
      <4> HIDE DEF value
      <4>2. Copy(received, sbytes, 1, value) \in Response
        BY <3>3, <3>4, <4>1, CopyType
      <4> QED BY <4>2 DEF value
    <3>6. actual - 1 \in 0..BYTES - 1
      BY <2>2, <2>6, Places0
    <3>7. Joined(rbuf, actual - 1, sbits, coll) \in Response
      BY <2>8, <3>2, <3>6, JoinedType
    <3>8. more \in SearchState
      BY <3>1, <3>2, <3>3, <3>5, <3>6, <3>7 DEF SearchState, more
    <3> QED BY <2>1, <2>10, <3>8
  <2> QED BY <2>9, <2>10
<1> QED BY <1>2, <1>3, <1>4, <1>5

LEMMA StartType == Start \in SearchState
BY Places0 DEF Start, SearchState, Empty, Response, Byte

\* Whatever the tags are, the search ends with a response's bytes in rbuf.
LEMMA LevelType ==
  ASSUME NEW R \in SUBSET Response, NEW h
  PROVE  Level(R, h).rbuf \in Response
<1>1. PICK f : /\ f[0] = Start
               /\ \A n \in 1..Rounds : f[n] = Round(R, h, f[n - 1])
               /\ Level(R, h) = IF f[Rounds].result = "none"
                                THEN [f[Rounds] EXCEPT !.result = "collision"]
                                ELSE f[Rounds]
  BY LevelRuns
<1> DEFINE P == {n \in Nat : n <= Rounds => f[n] \in SearchState}
<1>2. Nat \subseteq P
  <2>1. 0 \in P
    BY <1>1, StartType
  <2>2. ASSUME NEW n \in Nat, n \in P PROVE n + 1 \in P
    <3>1. CASE n + 1 <= Rounds
      <4>1. n + 1 \in 1..Rounds /\ (n + 1) - 1 = n /\ f[n] \in SearchState
        BY <2>2, <3>1 DEF Rounds
      <4>2. f[n + 1] = Round(R, h, f[n])
        BY <1>1, <4>1
      <4>3. f[n + 1] \in SearchState
        BY <4>1, <4>2, RoundType
      <4> QED BY <4>3
    <3>2. CASE ~(n + 1 <= Rounds)
      BY <3>2
    <3> QED BY <3>1, <3>2
  <2> HIDE DEF P
  <2> QED BY <2>1, <2>2, Induct
<1>3. f[Rounds] \in SearchState
  BY <1>2 DEF Rounds
<1>4. Level(R, h).rbuf = f[Rounds].rbuf
  BY <1>1, <1>3 DEF SearchState
<1> QED BY <1>3, <1>4 DEF SearchState

\* A tag alone: the first round has all of its response.
LEMMA RoundOne ==
  ASSUME NEW u \in Response, NEW h
  PROVE  Round({u}, h, Start).result = "ok" /\ Round({u}, h, Start).rbuf = u
<1> DEFINE s == Start
           tags == Answering({u}, s.frame, s.sbytes, s.sbits)
           first == BITS * s.sbytes + s.sbits
           differ == Differing(tags, first)
           end == IF differ = {} THEN BITS * BYTES ELSE Min(differ)
           last == IF differ = {} THEN BYTES - 1 ELSE end \div BITS
           one == CHOOSE v \in tags : TRUE
           fifo == [j \in 0..last - s.sbytes |->
                 {b \in 0..BITS - 1 :
                    LET n == BITS * (s.sbytes + j) + b
                    IN  n >= first /\ (IF n = end THEN h ELSE n < end /\ Bit(one, n))}]
           actual == Min({last - s.sbytes + 1, BYTES - s.rbuf_offset})
           rbuf == Copy(s.rbuf, s.rbuf_offset, actual, fifo)
           cbits == end % BITS
           coll == rbuf[s.rbuf_offset + actual - 1] \cup {cbits}
           sbytes == last + (IF cbits = BITS - 1 THEN 1 ELSE 0)
           sbits == (cbits + 1) % BITS
           received == Copy(s.frame, s.rbuf_offset, actual,
                       [j \in 0..actual - 1 |-> rbuf[s.rbuf_offset + j]])
           timedOut == [s EXCEPT !.result = "timeout"]
           whole == [s EXCEPT !.rbuf = Joined(rbuf, s.rbuf_offset, s.sbits, s.coll_byte),
                              !.result = "ok"]
           more == [frame |-> Copy(received, sbytes, 1, [j \in {0} |-> coll]),
                    rbuf |-> Joined(rbuf, actual - 1, sbits, coll),
                    sbytes |-> sbytes, sbits |-> sbits,
                    rbuf_offset |-> actual - 1, coll_byte |-> coll, result |-> "none"]
<1>1. Round({u}, h, s) =
        CASE s.result # "none" -> s
          [] s.result = "none" /\ (tags = {} \/ s.sbytes >= BYTES) -> timedOut
          [] s.result = "none" /\ tags # {} /\ s.sbytes < BYTES /\ differ = {} -> whole
          [] OTHER -> more
  BY Zenon DEF Round
<1> HIDE DEF timedOut, whole, more
<1>2. /\ s \in SearchState /\ s.result = "none" /\ s.sbytes = 0 /\ s.sbits = 0
      /\ s.rbuf_offset = 0 /\ s.rbuf = Empty
  BY StartType DEF Start
<1> HIDE DEF s
<1>3. first = 0
  BY <1>2, Places0
<1>4. tags = {u}
  BY <1>2, <1>3, Places0 DEF Answering
<1> HIDE DEF tags
<1>5. differ = {}
  BY <1>4 DEF Differing
<1>6. Round({u}, h, s) = whole
  <2> HIDE DEF differ
  <2> QED BY <1>1, <1>2, <1>4, <1>5, Places0
<1>7. end = BITS * BYTES /\ last = BYTES - 1 /\ one = u
  BY <1>4, <1>5
<1> HIDE DEF first, differ, end, last, one
<1>8. fifo = u
  <2>1. ASSUME NEW j \in 0..BYTES - 1
        PROVE  {b \in 0..BITS - 1 :
                  LET n == BITS * (0 + j) + b
                  IN  n >= 0 /\ (IF n = BITS * BYTES THEN h
                                 ELSE n < BITS * BYTES /\ Bit(u, n))} = u[j]
    <3>1. u[j] \in SUBSET (0..BITS - 1) /\ j \in Nat
      BY Places0 DEF Response, Byte
    <3>2. ASSUME NEW b \in 0..BITS - 1
          PROVE  LET n == BITS * (0 + j) + b
                 IN  n \in Nat /\ n < BITS * BYTES /\ (Bit(u, n) <=> b \in u[j])
      <4>1. /\ BITS * j + b \in Nat
            /\ (BITS * j + b) \div BITS = j /\ (BITS * j + b) % BITS = b
        BY <3>1, BitNumber
      <4>2. BITS * j + BITS <= BITS * BYTES /\ BITS * j \in Nat
        BY <3>1, Scale, Places0
      <4>3. 0 + j = j /\ BITS * j + b < BITS * BYTES
        BY <3>1, <4>2, Places0
      <4> QED BY <4>1, <4>3 DEF Bit
    <3> QED BY <3>1, <3>2, Places0
  <2>2. 0..last - s.sbytes = 0..BYTES - 1
    BY <1>2, <1>7, Places0
  <2>3. fifo = [j \in 0..BYTES - 1 |-> u[j]]
    BY <1>2, <1>3, <1>7, <2>1, <2>2
  <2> QED BY <2>3 DEF Response
<1> HIDE DEF fifo
<1>9. actual = BYTES
  <2> DEFINE S == {last - s.sbytes + 1, BYTES - s.rbuf_offset}
  <2>1. S = {BYTES} /\ BYTES \in Nat
    BY <1>2, <1>7, Places0
  <2> HIDE DEF S
  <2>2. Min(S) \in S
    BY <2>1, MinIsLeast
  <2> QED BY <2>1, <2>2 DEF S
<1> HIDE DEF actual
<1>10. rbuf = u
  <2>1. rbuf = [i \in 0..BYTES - 1 |-> IF i >= 0 /\ i < 0 + BYTES THEN u[i - 0] ELSE Empty[i]]
    BY <1>2, <1>8, <1>9 DEF Copy, Empty
  <2>2. \A i \in 0..BYTES - 1 : i >= 0 /\ i < 0 + BYTES /\ i - 0 = i
    BY Places0
  <2>3. rbuf = [i \in 0..BYTES - 1 |-> u[i]]
    BY <2>1, <2>2
  <2> QED BY <2>3 DEF Response
<1> HIDE DEF rbuf
<1>11. whole.result = "ok" /\ whole.rbuf = u
  BY <1>2, <1>10 DEF whole, Joined, SearchState
<1> QED BY <1>6, <1>11 DEF s

\* The search that ended stays as it is.
LEMMA RoundEnded ==
  ASSUME NEW R, NEW h, NEW s, s.result # "none"
  PROVE  Round(R, h, s) = s
BY Zenon DEF Round

LEMMA LevelOne ==
  ASSUME NEW u \in Response, NEW h
  PROVE  Level({u}, h).result = "ok" /\ Level({u}, h).rbuf = u
<1>1. PICK f : /\ f[0] = Start
               /\ \A n \in 1..Rounds : f[n] = Round({u}, h, f[n - 1])
               /\ Level({u}, h) = IF f[Rounds].result = "none"
                                  THEN [f[Rounds] EXCEPT !.result = "collision"]
                                  ELSE f[Rounds]
  BY LevelRuns
<1> DEFINE P == {n \in Nat : n + 1 <= Rounds => f[n + 1].result = "ok" /\ f[n + 1].rbuf = u}
<1>2. Nat \subseteq P
  <2>1. 0 \in P
    <3>1. f[1] = Round({u}, h, Start)
      BY <1>1 DEF Rounds
    <3> QED BY <3>1, RoundOne
  <2>2. ASSUME NEW n \in Nat, n \in P PROVE n + 1 \in P
    <3>1. CASE n + 2 <= Rounds
      <4>1. /\ n + 2 \in 1..Rounds /\ (n + 2) - 1 = n + 1 /\ (n + 1) + 1 = n + 2
            /\ f[n + 1].result = "ok" /\ f[n + 1].rbuf = u
        BY <2>2, <3>1 DEF Rounds
      <4>2. f[n + 2] = Round({u}, h, f[n + 1])
        BY <1>1, <4>1
      <4>3. Round({u}, h, f[n + 1]) = f[n + 1]
        BY <4>1, RoundEnded
      <4> QED BY <4>1, <4>2, <4>3
    <3>2. CASE ~(n + 2 <= Rounds)
      BY <3>2 DEF Rounds
    <3> QED BY <3>1, <3>2
  <2> HIDE DEF P
  <2> QED BY <2>1, <2>2, Induct
<1>3. f[Rounds].result = "ok" /\ f[Rounds].rbuf = u
  <2>1. Rounds - 1 \in P /\ Rounds - 1 + 1 = Rounds
    BY <1>2 DEF Rounds
  <2> QED BY <2>1 DEF Rounds
<1> QED BY <1>1, <1>3
-----------------------------------------------------------------------------
(* Announcements                                                            *)

\* A tag is powered where the field is, and nowhere else.
CardsOk == \A t \in Tag : card[t] # "off" <=> field /\ t \in present

\* What holds at each place of a poll.
PlaceOk ==
  /\ emulate => pc = "idle" /\ ~field
  /\ pc \notin {"idle", "request"} => field /\ ~deaf
  /\ pc \in {"level", "select"} =>
       \A t \in Tag : card[t] = "ready" => lv <= Len(Uid[t])
  /\ pc \notin {"idle", "request", "level", "select"} => tag \in Tag
  /\ pc \in {"found", "t2t", "rats"} => card[tag] \in {"active", "idle", "off"}
  /\ pc \in {"read", "exchange", "deselect"} => card[tag] \in {"protocol", "idle", "off"}

Announcing == {"t2t", "rats", "read", "exchange", "deselect"}

\* The tag that was announced and is alone since: it can be woken, is the one
\* that is found, and is remembered.
AloneOk ==
  alone # None =>
    /\ alone \in Tag /\ present = {alone}
    /\ IF pc \in Announcing THEN tag = alone ELSE last_tag = alone
    /\ pc \in {"idle", "request"} /\ ~emulate => ~deaf /\ card[alone] \in {"idle", "halt"}
    /\ pc \in {"level", "select"} => card[alone] = "ready"
    /\ pc = "select" => found = Uid[alone][lv]
    /\ pc = "found" => tag = alone

AnnounceInv == ReaderTypeOK /\ CardsOk /\ PlaceOk /\ AloneOk

-----------------------------------------------------------------------------
(* What the constants are, and what the helpers of the actions make.        *)
LEMMA TagFacts ==
  /\ None \notin Tag /\ Data = Nat /\ MaxFaults \in Nat /\ MAX_LOOPS \in Nat \ {0}
  /\ \A t \in Tag : /\ Len(Uid[t]) \in 1..3
                    /\ \A i \in 1..Len(Uid[t]) : Uid[t][i] \in Response
BY ReaderAssumption, DepAssumption, ElementOfSeq

LEMMA PoweredOk ==
  ASSUME card \in [Tag -> CardStates], NEW on \in BOOLEAN, NEW near \in SUBSET Tag
  PROVE  /\ Powered(on, near) \in [Tag -> CardStates]
         /\ \A t \in Tag : /\ Powered(on, near)[t] # "off" <=> on /\ t \in near
                           /\ Powered(on, near)[t] \in {card[t], "idle", "off"}
                           /\ on /\ t \in near /\ card[t] # "off"
                                => Powered(on, near)[t] = card[t]
BY DEF Powered, CardStates

LEMMA DepSame == ASSUME DepTypeOK, UNCHANGED depVars PROVE DepTypeOK'
BY DEF DepTypeOK, depVars, driver, picc

LEMMA DepActivate == ASSUME Activate PROVE DepTypeOK'
BY TagFacts DEF DepTypeOK, Activate, Block

LEMMA DepExchange ==
  ASSUME DepTypeOK, NEW a \in Seq(Nat), Exchange(a)
  PROVE  DepTypeOK'
<1>1. tx' = <<"I", block_num>> /\ tx' \in Block \X (0..1)
  BY DEF Exchange, DepTypeOK, Block
<1> QED BY <1>1, TagFacts DEF DepTypeOK, Exchange

LEMMA DepCard ==
  ASSUME DepTypeOK
  PROVE  CardNum \in 0..1 /\ CardHas \in Seq(Nat)
<1>1. CardNum \in 0..1
  BY DEF CardNum, Flip, DepTypeOK
<1>2. answer \in Seq(Nat) /\ to_send \in Seq(Nat) /\ sent \o to_send \in Seq(Nat)
  BY TagFacts, ConcatProperties DEF DepTypeOK
<1> QED BY <1>1, <1>2 DEF CardHas

LEMMA DepTransceive ==
  ASSUME DepTypeOK, Transceive \/ Fails
  PROVE  DepTypeOK'
<1>1. /\ block_num \in 0..1 /\ guard \in 0..MAX_LOOPS /\ tx \in Block \X (0..1)
      /\ rsp \in Seq(Nat) /\ answer \in Seq(Nat) /\ MAX_LOOPS \in Nat
      /\ ended \in {"no", "ok", "error"}
  BY TagFacts DEF DepTypeOK
<1>2. CardNum \in 0..1 /\ CardHas \in Seq(Nat)
  BY DepCard
<1>3. CASE AskTime
  <2>1. guard' \in 0..MAX_LOOPS
    BY <1>1, <1>3 DEF AskTime, Again
  <2>2. <<"WTX", 0>> \in Block \X (0..1)
    BY DEF Block
  <2> QED BY <1>2, <1>3, <2>1, <2>2, TagFacts DEF AskTime, DepTypeOK
<1>4. ASSUME NEW k \in 0..Len(CardHas), SendBlock(k)
      PROVE  DepTypeOK'
  <2> DEFINE has == CardHas
             first == SubSeq(has, 1, k)
             rest == SubSeq(has, k + 1, Len(has))
  <2>1. first \in Seq(Nat) /\ rest \in Seq(Nat)
    BY <1>2, Split
  <2>2. /\ guard < MAX_LOOPS /\ guard' = guard + 1
        /\ card_num' = CardNum /\ sent' = first /\ to_send' = rest
        /\ Take(CardNum, first, k < Len(has)) /\ answer' = answer
    BY <1>4 DEF SendBlock, Again
  <2> HIDE DEF first, rest, has
  <2>3. rsp \o first \in Seq(Nat)
    BY <1>1, <2>1, ConcatProperties
  <2>4. <<"R", 1 - block_num>> \in Block \X (0..1) /\ 1 - block_num \in 0..1
    BY <1>1 DEF Block
  <2>5. /\ rsp' \in Seq(Nat) /\ block_num' \in 0..1 /\ tx' \in Block \X (0..1)
        /\ ended' \in {"no", "ok", "error"}
    BY <1>1, <2>2, <2>3, <2>4 DEF Take, Flip
  <2>6. guard' \in 0..MAX_LOOPS
    BY <1>1, <2>2
  <2> QED BY <1>1, <1>2, <2>1, <2>2, <2>5, <2>6, TagFacts DEF DepTypeOK
<1>5. CASE GiveUp
  BY <1>5 DEF GiveUp, DepTypeOK, picc
<1>6. CASE Fails
  <2>1. guard' \in 0..MAX_LOOPS
    BY <1>1, <1>6 DEF Fails, Again
  <2> QED BY <1>6, <2>1 DEF Fails, DepTypeOK, picc
<1> QED BY <1>3, <1>4, <1>5, <1>6 DEF Transceive

LEMMA SearchResult ==
  ASSUME NEW level \in Search
  PROVE  /\ level.rbuf \in Response
         /\ \A u \in Response : level.among = {u} => level.result = "ok" /\ level.rbuf = u
<1> DEFINE all == UNION {{Uid[t][i] : i \in DOMAIN Uid[t]} : t \in Tag}
<1>1. all \subseteq Response
  BY ReaderAssumption, ElementOfSeq
<1>2. PICK s \in SUBSET all, high \in BOOLEAN :
        level = [among |-> s, result |-> Level(s, high).result, rbuf |-> Level(s, high).rbuf]
  <2>1. Search = {[among |-> s, result |-> Level(s, high).result, rbuf |-> Level(s, high).rbuf] :
                    s \in SUBSET all, high \in BOOLEAN}
    BY DEF Search
  <2> HIDE DEF all
  <2> QED BY <2>1
<1>3. level.among = s /\ level.result = Level(s, high).result /\ level.rbuf = Level(s, high).rbuf
  BY <1>2
<1>4. s \in SUBSET Response
  BY <1>1
<1> QED BY <1>3, <1>4, LevelType, LevelOne

\* A step may fail, and then no tag is alone.
LEMMA Faults ==
  ASSUME AnnounceInv, Fine \/ Fault
  PROVE  /\ faults' \in 0..MaxFaults /\ alone' \in Tag \cup {None}
         /\ alone' # None => alone' = alone /\ Fine
<1>1. faults \in 0..MaxFaults /\ alone \in Tag \cup {None} /\ MaxFaults \in Nat
  BY TagFacts DEF AnnounceInv, ReaderTypeOK
<1> QED BY <1>1 DEF Fine, Fault

\* Where the tag that is alone is, and that nobody else answers.
LEMMA Alone ==
  ASSUME AnnounceInv, alone # None
  PROVE  /\ alone \in Tag /\ present = {alone}
         /\ \A t \in Tag : card[t] # "off" => t = alone
         /\ pc = "request" => alone \in Woken
         /\ pc \in {"level", "select"} => Ready = {alone}
BY DEF AnnounceInv, AloneOk, CardsOk, PlaceOk, Woken, Ready

-----------------------------------------------------------------------------
(* Tags come and go, and the buttons.                                       *)

LEMMA MoveStep ==
  ASSUME AnnounceInv, NEW t \in Tag, Arrive(t) \/ Leave(t)
  PROVE  AnnounceInv'
<1>1. /\ present' \in SUBSET Tag /\ card' = Powered(field, present') /\ alone' = None
      /\ UNCHANGED <<app, field, deaf, pc, poll, ndef, faults, depVars>>
  BY DEF Arrive, Leave, AnnounceInv, ReaderTypeOK
<1>2. /\ card' \in [Tag -> CardStates] /\ card \in [Tag -> CardStates]
      /\ \A x \in Tag : /\ card'[x] # "off" <=> field /\ x \in present'
                        /\ card'[x] \in {card[x], "idle", "off"}
  BY <1>1, PoweredOk DEF AnnounceInv, ReaderTypeOK
<1>3. ReaderTypeOK'
  BY <1>1, <1>2, DepSame DEF AnnounceInv, ReaderTypeOK, app, poll, ndef
<1>4. CardsOk'
  BY <1>1, <1>2 DEF CardsOk
<1>5. PlaceOk'
  BY <1>1, <1>2 DEF AnnounceInv, PlaceOk, app, poll
<1> QED BY <1>1, <1>3, <1>4, <1>5 DEF AnnounceInv, AloneOk

LEMMA ElapseStep ==
  ASSUME AnnounceInv, Elapse \/ UNCHANGED vars
  PROVE  AnnounceInv'
<1>1. /\ UNCHANGED <<emulate, last_tag, air, pc, poll, ndef, faults, alone, depVars>>
      /\ old' \in BOOLEAN
  BY DEF Elapse, vars, app, AnnounceInv, ReaderTypeOK
<1>2. ReaderTypeOK'
  BY <1>1, DepSame DEF AnnounceInv, ReaderTypeOK, air, poll, ndef
<1>3. CardsOk' /\ PlaceOk' /\ AloneOk'
  BY <1>1 DEF AnnounceInv, CardsOk, PlaceOk, AloneOk, air, poll
<1> QED BY <1>2, <1>3 DEF AnnounceInv

LEMMA ButtonStep ==
  ASSUME AnnounceInv, ToReader \/ ToEmulation
  PROVE  AnnounceInv'
<1>1. /\ pc = "idle" /\ old' = FALSE
      /\ UNCHANGED <<last_tag, present, pc, poll, ndef, depVars>>
      /\ card' = Powered(field', present)
      /\ Fine \/ Fault
  BY DEF ToReader, ToEmulation, FieldOff
<1>2. /\ field' \in BOOLEAN /\ deaf' \in BOOLEAN /\ emulate' \in BOOLEAN
      /\ emulate' => ~field'
      /\ alone' # None => alone' = alone /\ (~emulate' => ~deaf' /\ field' /\ ~field)
      /\ faults' \in 0..MaxFaults /\ alone' \in Tag \cup {None}
  <2>1. field \in BOOLEAN /\ deaf \in BOOLEAN /\ (emulate => ~field)
    BY DEF AnnounceInv, ReaderTypeOK, PlaceOk
  <2>2. CASE ToReader
    <3>1. emulate /\ emulate' = FALSE
      BY <2>2 DEF ToReader
    <3>2. CASE Fine /\ ConfigureNfca
      BY <2>1, <3>1, <3>2, Faults DEF ConfigureNfca, FieldOn, Fine
    <3>3. CASE Fault /\ field' = field /\ deaf' \in {deaf, FALSE}
      BY <2>1, <3>1, <3>3, Faults DEF Fault
    <3> QED BY <2>2, <3>2, <3>3 DEF ToReader
  <2>3. CASE ToEmulation
    BY <2>1, <2>3, Faults DEF ToEmulation, FieldOff, Fine
  <2> QED BY <2>2, <2>3
<1>3. /\ card' \in [Tag -> CardStates]
      /\ \A x \in Tag : /\ card'[x] # "off" <=> field' /\ x \in present
                        /\ card'[x] \in {card[x], "idle", "off"}
  BY <1>1, <1>2, PoweredOk DEF AnnounceInv, ReaderTypeOK
<1>4. ReaderTypeOK'
  BY <1>1, <1>2, <1>3, DepSame DEF AnnounceInv, ReaderTypeOK, poll, ndef
<1>5. CardsOk'
  BY <1>1, <1>3 DEF CardsOk
<1>6. PlaceOk'
  BY <1>1, <1>2 DEF PlaceOk
<1>7. AloneOk'
  <2> SUFFICES ASSUME alone' # None PROVE AloneOk'
    BY DEF AloneOk
  <2>1. alone' = alone /\ alone \in Tag /\ present = {alone} /\ last_tag = alone
    BY <1>1, <1>2 DEF AnnounceInv, AloneOk, Announcing
  <2>2. ~emulate' => card'[alone] = "idle"
    BY <1>2, <1>3, <2>1 DEF AnnounceInv, CardsOk
  <2> QED BY <1>1, <1>2, <2>1, <2>2 DEF AloneOk, Announcing
<1> QED BY <1>4, <1>5, <1>6, <1>7 DEF AnnounceInv

-----------------------------------------------------------------------------
(* A poll                                                                   *)

LEMMA PollStartStep ==
  ASSUME AnnounceInv, PollStart
  PROVE  AnnounceInv'
<1>1. /\ pc = "idle" /\ ~emulate /\ pc' \in {"idle", "request"}
      /\ UNCHANGED <<app, deaf, present, poll, ndef, depVars>>
      /\ card' = Powered(field', present)
      /\ field' \in BOOLEAN /\ (field => field')
      /\ alone' # None => alone' = alone
      /\ faults' \in 0..MaxFaults /\ alone' \in Tag \cup {None}
  <2>1. field \in BOOLEAN
    BY DEF AnnounceInv, ReaderTypeOK
  <2>2. (Fine \/ Fault) /\ (field' = TRUE \/ field' = field) /\ pc' \in {pc, "request"}
    BY DEF PollStart, FieldOn
  <2>3. /\ pc = "idle" /\ ~emulate /\ UNCHANGED <<app, deaf, present, poll, ndef, depVars>>
        /\ card' = Powered(field', present)
    BY DEF PollStart
  <2>4. /\ alone' # None => alone' = alone
        /\ faults' \in 0..MaxFaults /\ alone' \in Tag \cup {None}
    BY <2>2, Faults
  <2>5. field' \in BOOLEAN /\ (field => field')
    <3>1. CASE field = TRUE
      BY <2>2, <3>1
    <3>2. CASE field = FALSE
      BY <2>2, <3>2
    <3> QED BY <2>1, <3>1, <3>2
  <2> QED BY <2>2, <2>3, <2>4, <2>5
<1>2. /\ card' \in [Tag -> CardStates]
      /\ \A x \in Tag : /\ card'[x] # "off" <=> field' /\ x \in present
                        /\ card'[x] \in {card[x], "idle", "off"}
                        /\ field' /\ x \in present /\ card[x] # "off" => card'[x] = card[x]
  BY <1>1, PoweredOk DEF AnnounceInv, ReaderTypeOK
<1>3. ReaderTypeOK'
  BY <1>1, <1>2, DepSame DEF AnnounceInv, ReaderTypeOK, app, poll, ndef, Places
<1>4. CardsOk'
  BY <1>1, <1>2 DEF CardsOk
<1>5. PlaceOk'
  BY <1>1 DEF PlaceOk, app
<1>6. AloneOk'
  <2> SUFFICES ASSUME alone' # None PROVE AloneOk'
    BY DEF AloneOk
  <2>1. /\ alone' = alone /\ alone \in Tag /\ present = {alone} /\ last_tag = alone
        /\ ~deaf /\ card[alone] \in {"idle", "halt"}
    BY <1>1 DEF AnnounceInv, AloneOk, Announcing
  <2>2. card'[alone] = card[alone]
    BY <1>1, <1>2, <2>1 DEF AnnounceInv, CardsOk
  <2> QED BY <1>1, <2>1, <2>2 DEF AloneOk, Announcing, app
<1> QED BY <1>3, <1>4, <1>5, <1>6 DEF AnnounceInv

LEMMA RequestStep ==
  ASSUME AnnounceInv, Request
  PROVE  AnnounceInv'
<1>1. /\ pc = "request" /\ pc' = "level" /\ Woken # {} /\ lv' = 1
      /\ UNCHANGED <<app, field, deaf, present, found, tag, ndef, faults, alone, depVars>>
      /\ card' = [t \in Tag |->
                    CASE t \in Woken -> "ready"
                      [] ~deaf /\ card[t] \in {"ready", "active"} -> "idle"
                      [] OTHER -> card[t]]
  BY DEF Request, Fine
<1>2. /\ card' \in [Tag -> CardStates] /\ field /\ ~deaf
      /\ \A x \in Tag : card'[x] # "off" <=> card[x] # "off"
      /\ \A x \in Woken : card'[x] = "ready"
  BY <1>1 DEF AnnounceInv, ReaderTypeOK, CardsOk, CardStates, Woken
<1>3. ReaderTypeOK'
  BY <1>1, <1>2, DepSame DEF AnnounceInv, ReaderTypeOK, app, ndef, Places
<1>4. CardsOk'
  BY <1>1, <1>2 DEF AnnounceInv, CardsOk
<1>5. PlaceOk'
  <2>1. ~emulate
    BY <1>1 DEF AnnounceInv, PlaceOk
  <2>2. \A t \in Tag : lv' <= Len(Uid[t])
    <3>1. ASSUME NEW n \in 1..3 PROVE 1 <= n
      OBVIOUS
    <3> QED BY <1>1, <3>1, TagFacts, Zenon
  <2> QED BY <1>1, <1>2, <2>1, <2>2 DEF PlaceOk, app
<1>6. AloneOk'
  BY <1>1, <1>2, Alone DEF AnnounceInv, AloneOk, Announcing, app
<1> QED BY <1>3, <1>4, <1>5, <1>6 DEF AnnounceInv

LEMMA NoTagStep ==
  ASSUME AnnounceInv, NoTag
  PROVE  AnnounceInv'
<1>1. /\ pc = "request" /\ pc' = "idle" /\ last_tag' \in Tag \cup {None}
      /\ UNCHANGED <<emulate, old, deaf, present, poll, ndef, depVars>>
      /\ field' \in BOOLEAN /\ (field' => field)
      /\ faults' \in 0..MaxFaults
      /\ card' = [t \in Tag |->
                    IF ~field' THEN "off"
                    ELSE IF ~deaf /\ card[t] \in {"ready", "active"} THEN "idle"
                    ELSE card[t]]
  <2>1. field \in BOOLEAN /\ last_tag \in Tag \cup {None}
    BY DEF AnnounceInv, ReaderTypeOK
  <2>2. Fine \/ Fault
    BY DEF NoTag
  <2>3. field' = FALSE \/ field' = field
    BY DEF NoTag, FieldOff
  <2>4. last_tag' \in {None, last_tag}
    BY DEF NoTag, Remembered
  <2>5. /\ pc = "request" /\ pc' = "idle"
        /\ UNCHANGED <<emulate, old, deaf, present, poll, ndef, depVars>>
        /\ card' = [t \in Tag |->
                      IF ~field' THEN "off"
                      ELSE IF ~deaf /\ card[t] \in {"ready", "active"} THEN "idle"
                      ELSE card[t]]
    BY Zenon DEF NoTag
  <2>6. faults' \in 0..MaxFaults
    BY <2>2, Faults
  <2>7. field' \in BOOLEAN /\ (field' => field)
    <3>1. CASE field = TRUE
      BY <2>3, <3>1
    <3>2. CASE field = FALSE
      BY <2>3, <3>2
    <3> QED BY <2>1, <3>1, <3>2
  <2> QED BY <2>1, <2>4, <2>5, <2>6, <2>7, Zenon
<1>2. alone' = None
  BY Alone DEF NoTag, Fine, Fault
<1>3. /\ card' \in [Tag -> CardStates]
      /\ \A x \in Tag : card'[x] # "off" <=> field' /\ card[x] # "off"
  <2>1. card \in [Tag -> CardStates]
    BY DEF AnnounceInv, ReaderTypeOK
  <2> QED BY <1>1, <2>1 DEF CardStates
<1>4. ReaderTypeOK'
  BY <1>1, <1>2, <1>3, DepSame DEF AnnounceInv, ReaderTypeOK, poll, ndef, Places
<1>5. CardsOk'
  BY <1>1, <1>3 DEF AnnounceInv, CardsOk
<1>6. PlaceOk'
  BY <1>1 DEF AnnounceInv, PlaceOk
<1> QED BY <1>2, <1>4, <1>5, <1>6 DEF AnnounceInv, AloneOk

LEMMA LevelStep ==
  ASSUME AnnounceInv, AnticollisionLevel
  PROVE  AnnounceInv'
<1>1. PICK level \in Search :
        /\ level.among = {Uid[t][lv] : t \in Ready}
        /\ found' = level.rbuf
        /\ pc' = IF level.result = "ok" THEN "select" ELSE "idle"
  BY DEF AnticollisionLevel
<1>2. /\ pc = "level" /\ UNCHANGED <<app, air, lv, tag, ndef, faults, alone, depVars>>
  BY DEF AnticollisionLevel, Fine
<1>3. found' \in Response
  BY <1>1, SearchResult
<1>4. ReaderTypeOK'
  BY <1>1, <1>2, <1>3, DepSame DEF AnnounceInv, ReaderTypeOK, app, air, ndef, Places
<1>5. CardsOk'
  BY <1>2 DEF AnnounceInv, CardsOk, air
<1>6. PlaceOk'
  BY <1>1, <1>2 DEF AnnounceInv, PlaceOk, app, air
<1>7. AloneOk'
  <2> SUFFICES ASSUME alone # None PROVE AloneOk'
    BY <1>2 DEF AloneOk
  <2>1. Ready = {alone} /\ alone \in Tag /\ card[alone] = "ready" /\ lv <= Len(Uid[alone])
    BY <1>2, Alone DEF AnnounceInv, AloneOk, PlaceOk
  <2>2. Uid[alone][lv] \in Response
    BY <2>1, TagFacts DEF AnnounceInv, ReaderTypeOK
  <2>3. level.among = {Uid[alone][lv]}
    BY <1>1, <2>1
  <2>4. pc' = "select" /\ found' = Uid[alone][lv]
    BY <1>1, <2>2, <2>3, SearchResult
  <2> QED BY <1>2, <2>1, <2>4 DEF AnnounceInv, AloneOk, Announcing, app, air
<1> QED BY <1>4, <1>5, <1>6, <1>7 DEF AnnounceInv

LEMMA SelectStep ==
  ASSUME AnnounceInv, Select
  PROVE  AnnounceInv'
<1>1. /\ pc = "select"
      /\ UNCHANGED <<app, field, deaf, present, found, ndef, faults, alone, depVars>>
      /\ card' = [t \in Tag |->
                    IF t \in Selected
                    THEN IF lv = Len(Uid[t]) THEN "active" ELSE "ready"
                    ELSE IF t \in Ready THEN "idle" ELSE card[t]]
  BY DEF Select, Fine
<1>2. /\ field /\ ~deaf /\ ~emulate /\ lv \in 1..3
      /\ \A t \in Selected : t \in Tag /\ lv <= Len(Uid[t]) /\ Len(Uid[t]) \in 1..3
                             /\ card[t] = "ready"
  BY <1>1, TagFacts DEF AnnounceInv, ReaderTypeOK, PlaceOk, Selected, Ready
<1>3. /\ card' \in [Tag -> CardStates]
      /\ \A t \in Tag : card'[t] # "off" <=> card[t] # "off"
      /\ \A t \in Tag : card'[t] = "ready" => t \in Selected /\ lv # Len(Uid[t])
      /\ \A t \in Selected : card'[t] = IF lv = Len(Uid[t]) THEN "active" ELSE "ready"
  BY <1>1 DEF AnnounceInv, ReaderTypeOK, CardStates, Selected, Ready
<1>4. CardsOk'
  BY <1>1, <1>3 DEF AnnounceInv, CardsOk
<1>5. CASE Selected = {} /\ pc' = "idle" /\ UNCHANGED <<lv, tag>>
  <2>1. ReaderTypeOK'
    BY <1>1, <1>3, <1>5, DepSame DEF AnnounceInv, ReaderTypeOK, app, ndef, Places
  <2>2. PlaceOk'
    BY <1>1, <1>2, <1>5 DEF PlaceOk, app
  <2>3. alone = None
    BY <1>1, <1>5, Alone DEF AnnounceInv, AloneOk, Selected
  <2> QED BY <1>1, <1>4, <2>1, <2>2, <2>3 DEF AnnounceInv, AloneOk
<1>6. ASSUME NEW t \in Selected,
             IF lv = Len(Uid[t])
             THEN pc' = "found" /\ tag' = t /\ lv' = lv
             ELSE pc' = "level" /\ tag' = tag /\ lv' = lv + 1
      PROVE  AnnounceInv'
  <2>1. lv' \in 1..3 /\ tag' \in Tag \cup {None} /\ pc' \in Places
    <3>1. tag \in Tag \cup {None} /\ lv \in 1..3 /\ lv <= Len(Uid[t])
          /\ Len(Uid[t]) \in 1..3 /\ t \in Tag
      BY <1>2 DEF AnnounceInv, ReaderTypeOK
    <3>2. CASE lv = Len(Uid[t])
      BY <1>6, <3>1, <3>2 DEF Places
    <3>3. CASE lv # Len(Uid[t])
      <4>1. \A m, n \in 1..3 : m <= n /\ m # n => m + 1 \in 1..3
        OBVIOUS
      <4> QED BY <1>6, <3>1, <3>3, <4>1 DEF Places
    <3> QED BY <3>2, <3>3
  <2>2. ReaderTypeOK'
    BY <1>1, <1>3, <2>1, DepSame DEF AnnounceInv, ReaderTypeOK, app, ndef
  <2>3. PlaceOk'
    <3>1. CASE lv = Len(Uid[t])
      <4>1. pc' = "found" /\ tag' \in Tag /\ card'[tag'] = "active" /\ ~emulate'
        BY <1>1, <1>2, <1>3, <1>6, <3>1 DEF app
      <4> QED BY <1>1, <1>2, <4>1 DEF PlaceOk
    <3>2. CASE lv # Len(Uid[t])
      <4>1. pc' = "level" /\ lv' = lv + 1 /\ ~emulate'
        BY <1>1, <1>2, <1>6, <3>2 DEF app
      <4>2. \A x \in Tag : card'[x] = "ready" => lv' <= Len(Uid[x])
        BY <1>2, <1>3, <4>1
      <4> QED BY <1>1, <1>2, <4>1, <4>2 DEF PlaceOk
    <3> QED BY <3>1, <3>2
  <2>4. AloneOk'
    <3> SUFFICES ASSUME alone # None PROVE AloneOk'
      BY <1>1 DEF AloneOk
    <3>1. /\ alone \in Tag /\ present = {alone} /\ last_tag = alone /\ Ready = {alone}
      BY <1>1, Alone DEF AnnounceInv, AloneOk, Announcing
    <3>2. t = alone
      BY <3>1 DEF Selected
    <3>3. card'[alone] = IF lv = Len(Uid[alone]) THEN "active" ELSE "ready"
      BY <1>3, <3>2
    <3> QED BY <1>1, <1>6, <3>1, <3>2, <3>3 DEF AloneOk, Announcing, app
  <2> QED BY <1>4, <2>2, <2>3, <2>4 DEF AnnounceInv
<1> QED BY <1>5, <1>6 DEF Select

LEMMA PollErrorStep ==
  ASSUME AnnounceInv, PollError \/ PollI2cError
  PROVE  AnnounceInv'
<1>1. /\ pc \in {"request", "level", "select"} /\ pc' = "idle" /\ alone' = None
      /\ faults' \in 0..MaxFaults
      /\ UNCHANGED <<app, present, poll, ndef, depVars>>
  <2>1. Fault /\ alone' = None
    BY DEF PollError, PollI2cError, Fault
  <2> QED BY <2>1, Faults DEF PollError, PollI2cError, air
<1>2. /\ field' \in BOOLEAN /\ deaf' \in BOOLEAN /\ card' \in [Tag -> CardStates]
      /\ \A x \in Tag : card'[x] # "off" <=> field' /\ x \in present
  <2>1. CASE PollError
    BY <2>1 DEF PollError, air, AnnounceInv, ReaderTypeOK, CardsOk
  <2>2. CASE PollI2cError
    <3>1. field' \in BOOLEAN /\ deaf' \in BOOLEAN /\ present \in SUBSET Tag
      BY <2>2 DEF PollI2cError, ConfigureNfca, FieldOn, AnnounceInv, ReaderTypeOK
    <3>2. CASE card' = Powered(field', present)
      BY <3>1, <3>2, PoweredOk DEF AnnounceInv, ReaderTypeOK
    <3>3. CASE card' = [t \in Tag |-> IF field' /\ t \in present THEN "idle" ELSE "off"]
      BY <3>1, <3>3 DEF CardStates
    <3> QED BY <2>2, <3>1, <3>2, <3>3 DEF PollI2cError
  <2> QED BY <2>1, <2>2
<1>3. ReaderTypeOK'
  BY <1>1, <1>2, DepSame, TagFacts DEF AnnounceInv, ReaderTypeOK, app, poll, ndef, Places
<1>4. CardsOk'
  BY <1>1, <1>2 DEF CardsOk
<1>5. PlaceOk'
  BY <1>1 DEF AnnounceInv, PlaceOk, app
<1> QED BY <1>1, <1>3, <1>4, <1>5 DEF AnnounceInv, AloneOk

-----------------------------------------------------------------------------
(* A tag is found and read.                                                 *)

LEMMA HaltOk ==
  ASSUME AnnounceInv, pc \in {"found", "t2t"}, Halt
  PROVE  /\ card' \in [Tag -> CardStates]
         /\ \A t \in Tag : card'[t] # "off" <=> card[t] # "off"
         /\ alone' # None /\ tag = alone => card'[alone] \in {"idle", "halt"}
         /\ alone' # None => alone' = alone
         /\ faults' \in 0..MaxFaults /\ alone' \in Tag \cup {None}
<1>1. /\ card \in [Tag -> CardStates] /\ tag \in Tag
      /\ card[tag] \in {"active", "idle", "off"}
  BY DEF AnnounceInv, ReaderTypeOK, PlaceOk
<1>2. /\ faults' \in 0..MaxFaults /\ alone' \in Tag \cup {None}
      /\ alone' # None => alone' = alone /\ Fine
  BY Faults DEF Halt
<1>3. alone' # None /\ tag = alone => card[alone] # "off"
  BY <1>1, <1>2, Alone DEF AnnounceInv, CardsOk, PlaceOk
<1>4. CASE card' = [card EXCEPT ![tag] = IF @ = "active" THEN "halt" ELSE @]
  BY <1>1, <1>2, <1>3, <1>4 DEF CardStates
<1>5. CASE Fault /\ card' = card
  BY <1>1, <1>2, <1>5 DEF Fault
<1> QED BY <1>4, <1>5 DEF Halt

\* A poll that ends with the tag that is alone in the antenna's field.
LEMMA Remembers ==
  ASSUME AnnounceInv, pc \notin {"idle", "request", "level", "select"},
         pc' = "idle", last_tag' = tag \/ (last_tag' = last_tag /\ pc = "found"),
         field' = field, deaf' = deaf, emulate' = emulate, present' = present,
         alone' # None => alone' = alone,
         alone' # None /\ tag = alone => card'[alone] \in {"idle", "halt"}
  PROVE  PlaceOk' /\ AloneOk'
<1>1. field /\ ~deaf /\ ~emulate
  BY DEF AnnounceInv, PlaceOk
<1>2. PlaceOk'
  BY <1>1 DEF PlaceOk
<1>3. ASSUME alone' # None PROVE AloneOk'
  <2>1. /\ alone' = alone /\ alone \in Tag /\ present = {alone}
        /\ tag = alone /\ last_tag' = alone
    BY <1>3, TagFacts DEF AnnounceInv, ReaderTypeOK, Places, AloneOk, Announcing
  <2> QED BY <1>1, <2>1 DEF AloneOk, Announcing
<1> QED BY <1>2, <1>3 DEF AloneOk

LEMMA KnownTagStep ==
  ASSUME AnnounceInv, KnownTag
  PROVE  AnnounceInv'
<1>1. /\ pc = "found" /\ pc' = "idle" /\ old' = FALSE /\ Halt
      /\ UNCHANGED <<emulate, last_tag, field, deaf, present, poll, ndef, depVars>>
  BY DEF KnownTag
<1>2. /\ card' \in [Tag -> CardStates]
      /\ \A t \in Tag : card'[t] # "off" <=> card[t] # "off"
      /\ alone' # None /\ tag = alone => card'[alone] \in {"idle", "halt"}
      /\ alone' # None => alone' = alone
      /\ faults' \in 0..MaxFaults /\ alone' \in Tag \cup {None}
  BY <1>1, HaltOk
<1>3. ReaderTypeOK'
  BY <1>1, <1>2, DepSame DEF AnnounceInv, ReaderTypeOK, poll, ndef, Places
<1>4. CardsOk'
  BY <1>1, <1>2 DEF AnnounceInv, CardsOk
<1>5. PlaceOk' /\ AloneOk'
  BY <1>1, <1>2, Remembers
<1> QED BY <1>3, <1>4, <1>5 DEF AnnounceInv

LEMMA NewTagStep ==
  ASSUME AnnounceInv, NewTag
  PROVE  AnnounceInv'
<1>1. /\ pc = "found" /\ pc' \in {"rats", "t2t"} /\ old' = FALSE
      /\ alone' = IF present = {tag} THEN tag ELSE None
      /\ UNCHANGED <<emulate, last_tag, air, poll, ndef, faults, depVars>>
  BY DEF NewTag
<1>2. tag \in Tag /\ card[tag] \in {"active", "idle", "off"} /\ field /\ ~deaf /\ ~emulate
  BY <1>1 DEF AnnounceInv, PlaceOk
<1>3. ReaderTypeOK'
  BY <1>1, <1>2, DepSame DEF AnnounceInv, ReaderTypeOK, air, poll, ndef, Places
<1>4. CardsOk'
  BY <1>1 DEF AnnounceInv, CardsOk, air
<1>5. PlaceOk'
  BY <1>1, <1>2 DEF PlaceOk, air, poll
<1>6. AloneOk'
  BY <1>1, <1>2 DEF AloneOk, Announcing, air, poll
<1> QED BY <1>3, <1>4, <1>5, <1>6 DEF AnnounceInv

LEMMA FinishType ==
  ASSUME Finish, ReaderTypeOK
  PROVE  /\ step' \in 1..6 /\ nlen' \in Nat /\ msg' \in Seq(Nat) /\ read' \in BOOLEAN
         /\ Len(msg') <= nlen' /\ pc' \in Places /\ last_tag' \in Tag \cup {None}
<1>1. Len(<<>>) = 0 /\ <<>> \in Seq(Nat)
  OBVIOUS
<1>2. tag \in Tag \cup {None}
  BY DEF ReaderTypeOK
<1>3. Len(msg') <= nlen'
  BY <1>1 DEF Finish
<1>4. /\ step' = 1 /\ nlen' = 0 /\ read' = FALSE /\ pc' = "idle"
      /\ msg' = <<>> /\ last_tag' = tag
  BY DEF Finish
<1>5. pc' \in Places
  BY <1>4 DEF Places
<1>6. read' \in BOOLEAN /\ last_tag' \in Tag \cup {None}
  BY <1>2, <1>4, Zenon
<1>7. step' \in 1..6 /\ nlen' \in Nat /\ msg' \in Seq(Nat)
  BY <1>1, <1>4
<1> QED BY <1>3, <1>5, <1>6, <1>7

LEMMA ReadType2Step ==
  ASSUME AnnounceInv, ReadType2
  PROVE  AnnounceInv'
<1>1. /\ pc = "t2t" /\ Halt /\ Finish
      /\ UNCHANGED <<emulate, old, field, deaf, present, poll, depVars>>
  BY DEF ReadType2
<1>2. /\ card' \in [Tag -> CardStates]
      /\ \A t \in Tag : card'[t] # "off" <=> card[t] # "off"
      /\ alone' # None /\ tag = alone => card'[alone] \in {"idle", "halt"}
      /\ alone' # None => alone' = alone
      /\ faults' \in 0..MaxFaults /\ alone' \in Tag \cup {None}
  BY <1>1, HaltOk
<1>3. ReaderTypeOK'
  BY <1>1, <1>2, DepSame, FinishType DEF AnnounceInv, ReaderTypeOK, poll
<1>4. CardsOk'
  BY <1>1, <1>2 DEF AnnounceInv, CardsOk
<1>5. PlaceOk' /\ AloneOk'
  <2>1. /\ pc \notin {"idle", "request", "level", "select"} /\ pc' = "idle" /\ last_tag' = tag
        /\ field' = field /\ deaf' = deaf /\ emulate' = emulate /\ present' = present
    BY <1>1 DEF poll, Finish
  <2> QED BY <1>2, <2>1, Remembers, Zenon
<1> QED BY <1>3, <1>4, <1>5 DEF AnnounceInv

LEMMA RatsStep ==
  ASSUME AnnounceInv, Rats
  PROVE  AnnounceInv'
<1>1. /\ pc = "rats" /\ pc' = "read" /\ card[tag] = "active" /\ Activate
      /\ card' = [card EXCEPT ![tag] = "protocol"]
      /\ UNCHANGED <<app, field, deaf, present, poll, ndef, faults, alone>>
  BY DEF Rats, Fine
<1>2. tag \in Tag /\ field /\ ~deaf /\ ~emulate /\ card \in [Tag -> CardStates]
  BY <1>1 DEF AnnounceInv, ReaderTypeOK, PlaceOk
<1>3. /\ card' \in [Tag -> CardStates] /\ card'[tag] = "protocol"
      /\ \A t \in Tag : card'[t] # "off" <=> card[t] # "off"
  BY <1>1, <1>2 DEF CardStates
<1>4. ReaderTypeOK'
  BY <1>1, <1>3, DepActivate DEF AnnounceInv, ReaderTypeOK, app, poll, ndef, Places
<1>5. CardsOk'
  BY <1>1, <1>3 DEF AnnounceInv, CardsOk
<1>6. PlaceOk' /\ AloneOk'
  BY <1>1, <1>2, <1>3 DEF AnnounceInv, PlaceOk, AloneOk, Announcing, app, poll
<1> QED BY <1>4, <1>5, <1>6 DEF AnnounceInv

LEMMA RatsFailsStep ==
  ASSUME AnnounceInv, RatsFails
  PROVE  AnnounceInv'
<1>1. /\ pc = "rats" /\ Finish
      /\ UNCHANGED <<emulate, old, field, deaf, present, poll, depVars>>
      /\ Fine \/ Fault
  BY DEF RatsFails
<1>2. tag \in Tag /\ card[tag] \in {"active", "idle", "off"} /\ card \in [Tag -> CardStates]
  BY <1>1 DEF AnnounceInv, ReaderTypeOK, PlaceOk
<1>3. /\ faults' \in 0..MaxFaults /\ alone' \in Tag \cup {None}
      /\ alone' # None => alone' = alone /\ Fine
  BY <1>1, Faults
<1>4. /\ card' \in [Tag -> CardStates]
      /\ \A t \in Tag : card'[t] # "off" <=> card[t] # "off"
      /\ alone' # None => card[tag] # "active" /\ card' = card
  <2>1. CASE card[tag] # "active" /\ Fine /\ card' = card
    BY <1>2, <2>1
  <2>2. CASE /\ Fault
             /\ \E s \in {"active", "halt", "protocol"} :
                  card' = [card EXCEPT ![tag] = IF @ = "active" THEN s ELSE @]
    <3>1. alone' = None
      BY <2>2 DEF Fault
    <3> QED BY <1>2, <2>2, <3>1 DEF CardStates
  <2> QED BY <2>1, <2>2 DEF RatsFails
<1>5. ReaderTypeOK'
  BY <1>1, <1>3, <1>4, DepSame, FinishType DEF AnnounceInv, ReaderTypeOK, poll
<1>6. CardsOk'
  BY <1>1, <1>4 DEF AnnounceInv, CardsOk
<1>7. alone' # None /\ tag = alone => card'[alone] \in {"idle", "halt"}
  <2> SUFFICES ASSUME alone' # None, tag = alone PROVE card[alone] = "idle"
    BY <1>4
  <2>1. card[alone] # "off"
    BY <1>1, <1>3, Alone DEF AnnounceInv, CardsOk, PlaceOk
  <2> QED BY <1>2, <1>4, <2>1
<1>8. PlaceOk' /\ AloneOk'
  <2>1. /\ pc \notin {"idle", "request", "level", "select"} /\ pc' = "idle" /\ last_tag' = tag
        /\ field' = field /\ deaf' = deaf /\ emulate' = emulate /\ present' = present
    BY <1>1 DEF poll, Finish
  <2> QED BY <1>3, <1>7, <2>1, Remembers, Zenon
<1> QED BY <1>5, <1>6, <1>8 DEF AnnounceInv

LEMMA DeselectStep ==
  ASSUME AnnounceInv, Deselect
  PROVE  AnnounceInv'
<1>1. /\ pc = "deselect" /\ Finish /\ Activate
      /\ UNCHANGED <<emulate, old, field, deaf, present, poll>>
      /\ Fine \/ Fault
  BY DEF Deselect
<1>2. tag \in Tag /\ card[tag] \in {"protocol", "idle", "off"} /\ card \in [Tag -> CardStates]
  BY <1>1 DEF AnnounceInv, ReaderTypeOK, PlaceOk
<1>3. /\ faults' \in 0..MaxFaults /\ alone' \in Tag \cup {None}
      /\ alone' # None => alone' = alone /\ Fine
  BY <1>1, Faults
<1>4. /\ card' \in [Tag -> CardStates]
      /\ \A t \in Tag : card'[t] # "off" <=> card[t] # "off"
      /\ alone' # None => card'[tag] # "protocol"
  <2>1. CASE card' = [card EXCEPT ![tag] = IF @ = "protocol" THEN "halt" ELSE @]
    BY <1>2, <2>1 DEF CardStates
  <2>2. CASE Fault /\ card' = card
    BY <1>2, <2>2 DEF Fault
  <2> QED BY <2>1, <2>2 DEF Deselect
<1>5. ReaderTypeOK'
  BY <1>1, <1>3, <1>4, DepActivate, FinishType DEF AnnounceInv, ReaderTypeOK, poll
<1>6. CardsOk'
  BY <1>1, <1>4 DEF AnnounceInv, CardsOk
<1>7. alone' # None /\ tag = alone => card'[alone] \in {"idle", "halt"}
  <2> SUFFICES ASSUME alone' # None, tag = alone PROVE card'[alone] \in {"idle", "halt"}
    OBVIOUS
  <2>1. card[alone] # "off"
    BY <1>1, <1>3, Alone DEF AnnounceInv, CardsOk, PlaceOk
  <2>2. CASE card' = [card EXCEPT ![tag] = IF @ = "protocol" THEN "halt" ELSE @]
    BY <1>2, <2>1, <2>2
  <2>3. CASE Fault /\ card' = card
    BY <2>3 DEF Fault
  <2> QED BY <2>2, <2>3 DEF Deselect
<1>8. PlaceOk' /\ AloneOk'
  <2>1. /\ pc \notin {"idle", "request", "level", "select"} /\ pc' = "idle" /\ last_tag' = tag
        /\ field' = field /\ deaf' = deaf /\ emulate' = emulate /\ present' = present
    BY <1>1 DEF poll, Finish
  <2> QED BY <1>3, <1>7, <2>1, Remembers, Zenon
<1> QED BY <1>5, <1>6, <1>8 DEF AnnounceInv

\* What was read fits what NLEN says, after each step of read_type4() between
\* RATS and DESELECT.
LEMMA ReadingTypes ==
  ASSUME ReaderTypeOK, ReaderInv, ReaderInv', ReadStep
  PROVE  /\ step' \in 1..6 /\ nlen' \in Nat /\ msg' \in Seq(Nat) /\ read' \in BOOLEAN
         /\ Len(msg') <= nlen'
<1>1. /\ pc = "exchange" /\ ended = "ok" /\ tag' = tag
      /\ pc' \in {"read", "deselect"}
  BY DEF ReadStep, Chunks, poll
<1>2. Reading /\ rsp = Answer /\ step \in 1..6 /\ tag \in Type4 /\ nlen \in Nat
      /\ File[tag] \in Seq(Nat) /\ Len(File[tag]) \in Nat
  BY <1>1, Constants DEF ReaderInv, DepInv, Reading, ReaderTypeOK
<1>3. CASE pc' = "read"
  <2>1. Reading'
    BY <1>3 DEF ReaderInv
  <2>2. nlen' \in Nat
    BY <1>2 DEF ReadStep, Answer, Steps
  <2>3. Len(<<>>) = 0
    OBVIOUS
  <2>4. Len(msg') <= nlen'
    <3>1. CASE step' = 6
      <4>1. Len(msg') < nlen' /\ Len(msg') \in Nat
        BY <2>1, <3>1, LenProperties DEF Reading
      <4> QED BY <2>2, <4>1
    <3>2. CASE step' # 6
      BY <2>1, <2>2, <2>3, <3>2 DEF Reading
    <3> QED BY <3>1, <3>2
  <2>5. read' \in BOOLEAN
    BY DEF ReadStep, Chunks, ReaderTypeOK
  <2> QED BY <2>1, <2>2, <2>4, <2>5 DEF Reading
<1>4. CASE pc' = "deselect"
  <2>1. read' = TRUE /\ step' = step /\ step \in {5, 6}
    BY <1>2, <1>4 DEF ReadStep, Chunks, Steps
  <2>2. msg' = File[tag]
    BY <1>1, <2>1 DEF ReaderInv
  <2>3. nlen' = Len(File[tag])
    <3>1. CASE step = 5
      BY <1>2, <3>1 DEF ReadStep, Answer, Steps
    <3>2. CASE step = 6
      BY <1>2, <3>2 DEF ReadStep, Steps, Reading
    <3> QED BY <2>1, <3>1, <3>2
  <2>4. Len(msg') <= nlen'
    BY <1>2, <2>2, <2>3
  <2> QED BY <1>2, <2>1, <2>2, <2>3, <2>4
<1> QED BY <1>1, <1>3, <1>4

LEMMA ReadingStep ==
  ASSUME AnnounceInv, ReaderInv, ReaderInv',
         SendApdu \/ Exchanging \/ ReadFails \/ ReadStep
  PROVE  AnnounceInv'
<1>1. /\ pc \in {"read", "exchange"} /\ pc' \in {"read", "exchange", "deselect"}
      /\ UNCHANGED <<app, air, poll>>
      /\ Fine \/ Fault
  BY DEF SendApdu, Exchanging, ReadFails, ReadStep, Chunks
<1>2. /\ faults' \in 0..MaxFaults /\ alone' \in Tag \cup {None}
      /\ alone' # None => alone' = alone
  BY <1>1, Faults
<1>3. DepTypeOK'
  <2>1. DepTypeOK
    BY DEF AnnounceInv, ReaderTypeOK
  <2>2. CASE SendApdu
    <3>1. Exchange(Answer) /\ Answer \in Seq(Nat)
      BY <2>2, AnswerSeq DEF SendApdu, ReaderInv
    <3> QED BY <2>1, <3>1, DepExchange
  <2>3. CASE Exchanging
    <3>1. Transceive \/ Fails
      BY <2>3 DEF Exchanging, Transceive
    <3> QED BY <2>1, <3>1, DepTransceive
  <2>4. CASE ReadFails \/ ReadStep
    BY <2>1, <2>4, DepSame DEF ReadFails, ReadStep
  <2> QED BY <2>2, <2>3, <2>4
<1>4. /\ step' \in 1..6 /\ nlen' \in Nat /\ msg' \in Seq(Nat) /\ read' \in BOOLEAN
      /\ Len(msg') <= nlen'
  <2>1. CASE ReadStep
    BY <2>1, ReadingTypes DEF AnnounceInv
  <2>2. CASE UNCHANGED ndef
    BY <2>2 DEF AnnounceInv, ReaderTypeOK, ndef
  <2> QED BY <2>1, <2>2 DEF SendApdu, Exchanging, ReadFails
<1>5. /\ emulate' = emulate /\ last_tag' = last_tag /\ old' = old
      /\ field' = field /\ deaf' = deaf /\ present' = present /\ card' = card
      /\ lv' = lv /\ found' = found /\ tag' = tag
  BY <1>1 DEF app, air, poll
<1>6. pc' \in Places
  BY <1>1 DEF Places
<1>7. ReaderTypeOK'
  BY <1>2, <1>3, <1>4, <1>5, <1>6 DEF AnnounceInv, ReaderTypeOK
<1>8. CardsOk'
  BY <1>5 DEF AnnounceInv, CardsOk
<1>9. PlaceOk'
  BY <1>1, <1>5 DEF AnnounceInv, PlaceOk
<1>10. AloneOk'
  BY <1>1, <1>2, <1>5 DEF AnnounceInv, AloneOk, Announcing
<1> QED BY <1>7, <1>8, <1>9, <1>10 DEF AnnounceInv

-----------------------------------------------------------------------------
LEMMA AnnounceInit == Init => AnnounceInv
<1> SUFFICES ASSUME Init PROVE AnnounceInv
  OBVIOUS
<1>1. Empty \in Response
  BY DEF Empty, Response, Byte
<1>2. DepTypeOK
  BY TagFacts DEF Init, Activated, DepTypeOK, Block
<1>3. msg \in Seq(Nat) /\ Len(msg) <= nlen /\ nlen \in Nat
  BY DEF Init
<1>4. /\ faults \in 0..MaxFaults /\ step \in 1..6 /\ lv \in 1..3
      /\ card \in [Tag -> CardStates] /\ pc \in Places
  BY TagFacts DEF Init, CardStates, Places
<1>6. ReaderTypeOK
  BY <1>1, <1>2, <1>3, <1>4 DEF Init, ReaderTypeOK
<1>5. CardsOk /\ PlaceOk /\ AloneOk
  BY DEF Init, CardsOk, PlaceOk, AloneOk
<1> QED BY <1>5, <1>6 DEF AnnounceInv

LEMMA AnnounceNext == AnnounceInv /\ ReaderInv /\ ReaderInv' /\ [Next]_vars => AnnounceInv'
BY MoveStep, ElapseStep, ButtonStep, PollStartStep, RequestStep, NoTagStep, LevelStep,
   SelectStep, PollErrorStep, KnownTagStep, NewTagStep, ReadType2Step, RatsStep,
   RatsFailsStep, DeselectStep, ReadingStep DEF Next, Device

\* The reader's variables hold what their types in app/mod.rs, st25r3916.rs
\* and isodep.rs allow, and no more was read of a message than NLEN says.
THEOREM ReaderTypes == Spec => []ReaderTypeOK
<1>1. AnnounceInv => ReaderTypeOK
  BY DEF AnnounceInv
<1> QED BY <1>1, ReaderInvInit, ReaderInvInductive, AnnounceInit, AnnounceNext, PTL DEF Spec

\* Only on_new_tag() announces a tag, and it does not when the tag is the last
\* one.
LEMMA NotAgain ==
  ASSUME AnnounceInv, [Next]_vars, pc = "found", pc' \in {"rats", "t2t"}
  PROVE  tag # alone
<1>1. NewTag
  BY DEF Next, Device, vars, Arrive, Leave, Elapse, ToReader, ToEmulation, PollStart,
         Request, NoTag, AnticollisionLevel, Select, PollError, PollI2cError, KnownTag,
         ReadType2, Rats, RatsFails, SendApdu, Exchanging, ReadFails, ReadStep, Deselect
<1>2. tag \in Tag /\ ~Same
  BY <1>1, TagFacts DEF NewTag, AnnounceInv, PlaceOk
<1>3. last_tag # tag
  BY <1>2 DEF Same
<1> QED BY <1>2, <1>3, TagFacts DEF AnnounceInv, AloneOk, Announcing

\* A tag that was announced and stays in the field alone is not announced
\* again while nothing fails, whatever the time and the UID it shows, and
\* whether or not the buttons lead to emulation mode and back (mod.rs:720-733).
THEOREM NotAnnouncedAgain == Spec => AnnouncedOnce
<1>1. AnnounceInv /\ [Next]_vars => [pc = "found" /\ pc' \in {"rats", "t2t"} => tag # alone]_vars
  BY NotAgain
<1> QED BY <1>1, ReaderInvInit, ReaderInvInductive, AnnounceInit, AnnounceNext, PTL
        DEF Spec, AnnouncedOnce
=============================================================================
