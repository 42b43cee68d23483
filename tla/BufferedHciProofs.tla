------------------------- MODULE BufferedHciProofs -------------------------
(* Theorems about BufferedHci: its state stays well typed, what lies ready   *)
(* for bleps is whole, and bleps gets every fragment and every event in      *)
(* order, for every capacity and every sequence of PDUs and events.          *)
EXTENDS BufferedHci, TLAPS

Sound == ~cut /\ ~failed

(* Numbers of the last fragment and of the last event fill() has taken.      *)
PulledAcl == sent - Len(acl)
PulledEvt == raised - Len(evt)

(* The controller's queues are in order: fragments and events are numbered   *)
(* without a gap, and the fragments of a PDU follow one another.             *)
QueuesInOrder ==
  /\ Len(acl) =< sent /\ Len(evt) =< raised
  /\ \A i \in 1..Len(acl) : acl[i].n = PulledAcl + i
  /\ \A i \in 1..Len(evt) : evt[i] = PulledEvt + i
  /\ \A i \in 1..Len(acl) : i > 1 =>
       IF acl[i - 1].k < acl[i - 1].want
         THEN acl[i].k = acl[i - 1].k + 1 /\ acl[i].want = acl[i - 1].want
         ELSE acl[i].k = 1
  /\ acl # <<>> => /\ acl[Len(acl)].k = pdu.k
                   /\ acl[Len(acl)].want = pdu.want
  /\ pdu.k =< pdu.want
  /\ \A i \in 1..Len(acl) : 1 =< acl[i].k /\ acl[i].k =< acl[i].want

(* While fill() gathers, buf[1] is the part of a PDU that has come, and what *)
(* comes next is its continuation.                                           *)
GatherInOrder ==
  /\ ~gathering => stray = <<>>
  /\ gathering =>
       /\ Len(buf) = 1 /\ start = 0
       /\ ~buf[1].event /\ buf[1].first
       /\ 1 =< Gathered /\ 1 + Gathered =< BufSize
  /\ gathering /\ Sound =>
       /\ Gathered =< buf[1].want /\ Gathered = buf[1].hi + 1 - buf[1].lo
       /\ acl # <<>> => IF Gathered < buf[1].want
                          THEN acl[1].k = Gathered + 1 /\ acl[1].want = buf[1].want
                          ELSE acl[1].k = 1
       /\ acl = <<>> => pdu.k = Gathered /\ pdu.want = buf[1].want

(* What bleps has read joins what lies in `buf` and what has been set aside. *)
HandedInOrder ==
  Sound =>
    /\ \A i \in 1..Len(stray) : /\ stray[i].event /\ stray[i].len = 1 /\ stray[i].size = 1
                                /\ ~stray[i].first
                                /\ stray[i].lo = stray[i].hi
                                /\ stray[i].hi = PulledEvt - Len(stray) + i
    /\ \A i \in 1..Len(buf) :
         /\ i > 1 => buf[i].event
         /\ buf[i].event => buf[i].lo = buf[i].hi /\ buf[i].hi = PulledEvt - Len(buf) + i
    /\ IF buf # <<>> /\ ~buf[1].event /\ start = 0
         THEN /\ buf[1].lo = upAcl + 1 /\ buf[1].hi = PulledAcl
              /\ upEvt = PulledEvt - Len(stray) - (Len(buf) - 1)
         ELSE upAcl = PulledAcl /\ upEvt = PulledEvt - (Len(buf) - start)

IInv == /\ HciTypeOK /\ QueuesInOrder /\ GatherInOrder
        /\ HandedInOrder /\ ReadyIsWhole

LEMMA AclPacketType == \A f \in Fragment : AclPacket(f) \in Packet
BY DEF AclPacket, Packet, Fragment

LEMMA PacketFields ==
  \A p \in Packet : /\ p.event \in BOOLEAN /\ p.first \in BOOLEAN /\ p.lo \in Nat
                    /\ p.hi \in Nat /\ p.len \in Nat /\ p.size \in Nat /\ p.want \in Nat
BY DEF Packet

LEMMA EventPacketType == \A n \in Nat : EventPacket(n) \in Packet
BY DEF EventPacket, Packet

(* The head and the tail of a queue, and a queue with one more element.      *)
LEMMA Dequeue ==
  ASSUME NEW S, NEW s \in Seq(S), s # <<>>
  PROVE  /\ Head(s) \in S /\ Head(s) = s[1]
         /\ Tail(s) \in Seq(S) /\ Len(Tail(s)) = Len(s) - 1 /\ Len(s) > 0
         /\ \A i \in 1..Len(Tail(s)) : Tail(s)[i] = s[i + 1]
OBVIOUS

LEMMA Enqueue ==
  ASSUME NEW S, NEW s \in Seq(S), NEW e \in S
  PROVE  /\ Append(s, e) \in Seq(S) /\ Len(Append(s, e)) = Len(s) + 1
         /\ \A i \in 1..Len(s) : Append(s, e)[i] = s[i]
         /\ Append(s, e)[Len(s) + 1] = e
         /\ Append(s, e) # <<>>
OBVIOUS

LEMMA NonEmpty == \A s : Len(s) = 1 => s # <<>>
<1>1. Len(<<>>) = 0
  OBVIOUS
<1> QED BY <1>1

LEMMA Singleton ==
  ASSUME NEW S, NEW e \in S
  PROVE  <<e>> \in Seq(S) /\ Len(<<e>>) = 1 /\ <<e>>[1] = e
OBVIOUS

LEMMA InitIInv == Init => IInv
<1> SUFFICES ASSUME Init PROVE IInv
  OBVIOUS
<1> USE DEF Init
<1>1. HciTypeOK
  <2>1. <<>> \in Seq(Fragment) /\ <<>> \in Seq(Nat) /\ <<>> \in Seq(Packet)
    OBVIOUS
  <2>2. pdu \in [k : Nat, want : Nat] /\ start =< Len(buf)
    OBVIOUS
  <2> QED BY <2>1, <2>2 DEF HciTypeOK
<1>2. QueuesInOrder
  BY DEF QueuesInOrder, PulledAcl, PulledEvt
<1>3. GatherInOrder
  BY DEF GatherInOrder
<1>4. HandedInOrder
  <2>1. Len(acl) = 0 /\ Len(evt) = 0 /\ Len(buf) = 0 /\ Len(stray) = 0
    OBVIOUS
  <2>2. sent = 0 /\ raised = 0
    OBVIOUS
  <2>3. upEvt = 0 - (0 - 0) /\ upAcl = 0 /\ start = 0 /\ buf = <<>>
    OBVIOUS
  <2>4. \A i \in 1..0 : FALSE
    OBVIOUS
  <2> HIDE DEF Init
  <2>5. PulledAcl = 0 /\ PulledEvt = 0
    BY <2>1, <2>2 DEF PulledAcl, PulledEvt
  <2> QED BY <2>1, <2>3, <2>4, <2>5 DEF HandedInOrder
<1>5. ReadyIsWhole
  BY DEF ReadyIsWhole
<1> QED BY <1>1, <1>2, <1>3, <1>4, <1>5 DEF IInv

-----------------------------------------------------------------------------
(* What fill() and read() hold is untouched by the controller, but what has  *)
(* been taken is counted from the queues.                                    *)
hostVars == <<gathering, buf, start, stray, upAcl, upEvt, late, cut, failed>>

LEMMA ControllerStep ==
  ASSUME IInv, UNCHANGED hostVars,
         HciTypeOK', QueuesInOrder',
         PulledAcl' = PulledAcl, PulledEvt' = PulledEvt,
         gathering /\ Sound => (acl' # <<>> => IF Gathered < buf[1].want
                         THEN acl'[1].k = Gathered + 1 /\ acl'[1].want = buf[1].want
                         ELSE acl'[1].k = 1),
         gathering /\ Sound => (acl' = <<>> => pdu'.k = Gathered
                                               /\ pdu'.want = buf[1].want)
  PROVE  IInv'
<1> USE DEF hostVars
<1>1. GatherInOrder'
  BY DEF IInv, GatherInOrder, Sound, Gathered
<1>2. HandedInOrder'
  BY DEF IInv, HandedInOrder, Sound
<1>3. ReadyIsWhole'
  BY DEF IInv, ReadyIsWhole, InStep
<1> QED BY <1>1, <1>2, <1>3 DEF IInv

LEMMA SendStep ==
  ASSUME IInv, NEW k \in Nat, NEW w \in Nat,
         acl' = Append(acl, [n |-> sent + 1, k |-> k, want |-> w]),
         sent' = sent + 1, pdu' = [k |-> k, want |-> w],
         1 =< k, k =< w,
         IF pdu.k < pdu.want THEN k = pdu.k + 1 /\ w = pdu.want ELSE k = 1,
         link' = link, UNCHANGED <<evt, raised, hostVars>>
  PROVE  IInv'
<1> DEFINE f == [n |-> sent + 1, k |-> k, want |-> w]
<1>t. /\ acl \in Seq(Fragment) /\ sent \in Nat /\ raised \in Nat
      /\ Len(acl) \in Nat /\ Len(evt) \in Nat /\ evt \in Seq(Nat)
  BY DEF IInv, HciTypeOK
<1>1. f \in Fragment
  BY <1>t DEF Fragment
<1>2. /\ acl' \in Seq(Fragment) /\ Len(acl') = Len(acl) + 1
      /\ \A i \in 1..Len(acl) : acl'[i] = acl[i]
      /\ acl'[Len(acl) + 1] = f /\ acl' # <<>>
  <2> HIDE DEF f
  <2>1. acl' = Append(acl, f)
    BY DEF f
  <2> QED BY <1>t, <1>1, <2>1, Enqueue
<1>3. f.n = sent + 1 /\ f.k = k /\ f.want = w
  OBVIOUS
<1> HIDE DEF f
<1>4. HciTypeOK'
  <2>1. pdu' \in [k : Nat, want : Nat]
    OBVIOUS
  <2> QED BY <1>t, <1>2, <2>1 DEF IInv, HciTypeOK, hostVars
<1>5. PulledAcl' = PulledAcl /\ PulledEvt' = PulledEvt
  BY <1>t, <1>2 DEF PulledAcl, PulledEvt
<1>6. QueuesInOrder'
  <2>1. ASSUME NEW i \in 1..Len(acl') PROVE acl'[i].n = PulledAcl' + i
    <3>1. CASE i \in 1..Len(acl)
      BY <1>2, <1>5, <3>1 DEF IInv, QueuesInOrder
    <3>2. CASE i = Len(acl) + 1
      BY <1>t, <1>2, <1>3, <1>5, <3>2 DEF PulledAcl
    <3> QED BY <1>t, <1>2, <3>1, <3>2
  <2>2. \A i \in 1..Len(evt') : evt'[i] = PulledEvt' + i
    BY <1>5 DEF IInv, QueuesInOrder
  <2>3. ASSUME NEW i \in 1..Len(acl'), i > 1
        PROVE  IF acl'[i - 1].k < acl'[i - 1].want
                 THEN acl'[i].k = acl'[i - 1].k + 1 /\ acl'[i].want = acl'[i - 1].want
                 ELSE acl'[i].k = 1
    <3>1. CASE i \in 1..Len(acl)
      <4>1. acl'[i] = acl[i] /\ i - 1 \in 1..Len(acl) /\ acl'[i - 1] = acl[i - 1]
        BY <1>t, <1>2, <2>3, <3>1
      <4> QED BY <2>3, <3>1, <4>1 DEF IInv, QueuesInOrder
    <3>2. CASE i = Len(acl) + 1
      <4>1. /\ acl'[i] = f /\ i - 1 = Len(acl) /\ acl'[i - 1] = acl[Len(acl)]
            /\ acl # <<>>
        BY <1>t, <1>2, <2>3, <3>2
      <4>2. acl[Len(acl)].k = pdu.k /\ acl[Len(acl)].want = pdu.want
        BY <4>1 DEF IInv, QueuesInOrder
      <4> QED BY <1>3, <4>1, <4>2
    <3> QED BY <1>t, <1>2, <2>3, <3>1, <3>2
  <2>4. acl'[Len(acl')].k = pdu'.k /\ acl'[Len(acl')].want = pdu'.want /\ pdu'.k =< pdu'.want
    BY <1>t, <1>2, <1>3
  <2>5. \A i \in 1..Len(acl') : 1 =< acl'[i].k /\ acl'[i].k =< acl'[i].want
    BY <1>t, <1>2, <1>3 DEF IInv, QueuesInOrder
  <2>6. Len(acl') =< sent' /\ Len(evt') =< raised'
    BY <1>t, <1>2 DEF IInv, QueuesInOrder
  <2> QED BY <2>1, <2>2, <2>3, <2>4, <2>5, <2>6 DEF QueuesInOrder
<1>7. gathering /\ Sound =>
        IF Gathered < buf[1].want
          THEN acl'[1].k = Gathered + 1 /\ acl'[1].want = buf[1].want
          ELSE acl'[1].k = 1
  <2> SUFFICES ASSUME gathering, Sound
               PROVE  IF Gathered < buf[1].want
                        THEN acl'[1].k = Gathered + 1 /\ acl'[1].want = buf[1].want
                        ELSE acl'[1].k = 1
    OBVIOUS
  <2>1. CASE acl # <<>>
    <3>1. acl'[1] = acl[1]
      BY <1>t, <1>2, <2>1
    <3> QED BY <2>1, <3>1 DEF IInv, GatherInOrder
  <2>2. CASE acl = <<>>
    <3>1. acl'[1] = f
      BY <1>t, <1>2, <2>2
    <3>2. pdu.k = Gathered /\ pdu.want = buf[1].want
      BY <2>2 DEF IInv, GatherInOrder
    <3> QED BY <1>3, <3>1, <3>2
  <2> QED BY <2>1, <2>2
<1> QED BY <1>2, <1>4, <1>5, <1>6, <1>7, ControllerStep

LEMMA SendFirstIInv == IInv /\ (\E w \in Wants : SendFirst(w)) => IInv'
<1> SUFFICES ASSUME IInv, NEW w \in Wants, SendFirst(w) PROVE IInv'
  OBVIOUS
<1>1. w \in Nat /\ 1 =< w
  BY HciAssumption
<1>2. ~(pdu.k < pdu.want)
  BY DEF SendFirst, IInv, HciTypeOK
<1> QED BY <1>1, <1>2, SendStep DEF SendFirst, hostVars

LEMMA SendContinuationIInv == IInv /\ SendContinuation => IInv'
<1> SUFFICES ASSUME IInv, SendContinuation PROVE IInv'
  OBVIOUS
<1>1. /\ pdu.k + 1 \in Nat /\ pdu.want \in Nat /\ pdu.k < pdu.want
      /\ 1 =< pdu.k + 1 /\ pdu.k + 1 =< pdu.want
  BY DEF SendContinuation, IInv, HciTypeOK
<1>2. pdu' = [k |-> pdu.k + 1, want |-> pdu.want]
  BY DEF SendContinuation, IInv, HciTypeOK
<1> QED BY <1>1, <1>2, SendStep DEF SendContinuation, hostVars

LEMMA RaiseEventIInv == IInv /\ RaiseEvent => IInv'
<1> SUFFICES ASSUME IInv, RaiseEvent PROVE IInv'
  OBVIOUS
<1>t. /\ evt \in Seq(Nat) /\ raised \in Nat /\ raised + 1 \in Nat /\ Len(evt) \in Nat
      /\ Len(acl) \in Nat /\ sent \in Nat
  BY DEF IInv, HciTypeOK
<1>1. /\ evt' \in Seq(Nat) /\ Len(evt') = Len(evt) + 1
      /\ \A i \in 1..Len(evt) : evt'[i] = evt[i]
      /\ evt'[Len(evt) + 1] = raised + 1
  BY <1>t, Enqueue DEF RaiseEvent
<1>2. UNCHANGED <<acl, sent, pdu>> /\ raised' = raised + 1 /\ UNCHANGED hostVars
  BY DEF RaiseEvent, hostVars
<1>3. HciTypeOK'
  <2>1. link' \in {"up", "down"}
    BY DEF RaiseEvent, IInv, HciTypeOK
  <2> QED BY <1>t, <1>1, <1>2, <2>1 DEF IInv, HciTypeOK, hostVars
<1>4. PulledAcl' = PulledAcl /\ PulledEvt' = PulledEvt
  BY <1>t, <1>1, <1>2 DEF PulledAcl, PulledEvt
<1>5. QueuesInOrder'
  <2>1. ASSUME NEW i \in 1..Len(evt') PROVE evt'[i] = PulledEvt' + i
    <3>1. CASE i \in 1..Len(evt)
      BY <1>1, <1>4, <3>1 DEF IInv, QueuesInOrder
    <3>2. CASE i = Len(evt) + 1
      BY <1>t, <1>1, <1>4, <3>2 DEF PulledEvt
    <3> QED BY <1>t, <1>1, <3>1, <3>2
  <2>2. Len(evt') =< raised'
    BY <1>t, <1>1, <1>2 DEF IInv, QueuesInOrder
  <2> QED BY <1>2, <1>4, <2>1, <2>2 DEF IInv, QueuesInOrder
<1> QED BY <1>2, <1>3, <1>4, <1>5, ControllerStep DEF IInv, GatherInOrder

LEMMA RelinkIInv == IInv /\ Relink => IInv'
<1> SUFFICES ASSUME IInv, Relink PROVE IInv'
  OBVIOUS
<1>1. /\ acl' = <<>> /\ UNCHANGED <<acl, evt, sent, raised, hostVars>>
      /\ pdu' = [k |-> 1, want |-> 1] /\ link' = "up" /\ ~gathering
  BY DEF Relink, hostVars
<1>2. HciTypeOK'
  <2>1. pdu' \in [k : Nat, want : Nat]
    BY <1>1
  <2> QED BY <1>1, <2>1 DEF IInv, HciTypeOK, hostVars
<1>3. PulledAcl' = PulledAcl /\ PulledEvt' = PulledEvt
  BY <1>1 DEF PulledAcl, PulledEvt
<1>4. QueuesInOrder'
  BY <1>1, <1>3 DEF IInv, QueuesInOrder
<1> QED BY <1>1, <1>2, <1>3, <1>4, ControllerStep

-----------------------------------------------------------------------------
(* fill() and read().                                                        *)
LEMMA Types ==
  ASSUME HciTypeOK
  PROVE  /\ acl \in Seq(Fragment) /\ evt \in Seq(Nat) /\ buf \in Seq(Packet)
         /\ stray \in Seq(Packet) /\ sent \in Nat /\ raised \in Nat
         /\ Len(acl) \in Nat /\ Len(evt) \in Nat /\ Len(buf) \in Nat
         /\ Len(stray) \in Nat /\ start \in Nat /\ upAcl \in Nat /\ upEvt \in Nat
         /\ PulledAcl \in Int /\ PulledEvt \in Int
<1>1. /\ acl \in Seq(Fragment) /\ evt \in Seq(Nat) /\ buf \in Seq(Packet)
      /\ stray \in Seq(Packet) /\ sent \in Nat /\ raised \in Nat
      /\ start \in Nat /\ upAcl \in Nat /\ upEvt \in Nat
  BY DEF HciTypeOK
<1>2. Len(acl) \in Nat /\ Len(evt) \in Nat /\ Len(buf) \in Nat /\ Len(stray) \in Nat
  BY <1>1
<1> QED BY <1>1, <1>2 DEF PulledAcl, PulledEvt

(* A fragment, or an event, has been taken out of its queue.                 *)
LEMMA TakeFragment ==
  ASSUME HciTypeOK, QueuesInOrder, acl # <<>>, acl' = Tail(acl),
         UNCHANGED <<evt, sent, raised, pdu>>
  PROVE  /\ QueuesInOrder'
         /\ acl' \in Seq(Fragment)
         /\ Head(acl) = acl[1] /\ Head(acl) \in Fragment
         /\ PulledAcl' = PulledAcl + 1 /\ PulledEvt' = PulledEvt
         /\ Head(acl).n = PulledAcl + 1
         /\ Head(acl).k >= 1 /\ Head(acl).k =< Head(acl).want
         /\ acl' # <<>> => IF Head(acl).k < Head(acl).want
                             THEN /\ acl'[1].k = Head(acl).k + 1
                                  /\ acl'[1].want = Head(acl).want
                             ELSE acl'[1].k = 1
         /\ acl' = <<>> => pdu'.k = Head(acl).k /\ pdu'.want = Head(acl).want
<1> USE Types
<1>1. /\ Head(acl) \in Fragment /\ Head(acl) = acl[1]
      /\ acl' \in Seq(Fragment) /\ Len(acl') = Len(acl) - 1 /\ Len(acl) > 0
      /\ \A i \in 1..Len(acl') : acl'[i] = acl[i + 1]
  BY Dequeue
<1>2. PulledAcl' = PulledAcl + 1 /\ PulledEvt' = PulledEvt
  BY <1>1 DEF PulledAcl, PulledEvt
<1>3. 1 \in 1..Len(acl)
  BY <1>1
<1>4. Head(acl).n = PulledAcl + 1 /\ Head(acl).k >= 1 /\ Head(acl).k =< Head(acl).want
  BY <1>1, <1>3 DEF QueuesInOrder
<1>5. QueuesInOrder'
  <2>1. \A i \in 1..Len(acl') : acl'[i].n = PulledAcl' + i
    <3>1. ASSUME NEW i \in 1..Len(acl') PROVE acl'[i].n = PulledAcl' + i
      <4>1. i + 1 \in 1..Len(acl) /\ acl'[i] = acl[i + 1]
        BY <1>1
      <4>2. acl[i + 1].n = PulledAcl + (i + 1)
        BY <4>1 DEF QueuesInOrder
      <4> QED BY <1>2, <4>1, <4>2
    <3> QED BY <3>1
  <2>2. \A i \in 1..Len(evt') : evt'[i] = PulledEvt' + i
    BY <1>2 DEF QueuesInOrder
  <2>3. ASSUME NEW i \in 1..Len(acl'), i > 1
        PROVE  IF acl'[i - 1].k < acl'[i - 1].want
                 THEN acl'[i].k = acl'[i - 1].k + 1 /\ acl'[i].want = acl'[i - 1].want
                 ELSE acl'[i].k = 1
    <3>1. /\ i + 1 \in 1..Len(acl) /\ acl'[i] = acl[i + 1]
          /\ i - 1 \in 1..Len(acl') /\ acl'[i - 1] = acl[(i - 1) + 1]
      BY <1>1, <2>3
    <3>2. (i - 1) + 1 = (i + 1) - 1 /\ i + 1 > 1
      BY <2>3
    <3> QED BY <3>1, <3>2 DEF QueuesInOrder
  <2>4. acl' # <<>> => /\ acl'[Len(acl')].k = pdu'.k
                       /\ acl'[Len(acl')].want = pdu'.want
    <3>1. acl' # <<>> => Len(acl') \in 1..Len(acl') /\ acl'[Len(acl')] = acl[Len(acl)]
      BY <1>1
    <3> QED BY <3>1 DEF QueuesInOrder
  <2>5. \A i \in 1..Len(acl') : 1 =< acl'[i].k /\ acl'[i].k =< acl'[i].want
    <3>1. ASSUME NEW i \in 1..Len(acl')
          PROVE 1 =< acl'[i].k /\ acl'[i].k =< acl'[i].want
      <4>1. i + 1 \in 1..Len(acl) /\ acl'[i] = acl[i + 1]
        BY <1>1
      <4> QED BY <4>1 DEF QueuesInOrder
    <3> QED BY <3>1
  <2>6. Len(acl') =< sent' /\ Len(evt') =< raised' /\ pdu'.k =< pdu'.want
    BY <1>1 DEF QueuesInOrder
  <2> QED BY <2>1, <2>2, <2>3, <2>4, <2>5, <2>6 DEF QueuesInOrder
<1>6. acl' # <<>> => IF Head(acl).k < Head(acl).want
                       THEN /\ acl'[1].k = Head(acl).k + 1
                            /\ acl'[1].want = Head(acl).want
                       ELSE acl'[1].k = 1
  <2> SUFFICES ASSUME acl' # <<>>
               PROVE  IF acl[1].k < acl[1].want
                        THEN acl'[1].k = acl[1].k + 1 /\ acl'[1].want = acl[1].want
                        ELSE acl'[1].k = 1
    BY <1>1
  <2>1. 2 \in 1..Len(acl) /\ acl'[1] = acl[2] /\ 2 - 1 = 1 /\ 2 > 1
    BY <1>1
  <2>2. IF acl[2 - 1].k < acl[2 - 1].want
          THEN acl[2].k = acl[2 - 1].k + 1 /\ acl[2].want = acl[2 - 1].want
          ELSE acl[2].k = 1
    BY <2>1 DEF QueuesInOrder
  <2> QED BY <2>1, <2>2
<1>7. acl' = <<>> => pdu'.k = Head(acl).k /\ pdu'.want = Head(acl).want
  <2>1. acl' = <<>> => Len(acl') = 0
    OBVIOUS
  <2>2. acl' = <<>> => Len(acl) = 1
    BY <1>1, <2>1
  <2> QED BY <1>1, <2>2 DEF QueuesInOrder
<1> QED BY <1>1, <1>2, <1>4, <1>5, <1>6, <1>7

LEMMA TakeEvent ==
  ASSUME HciTypeOK, QueuesInOrder, evt # <<>>, evt' = Tail(evt),
         UNCHANGED <<acl, sent, raised, pdu>>
  PROVE  /\ QueuesInOrder'
         /\ evt' \in Seq(Nat) /\ Head(evt) \in Nat
         /\ PulledEvt' = PulledEvt + 1 /\ PulledAcl' = PulledAcl
         /\ Head(evt) = PulledEvt + 1
<1> USE Types
<1>1. /\ Head(evt) \in Nat /\ Head(evt) = evt[1]
      /\ evt' \in Seq(Nat) /\ Len(evt') = Len(evt) - 1 /\ Len(evt) > 0
      /\ \A i \in 1..Len(evt') : evt'[i] = evt[i + 1]
  BY Dequeue
<1>2. PulledEvt' = PulledEvt + 1 /\ PulledAcl' = PulledAcl
  BY <1>1 DEF PulledAcl, PulledEvt
<1>3. Head(evt) = PulledEvt + 1
  BY <1>1 DEF QueuesInOrder
<1>4. \A i \in 1..Len(evt') : evt'[i] = PulledEvt' + i
  <2>1. ASSUME NEW i \in 1..Len(evt') PROVE evt'[i] = PulledEvt' + i
    <3>1. i + 1 \in 1..Len(evt) /\ evt'[i] = evt[i + 1]
      BY <1>1
    <3>2. evt[i + 1] = PulledEvt + (i + 1)
      BY <3>1 DEF QueuesInOrder
    <3> QED BY <1>2, <3>1, <3>2
  <2> QED BY <2>1
<1>5. Len(evt') =< raised'
  BY <1>1 DEF QueuesInOrder
<1>6. QueuesInOrder'
  BY <1>2, <1>4, <1>5 DEF QueuesInOrder
<1> QED BY <1>1, <1>2, <1>3, <1>6

LEMMA FillEventIInv == IInv /\ FillEvent => IInv'
<1> SUFFICES ASSUME IInv, FillEvent PROVE IInv'
  OBVIOUS
<1> USE Types DEF IInv
<1>1. /\ QueuesInOrder' /\ evt' \in Seq(Nat) /\ Head(evt) \in Nat
      /\ PulledEvt' = PulledEvt + 1 /\ PulledAcl' = PulledAcl
      /\ Head(evt) = PulledEvt + 1
  BY TakeEvent DEF FillEvent
<1> DEFINE p == EventPacket(Head(evt))
<1>2. p \in Packet
  BY <1>1, EventPacketType
<1>3. /\ p.event /\ ~p.first /\ p.lo = Head(evt) /\ p.hi = Head(evt)
      /\ p.len = 1 /\ p.size = 1
  BY DEF EventPacket
<1>4. /\ buf' = <<p>> /\ start' = 0 /\ ~gathering /\ gathering' = gathering
      /\ start = Len(buf)
      /\ UNCHANGED <<acl, sent, raised, pdu, link, stray, upAcl, upEvt, late, cut, failed>>
  BY DEF FillEvent, Empty
<1> HIDE DEF p
<1>5. buf' \in Seq(Packet) /\ Len(buf') = 1 /\ buf'[1] = p
  BY <1>2, <1>4, Singleton
<1>6. HciTypeOK'
  BY <1>1, <1>4, <1>5 DEF HciTypeOK
<1>7. GatherInOrder'
  BY <1>4 DEF GatherInOrder
<1>8. stray = <<>> /\ stray' = <<>>
  BY <1>4 DEF GatherInOrder
<1>9. HandedInOrder'
  <2> SUFFICES ASSUME Sound' PROVE HandedInOrder'
    BY DEF HandedInOrder
  <2>1. Sound
    BY <1>4 DEF Sound
  <2>2. upAcl = PulledAcl /\ upEvt = PulledEvt
    <3>1. CASE Len(buf) = 0
      BY <1>4, <2>1, <3>1 DEF HandedInOrder
    <3>2. CASE Len(buf) # 0
      BY <1>4, <2>1, <3>2 DEF HandedInOrder
    <3> QED BY <3>1, <3>2
  <2>3. \A i \in 1..Len(buf') : i = 1
    BY <1>5
  <2>4. buf'[1].lo = buf'[1].hi /\ buf'[1].hi = PulledEvt' - Len(buf') + 1
    <3>1. PulledEvt \in Int /\ PulledEvt + 1 = (PulledEvt + 1) - 1 + 1
      OBVIOUS
    <3>2. buf'[1].lo = PulledEvt + 1 /\ buf'[1].hi = PulledEvt + 1
      BY <1>1, <1>3, <1>5
    <3> QED BY <1>1, <1>5, <3>1, <3>2
  <2>5. upAcl' = PulledAcl' /\ upEvt' = PulledEvt' - (Len(buf') - start')
    BY <1>1, <1>4, <1>5, <2>2
  <2>6. buf'[1].event
    BY <1>3, <1>5
  <2>7. \A i \in 1..Len(stray') : FALSE
    BY <1>8
  <2> QED BY <2>3, <2>4, <2>5, <2>6, <2>7 DEF HandedInOrder
<1>10. ReadyIsWhole'
  <2>1. \A i \in 1..Len(buf') : buf'[i] = p
    BY <1>5
  <2>2. p.len = p.hi + 1 - p.lo
    BY <1>1, <1>3
  <2> QED BY <1>3, <2>1, <2>2 DEF ReadyIsWhole, InStep
<1> QED BY <1>1, <1>6, <1>7, <1>9, <1>10

LEMMA FillAclIInv == IInv /\ FillAcl => IInv'
<1> SUFFICES ASSUME IInv, FillAcl PROVE IInv'
  OBVIOUS
<1> USE Types DEF IInv
<1> DEFINE f == Head(acl)
           p == AclPacket(f)
<1>1. /\ QueuesInOrder' /\ acl' \in Seq(Fragment) /\ f \in Fragment
      /\ PulledAcl' = PulledAcl + 1 /\ PulledEvt' = PulledEvt
      /\ f.n = PulledAcl + 1 /\ f.k >= 1 /\ f.k =< f.want
      /\ acl' # <<>> => IF f.k < f.want
                          THEN acl'[1].k = f.k + 1 /\ acl'[1].want = f.want
                          ELSE acl'[1].k = 1
      /\ acl' = <<>> => pdu'.k = f.k /\ pdu'.want = f.want
  BY TakeFragment DEF FillAcl
<1>2. p \in Packet
  BY <1>1, AclPacketType
<1>3. /\ ~p.event /\ (p.first <=> f.k = 1) /\ p.lo = f.n /\ p.hi = f.n
      /\ p.len = 1 /\ p.size = 1 /\ p.want = f.want
  BY DEF AclPacket
<1>4. /\ buf' = <<p>> /\ start' = 0 /\ ~gathering
      /\ gathering' = (f.k = 1 /\ f.want > 1)
      /\ start = Len(buf) /\ stray' = <<>>
      /\ UNCHANGED <<evt, sent, raised, pdu, link, upAcl, upEvt, late, cut, failed>>
  BY DEF FillAcl, Empty
<1> HIDE DEF p, f
<1>5. buf' \in Seq(Packet) /\ Len(buf') = 1 /\ buf'[1] = p /\ buf' # <<>>
  BY <1>2, <1>4, Singleton
<1>6. HciTypeOK'
  <2>1. stray' \in Seq(Packet) /\ gathering' \in BOOLEAN
    BY <1>4
  <2> QED BY <1>1, <1>4, <1>5, <2>1 DEF HciTypeOK
<1>k. f.k \in Nat /\ f.want \in Nat /\ f.n \in Nat
  BY <1>1 DEF Fragment
<1>7. GatherInOrder'
  <2>1. Gathered' = 1
    BY <1>3, <1>5 DEF Gathered
  <2>2. gathering' => 1 + 1 =< BufSize
    BY HciAssumption
  <2>3. gathering' => f.k = 1 /\ p.first
    BY <1>3, <1>4
  <2>4. ASSUME gathering'
        PROVE  /\ acl' # <<>> => IF 1 < p.want
                          THEN acl'[1].k = 1 + 1 /\ acl'[1].want = p.want
                          ELSE acl'[1].k = 1
               /\ acl' = <<>> => pdu'.k = 1 /\ pdu'.want = p.want
    BY <1>1, <1>3, <2>3, <2>4
  <2>5. 1 = p.hi + 1 - p.lo
    BY <1>3, <1>k
  <2>6. gathering' => 1 =< p.want
    BY <1>1, <1>3, <1>k, SMTT(30)
  <2> QED BY <1>3, <1>4, <1>5, <2>1, <2>2, <2>3, <2>4, <2>5, <2>6 DEF GatherInOrder
<1>9. HandedInOrder'
  <2> SUFFICES ASSUME Sound' PROVE HandedInOrder'
    BY DEF HandedInOrder
  <2>1. Sound
    BY <1>4 DEF Sound
  <2>2. upAcl = PulledAcl /\ upEvt = PulledEvt
    <3>1. CASE Len(buf) = 0
      BY <1>4, <2>1, <3>1 DEF HandedInOrder
    <3>2. CASE Len(buf) # 0
      BY <1>4, <2>1, <3>2 DEF HandedInOrder
    <3> QED BY <3>1, <3>2
  <2>3. \A i \in 1..Len(buf') : i = 1
    BY <1>5
  <2>4. ~buf'[1].event /\ buf'[1].lo = upAcl' + 1 /\ buf'[1].hi = PulledAcl'
    BY <1>1, <1>3, <1>4, <1>5, <2>2
  <2>5. upEvt' = PulledEvt' - Len(stray') - (Len(buf') - 1)
    BY <1>1, <1>4, <1>5, <2>2
  <2>7. \A i \in 1..Len(stray') : FALSE
    BY <1>4
  <2> QED BY <1>4, <1>5, <2>3, <2>4, <2>5, <2>7 DEF HandedInOrder
<1>10. ReadyIsWhole'
  <2> SUFFICES ASSUME ~gathering' PROVE ReadyIsWhole'
    BY DEF ReadyIsWhole
  <2>1. \A i \in 1..Len(buf') : buf'[i] = p
    BY <1>5
  <2>2. p.len = p.hi + 1 - p.lo
    BY <1>k, <1>3
  <2>3. p.first => p.len = p.want
    <3>1. ~(f.k = 1 /\ f.want > 1)
      BY <1>4
    <3> QED BY <1>1, <1>3, <1>k, <3>1, SMTT(30)
  <2> QED BY <1>3, <2>1, <2>2, <2>3 DEF ReadyIsWhole, InStep
<1> QED BY <1>1, <1>6, <1>7, <1>9, <1>10

LEMMA GatherContinuationIInv == IInv /\ GatherContinuation => IInv'
<1> SUFFICES ASSUME IInv, GatherContinuation PROVE IInv'
  OBVIOUS
<1> USE Types DEF IInv
<1> DEFINE f == Head(acl)
           p == [buf[1] EXCEPT !.hi = f.n, !.size = @ + 1]
<1>1. /\ QueuesInOrder' /\ acl' \in Seq(Fragment) /\ f \in Fragment
      /\ PulledAcl' = PulledAcl + 1 /\ PulledEvt' = PulledEvt
      /\ f.n = PulledAcl + 1 /\ f.k >= 1 /\ f.k =< f.want
      /\ acl' # <<>> => IF f.k < f.want
                          THEN acl'[1].k = f.k + 1 /\ acl'[1].want = f.want
                          ELSE acl'[1].k = 1
      /\ acl' = <<>> => pdu'.k = f.k /\ pdu'.want = f.want
  BY TakeFragment DEF GatherContinuation
<1>2. /\ gathering /\ gathering' = gathering /\ Gathered < buf[1].want
      /\ acl # <<>> /\ start' = start
      /\ UNCHANGED <<evt, sent, raised, pdu, link, stray, upAcl, upEvt, late, failed>>
      /\ buf' = IF RoomFor(1) THEN <<p>> ELSE buf
      /\ cut' = (cut \/ ~RoomFor(1))
  BY DEF GatherContinuation
<1>3. Len(buf) = 1 /\ start = 0 /\ ~buf[1].event /\ buf[1].first
      /\ 1 =< Gathered /\ 1 + Gathered =< BufSize
  BY <1>2 DEF GatherInOrder
<1>4. buf[1] \in Packet
  <2> HIDE DEF f, p
  <2>1. buf \in Seq(Packet) /\ 1 \in 1..Len(buf)
    BY <1>3
  <2> QED BY <2>1
<1>k. f.n \in Nat /\ f.k \in Nat /\ f.want \in Nat
  BY <1>1 DEF Fragment
<1>6. /\ buf[1].size \in Nat /\ buf[1].want \in Nat /\ buf[1].lo \in Nat
      /\ buf[1].hi \in Nat /\ buf[1].size + 1 \in Nat
  <2> HIDE DEF f, p
  <2>1. /\ buf[1].size \in Nat /\ buf[1].want \in Nat /\ buf[1].lo \in Nat
        /\ buf[1].hi \in Nat
    BY <1>4, PacketFields
  <2> QED BY <2>1, SMTT(30)
<1>5. /\ p \in Packet /\ p.event = buf[1].event /\ p.first = buf[1].first
      /\ p.lo = buf[1].lo /\ p.hi = f.n /\ p.size = buf[1].size + 1
      /\ p.want = buf[1].want
  <2> HIDE DEF f
  <2> QED BY <1>4, <1>k, <1>6 DEF Packet
<1> HIDE DEF f, p
<1>7. /\ RoomFor(1) => /\ buf' \in Seq(Packet) /\ Len(buf') = 1 /\ buf'[1] = p
      /\ ~RoomFor(1) => buf' = buf
  BY <1>2, <1>5, Singleton
<1>8. buf' \in Seq(Packet) /\ Len(buf') = 1
  BY <1>3, <1>7
<1>9. HciTypeOK'
  <2>1. cut' \in BOOLEAN
    BY <1>2 DEF HciTypeOK
  <2>2. start' =< Len(buf') /\ start' \in Nat
    BY <1>2, <1>3, <1>8
  <2> QED BY <1>1, <1>2, <1>8, <2>1, <2>2 DEF HciTypeOK
<1>10. Sound' => /\ Sound /\ RoomFor(1) /\ Gathered = buf[1].hi + 1 - buf[1].lo
                 /\ f.k = Gathered + 1 /\ f.want = buf[1].want
  <2> SUFFICES ASSUME Sound'
               PROVE  /\ Sound /\ RoomFor(1) /\ Gathered = buf[1].hi + 1 - buf[1].lo
                      /\ f.k = Gathered + 1 /\ f.want = buf[1].want
    OBVIOUS
  <2>1. Sound /\ RoomFor(1)
    BY <1>2 DEF Sound
  <2>2. f = acl[1]
    BY <1>2, Dequeue DEF f
  <2> QED BY <1>2, <2>1, <2>2 DEF GatherInOrder
<1>11. Sound' => /\ Len(buf) = 1 /\ buf # <<>> /\ buf[1].lo = upAcl + 1
                 /\ buf[1].hi = PulledAcl
                 /\ upEvt = PulledEvt - Len(stray) - (Len(buf) - 1)
  <2>1. buf # <<>>
    BY <1>3, NonEmpty
  <2> QED BY <1>3, <1>10, <2>1 DEF HandedInOrder
<1>12. GatherInOrder'
  <2>1. 1 =< Gathered' /\ 1 + Gathered' =< BufSize
    <3>1. CASE RoomFor(1)
      <4>1. Gathered' = Gathered + 1 /\ Gathered \in Nat
        BY <1>5, <1>6, <1>7, <3>1 DEF Gathered
      <4>2. BufSize \in Nat /\ 1 + Gathered + 1 =< BufSize
        BY <3>1, HciAssumption DEF RoomFor
      <4> QED BY <4>1, <4>2
    <3>2. CASE ~RoomFor(1)
      BY <1>3, <1>7, <3>2 DEF Gathered
    <3> QED BY <3>1, <3>2
  <2>2. ~buf'[1].event /\ buf'[1].first
    BY <1>3, <1>5, <1>7
  <2>3. ASSUME Sound'
        PROVE  /\ Gathered' =< buf'[1].want /\ Gathered' = buf'[1].hi + 1 - buf'[1].lo
               /\ acl' # <<>> => IF Gathered' < buf'[1].want
                                  THEN /\ acl'[1].k = Gathered' + 1
                                       /\ acl'[1].want = buf'[1].want
                                  ELSE acl'[1].k = 1
               /\ acl' = <<>> => pdu'.k = Gathered' /\ pdu'.want = buf'[1].want
    <3>1. /\ Gathered' = Gathered + 1 /\ f.k = Gathered' /\ f.want = buf'[1].want
          /\ buf'[1].lo = buf[1].lo /\ buf'[1].hi = f.n
      BY <1>5, <1>7, <1>10, <2>3 DEF Gathered
    <3>2. buf[1].hi = PulledAcl /\ Gathered = buf[1].hi + 1 - buf[1].lo
      BY <1>10, <1>11, <2>3
    <3>3. Gathered' = buf'[1].hi + 1 - buf'[1].lo
      <4>1. f.n = buf[1].hi + 1
        BY <1>1, <3>2
      <4>2. /\ Gathered' = Gathered + 1 /\ buf'[1].lo = buf[1].lo
            /\ buf'[1].hi = buf[1].hi + 1
        BY <3>1, <4>1
      <4>3. buf[1].hi + 1 - buf[1].lo + 1 = buf[1].hi + 1 + 1 - buf[1].lo
        <5>1. \A h, l \in Nat : h + 1 - l + 1 = h + 1 + 1 - l
          OBVIOUS
        <5> QED BY <1>6, <5>1
      <4> QED BY <3>2, <4>2, <4>3
    <3> QED BY <1>1, <3>1, <3>3
  <2> QED BY <1>2, <1>3, <1>8, <2>1, <2>2, <2>3 DEF GatherInOrder
<1>13. HandedInOrder'
  <2> SUFFICES ASSUME Sound' PROVE HandedInOrder'
    BY DEF HandedInOrder
  <2>1. /\ buf'[1] = p /\ Sound /\ buf' # <<>> /\ start' = 0
    BY <1>2, <1>3, <1>7, <1>8, <1>10, NonEmpty
  <2>2. /\ buf' # <<>> /\ ~buf'[1].event /\ start' = 0
        /\ buf'[1].lo = upAcl' + 1 /\ buf'[1].hi = PulledAcl'
    BY <1>1, <1>2, <1>3, <1>5, <1>11, <2>1
  <2>3. upEvt' = PulledEvt' - Len(stray') - (Len(buf') - 1)
    BY <1>1, <1>2, <1>8, <1>11
  <2>4. \A i \in 1..Len(buf') : i = 1
    BY <1>8
  <2>5. \A i \in 1..Len(stray') :
          /\ stray'[i].event /\ stray'[i].len = 1 /\ stray'[i].size = 1
          /\ ~stray'[i].first /\ stray'[i].lo = stray'[i].hi
          /\ stray'[i].hi = PulledEvt' - Len(stray') + i
    BY <1>1, <1>2, <2>1 DEF HandedInOrder
  <2>6. \A i \in 1..Len(buf') :
          /\ i > 1 => buf'[i].event
          /\ buf'[i].event => /\ buf'[i].lo = buf'[i].hi
                             /\ buf'[i].hi = PulledEvt' - Len(buf') + i
    BY <2>2, <2>4, SMTT(30)
  <2> QED BY <2>2, <2>3, <2>5, <2>6 DEF HandedInOrder
<1>14. ReadyIsWhole'
  BY <1>2 DEF ReadyIsWhole
<1> QED BY <1>1, <1>9, <1>12, <1>13, <1>14

LEMMA GatherStrayIInv == IInv /\ GatherStray => IInv'
<1> SUFFICES ASSUME IInv, GatherStray PROVE IInv'
  OBVIOUS
<1> USE Types DEF IInv
<1>1. /\ gathering /\ Gathered < buf[1].want
      /\ UNCHANGED <<sent, raised, pdu, link, gathering, buf, start, upAcl, upEvt,
                     late, failed>>
      /\ cut' = (cut \/ 2 * (Len(stray) + 1) > StraySize)
  BY DEF GatherStray
<1>2. Len(buf) = 1 /\ start = 0 /\ ~buf[1].event /\ buf # <<>>
  BY <1>1, NonEmpty DEF GatherInOrder
<1>3. ReadyIsWhole'
  BY <1>1 DEF ReadyIsWhole
<1>4. cut' \in BOOLEAN
  BY <1>1 DEF HciTypeOK
<1>5. Sound' => Sound /\ ~(2 * (Len(stray) + 1) > StraySize)
  BY <1>1 DEF Sound
<1>a. CASE /\ evt # <<>> /\ evt' = Tail(evt) /\ acl' = acl
           /\ stray' = SetAside(EventPacket(Head(evt)))
  <2> DEFINE p == EventPacket(Head(evt))
  <2>1. /\ QueuesInOrder' /\ evt' \in Seq(Nat) /\ Head(evt) \in Nat
        /\ PulledEvt' = PulledEvt + 1 /\ PulledAcl' = PulledAcl
        /\ Head(evt) = PulledEvt + 1
    BY <1>1, <1>a, TakeEvent
  <2>2. p \in Packet
    BY <2>1, EventPacketType
  <2>3. /\ p.event /\ ~p.first /\ p.lo = Head(evt) /\ p.hi = Head(evt)
        /\ p.len = 1 /\ p.size = 1
    BY DEF EventPacket
  <2>4. stray' = SetAside(p)
    BY <1>a
  <2> HIDE DEF p
  <2>5. /\ Append(stray, p) \in Seq(Packet) /\ Len(Append(stray, p)) = Len(stray) + 1
        /\ \A i \in 1..Len(stray) : Append(stray, p)[i] = stray[i]
        /\ Append(stray, p)[Len(stray) + 1] = p
    BY <2>2, Enqueue
  <2>6. HciTypeOK'
    <3>1. stray' \in Seq(Packet)
      BY <2>4, <2>5 DEF SetAside
    <3> QED BY <1>1, <1>4, <1>a, <2>1, <3>1 DEF HciTypeOK
  <2>7. GatherInOrder'
    BY <1>1, <1>5, <1>a DEF GatherInOrder, Gathered
  <2>8. HandedInOrder'
    <3> SUFFICES ASSUME Sound' PROVE HandedInOrder'
      BY DEF HandedInOrder
    <3>1. Sound /\ stray' = Append(stray, p)
      BY <1>5, <2>4, HciAssumption DEF SetAside
    <3>2. ASSUME NEW i \in 1..Len(stray')
          PROVE  /\ stray'[i].event /\ stray'[i].len = 1 /\ stray'[i].size = 1
                 /\ ~stray'[i].first /\ stray'[i].lo = stray'[i].hi
                 /\ stray'[i].hi = PulledEvt' - Len(stray') + i
      <4>1. CASE i \in 1..Len(stray)
        <5>1. /\ stray[i].event /\ stray[i].len = 1 /\ stray[i].size = 1
              /\ ~stray[i].first /\ stray[i].lo = stray[i].hi
              /\ stray[i].hi = PulledEvt - Len(stray) + i
          BY <3>1, <4>1 DEF HandedInOrder
        <5>2. stray'[i] = stray[i]
          BY <2>5, <3>1, <4>1
        <5>3. PulledEvt' - Len(stray') + i = PulledEvt - Len(stray) + i
          BY <2>1, <2>5, <3>1, SMTT(30)
        <5> QED BY <5>1, <5>2, <5>3
      <4>2. CASE i = Len(stray) + 1
        <5>1. stray'[i] = p /\ Len(stray') = Len(stray) + 1
          BY <2>5, <3>1, <4>2
        <5>2. PulledEvt' - Len(stray') + i = PulledEvt + 1
          BY <2>1, <4>2, <5>1
        <5> QED BY <2>1, <2>3, <5>1, <5>2
      <4>3. i \in 1..Len(stray) \/ i = Len(stray) + 1
        BY <2>5, <3>1
      <4> QED BY <4>1, <4>2, <4>3
    <3>3. /\ buf[1].lo = upAcl + 1 /\ buf[1].hi = PulledAcl
          /\ upEvt = PulledEvt - Len(stray) - (Len(buf) - 1)
      BY <1>2, <3>1 DEF HandedInOrder
    <3>4. upEvt' = PulledEvt' - Len(stray') - (Len(buf') - 1)
      BY <1>1, <1>2, <2>1, <2>5, <3>1, <3>3
    <3>5. \A i \in 1..Len(buf') : i = 1
      BY <1>1, <1>2
    <3>6. /\ buf' # <<>> /\ ~buf'[1].event /\ start' = 0
          /\ buf'[1].lo = upAcl' + 1 /\ buf'[1].hi = PulledAcl'
      BY <1>1, <1>2, <2>1, <3>3
    <3> QED BY <3>2, <3>4, <3>5, <3>6, SMTT(30) DEF HandedInOrder
  <2> QED BY <1>3, <2>1, <2>6, <2>7, <2>8
<1>b. CASE /\ acl # <<>> /\ Head(acl).k = 1 /\ acl' = Tail(acl) /\ evt' = evt
           /\ stray' = SetAside(AclPacket(Head(acl)))
  <2>1. /\ QueuesInOrder' /\ acl' \in Seq(Fragment) /\ Head(acl) \in Fragment
        /\ Head(acl) = acl[1]
    BY <1>1, <1>b, TakeFragment
  <2>2. AclPacket(Head(acl)) \in Packet
    BY <2>1, AclPacketType
  <2>3. HciTypeOK'
    <3>1. Append(stray, AclPacket(Head(acl))) \in Seq(Packet)
      BY <2>2
    <3>2. stray' \in Seq(Packet)
      BY <1>b, <3>1 DEF SetAside
    <3> QED BY <1>1, <1>4, <1>b, <2>1, <3>2 DEF HciTypeOK
  <2>4. ~Sound'
    <3> SUFFICES ASSUME Sound PROVE FALSE
      BY <1>5
    <3>1. acl[1].k = Gathered + 1 \/ ~(Gathered < buf[1].want)
      BY <1>1, <1>b DEF GatherInOrder
    <3>2. acl[1].k = Gathered + 1
      BY <1>1, <3>1
    <3>3. Gathered >= 1 /\ Gathered \in Nat
      <4>1. buf[1] \in Packet
        BY <1>2
      <4>2. Gathered \in Nat
        BY <4>1 DEF Gathered, Packet
      <4> QED BY <1>1, <4>2 DEF GatherInOrder
    <3> QED BY <1>b, <2>1, <3>2, <3>3
  <2>5. GatherInOrder'
    BY <1>1, <2>4 DEF GatherInOrder, Gathered
  <2>6. HandedInOrder'
    BY <2>4 DEF HandedInOrder
  <2> QED BY <1>3, <2>1, <2>3, <2>5, <2>6
<1> QED BY <1>a, <1>b DEF GatherStray

(* The merged packet with the strays behind it.                              *)
LEMMA FittingBound ==
  ASSUME IInv, gathering
  PROVE  /\ Fitting \in Nat /\ Fitting =< Len(stray) /\ Gathered \in Nat
         /\ RoomFor(2 * Len(stray)) => Fitting = Len(stray)
<1> USE Types DEF IInv
<1>1. Len(buf) = 1 /\ 1 + Gathered =< BufSize
  BY DEF GatherInOrder
<1>2. Gathered \in Nat
  <2>1. buf \in Seq(Packet) /\ 1 \in 1..Len(buf)
    BY <1>1
  <2>2. buf[1] \in Packet
    BY <2>1
  <2> QED BY <2>2, PacketFields DEF Gathered
<1>3. CASE RoomFor(2 * Len(stray))
  BY <1>2, <1>3 DEF Fitting
<1>4. CASE ~RoomFor(2 * Len(stray))
  <2>1. Fitting = (BufSize - Gathered) \div 2
    BY <1>4 DEF Fitting
  <2>2. BufSize \in Nat /\ Len(stray) \in Nat /\ ~(1 + Gathered + 2 * Len(stray) =< BufSize)
    BY <1>4, HciAssumption DEF RoomFor
  <2>3. \A b, g, l \in Nat : 1 + g =< b /\ ~(1 + g + 2 * l =< b) =>
          (b - g) \div 2 \in Nat /\ (b - g) \div 2 =< l
    OBVIOUS
  <2> QED BY <1>1, <1>2, <1>4, <2>1, <2>2, <2>3
<1> QED BY <1>3, <1>4

LEMMA Behind ==
  ASSUME NEW S, NEW e \in S, NEW s \in Seq(S)
  PROVE  /\ <<e>> \o s \in Seq(S) /\ Len(<<e>> \o s) = Len(s) + 1
         /\ (<<e>> \o s)[1] = e
         /\ \A i \in 1..Len(s) : (<<e>> \o s)[i + 1] = s[i]
<1>1. <<e>> \in Seq(S) /\ Len(<<e>>) = 1 /\ <<e>>[1] = e
  BY Singleton
<1> QED BY <1>1

LEMMA MergedPackets ==
  ASSUME IInv, gathering
  PROVE  /\ Merged \in Seq(Packet) /\ Len(Merged) = Fitting + 1
         /\ Merged[1] = [buf[1] EXCEPT !.len = Gathered]
         /\ \A i \in 1..Fitting :
              Merged[i + 1] = [stray[i] EXCEPT !.size = IF RoomFor(2 * i) THEN @ ELSE 0]
<1> USE Types DEF IInv
<1>1. Fitting \in Nat /\ Fitting =< Len(stray) /\ Gathered \in Nat
  BY FittingBound
<1>2. [buf[1] EXCEPT !.len = Gathered] \in Packet
  <2>0. buf \in Seq(Packet) /\ 1 \in 1..Len(buf)
    <3>1. Len(buf) = 1
      BY DEF GatherInOrder
    <3>2. buf \in Seq(Packet)
      OBVIOUS
    <3> QED BY <3>1, <3>2
  <2>1. buf[1] \in Packet
    BY <2>0
  <2>2. \A p \in Packet, g \in Nat : [p EXCEPT !.len = g] \in Packet
    BY DEF Packet
  <2> QED BY <1>1, <2>1, <2>2
<1>3. \A i \in 1..Fitting : /\ Appended[i] = [stray[i] EXCEPT !.size = IF RoomFor(2 * i) THEN @ ELSE 0]
                            /\ Appended[i] \in Packet
  <2>1. ASSUME NEW i \in 1..Fitting
        PROVE  /\ Appended[i] = [stray[i] EXCEPT !.size = IF RoomFor(2 * i) THEN @ ELSE 0]
               /\ Appended[i] \in Packet
    <3>1. stray[i] \in Packet
      BY <1>1
    <3>2. \A p \in Packet, g \in Nat : [p EXCEPT !.size = g] \in Packet
      BY DEF Packet
    <3>3. (IF RoomFor(2 * i) THEN stray[i].size ELSE 0) \in Nat
      BY <3>1, PacketFields
    <3>4. Appended[i] = [stray[i] EXCEPT !.size = IF RoomFor(2 * i) THEN @ ELSE 0]
      BY DEF Appended
    <3> QED BY <3>1, <3>2, <3>3, <3>4
  <2> QED BY <2>1
<1>4. Appended = [i \in 1..Fitting |-> Appended[i]]
  BY DEF Appended
<1> DEFINE e == [buf[1] EXCEPT !.len = Gathered]
<1>5. Merged = <<e>> \o Appended
  BY DEF Merged
<1>6. e \in Packet
  BY <1>2
<1> HIDE DEF e
<1>7. /\ Merged \in Seq(Packet) /\ Len(Merged) = Fitting + 1 /\ Merged[1] = e
      /\ \A i \in 1..Fitting : Merged[i + 1] = Appended[i]
  <2>1. Appended \in Seq(Packet) /\ Len(Appended) = Fitting
    <3>1. \A n \in Nat : \A s \in [1..n -> Packet] : s \in Seq(Packet) /\ Len(s) = n
      OBVIOUS
    <3>2. Appended \in [1..Fitting -> Packet]
      BY <1>3, <1>4
    <3> QED BY <1>1, <3>1, <3>2
  <2> QED BY <1>5, <1>6, <2>1, Behind, SMTT(30)
<1> QED BY <1>3, <1>7 DEF e

LEMMA FinishIInv ==
  ASSUME IInv, gathering, FinishGathering, late' \in BOOLEAN,
         late => late', Gathered >= buf[1].want \/ late'
  PROVE  IInv'
<1> USE Types DEF IInv
<1>1. /\ buf' = Merged /\ ~gathering' /\ gathering' \in BOOLEAN /\ stray' = <<>>
      /\ cut' = (cut \/ ~RoomFor(2 * Len(stray)))
      /\ UNCHANGED <<acl, evt, sent, raised, pdu, link, start, upAcl, upEvt, failed>>
  BY DEF FinishGathering
<1>2. /\ buf' \in Seq(Packet) /\ Len(buf') = Fitting + 1
      /\ buf'[1] = [buf[1] EXCEPT !.len = Gathered]
      /\ \A i \in 1..Fitting :
           buf'[i + 1] = [stray[i] EXCEPT !.size = IF RoomFor(2 * i) THEN @ ELSE 0]
  BY <1>1, MergedPackets
<1>3. Fitting \in Nat /\ Gathered \in Nat
  BY FittingBound
<1>4. Len(buf) = 1 /\ start = 0 /\ ~buf[1].event /\ buf[1].first /\ buf # <<>>
  BY NonEmpty DEF GatherInOrder
<1>5. HciTypeOK'
  <2>1. cut' \in BOOLEAN
    BY <1>1 DEF HciTypeOK
  <2>2. start' =< Len(buf')
    BY <1>1, <1>2, <1>3, <1>4
  <2>3. stray' \in Seq(Packet)
    BY <1>1
  <2> QED BY <1>1, <1>2, <2>1, <2>2, <2>3 DEF HciTypeOK
<1>6. QueuesInOrder' /\ PulledAcl' = PulledAcl /\ PulledEvt' = PulledEvt
  BY <1>1 DEF QueuesInOrder, PulledAcl, PulledEvt
<1>7. GatherInOrder'
  BY <1>1 DEF GatherInOrder
<1> SUFFICES ASSUME Sound' PROVE HandedInOrder' /\ ReadyIsWhole'
  BY <1>5, <1>6, <1>7 DEF HandedInOrder, ReadyIsWhole, Sound
<1>8. Sound /\ RoomFor(2 * Len(stray)) /\ Fitting = Len(stray)
  BY <1>1, FittingBound DEF Sound
<1>9. buf[1] \in Packet
  BY <1>4
<1>10. /\ buf'[1].event = buf[1].event /\ buf'[1].first = buf[1].first
       /\ buf'[1].lo = buf[1].lo /\ buf'[1].hi = buf[1].hi
       /\ buf'[1].len = Gathered /\ buf'[1].size = Gathered
       /\ buf'[1].want = buf[1].want
  BY <1>2, <1>9 DEF Packet, Gathered
<1>11. /\ buf[1].lo = upAcl + 1 /\ buf[1].hi = PulledAcl
       /\ upEvt = PulledEvt - Len(stray) - (Len(buf) - 1)
  BY <1>4, <1>8 DEF HandedInOrder
<1>12. ASSUME NEW i \in 1..Len(buf'), i > 1
       PROVE  /\ buf'[i].event /\ ~buf'[i].first /\ buf'[i].lo = buf'[i].hi
              /\ buf'[i].len = 1 /\ buf'[i].size = 1
              /\ buf'[i].hi = PulledEvt' - Len(buf') + i
  <2> DEFINE j == i - 1
  <2>1. j \in 1..Len(stray) /\ j + 1 = i /\ j \in 1..Fitting
    <3>1. \A n, k \in Nat : k \in 1..(n + 1) /\ k > 1 => k - 1 \in 1..n /\ (k - 1) + 1 = k
      OBVIOUS
    <3>2. i \in Nat /\ i \in 1..(Len(stray) + 1) /\ Len(stray) \in Nat
      BY <1>2, <1>8, SMTT(30)
    <3> QED BY <1>8, <1>12, <3>1, <3>2
  <2>2. RoomFor(2 * j)
    <3>1. \A n \in Nat : n =< Len(stray) => 2 * n =< 2 * Len(stray)
      OBVIOUS
    <3>2. 2 * j =< 2 * Len(stray) /\ 2 * j \in Nat /\ 2 * Len(stray) \in Nat
      BY <2>1, <3>1
    <3>3. \A g, a, b \in Nat : 1 + g + b =< BufSize /\ a =< b => 1 + g + a =< BufSize
      BY HciAssumption
    <3> HIDE DEF j
    <3> QED BY <1>3, <1>8, <3>2, <3>3 DEF RoomFor
  <2>3. /\ stray[j].event /\ stray[j].len = 1 /\ stray[j].size = 1
        /\ ~stray[j].first /\ stray[j].lo = stray[j].hi
        /\ stray[j].hi = PulledEvt - Len(stray) + j
    BY <1>8, <2>1 DEF HandedInOrder
  <2>4. stray[j] \in Packet
    BY <2>1, SMTT(30)
  <2>5. buf'[i] = [stray[j] EXCEPT !.size = IF RoomFor(2 * j) THEN @ ELSE 0]
    BY <1>2, <2>1
  <2> HIDE DEF j
  <2>6. /\ buf'[i].event = stray[j].event /\ buf'[i].first = stray[j].first
        /\ buf'[i].lo = stray[j].lo /\ buf'[i].hi = stray[j].hi
        /\ buf'[i].len = stray[j].len /\ buf'[i].size = stray[j].size
    BY <2>2, <2>4, <2>5 DEF Packet
  <2>7. PulledEvt' - Len(buf') + i = PulledEvt - Len(stray) + j
    <3>1. \A e \in Int, l, k \in Nat : e - (l + 1) + (k + 1) = e - l + k
      OBVIOUS
    <3>2. PulledEvt \in Int /\ Len(stray) \in Nat /\ j \in Nat
      BY <2>1
    <3>3. Len(buf') = Len(stray) + 1 /\ i = j + 1 /\ PulledEvt' = PulledEvt
      BY <1>2, <1>6, <1>8, <2>1
    <3> QED BY <3>1, <3>2, <3>3
  <2> QED BY <2>3, <2>6, <2>7
<1>13. HandedInOrder'
  <2>1. upEvt' = PulledEvt' - Len(stray') - (Len(buf') - 1)
    BY <1>1, <1>2, <1>4, <1>6, <1>8, <1>11
  <2>2. Len(buf') >= 1 /\ buf' # <<>> /\ ~buf'[1].event /\ start' = 0
    BY <1>1, <1>2, <1>3, <1>4, <1>10
  <2>3. buf'[1].lo = upAcl' + 1 /\ buf'[1].hi = PulledAcl'
    BY <1>1, <1>6, <1>10, <1>11
  <2>4. \A i \in 1..Len(stray') : FALSE
    BY <1>1
  <2>5. \A i \in 1..Len(buf') : i = 1 \/ i > 1
    BY <1>2, <1>3, SMTT(30)
  <2> QED BY <1>12, <2>1, <2>2, <2>3, <2>4, <2>5 DEF HandedInOrder
<1>14. ReadyIsWhole'
  <2>1. Gathered = buf[1].hi + 1 - buf[1].lo /\ Gathered =< buf[1].want
    BY <1>8 DEF GatherInOrder
  <2>2. buf[1].want \in Nat
    BY <1>9, PacketFields
  <2>3. Gathered = buf[1].want \/ late'
    BY <1>3, <2>1, <2>2, SMTT(30)
  <2>4. ASSUME NEW i \in 1..Len(buf')
        PROVE  /\ InStep(buf'[i]) /\ buf'[i].len = buf'[i].hi + 1 - buf'[i].lo
               /\ buf'[i].first => buf'[i].len = buf'[i].want \/ late'
    <3>1. CASE i = 1
      BY <1>10, <2>1, <2>3, <3>1 DEF InStep
    <3>2. CASE i > 1
      <4>1. /\ ~buf'[i].first /\ buf'[i].lo = buf'[i].hi
            /\ buf'[i].len = 1 /\ buf'[i].size = 1
        BY <1>12, <3>2
      <4>2. buf'[i] \in Packet
        BY <1>2
      <4>3. buf'[i].hi \in Nat
        BY <4>2, PacketFields
      <4> QED BY <4>1, <4>3 DEF InStep
    <3> QED BY <1>2, <1>3, <3>1, <3>2, SMTT(30)
  <2> QED BY <2>4 DEF ReadyIsWhole, InStep
<1> QED BY <1>13, <1>14

LEMMA GatherEndIInv == IInv /\ (GatherComplete \/ GatherTimeout) => IInv'
<1>1. IInv => late \in BOOLEAN
  BY DEF IInv, HciTypeOK
<1>2. ASSUME IInv, GatherComplete PROVE IInv'
  BY <1>1, <1>2, FinishIInv DEF GatherComplete
<1>3. ASSUME IInv, GatherTimeout PROVE IInv'
  BY <1>1, <1>3, FinishIInv DEF GatherTimeout
<1> QED BY <1>2, <1>3

LEMMA NextFailsIInv == IInv /\ NextFails => IInv'
<1> SUFFICES ASSUME IInv, NextFails PROVE IInv'
  OBVIOUS
<1> USE Types DEF IInv
<1>1. /\ start' = 0 /\ ~gathering' /\ gathering' \in BOOLEAN /\ stray' = <<>>
      /\ failed' = TRUE
      /\ UNCHANGED <<acl, evt, sent, raised, pdu, link, buf, upAcl, upEvt, late, cut>>
  BY DEF NextFails
<1>2. HciTypeOK'
  <2>1. stray' \in Seq(Packet) /\ start' =< Len(buf')
    BY <1>1
  <2> QED BY <1>1, <2>1 DEF HciTypeOK
<1>3. QueuesInOrder'
  BY <1>1 DEF QueuesInOrder, PulledAcl, PulledEvt
<1>4. GatherInOrder'
  BY <1>1 DEF GatherInOrder
<1> QED BY <1>1, <1>2, <1>3, <1>4 DEF HandedInOrder, ReadyIsWhole, Sound

LEMMA ReadIInv ==
  ASSUME IInv, Read
  PROVE  /\ IInv'
         /\ Sound => IF buf[start + 1].event THEN buf[start + 1].lo = upEvt + 1
                                             ELSE buf[start + 1].lo = upAcl + 1
<1> USE Types DEF IInv
<1>1. /\ ~gathering /\ start < Len(buf) /\ start' = start + 1
      /\ IF buf[start + 1].event
           THEN upEvt' = buf[start + 1].hi /\ upAcl' = upAcl
           ELSE upAcl' = buf[start + 1].hi /\ upEvt' = upEvt
      /\ UNCHANGED <<acl, evt, sent, raised, pdu, link, gathering, buf, stray,
                     late, cut, failed>>
  BY DEF Read, controller
<1>2. start + 1 \in 1..Len(buf)
  BY <1>1
<1>3. buf[start + 1].hi \in Nat
  <2>1. buf[start + 1] \in Packet
    BY <1>2
  <2> QED BY <2>1, PacketFields
<1>4. HciTypeOK'
  BY <1>1, <1>2, <1>3, SMTT(30) DEF HciTypeOK
<1>5. QueuesInOrder' /\ PulledAcl' = PulledAcl /\ PulledEvt' = PulledEvt
  BY <1>1 DEF QueuesInOrder, PulledAcl, PulledEvt
<1>6. GatherInOrder' /\ stray = <<>> /\ Len(stray) = 0
  <2>1. stray = <<>> => Len(stray) = 0
    OBVIOUS
  <2> QED BY <1>1, <2>1 DEF GatherInOrder
<1>7. ReadyIsWhole'
  BY <1>1 DEF ReadyIsWhole, InStep
<1>8. ASSUME Sound
      PROVE  /\ HandedInOrder'
             /\ IF buf[start + 1].event THEN buf[start + 1].lo = upEvt + 1
                                        ELSE buf[start + 1].lo = upAcl + 1
  <2>1. /\ \A i \in 1..Len(buf) :
             /\ i > 1 => buf[i].event
             /\ buf[i].event => buf[i].lo = buf[i].hi
                                /\ buf[i].hi = PulledEvt - Len(buf) + i
        /\ IF buf # <<>> /\ ~buf[1].event /\ start = 0
             THEN /\ buf[1].lo = upAcl + 1 /\ buf[1].hi = PulledAcl
                  /\ upEvt = PulledEvt - Len(stray) - (Len(buf) - 1)
             ELSE upAcl = PulledAcl /\ upEvt = PulledEvt - (Len(buf) - start)
    BY <1>8 DEF HandedInOrder
  <2>2. buf # <<>> /\ start' > 0
    <3>1. Len(<<>>) = 0
      OBVIOUS
    <3> QED BY <1>1, <3>1
  <2>3. CASE buf[start + 1].event
    <3>1. ~(~buf[1].event /\ start = 0)
      BY <2>3
    <3>2. upAcl = PulledAcl /\ upEvt = PulledEvt - (Len(buf) - start)
      BY <2>1, <3>1
    <3>3. /\ buf[start + 1].lo = buf[start + 1].hi
          /\ buf[start + 1].hi = PulledEvt - Len(buf) + (start + 1)
      BY <1>2, <2>1, <2>3
    <3>4. buf[start + 1].lo = upEvt + 1
      BY <3>2, <3>3, SMTT(30)
    <3>5. upAcl' = PulledAcl' /\ upEvt' = PulledEvt' - (Len(buf') - start')
      BY <1>1, <1>5, <2>3, <3>2, <3>3
    <3>6. HandedInOrder'
      BY <1>1, <1>5, <1>6, <2>1, <2>2, <3>5 DEF HandedInOrder
    <3> QED BY <2>3, <3>4, <3>6
  <2>4. CASE ~buf[start + 1].event
    <3>1. start = 0
      <4>1. ~(start + 1 > 1)
        BY <1>2, <2>1, <2>4
      <4> QED BY <4>1
    <3>2. ~buf[1].event
      BY <2>4, <3>1
    <3>3. /\ buf[1].lo = upAcl + 1 /\ buf[1].hi = PulledAcl
          /\ upEvt = PulledEvt - Len(stray) - (Len(buf) - 1)
      BY <2>1, <2>2, <3>1, <3>2
    <3>4. buf[start + 1].lo = upAcl + 1
      BY <3>1, <3>3
    <3>5. upAcl' = PulledAcl'
      BY <1>1, <1>5, <2>4, <3>1, <3>3
    <3>6. upEvt' = PulledEvt' - (Len(buf') - start')
      BY <1>1, <1>5, <1>6, <2>4, <3>1, <3>3
    <3>7. HandedInOrder'
      BY <1>1, <1>5, <1>6, <2>1, <2>2, <3>5, <3>6 DEF HandedInOrder
    <3> QED BY <2>4, <3>4, <3>7
  <2> QED BY <2>3, <2>4
<1>9. Sound' => Sound
  BY <1>1 DEF Sound
<1>10. HandedInOrder'
  <2>1. ~Sound' => HandedInOrder'
    BY DEF HandedInOrder
  <2> QED BY <1>8, <1>9, <2>1
<1> QED BY <1>4, <1>5, <1>6, <1>7, <1>8, <1>10

-----------------------------------------------------------------------------
LEMMA StepIInv == IInv /\ [Next]_vars => IInv'
<1> SUFFICES ASSUME IInv, [Next]_vars PROVE IInv'
  OBVIOUS
<1>1. CASE Next
  BY <1>1, SendFirstIInv, SendContinuationIInv, RaiseEventIInv, RelinkIInv,
     FillEventIInv, FillAclIInv, GatherContinuationIInv, GatherStrayIInv,
     GatherEndIInv, NextFailsIInv, ReadIInv DEF Next
<1>2. CASE UNCHANGED vars
  BY <1>2 DEF vars, IInv, HciTypeOK, QueuesInOrder, GatherInOrder, HandedInOrder,
     ReadyIsWhole, Sound, PulledAcl, PulledEvt, Gathered, InStep
<1> QED BY <1>1, <1>2

THEOREM InductiveInvariant == Spec => []IInv
BY InitIInv, StepIInv, PTL DEF Spec

(* fill() and read() keep every variable in its type, for every capacity of  *)
(* the buffers and every traffic.                                            *)
THEOREM HciTypeCorrect == Spec => []HciTypeOK
<1>1. IInv => HciTypeOK
  BY DEF IInv
<1> QED BY <1>1, InductiveInvariant, PTL

(* What fill() leaves for bleps can be read to its end without another       *)
(* fill(), and a fragmented PDU is complete, unless the continuation did not *)
(* come for 200 ms.                                                          *)
THEOREM ReadyWhole == Spec => []ReadyIsWhole
<1>1. IInv => ReadyIsWhole
  BY DEF IInv
<1> QED BY <1>1, InductiveInvariant, PTL

(* bleps reads every fragment and every event once, in the controller's      *)
(* order.                                                                    *)
THEOREM NoneSkipped == Spec => NothingSkipped
<1>1. IInv /\ [Next]_vars =>
        [Read /\ ~cut /\ ~failed =>
           IF buf[start + 1].event
             THEN buf[start + 1].lo = upEvt + 1
             ELSE buf[start + 1].lo = upAcl + 1]_vars
  BY ReadIInv DEF Sound
<1> QED BY <1>1, InductiveInvariant, PTL DEF Spec, NothingSkipped
=============================================================================
