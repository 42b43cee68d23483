---------------------------- MODULE BufferedHci ----------------------------
(* The HCI adapter of app/ble.rs between the radio's controller and the     *)
(* bleps host: struct BufferedHci, fill() and read().  bleps reads a packet *)
(* byte by byte and expects every byte of it to be there, so fill() pulls   *)
(* whole packets, waits up to 200 ms for the continuation fragments of an   *)
(* L2CAP PDU and appends them to its first fragment; packets that come in   *)
(* between are kept and put behind the merged one.                          *)
(*                                                                          *)
(* Abstractions.  A fragment is one unit of payload, a header is one unit   *)
(* and an event is two, so lengths and capacities are counted in units; the *)
(* length a PDU announces (want) is its number of fragments.  The           *)
(* controller's queue is two queues, of fragments and of events, because    *)
(* their interleaving is arbitrary.  Fragments and events are numbered in   *)
(* the order in which the controller queues them.                           *)
EXTENDS Integers, Sequences

CONSTANTS
  Wants,       \* numbers of fragments of the PDUs the central sends
  MaxFrags,    \* bound: fragments in one behaviour
  MaxEvents,   \* bound: events in one behaviour
  BufSize,     \* units of `buf`   (1024 bytes)
  StraySize    \* units of `stray` (512 bytes)

ASSUME HciAssumption ==
  /\ Wants \subseteq Nat \ {0}
  /\ MaxFrags \in Nat /\ MaxEvents \in Nat
  /\ BufSize \in Nat /\ BufSize >= 2
  /\ StraySize \in Nat

VARIABLES
  acl,      \* fragments the controller has queued
  evt,      \* events the controller has queued, by number
  sent,     \* number of the last fragment the controller has queued
  raised,   \* number of the last event the controller has queued
  pdu,      \* how many fragments of the central's current PDU have been queued
  link,     \* "up", or "down" until the host has read the disconnection
  gathering,\* fill() waits for continuation fragments of buf[1]
  buf,      \* the packets of `buf`
  start,    \* packets of it that bleps has read
  stray,    \* events set aside while gathering
  upAcl,    \* number of the last fragment bleps has read
  upEvt,    \* number of the last event bleps has read
  late,     \* a PDU was given up after 200 ms
  cut,      \* a packet was dropped or clipped for lack of room
  failed    \* the controller's next() returned an error

vars == <<acl, evt, sent, raised, pdu, link, gathering, buf, start, stray,
          upAcl, upEvt, late, cut, failed>>

controller == <<acl, evt, sent, raised, pdu, link>>

(* A fragment as the controller queues it: the k-th of a PDU of want.  A     *)
(* packet as it lies in `buf`: fragments lo..hi of a PDU, or the event number *)
(* lo, under a header that announces len units, of which size are there.     *)
Fragment == [n : Nat, k : Nat, want : Nat]

Packet == [event : BOOLEAN, first : BOOLEAN, lo : Nat, hi : Nat, len : Nat,
           size : Nat, want : Nat]

AclPacket(f) == [event |-> FALSE, first |-> f.k = 1, lo |-> f.n, hi |-> f.n,
                 len |-> 1, size |-> 1, want |-> f.want]

EventPacket(n) == [event |-> TRUE, first |-> FALSE, lo |-> n, hi |-> n,
                   len |-> 1, size |-> 1, want |-> 1]

Init ==
  /\ acl = <<>> /\ evt = <<>> /\ sent = 0 /\ raised = 0
  /\ pdu = [k |-> 1, want |-> 1] /\ link = "up"
  /\ gathering = FALSE /\ buf = <<>> /\ start = 0 /\ stray = <<>>
  /\ upAcl = 0 /\ upEvt = 0
  /\ late = FALSE /\ cut = FALSE /\ failed = FALSE

-----------------------------------------------------------------------------
(* The controller and the central behind it.                                *)

SendFirst(w) ==
  /\ link = "up" /\ pdu.k = pdu.want /\ sent < MaxFrags
  /\ pdu' = [k |-> 1, want |-> w]
  /\ acl' = Append(acl, [n |-> sent + 1, k |-> 1, want |-> w])
  /\ sent' = sent + 1
  /\ UNCHANGED <<evt, raised, link, gathering, buf, start, stray, upAcl, upEvt,
                 late, cut, failed>>

SendContinuation ==
  /\ link = "up" /\ pdu.k < pdu.want /\ sent < MaxFrags
  /\ pdu' = [pdu EXCEPT !.k = @ + 1]
  /\ acl' = Append(acl, [n |-> sent + 1, k |-> pdu.k + 1, want |-> pdu.want])
  /\ sent' = sent + 1
  /\ UNCHANGED <<evt, raised, link, gathering, buf, start, stray, upAcl, upEvt,
                 late, cut, failed>>

(* An event: a command's completion, say, or the loss of the link, after    *)
(* which the rest of a PDU never comes.                                     *)
RaiseEvent ==
  /\ raised < MaxEvents
  /\ evt' = Append(evt, raised + 1)
  /\ raised' = raised + 1
  /\ \/ link' = link
     \/ link = "up" /\ link' = "down"
  /\ UNCHANGED <<acl, sent, pdu, gathering, buf, start, stray, upAcl, upEvt,
                 late, cut, failed>>

(* The host advertises again once it has read everything.                   *)
Relink ==
  /\ link = "down"
  /\ acl = <<>> /\ evt = <<>> /\ ~gathering /\ start = Len(buf)
  /\ link' = "up"
  /\ pdu' = [k |-> 1, want |-> 1]
  /\ UNCHANGED <<acl, evt, sent, raised, gathering, buf, start, stray,
                 upAcl, upEvt, late, cut, failed>>

-----------------------------------------------------------------------------
(* fill()                                                                   *)

Empty == ~gathering /\ start = Len(buf)

\* Mutant of FillEvent: the read position is not reset.
FillEventKeepingStart ==
  /\ Empty /\ evt # <<>>
  /\ buf' = <<EventPacket(Head(evt))>> /\ start' = start
  /\ evt' = Tail(evt)
  /\ UNCHANGED <<acl, sent, raised, pdu, link, gathering, stray, upAcl, upEvt,
                 late, cut, failed>>

FillEvent ==
  /\ Empty /\ evt # <<>>
  /\ buf' = <<EventPacket(Head(evt))>> /\ start' = 0
  /\ evt' = Tail(evt)
  /\ UNCHANGED <<acl, sent, raised, pdu, link, gathering, stray, upAcl, upEvt,
                 late, cut, failed>>

(* A continuation, or a PDU that is complete, is handed up as it is.        *)
FillAcl ==
  /\ Empty /\ acl # <<>>
  /\ buf' = <<AclPacket(Head(acl))>> /\ start' = 0
  /\ acl' = Tail(acl)
  /\ gathering' = (Head(acl).k = 1 /\ Head(acl).want > 1)
  /\ stray' = <<>>
  /\ UNCHANGED <<evt, sent, raised, pdu, link, upAcl, upEvt, late, cut, failed>>

Gathered == buf[1].size

RoomFor(k) == 1 + Gathered + k =< BufSize

(* A continuation is appended; what does not fit is thrown away.            *)
GatherContinuation ==
  /\ gathering /\ Gathered < buf[1].want
  /\ acl # <<>> /\ Head(acl).k > 1
  /\ acl' = Tail(acl)
  /\ buf' = IF RoomFor(1)
              THEN <<[buf[1] EXCEPT !.hi = Head(acl).n, !.size = @ + 1]>> ELSE buf
  /\ cut' = (cut \/ ~RoomFor(1))
  /\ UNCHANGED <<evt, sent, raised, pdu, link, gathering, start, stray, upAcl,
                 upEvt, late, failed>>

(* Anything else is set aside, or dropped when there is no room for it.     *)
(* (The mutant writes every stray to the front of `stray`.)                  *)
SetAsideFirst(p) == <<p>>

SetAside(p) ==
  IF 2 * (Len(stray) + 1) =< StraySize THEN Append(stray, p) ELSE stray

GatherStray ==
  /\ gathering /\ Gathered < buf[1].want
  /\ \/ /\ evt # <<>>
        /\ evt' = Tail(evt) /\ acl' = acl
        /\ stray' = SetAside(EventPacket(Head(evt)))
     \/ /\ acl # <<>> /\ Head(acl).k = 1
        /\ acl' = Tail(acl) /\ evt' = evt
        /\ stray' = SetAside(AclPacket(Head(acl)))
  /\ cut' = (cut \/ 2 * (Len(stray) + 1) > StraySize)
  /\ UNCHANGED <<sent, raised, pdu, link, gathering, buf, start, upAcl, upEvt,
                 late, failed>>

(* What becomes of `buf`: the header gets the merged length and the strays   *)
(* go behind it, the last one clipped when the buffer ends inside it.  (The  *)
(* mutant leaves the header of the first fragment as it came.)               *)
Fitting ==
  IF RoomFor(2 * Len(stray)) THEN Len(stray) ELSE (BufSize - Gathered) \div 2

Appended == [i \in 1..Fitting |-> [stray[i] EXCEPT !.size = IF RoomFor(2 * i) THEN @ ELSE 0]]

MergedOldHeader == <<buf[1]>> \o Appended

Merged == <<[buf[1] EXCEPT !.len = Gathered]>> \o Appended

FinishGathering ==
  /\ buf' = Merged
  /\ gathering' = FALSE /\ stray' = <<>>
  /\ cut' = (cut \/ ~RoomFor(2 * Len(stray)))
  /\ UNCHANGED <<acl, evt, sent, raised, pdu, link, start, upAcl, upEvt, failed>>

GatherComplete ==
  /\ gathering /\ Gathered >= buf[1].want
  /\ FinishGathering
  /\ UNCHANGED late

(* The deadline is looked at only when the controller has nothing queued.   *)
GatherTimeout ==
  /\ gathering /\ Gathered < buf[1].want
  /\ acl = <<>> /\ evt = <<>>
  /\ FinishGathering
  /\ late' = TRUE

(* next() fails, in either place: read() returns the error, `start` has been *)
(* reset and `end` has not, and the strays are gone.                         *)
NextFails ==
  /\ \/ Empty
     \/ gathering /\ Gathered < buf[1].want
  /\ start' = 0
  /\ gathering' = FALSE /\ stray' = <<>>
  /\ failed' = TRUE
  /\ UNCHANGED <<acl, evt, sent, raised, pdu, link, buf, upAcl, upEvt, late, cut>>

(* read(): bleps takes the bytes of the next packet; they are all there, so  *)
(* no fill() comes in between.  When the header announces more than is there *)
(* bleps is out of step, and the model says nothing more.                    *)
InStep(p) == p.len = p.size

Read ==
  /\ ~gathering /\ start < Len(buf)
  /\ \A i \in 1..start : InStep(buf[i])
  /\ start' = start + 1
  /\ IF buf[start + 1].event
       THEN upEvt' = buf[start + 1].hi /\ upAcl' = upAcl
       ELSE upAcl' = buf[start + 1].hi /\ upEvt' = upEvt
  /\ UNCHANGED <<controller, gathering, buf, stray, late, cut, failed>>

Next ==
  \/ \E w \in Wants : SendFirst(w)
  \/ SendContinuation \/ RaiseEvent \/ Relink
  \/ FillEvent \/ FillAcl
  \/ GatherContinuation \/ GatherStray \/ GatherComplete \/ GatherTimeout
  \/ NextFails \/ Read

Spec == Init /\ [][Next]_vars

-----------------------------------------------------------------------------
HciTypeOK ==
  /\ acl \in Seq(Fragment) /\ evt \in Seq(Nat)
  /\ sent \in Nat /\ raised \in Nat
  /\ pdu \in [k : Nat, want : Nat]
  /\ link \in {"up", "down"} /\ gathering \in BOOLEAN
  /\ buf \in Seq(Packet) /\ start \in Nat /\ start =< Len(buf)
  /\ stray \in Seq(Packet)
  /\ upAcl \in Nat /\ upEvt \in Nat
  /\ late \in BOOLEAN /\ cut \in BOOLEAN /\ failed \in BOOLEAN

(* Whatever lies ready for bleps can be read to its end: every header says   *)
(* what is there, and a PDU's first fragment has all its continuations       *)
(* behind it, unless 200 ms passed without them (ble.rs:70-77).  Clipped     *)
(* packets and a failing controller are the exceptions.                      *)
ReadyIsWhole ==
  ~gathering /\ ~cut /\ ~failed =>
    \A i \in 1..Len(buf) :
      /\ InStep(buf[i]) /\ buf[i].len = buf[i].hi + 1 - buf[i].lo
      /\ buf[i].first => buf[i].len = buf[i].want \/ late

(* bleps gets every fragment and every event once and in the order of its    *)
(* kind, however fragments and events were interleaved and however late a    *)
(* continuation came: setting events aside loses and reorders nothing within *)
(* a kind.                                                                   *)
NothingSkipped ==
  [][Read /\ ~cut /\ ~failed =>
       IF buf[start + 1].event
         THEN buf[start + 1].lo = upEvt + 1
         ELSE buf[start + 1].lo = upAcl + 1]_vars
=============================================================================
