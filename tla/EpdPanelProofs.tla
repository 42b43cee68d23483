--------------------------- MODULE EpdPanelProofs ---------------------------
(***************************************************************************)
(* That the driver stays in step with the controller, and the App's copy   *)
(* with the glass, for all pictures, every length of a series of           *)
(* differential updates and any number of faults.  Each operator that      *)
(* yields outcomes gets one lemma: InStep is kept, whatever the outcome.   *)
(***************************************************************************)
EXTENDS EpdPanel, TLAPS

\* DriverInStep as a predicate of a device.
InStep(d, sleeping) ==
    /\ d \in Device
    /\ ~d.stray =>
        /\ d.chip.deaf <=> sleeping
        /\ d.drv.screen_on <=> d.chip.analog
        /\ sleeping \/ (d.chip.set /\ d.drv.face_known)
        /\ d.drv.face_known => (d.drv.face_odd <=> d.chip.face)

IInv ==
    /\ TypeOK
    /\ InStep(dev, epd_sleeping)
    /\ dev.stray => doubt
    /\ BaselineIsGlass

Outcome(o) == o.dev \in Device /\ o.ok \in BOOLEAN /\ (~o.ok => o.dev.stray)

-----------------------------------------------------------------------------
(* The driver's operations. *)

LEMMA DeviceFields ==
    ASSUME NEW d \in Device
    PROVE  /\ d.chip \in Chip /\ d.drv \in Driver /\ d.stray \in BOOLEAN
           /\ d.timeouts \in 0..MaxTimeout /\ d.resets \in 0..MaxResetFail
           /\ d.chip.glass \in Picture /\ d.chip.face \in BOOLEAN /\ d.chip.analog \in BOOLEAN
           /\ d.chip.deaf \in BOOLEAN /\ d.chip.set \in BOOLEAN
           /\ d.drv.screen_on \in BOOLEAN /\ d.drv.face_odd \in BOOLEAN
           /\ d.drv.face_known \in BOOLEAN
BY DEF Device, Chip, Driver

LEMMA TimedOutOk ==
    ASSUME NEW d \in Device, NEW o \in TimedOut(d)
    PROVE  Outcome(o) /\ ~o.ok /\ o.dev.stray /\ o.dev.chip = d.chip
<1>1. d.timeouts < MaxTimeout /\ o = [dev |-> [d EXCEPT !.timeouts = @ + 1, !.stray = TRUE], ok |-> FALSE]
  BY DEF TimedOut
<1>2. d.timeouts + 1 \in 0..MaxTimeout
  BY <1>1, DeviceFields, PanelAssumption
<1> QED
  BY <1>1, <1>2 DEF Outcome, Device

LEMMA HardResetOk ==
    ASSUME NEW d \in Device, NEW r \in HardReset(d)
    PROVE  r \in Device /\ (d.stray => r.stray)
<1>1. CASE r = [d EXCEPT !.chip = Cleared(@)]
  BY <1>1, DeviceFields DEF Cleared, Device, Chip
<1>2. ASSUME d.resets < MaxResetFail,
             NEW c \in {d.chip, [Cleared(d.chip) EXCEPT !.deaf = TRUE]},
             r = [d EXCEPT !.resets = @ + 1, !.stray = TRUE, !.chip = c]
      PROVE  r \in Device /\ (d.stray => r.stray)
  <2>1. d.resets + 1 \in 0..MaxResetFail
    BY <1>2, DeviceFields, PanelAssumption
  <2>2. c \in Chip
    BY <1>2, DeviceFields DEF Cleared, Chip
  <2> QED
    BY <1>2, <2>1, <2>2 DEF Device
<1> QED
  BY <1>1, <1>2 DEF HardReset

\* Whatever the controller was before, an init() that works leaves it in step.
LEMMA InitDriverOk ==
    ASSUME NEW d \in Device, NEW o \in InitDriver(d)
    PROVE  Outcome(o) /\ InStep(o.dev, FALSE)
<1> DEFINE reset == IF d.chip.deaf THEN d ELSE [d EXCEPT !.chip = Cleared(@)]
           set == IF d.chip.deaf THEN d ELSE [reset EXCEPT !.chip.set = TRUE]
<1>1. reset \in Device
  BY DeviceFields DEF Cleared, Device, Chip
<1>2. set \in Device
  BY <1>1, DeviceFields DEF Device, Chip
<1>3. CASE o \in TimedOut(d) \cup TimedOut(reset) \cup TimedOut(set)
  BY <1>1, <1>2, <1>3, TimedOutOk DEF InStep, Outcome
<1>4. CASE o = Done([set EXCEPT !.drv = Fresh, !.stray = d.chip.deaf])
  <2>1. o.ok = TRUE /\ o.dev = [set EXCEPT !.drv = Fresh, !.stray = d.chip.deaf]
    BY <1>4 DEF Done
  <2>2. /\ o.dev \in Device /\ o.dev.stray = d.chip.deaf /\ o.dev.chip = set.chip
        /\ ~o.dev.drv.screen_on /\ ~o.dev.drv.face_odd /\ o.dev.drv.face_known
    <3> HIDE DEF set
    <3>1. Fresh \in Driver /\ d.chip.deaf \in BOOLEAN
      BY DeviceFields DEF Driver, Fresh
    <3>2. /\ o.dev \in Device /\ o.dev.stray = d.chip.deaf /\ o.dev.chip = set.chip
          /\ o.dev.drv = Fresh
      BY <1>2, <2>1, <3>1 DEF Device
    <3>3. ~Fresh.screen_on /\ ~Fresh.face_odd /\ Fresh.face_known
      BY DEF Fresh
    <3> QED
      BY <3>2, <3>3
  <2>3. ~d.chip.deaf => ~set.chip.deaf /\ ~set.chip.analog /\ set.chip.set /\ ~set.chip.face
    BY DeviceFields DEF Cleared, Device, Chip
  <2> HIDE DEF set
  <2> QED
    BY <2>1, <2>2, <2>3 DEF Outcome, InStep
<1> QED
  BY <1>3, <1>4 DEF InitDriver

LEMMA EnsureKnownFaceOk ==
    ASSUME NEW d, InStep(d, FALSE), NEW o \in EnsureKnownFace(d)
    PROVE  Outcome(o) /\ InStep(o.dev, FALSE) /\ (~d.stray => o = Done(d))
<1>1. d \in Device
  BY DEF InStep
<1>2. CASE d.drv.face_known
  <2>1. o = Done(d) /\ o.dev = d /\ o.ok = TRUE
    BY <1>2 DEF EnsureKnownFace, Done
  <2> QED
    BY <1>1, <2>1 DEF Outcome
<1>3. CASE ~d.drv.face_known
  BY <1>1, <1>3, InitDriverOk DEF EnsureKnownFace, InStep
<1> QED
  BY <1>2, <1>3

\* An activation that works, by a driver in step, shows its picture.
LEMMA ActivateOk ==
    ASSUME NEW d \in Device, InStep(d, FALSE), NEW mode \in {1, 2}, NEW picture \in Picture,
           NEW o \in Activate(d, mode, picture)
    PROVE  /\ Outcome(o) /\ InStep(o.dev, FALSE)
           /\ ~o.dev.stray => ~d.stray /\ o.ok /\ o.dev.chip.glass = picture
<1> DEFINE shown == [d.chip EXCEPT !.glass = picture, !.analog = (mode = 2),
                                   !.face = (mode = 2 /\ ~@)]
           chip == IF Works(d) THEN shown ELSE d.chip
           drv == [screen_on |-> mode = 2, face_odd |-> FaceAfter(d.drv, mode),
                   face_known |-> d.drv.face_known \/ mode = 1]
<1>1. d \in Device /\ [d EXCEPT !.chip = chip] \in Device
  BY DeviceFields, ZenonT(30) DEF InStep, Device, Chip
<1>2. CASE o \in TimedOut(d) \cup TimedOut([d EXCEPT !.chip = chip])
  BY <1>1, <1>2, TimedOutOk DEF Outcome, InStep
<1>3. CASE o = Done([d EXCEPT !.chip = chip, !.drv = drv])
  <2>1. drv \in Driver
    BY <1>1, DeviceFields DEF Driver, FaceAfter
  <2>2. /\ o.ok = TRUE /\ o.dev \in Device /\ o.dev.chip = chip /\ o.dev.drv = drv
        /\ o.dev.stray = d.stray
    BY ZenonT(60), <1>1, <1>3, <2>1 DEF Done, Device
  <2>3. CASE d.stray
    BY <2>2, <2>3 DEF Outcome, InStep
  <2>4. CASE ~d.stray
    <3>1. /\ ~d.chip.deaf /\ d.chip.set /\ d.drv.face_known
          /\ d.drv.screen_on <=> d.chip.analog
          /\ d.drv.face_odd <=> d.chip.face
      BY <2>4 DEF InStep
    <3>2. Works(d)
      BY <1>1, <3>1, DeviceFields DEF Works
    <3>3. /\ chip.glass = picture /\ (chip.analog <=> mode = 2) /\ ~chip.deaf /\ chip.set
          /\ chip.face <=> (mode = 2 /\ ~d.chip.face)
      BY <1>1, <3>1, <3>2, DeviceFields DEF Chip
    <3>4. /\ drv.face_known /\ (drv.screen_on <=> mode = 2)
          /\ drv.face_odd <=> (mode = 2 /\ ~d.drv.face_odd)
      BY <3>1 DEF FaceAfter
    <3>5. /\ ~o.dev.stray /\ o.ok /\ o.dev.chip.glass = picture
          /\ ~o.dev.chip.deaf /\ o.dev.chip.set /\ o.dev.drv.face_known
          /\ o.dev.drv.screen_on <=> o.dev.chip.analog
          /\ o.dev.drv.face_odd <=> o.dev.chip.face
      BY <2>2, <2>4, <3>1, <3>3, <3>4
    <3> QED
      BY <2>2, <2>4, <3>5 DEF Outcome, InStep
  <2> QED
    BY <2>3, <2>4
<1> QED
  BY <1>2, <1>3 DEF Activate

\* Exchanging the middle levels twice, on the same face, changes nothing.
LEMMA ExchangedOk ==
    ASSUME NEW l \in Level, NEW a \in BOOLEAN, NEW b \in BOOLEAN
    PROVE  Exchanged(a, Exchanged(b, l)) \in Level /\ (a = b => Exchanged(a, Exchanged(b, l)) = l)
BY DEF Exchanged, Level

LEMMA RefreshGray4Ok ==
    ASSUME NEW d, InStep(d, FALSE), NEW f \in Picture, NEW o \in RefreshGray4(d, f)
    PROVE  /\ Outcome(o) /\ InStep(o.dev, FALSE)
           /\ o.ok /\ ~o.dev.stray => o.dev.chip.glass = f
<1>1. PICK e \in EnsureKnownFace(d) :
        o \in IF e.ok
              THEN Activate(e.dev, 1, [r \in Region |->
                     Exchanged(e.dev.chip.face, Exchanged(e.dev.drv.face_odd, f[r]))])
              ELSE {e}
  BY DEF RefreshGray4
<1> DEFINE sent == [r \in Region |-> Exchanged(e.dev.chip.face, Exchanged(e.dev.drv.face_odd, f[r]))]
<1>2. Outcome(e) /\ InStep(e.dev, FALSE)
  BY EnsureKnownFaceOk
<1>3. CASE ~e.ok
  BY <1>1, <1>2, <1>3
<1>4. CASE e.ok
  <2>1. o \in Activate(e.dev, 1, sent)
    BY <1>1, <1>4
  <2>2. e.dev \in Device /\ e.dev.chip.face \in BOOLEAN /\ e.dev.drv.face_odd \in BOOLEAN
    BY <1>2, DeviceFields DEF Outcome
  <2>3. \A r \in Region : f[r] \in Level
    BY DEF Picture
  <2>4. sent \in Picture
    BY <2>2, <2>3, ExchangedOk DEF Picture
  <2>5. /\ Outcome(o) /\ InStep(o.dev, FALSE)
        /\ ~o.dev.stray => ~e.dev.stray /\ o.ok /\ o.dev.chip.glass = sent
    <3> HIDE DEF sent
    <3>1. InStep(e.dev, FALSE) /\ e.dev \in Device
      BY <1>2 DEF Outcome
    <3>2. \A m \in {1, 2} : \A p \in Picture : \A x \in Activate(e.dev, m, p) :
            /\ Outcome(x) /\ InStep(x.dev, FALSE)
            /\ ~x.dev.stray => ~e.dev.stray /\ x.ok /\ x.dev.chip.glass = p
      BY <3>1, ActivateOk
    <3> QED
      BY <3>2, <2>1, <2>4
  <2>6. ASSUME ~e.dev.stray PROVE sent = f
    <3>1. e.dev.chip.face = e.dev.drv.face_odd
      BY <1>2, <2>2, <2>6 DEF InStep
    <3>2. \A r \in Region : Exchanged(e.dev.chip.face, Exchanged(e.dev.drv.face_odd, f[r])) = f[r]
      BY <2>2, <2>3, <3>1, ExchangedOk
    <3> QED
      BY <3>2 DEF Picture
  <2> QED
    BY <2>5, <2>6
<1> QED
  BY <1>2, <1>3, <1>4 DEF Outcome

\* A differential update from the picture that is on the glass: the window
\* becomes the monochrome view of the new one, the rest is held.
LEMMA DrivenOk ==
    ASSUME NEW new \in Level, NEW old \in Level
    PROVE  /\ Driven(Msb(old), Msb(old), old) = old
           /\ Driven(Msb(new), IF Msb(new) THEN Lsb(old) /\ Msb(old) ELSE Lsb(old) \/ Msb(old), old)
                = (IF Msb(new) THEN 3 ELSE 0)
BY DEF Driven, Msb, Lsb, Level

LEMMA RefreshFastestOk ==
    ASSUME NEW d, InStep(d, FALSE), NEW new \in Picture, NEW old \in Picture,
           NEW o \in RefreshFastest(d, new, old)
    PROVE  /\ Outcome(o) /\ InStep(o.dev, FALSE)
           /\ ~d.stray /\ ~o.dev.stray /\ d.chip.glass = old
                => o.ok /\ o.dev.chip.glass = ApplyMonoRegion(old, new)
<1> DEFINE bw(r) == IF r = "window" THEN Msb(new[r]) ELSE Msb(old[r])
           red(r) == IF r # "window" THEN Msb(old[r])
                     ELSE IF Msb(new[r]) THEN Lsb(old[r]) /\ Msb(old[r])
                     ELSE Lsb(old[r]) \/ Msb(old[r])
<1>1. PICK e \in EnsureKnownFace(d) :
        o \in IF e.ok
              THEN Activate(e.dev, 2, [r \in Region |-> Driven(bw(r), red(r), e.dev.chip.glass[r])])
              ELSE {e}
  BY DEF RefreshFastest
<1> DEFINE shown == [r \in Region |-> Driven(bw(r), red(r), e.dev.chip.glass[r])]
<1>2. Outcome(e) /\ InStep(e.dev, FALSE) /\ (~d.stray => e = Done(d))
  BY EnsureKnownFaceOk
<1>3. CASE ~e.ok
  BY <1>1, <1>2, <1>3 DEF Done, Outcome
<1>4. CASE e.ok
  <2>1. o \in Activate(e.dev, 2, shown)
    BY <1>1, <1>4
  <2>2. e.dev.chip.glass \in Picture
    BY <1>2, DeviceFields DEF Outcome
  <2>3. \A r \in Region : new[r] \in Level /\ old[r] \in Level /\ e.dev.chip.glass[r] \in Level
    BY <2>2 DEF Picture
  <2>4. shown \in Picture
    BY <2>3 DEF Driven, Picture, Level
  <2>5. /\ Outcome(o) /\ InStep(o.dev, FALSE)
        /\ ~o.dev.stray => ~e.dev.stray /\ o.ok /\ o.dev.chip.glass = shown
    <3> HIDE DEF shown
    <3>1. InStep(e.dev, FALSE) /\ e.dev \in Device
      BY <1>2 DEF Outcome
    <3>2. \A m \in {1, 2} : \A p \in Picture : \A x \in Activate(e.dev, m, p) :
            /\ Outcome(x) /\ InStep(x.dev, FALSE)
            /\ ~x.dev.stray => ~e.dev.stray /\ x.ok /\ x.dev.chip.glass = p
      BY <3>1, ActivateOk
    <3> QED
      BY <3>2, <2>1, <2>4
  <2>6. ASSUME ~d.stray, d.chip.glass = old PROVE shown = ApplyMonoRegion(old, new)
    <3>1. e.dev.chip.glass = old
      BY <1>2, <2>6 DEF Done
    <3>2. shown["body"] = old["body"]
      BY <2>3, <3>1, DrivenOk DEF Region
    <3>3. shown["window"] = (IF Msb(new["window"]) THEN 3 ELSE 0)
      BY <2>3, <3>1, DrivenOk DEF Region
    <3> QED
      BY <2>4, <3>2, <3>3 DEF ApplyMonoRegion, Picture, Region
  <2> QED
    BY <2>5, <2>6
<1> QED
  BY <1>2, <1>3, <1>4 DEF Outcome

LEMMA DeepSleepOk ==
    ASSUME NEW d, InStep(d, FALSE), NEW o \in DeepSleep(d)
    PROVE  Outcome(o) /\ InStep(o.dev, TRUE)
<1> DEFINE off == [d EXCEPT !.chip.analog = FALSE]
           slept == [off EXCEPT !.drv.screen_on = FALSE, !.drv.face_known = FALSE,
                                !.chip.deaf = TRUE]
<1>1. d \in Device /\ off \in Device
  BY DeviceFields DEF InStep, Device, Chip
<1>2. CASE o \in TimedOut(d) \cup TimedOut(off)
  BY <1>1, <1>2, TimedOutOk DEF Outcome, InStep
<1>3. CASE o = Done(slept)
  <2>1. /\ slept \in Device /\ slept.chip.deaf /\ ~slept.drv.screen_on /\ ~slept.chip.analog
        /\ ~slept.drv.face_known
    BY <1>1, DeviceFields, ZenonT(30) DEF Device, Chip, Driver
  <2> QED
    BY <1>3, <2>1 DEF Done, Outcome, InStep
<1> QED
  BY <1>2, <1>3 DEF DeepSleep

-----------------------------------------------------------------------------
(* The App's operations. *)

LEMMA ReinitOk ==
    ASSUME NEW d \in Device, NEW r \in Reinit(d)
    PROVE  r \in Device /\ InStep(r, FALSE)
<1>1. PICK h \in HardReset(d) : \E o \in InitDriver(h) : r = o.dev
  BY DEF Reinit
<1>2. h \in Device
  BY HardResetOk
<1>3. PICK o \in InitDriver(h) : r = o.dev
  BY <1>1
<1> QED
  BY <1>2, <1>3, InitDriverOk DEF Outcome

LEMMA WakeEpdOk ==
    ASSUME IInv, NEW d \in WakeEpd(dev)
    PROVE  d \in Device /\ InStep(d, FALSE) /\ (~epd_sleeping => d = dev)
<1>1. dev \in Device /\ InStep(dev, epd_sleeping) /\ epd_sleeping \in BOOLEAN
  BY DEF IInv, TypeOK
<1>2. CASE epd_sleeping
  BY <1>1, <1>2, ReinitOk DEF WakeEpd
<1>3. CASE ~epd_sleeping
  <2>1. d = dev
    BY <1>3 DEF WakeEpd
  <2>2. InStep(dev, FALSE)
    BY <1>1, <1>3 DEF InStep
  <2> QED
    BY <1>1, <1>3, <2>1, <2>2
<1> QED
  BY <1>2, <1>3

\* What an absolute refresh of f may end in.
Refreshed(o, f) ==
    /\ o.dev \in Device /\ o.ok \in BOOLEAN /\ InStep(o.dev, FALSE)
    /\ o.ok /\ ~o.dev.stray => o.dev.chip.glass = f

LEMMA AttemptOk ==
    ASSUME NEW d, InStep(d, FALSE), NEW f \in Picture,
           NEW o \in UNION {IF x.ok THEN {x} ELSE {[dev |-> r, ok |-> FALSE] : r \in Reinit(x.dev)} :
                               x \in RefreshGray4(d, f)}
    PROVE  Refreshed(o, f)
<1>1. PICK x \in RefreshGray4(d, f) :
        o \in IF x.ok THEN {x} ELSE {[dev |-> r, ok |-> FALSE] : r \in Reinit(x.dev)}
  OBVIOUS
<1>2. /\ Outcome(x) /\ InStep(x.dev, FALSE)
      /\ x.ok /\ ~x.dev.stray => x.dev.chip.glass = f
  BY RefreshGray4Ok
<1>3. CASE x.ok
  BY <1>1, <1>2, <1>3 DEF Outcome, Refreshed
<1>4. CASE ~x.ok
  <2>1. PICK r \in Reinit(x.dev) : o = [dev |-> r, ok |-> FALSE]
    BY <1>1, <1>4
  <2>2. r \in Device /\ InStep(r, FALSE)
    BY <1>2, ReinitOk DEF Outcome
  <2> QED
    BY <2>1, <2>2 DEF Refreshed
<1> QED
  BY <1>3, <1>4

LEMMA EpdRefreshOk ==
    ASSUME NEW d, InStep(d, FALSE), NEW f \in Picture, NEW o \in EpdRefresh(d, f)
    PROVE  Refreshed(o, f)
<1> DEFINE Attempt(e) ==
             UNION {IF x.ok THEN {x} ELSE {[dev |-> r, ok |-> FALSE] : r \in Reinit(x.dev)} :
                      x \in RefreshGray4(e, f)}
<1>1. PICK x \in Attempt(d) : o \in IF x.ok THEN {x} ELSE Attempt(x.dev)
  BY DEF EpdRefresh
<1>2. Refreshed(x, f)
  BY AttemptOk
<1>3. CASE x.ok
  BY <1>1, <1>2, <1>3
<1>4. CASE ~x.ok
  <2>1. o \in Attempt(x.dev) /\ InStep(x.dev, FALSE)
    BY <1>1, <1>2, <1>4 DEF Refreshed
  <2> QED
    BY <2>1, AttemptOk
<1> QED
  BY <1>3, <1>4

\* Board::init() leaves the panel in step, or astray.
LEMMA BoardInitOk ==
    ASSUME NEW d \in Device, NEW b \in BoardInit(d)
    PROVE  b \in Device /\ InStep(b, FALSE)
<1> DEFINE Again(devs) == UNION {UNION {IF o.ok THEN {o} ELSE
                                          {[dev |-> r, ok |-> FALSE] : r \in HardReset(o.dev)} :
                                        o \in InitDriver(e)} : e \in devs}
           Left(outcomes) == {o.dev : o \in {x \in outcomes : ~x.ok}}
           new == [d EXCEPT !.drv = [Fresh EXCEPT !.face_known = FALSE]]
           first == Again(HardReset(new))
           second == Again(Left(first))
           third == Again(Left(second))
<1>1. ASSUME NEW devs \in SUBSET Device, NEW o \in Again(devs)
      PROVE  o.dev \in Device /\ InStep(o.dev, FALSE)
  <2>0. PICK e \in devs : \E x \in InitDriver(e) :
          o \in IF x.ok THEN {x} ELSE {[dev |-> r, ok |-> FALSE] : r \in HardReset(x.dev)}
    BY <1>1
  <2>1. PICK x \in InitDriver(e) :
          o \in IF x.ok THEN {x} ELSE {[dev |-> r, ok |-> FALSE] : r \in HardReset(x.dev)}
    BY <2>0
  <2>2. Outcome(x) /\ InStep(x.dev, FALSE)
    BY <1>1, InitDriverOk
  <2>3. CASE x.ok
    BY <2>1, <2>2, <2>3 DEF Outcome
  <2>4. CASE ~x.ok
    <3>1. PICK r \in HardReset(x.dev) : o = [dev |-> r, ok |-> FALSE]
      BY <2>1, <2>4
    <3>2. r \in Device /\ r.stray
      BY <2>2, <2>4, HardResetOk DEF Outcome
    <3> QED
      BY <3>1, <3>2 DEF InStep
  <2> QED
    BY <2>3, <2>4
<1>2. HardReset(new) \in SUBSET Device
  <2>1. new \in Device
    BY DEF Device, Driver, Fresh
  <2> QED
    BY <2>1, HardResetOk
<1>3. \A o \in first : o.dev \in Device /\ InStep(o.dev, FALSE)
  <2> HIDE DEF Again, new
  <2> QED
    BY <1>1, <1>2
<1>4. Left(first) \in SUBSET Device
  BY <1>3
<1>5. \A o \in second : o.dev \in Device /\ InStep(o.dev, FALSE)
  <2> HIDE DEF Again, Left, first
  <2> QED
    BY <1>1, <1>4
<1>6. Left(second) \in SUBSET Device
  BY <1>5
<1>7. \A o \in third : o.dev \in Device /\ InStep(o.dev, FALSE)
  <2> HIDE DEF Again, Left, second
  <2> QED
    BY <1>1, <1>6
<1>8. b \in {o.dev : o \in {x \in first \cup second : x.ok} \cup third}
  BY DEF BoardInit
<1> QED
  <2> HIDE DEF first, second, third
  <2> QED
    BY <1>3, <1>5, <1>7, <1>8
-----------------------------------------------------------------------------
(* The steps. *)

LEMMA CounterOk ==
    ASSUME NEW n \in Nat
    PROVE  Counted(n) \in 0..(FASTEST_PER_FULL - 1)
BY PanelAssumption DEF Counted

LEMMA InitOk == Init => IInv
<1> SUFFICES ASSUME Init PROVE IInv
  OBVIOUS
<1>1. plate \in Plates /\ plate \in Picture
  BY PanelAssumption DEF Init
<1>2. dev \in Device
  BY <1>1, PanelAssumption DEF Init, Device, Chip, Driver, Fresh
<1>3. InStep(dev, epd_sleeping)
  BY <1>2 DEF Init, InStep, Fresh
<1>4. TypeOK
  <2>1. 0 \in 0..(FASTEST_PER_FULL - 1) /\ 0 \in 0..MaxBoot
    BY PanelAssumption
  <2>2. /\ fb = plate /\ displayed = plate /\ epd_sleeping = FALSE /\ doubt = FALSE
        /\ fast_refreshes = 0 /\ boots = 0
    BY DEF Init
  <2> QED
    BY <1>1, <1>2, <2>1, <2>2 DEF TypeOK
<1> QED
  BY <1>3, <1>4 DEF Init, IInv, BaselineIsGlass

LEMMA RedrawStep ==
    ASSUME IInv, NEW p \in Plates, Redraw(p)
    PROVE  IInv'
<1>1. TypeOK /\ p \in Picture
  BY PanelAssumption DEF IInv
<1> DEFINE Drawn(o) ==
             /\ dev' = o.dev /\ displayed' = (IF o.ok THEN p ELSE displayed)
             /\ doubt' = DoubtAfter(o)
<1>0. PICK d \in WakeEpd(dev) : \E o \in EpdRefresh(d, p) : Drawn(o)
  BY DEF Redraw
<1>2. PICK o \in EpdRefresh(d, p) : Drawn(o)
  BY <1>0
<1>3. Refreshed(o, p)
  BY <1>1, WakeEpdOk, EpdRefreshOk
<1>4. /\ plate' = p /\ fb' = p /\ epd_sleeping' = FALSE /\ boots' = boots
      /\ fast_refreshes' = Counted(1)
  BY DEF Redraw
<1>5. fast_refreshes' \in 0..(FASTEST_PER_FULL - 1)
  BY <1>4, CounterOk
<1>6. TypeOK'
  BY <1>1, <1>2, <1>3, <1>4, <1>5, DeviceFields DEF TypeOK, Refreshed, DoubtAfter
<1>7. InStep(dev, epd_sleeping)'
  BY <1>2, <1>3, <1>4 DEF Refreshed, InStep
<1>8. (dev'.stray => doubt') /\ (~doubt' => displayed' = dev'.chip.glass)
  BY <1>2, <1>3 DEF Refreshed, DoubtAfter
<1> QED
  BY <1>6, <1>7, <1>8 DEF IInv, BaselineIsGlass

LEMMA NewTagStep ==
    ASSUME IInv, NEW l \in TagLevels, OnNewTag(l)
    PROVE  IInv'
<1> DEFINE f == [fb EXCEPT !["window"] = l]
           fast == IF epd_sleeping THEN 0 ELSE fast_refreshes
<1>1. /\ TypeOK /\ l \in Level /\ f \in Picture /\ fast \in Nat
      /\ displayed \in Picture /\ doubt \in BOOLEAN
  <2>1. TypeOK /\ l \in Level
    BY PanelAssumption DEF IInv
  <2>2. fb \in Picture /\ displayed \in Picture /\ doubt \in BOOLEAN
    BY <2>1 DEF TypeOK
  <2>3. f \in Picture
    BY <2>1, <2>2 DEF Picture
  <2>4. fast_refreshes \in Nat
    BY <2>1, PanelAssumption DEF TypeOK
  <2> QED
    BY <2>1, <2>2, <2>3, <2>4
<1>2. /\ fb' = f /\ epd_sleeping' = FALSE /\ plate' = plate /\ boots' = boots
      /\ fast_refreshes' = Counted(fast + 1)
  BY DEF OnNewTag
<1>3. fast_refreshes' \in 0..(FASTEST_PER_FULL - 1)
  <2>1. fast + 1 \in Nat
    BY <1>1
  <2> QED
    BY <1>2, <2>1, CounterOk
<1>4. PICK d \in WakeEpd(dev) :
        \/ /\ fast = 0
           /\ \E o \in EpdRefresh(d, f) :
                /\ dev' = o.dev /\ displayed' = (IF o.ok THEN f ELSE displayed)
                /\ doubt' = DoubtAfter(o)
        \/ /\ fast # 0
           /\ \E o \in RefreshFastest(d, f, displayed) :
                /\ dev' = o.dev
                /\ displayed' = (IF o.ok THEN ApplyMonoRegion(displayed, f) ELSE displayed)
                /\ doubt' = (doubt \/ o.dev.stray)
  BY DEF OnNewTag
<1>5. InStep(d, FALSE) /\ (~epd_sleeping => d = dev)
  BY WakeEpdOk
<1>6. /\ dev' \in Device /\ displayed' \in Picture /\ doubt' \in BOOLEAN
      /\ InStep(dev', FALSE) /\ (dev'.stray => doubt')
      /\ ~doubt' => displayed' = dev'.chip.glass
  <2>1. CASE fast = 0
    <3>1. PICK o \in EpdRefresh(d, f) :
            /\ dev' = o.dev /\ displayed' = (IF o.ok THEN f ELSE displayed)
            /\ doubt' = DoubtAfter(o)
      BY <1>4, <2>1
    <3>2. Refreshed(o, f)
      <4> HIDE DEF f
      <4> QED
        BY <1>1, <1>5, EpdRefreshOk
    <3> QED
      BY <1>1, <3>1, <3>2, DeviceFields DEF Refreshed, DoubtAfter
  <2>2. CASE fast # 0
    <3>1. PICK o \in RefreshFastest(d, f, displayed) :
            /\ dev' = o.dev
            /\ displayed' = (IF o.ok THEN ApplyMonoRegion(displayed, f) ELSE displayed)
            /\ doubt' = (doubt \/ o.dev.stray)
      BY <1>4, <2>2
    <3>2. /\ Outcome(o) /\ InStep(o.dev, FALSE)
          /\ ~d.stray /\ ~o.dev.stray /\ d.chip.glass = displayed
               => o.ok /\ o.dev.chip.glass = ApplyMonoRegion(displayed, f)
      <4> HIDE DEF f
      <4> QED
        BY <1>1, <1>5, RefreshFastestOk
    <3>3. ~epd_sleeping /\ fast_refreshes # 0 /\ d = dev
      BY <1>5, <2>2
    <3>4. ~doubt => ~d.stray /\ d.chip.glass = displayed
      BY <3>3 DEF IInv, BaselineIsGlass
    <3>5. ApplyMonoRegion(displayed, f) \in Picture
      BY <1>1 DEF ApplyMonoRegion, Picture, Level
    <3> QED
      BY <1>1, <3>1, <3>2, <3>4, <3>5, DeviceFields DEF Outcome
  <2> QED
    BY <2>1, <2>2
<1>7. TypeOK'
  BY <1>1, <1>2, <1>3, <1>6 DEF TypeOK
<1>8. InStep(dev, epd_sleeping)'
  BY <1>2, <1>6 DEF InStep
<1> QED
  BY <1>6, <1>7, <1>8 DEF IInv, BaselineIsGlass

LEMMA EpdSleepStep ==
    ASSUME IInv, ManageEpdSleep
    PROVE  IInv'
<1>1. TypeOK /\ InStep(dev, FALSE)
  BY DEF IInv, ManageEpdSleep, TypeOK, InStep
<1>2. PICK o \in DeepSleep(dev) : dev' = o.dev /\ doubt' = (doubt \/ o.dev.stray)
  BY DEF ManageEpdSleep
<1>3. Outcome(o) /\ InStep(o.dev, TRUE)
  BY <1>1, DeepSleepOk
<1>4. epd_sleeping' = TRUE /\ UNCHANGED <<fb, displayed, fast_refreshes, plate, boots>>
  BY DEF ManageEpdSleep
<1>5. TypeOK'
  BY <1>1, <1>2, <1>3, <1>4, DeviceFields DEF TypeOK, Outcome
<1>6. InStep(dev, epd_sleeping)'
  BY <1>2, <1>3, <1>4 DEF InStep
<1> QED
  BY <1>2, <1>4, <1>5, <1>6 DEF IInv, BaselineIsGlass

\* A boot starts with a full refresh or with none: no baseline is needed.
LEMMA BootOk ==
    ASSUME TypeOK, NEW d \in Device, NEW woke \in BOOLEAN, plate' \in Plates, Boot(d, woke)
    PROVE  IInv'
<1>1. /\ boots < MaxBoot /\ boots' = boots + 1 /\ fb' = plate' /\ displayed' = plate'
      /\ epd_sleeping' = FALSE /\ fast_refreshes' = 0
  BY DEF Boot
<1>2. plate' \in Picture /\ boots' \in 0..MaxBoot /\ fast_refreshes' \in 0..(FASTEST_PER_FULL - 1)
  BY <1>1, PanelAssumption DEF TypeOK
<1>3. PICK b \in BoardInit(d) :
        \/ woke /\ dev' = b /\ doubt' = (doubt \/ b.stray)
        \/ ~woke /\ \E o \in EpdRefresh(b, plate') : dev' = o.dev /\ doubt' = DoubtAfter(o)
  BY DEF Boot
<1>4. b \in Device /\ InStep(b, FALSE)
  BY BoardInitOk
<1>5. dev' \in Device /\ InStep(dev', FALSE) /\ doubt' \in BOOLEAN /\ (dev'.stray => doubt')
  <2>1. CASE woke
    BY <1>3, <1>4, <2>1, DeviceFields DEF TypeOK
  <2>2. CASE ~woke
    <3>1. PICK o \in EpdRefresh(b, plate') : dev' = o.dev /\ doubt' = DoubtAfter(o)
      BY <1>3, <2>2
    <3>2. Refreshed(o, plate')
      BY <1>2, <1>4, EpdRefreshOk
    <3> QED
      BY <3>1, <3>2, DeviceFields DEF Refreshed, DoubtAfter
  <2> QED
    BY <2>1, <2>2
<1>6. TypeOK'
  BY <1>1, <1>2, <1>5 DEF TypeOK
<1>7. InStep(dev, epd_sleeping)'
  BY <1>1, <1>5 DEF InStep
<1> QED
  BY <1>1, <1>5, <1>6, <1>7 DEF IInv, BaselineIsGlass

LEMMA SleepAndWakeStep ==
    ASSUME IInv, SleepAndWake
    PROVE  IInv'
<1>1. TypeOK /\ dev \in Device /\ plate' \in Plates
  BY DEF IInv, TypeOK, SleepAndWake
<1>2. CASE Boot(dev, TRUE)
  BY <1>1, <1>2, BootOk
<1>3. CASE ~epd_sleeping /\ \E o \in DeepSleep(dev) : Boot(o.dev, TRUE)
  <2>1. PICK o \in DeepSleep(dev) : Boot(o.dev, TRUE)
    BY <1>3
  <2>2. InStep(dev, FALSE)
    BY <1>3 DEF IInv, InStep
  <2>3. o.dev \in Device
    BY <2>2, DeepSleepOk DEF Outcome
  <2> QED
    BY <1>1, <2>1, <2>3, BootOk
<1> QED
  BY <1>2, <1>3 DEF SleepAndWake

LEMMA PowerLossStep ==
    ASSUME IInv, PowerLoss
    PROVE  IInv'
<1>1. TypeOK /\ dev \in Device /\ plate' \in Plates
  BY DEF IInv, TypeOK, PowerLoss
<1>2. PICK glass \in Picture :
        Boot([dev EXCEPT !.chip = [Cleared(@) EXCEPT !.glass = glass]], FALSE)
  BY DEF PowerLoss
<1>3. [dev EXCEPT !.chip = [Cleared(@) EXCEPT !.glass = glass]] \in Device
  BY <1>1, DeviceFields DEF Cleared, Device, Chip
<1> QED
  BY <1>1, <1>2, <1>3, BootOk

LEMMA NextOk ==
    ASSUME IInv, [Next]_vars
    PROVE  IInv'
<1>1. CASE Next
  BY <1>1, RedrawStep, NewTagStep, EpdSleepStep, SleepAndWakeStep, PowerLossStep DEF Next
<1>2. CASE UNCHANGED vars
  BY <1>2 DEF IInv, TypeOK, InStep, BaselineIsGlass, vars
<1> QED
  BY <1>1, <1>2

-----------------------------------------------------------------------------
(* Results. *)

\* IInv is an invariant.
THEOREM Inductive == Spec => []IInv
BY InitOk, NextOk, PTL DEF Spec

\* Controller, driver and App keep their types, and the glass shows a picture.
THEOREM TypeCorrect == Spec => []TypeOK
<1>1. IInv => TypeOK
  BY DEF IInv
<1> QED
  BY <1>1, Inductive, PTL

\* Once init() has worked after the last fault, the driver knows the
\* controller's face and supply, and the App knows whether it sleeps.
THEOREM DriverKnows == Spec => []DriverInStep
<1>1. IInv => DriverInStep
  BY DEF IInv, InStep, DriverInStep
<1> QED
  BY <1>1, Inductive, PTL

\* A differential update starts from what is on the glass, unless a fault
\* happened since the last full refresh that worked; also after sleep, after a
\* boot and however many differential updates came before.
THEOREM BaselineCorrect == Spec => []BaselineIsGlass
<1>1. IInv => BaselineIsGlass
  BY DEF IInv
<1> QED
  BY <1>1, Inductive, PTL
=============================================================================
