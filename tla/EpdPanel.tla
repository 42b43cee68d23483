------------------------------ MODULE EpdPanel ------------------------------
(***************************************************************************)
(* The e-paper panel: what is on the glass, what the SSD1677 controller    *)
(* does, what its driver (ssd1677/mod.rs) and the App (app/mod.rs) believe *)
(* of both.  The App draws in two ways: absolute refreshes of the frame    *)
(* buffer, and differential ones of a window, computed from the App's copy *)
(* of the glass.  Any wait for BUSY may time out and any pulse on the      *)
(* reset line may fail; the App ignores most of these results.             *)
(*                                                                         *)
(* Abstractions.  A picture is one pixel inside the tag panel's window and *)
(* one outside.  The App is one thread, so a handler is one step; the      *)
(* driver's operations are sets of outcomes.  SPI does not fail.           *)
(***************************************************************************)
EXTENDS Naturals

CONSTANTS
    Plates,             \* pictures that plate::draw() makes
    TagLevels,          \* levels that ui::draw_tag_panel() leaves in the window
    FASTEST_PER_FULL,
    MaxTimeout, MaxResetFail, MaxBoot

Level == 0..3           \* 0 is black, 3 is white
Region == {"body", "window"}
Picture == [Region -> Level]

ASSUME PanelAssumption ==
    /\ Plates \subseteq Picture /\ Plates # {}
    /\ TagLevels \subseteq Level
    /\ FASTEST_PER_FULL \in Nat \ {0}
    /\ MaxTimeout \in Nat /\ MaxResetFail \in Nat /\ MaxBoot \in Nat

VARIABLES
    dev,                \* the controller, its driver, and the faults so far
    fb,                 \* App.fb
    displayed,          \* App.displayed
    epd_sleeping,       \* App.epd_sleeping
    fast_refreshes,     \* App.fast_refreshes % FASTEST_PER_FULL, all it is used for
    plate,              \* the picture of the plate's content
    doubt,              \* history: a fault since the last full refresh that worked
                        \* with a driver that knew the controller
    boots

vars == <<dev, fb, displayed, epd_sleeping, fast_refreshes, plate, doubt, boots>>

-----------------------------------------------------------------------------
(* The device and its driver. *)

\* The controller: the glass, whether the RAM face is swapped, whether the
\* analog supply is on, whether it ignores commands (in deep sleep, or held in
\* reset), and whether it is configured.
Chip == [glass : Picture, face : BOOLEAN, analog : BOOLEAN, deaf : BOOLEAN, set : BOOLEAN]

\* Ssd1677.
Driver == [screen_on : BOOLEAN, face_odd : BOOLEAN, face_known : BOOLEAN]

\* `stray` is history: a fault since the last init() that worked.
Device == [chip : Chip, drv : Driver, stray : BOOLEAN,
           timeouts : 0..MaxTimeout, resets : 0..MaxResetFail]

Done(d) == [dev |-> d, ok |-> TRUE]

\* wait_busy() gives up and leaves device d: no outcome if none is left.
TimedOut(d) ==
    IF d.timeouts < MaxTimeout
    THEN {[dev |-> [d EXCEPT !.timeouts = @ + 1, !.stray = TRUE], ok |-> FALSE]}
    ELSE {}

\* The controller after a reset by its pin or by SW_RESET.
Cleared(c) == [c EXCEPT !.face = FALSE, !.analog = FALSE, !.deaf = FALSE, !.set = FALSE]

\* epd_hard_reset(), also at the end of epd_power_on(); its result is ignored.
\* It fails before the line is low, or leaves it low.
HardReset(d) ==
    {[d EXCEPT !.chip = Cleared(@)]}
    \cup (IF d.resets < MaxResetFail
          THEN {[d EXCEPT !.resets = @ + 1, !.stray = TRUE, !.chip = c] :
                  c \in {d.chip, [Cleared(d.chip) EXCEPT !.deaf = TRUE]}}
          ELSE {})

Fresh == [screen_on |-> FALSE, face_odd |-> FALSE, face_known |-> TRUE]

\* init(): BUSY is awaited before SW_RESET, after it, and while the RAM is
\* filled.  A controller that is deaf ignores all of it.
InitDriver(d) ==
    LET reset == IF d.chip.deaf THEN d ELSE [d EXCEPT !.chip = Cleared(@)]
        set == IF d.chip.deaf THEN d ELSE [reset EXCEPT !.chip.set = TRUE]
    IN  {Done([set EXCEPT !.drv = Fresh, !.stray = d.chip.deaf])}
        \cup TimedOut(d) \cup TimedOut(reset) \cup TimedOut(set)

\* ensure_known_face()
EnsureKnownFace(d) == IF d.drv.face_known THEN {Done(d)} ELSE InitDriver(d)

\* Does an activation show anything?  activate() enables clock and analog
\* only if the driver believes that they are off.
Works(d) == ~d.chip.deaf /\ d.chip.set /\ (d.chip.analog \/ ~d.drv.screen_on)

\* Mutant of FaceAfter: the parity is not tracked.
FaceUntracked(drv, mode) == drv.face_odd

\* The parity that activate() notes.
FaceAfter(drv, mode) == mode = 2 /\ (IF drv.face_known THEN ~drv.face_odd ELSE drv.face_odd)

\* activate() with `picture` in RAM.  A mode-1 activation powers down and
\* resets the face, a mode-2 activation swaps it and stays powered.  One that
\* times out may or may not have been carried out.
Activate(d, mode, picture) ==
    LET chip == IF Works(d)
                THEN [d.chip EXCEPT !.glass = picture, !.analog = (mode = 2),
                                    !.face = (mode = 2 /\ ~@)]
                ELSE d.chip
        drv == [screen_on |-> mode = 2, face_odd |-> FaceAfter(d.drv, mode),
                face_known |-> d.drv.face_known \/ mode = 1]
    IN  {Done([d EXCEPT !.chip = chip, !.drv = drv])}
        \cup TimedOut(d) \cup TimedOut([d EXCEPT !.chip = chip])

\* An odd face exchanges the two middle levels in a mode-1 update.
Exchanged(odd, l) == IF odd /\ l \in {1, 2} THEN 3 - l ELSE l

\* refresh_gray4() in its mode-1 forms, Quality and Text: exchanging the
\* planes on the face that the driver notes as odd exchanges the levels.
RefreshGray4(d, f) ==
    UNION {IF o.ok
           THEN LET e == o.dev
                IN  Activate(e, 1, [r \in Region |->
                      Exchanged(e.chip.face, Exchanged(e.drv.face_odd, f[r]))])
           ELSE {o} : o \in EnsureKnownFace(d)}

\* Bits of the framebuffer's planes.
Lsb(l) == l \in {1, 3}
Msb(l) == l \in {2, 3}

\* What LUT_FASTEST does to a pixel of level `g`: hold it when the bits are
\* equal, else drive it to white or to black.
Driven(bw, red, g) == IF bw = red THEN g ELSE IF bw THEN 3 ELSE 0

\* refresh_fastest(): `new` in the window, `old` is what the caller says is
\* on the glass.
RefreshFastest(d, new, old) ==
    LET bw(r) == IF r = "window" THEN Msb(new[r]) ELSE Msb(old[r])
        red(r) == IF r # "window" THEN Msb(old[r])
                  ELSE IF Msb(new[r]) THEN Lsb(old[r]) /\ Msb(old[r])
                  ELSE Lsb(old[r]) \/ Msb(old[r])
    IN  UNION {IF o.ok
               THEN Activate(o.dev, 2,
                      [r \in Region |-> Driven(bw(r), red(r), o.dev.chip.glass[r])])
               ELSE {o} : o \in EnsureKnownFace(d)}

\* deep_sleep(), which begins with set_power(false).
DeepSleep(d) ==
    LET off == [d EXCEPT !.chip.analog = FALSE]
    IN  {Done([off EXCEPT !.drv.screen_on = FALSE, !.drv.face_known = FALSE,
                          !.chip.deaf = TRUE])}
        \cup (IF d.drv.screen_on THEN TimedOut(d) \cup TimedOut(off) ELSE {})

-----------------------------------------------------------------------------
(* The App. *)

\* A reset and init(), whose result is logged: in wake_epd() and between the
\* attempts of epd_refresh().
Reinit(d) == {o.dev : o \in UNION {InitDriver(r) : r \in HardReset(d)}}

\* wake_epd(), the driver's part.
WakeEpd(d) == IF epd_sleeping THEN Reinit(d) ELSE {d}

\* epd_refresh(): two attempts, each followed by a recovery if it fails.
EpdRefresh(d, f) ==
    LET Attempt(e) ==
            UNION {IF o.ok THEN {o} ELSE {[dev |-> r, ok |-> FALSE] : r \in Reinit(o.dev)} :
                     o \in RefreshGray4(e, f)}
    IN  UNION {IF o.ok THEN {o} ELSE Attempt(o.dev) : o \in Attempt(d)}

\* History: faults before and during an absolute refresh with outcome o.
DoubtAfter(o) == ~o.ok \/ o.dev.stray

Init ==
    /\ plate \in Plates
    /\ fb = plate /\ displayed = plate
    /\ dev = [chip |-> [glass |-> plate, face |-> FALSE, analog |-> FALSE,
                        deaf |-> FALSE, set |-> TRUE],
              drv |-> Fresh, stray |-> FALSE, timeouts |-> 0, resets |-> 0]
    /\ epd_sleeping = FALSE
    /\ fast_refreshes = 0
    /\ doubt = FALSE
    /\ boots = 0

\* Mutant of Counted: the full refresh comes one tag too late.
CountedOneMore(n) == n % (FASTEST_PER_FULL + 1)

\* What is_multiple_of(FASTEST_PER_FULL) asks of fast_refreshes.
Counted(n) == n % FASTEST_PER_FULL

\* The end of commit_content() and of on_ble_image(): the plate is redrawn.
Redraw(p) ==
    /\ plate' = p /\ fb' = p
    /\ \E d \in WakeEpd(dev) : \E o \in EpdRefresh(d, p) :
          /\ dev' = o.dev
          /\ displayed' = IF o.ok THEN p ELSE displayed
          /\ doubt' = DoubtAfter(o)
    /\ epd_sleeping' = FALSE
    /\ fast_refreshes' = Counted(1)
    /\ UNCHANGED boots

\* Mutant of ApplyMonoRegion: the levels are copied, not their monochrome view.
CopyRegion(to, mono) == [to EXCEPT !["window"] = mono["window"]]

\* apply_mono_region()
ApplyMonoRegion(to, mono) == [to EXCEPT !["window"] = IF Msb(mono["window"]) THEN 3 ELSE 0]

\* on_new_tag(): the window of fb is redrawn, and refresh_panel_region().
OnNewTag(l) ==
    LET f == [fb EXCEPT !["window"] = l]
        fast == IF epd_sleeping THEN 0 ELSE fast_refreshes
    IN  /\ fb' = f
        /\ \E d \in WakeEpd(dev) :
              \/ /\ fast = 0
                 /\ \E o \in EpdRefresh(d, f) :
                       /\ dev' = o.dev
                       /\ displayed' = IF o.ok THEN f ELSE displayed
                       /\ doubt' = DoubtAfter(o)
              \/ /\ fast # 0
                 /\ \E o \in RefreshFastest(d, f, displayed) :
                       /\ dev' = o.dev
                       /\ displayed' = IF o.ok THEN ApplyMonoRegion(displayed, f) ELSE displayed
                       /\ doubt' = (doubt \/ o.dev.stray)
        /\ epd_sleeping' = FALSE
        /\ fast_refreshes' = Counted(fast + 1)
        /\ UNCHANGED <<plate, boots>>

\* manage_epd_sleep() after 60 s; its errors are logged.
ManageEpdSleep ==
    /\ ~epd_sleeping
    /\ \E o \in DeepSleep(dev) : dev' = o.dev /\ doubt' = (doubt \/ o.dev.stray)
    /\ epd_sleeping' = TRUE
    /\ UNCHANGED <<fb, displayed, fast_refreshes, plate, boots>>

\* Board::init(): a reset, then up to three times init() and a reset.
BoardInit(d) ==
    LET Again(devs) == UNION {UNION {IF o.ok THEN {o} ELSE
                                       {[dev |-> r, ok |-> FALSE] : r \in HardReset(o.dev)} :
                                     o \in InitDriver(e)} : e \in devs}
        Left(outcomes) == {o.dev : o \in {x \in outcomes : ~x.ok}}
        first == Again(HardReset([d EXCEPT !.drv = [Fresh EXCEPT !.face_known = FALSE]]))
        second == Again(Left(first))
        third == Again(Left(second))
    IN  {o.dev : o \in {x \in first \cup second : x.ok} \cup third}

\* run() up to the main loop: `displayed` is what was drawn, whatever the
\* refresh says.
Boot(d, woke) ==
    /\ boots < MaxBoot /\ boots' = boots + 1
    /\ fb' = plate' /\ displayed' = plate'
    /\ \E b \in BoardInit(d) :
          \/ /\ woke
             /\ dev' = b
             /\ doubt' = (doubt \/ b.stray)
          \/ /\ ~woke
             /\ \E o \in EpdRefresh(b, plate') : dev' = o.dev /\ doubt' = DoubtAfter(o)
    /\ epd_sleeping' = FALSE
    /\ fast_refreshes' = 0

\* App::deep_sleep() puts the panel to sleep first; waking up is a reset.
SleepAndWake ==
    /\ UNCHANGED plate
    /\ \/ epd_sleeping /\ Boot(dev, TRUE)
       \/ ~epd_sleeping /\ \E o \in DeepSleep(dev) : Boot(o.dev, TRUE)

\* The power goes, perhaps during a refresh; the glass stays as it is.
PowerLoss ==
    /\ plate' \in Plates
    /\ \E glass \in Picture : Boot([dev EXCEPT !.chip = [Cleared(@) EXCEPT !.glass = glass]], FALSE)

Next ==
    \/ \E p \in Plates : Redraw(p)
    \/ \E l \in TagLevels : OnNewTag(l)
    \/ ManageEpdSleep
    \/ SleepAndWake
    \/ PowerLoss

Spec == Init /\ [][Next]_vars

-----------------------------------------------------------------------------
(* Properties. *)

\* Every variable has its type.
TypeOK ==
    /\ dev \in Device
    /\ fb \in Picture /\ displayed \in Picture /\ plate \in Plates
    /\ epd_sleeping \in BOOLEAN /\ doubt \in BOOLEAN
    /\ fast_refreshes \in 0..(FASTEST_PER_FULL - 1)
    /\ boots \in 0..MaxBoot

\* Once init() has worked after the last fault, the driver knows the
\* controller: its face, its supply, and whether it listens; what the App
\* believes awake is configured.
DriverInStep ==
    ~dev.stray =>
        /\ dev.chip.deaf <=> epd_sleeping
        /\ dev.drv.screen_on <=> dev.chip.analog
        /\ epd_sleeping \/ (dev.chip.set /\ dev.drv.face_known)
        /\ dev.drv.face_known => (dev.drv.face_odd <=> dev.chip.face)

\* "The planes currently on glass" are what a differential update starts
\* from (refresh_fastest()): when the next update is to be one, the App's
\* copy is the glass.  Left out is the time from a fault (a refresh that gave
\* up, a driver out of step) to the next full refresh that worked and whose
\* driver knew the controller, which takes an init() after the fault.
BaselineIsGlass ==
    ~doubt /\ ~epd_sleeping /\ fast_refreshes # 0 => displayed = dev.chip.glass
=============================================================================
