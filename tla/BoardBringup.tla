---------------------------- MODULE BoardBringup ---------------------------
(* Board::init() of board.rs: the shared I2C bus, the PMIC (pm1.rs) and the  *)
(* I/O expander (ioe1.rs).  Both devices remember across resets of the ESP32 *)
(* whether they talk at 100 or at 400 kHz; the bus always starts at 100 kHz. *)
(* init() notices a PM1 that does not answer, recover_i2c_speed() talks to   *)
(* both devices at 400 kHz, and the end of init() switches all three up.     *)
(*                                                                          *)
(* Assumed of the devices: one answers at its own speed only; any access may *)
(* be NACKed, and a NACKed write may have landed.  The ESP32 may be reset,   *)
(* or wake from deep sleep, between any two steps.  The board is a Pro: it   *)
(* has an ST25R3916, which answers at either speed.  Left out, because they  *)
(* change none of these variables, are the initialisation of the panel (see  *)
(* EpdPanel), which may call epd_power_on() up to three times more, and that *)
(* of the touch controller.                                                  *)
EXTENDS Integers

CONSTANT ATTEMPTS   \* tries of epd_power_on(), of nfc_power() and of the NFC probe: 5

ASSUME BoardAssumption == ATTEMPTS \in Nat \ {0}

VARIABLES
  pc,       \* where init() is
  bus,      \* the frequency the bus runs at
  pm1,      \* the speed the PM1 talks at
  ioe,      \* the speed the IOE1 talks at
  pm1Fast,  \* result of set_i2c_400k() of the PM1
  attempt,  \* the attempt that the loop init() is in has reached
  epdOn,    \* one of these attempts of epd_power_on() succeeded in this boot
  nfcOn,    \* nfc_power() succeeded in this boot: the chip has its supply
  nfc,      \* the chip answered and is configured: at the end, Board.nfc is Some
  nacks,    \* accesses in this boot that failed for no reason, up to ATTEMPTS
  found,    \* the speeds of PM1 and IOE1 at this boot
  lastClean \* the boot before ran to its end without such a failure

vars == <<pc, bus, pm1, ioe, pm1Fast, attempt, epdOn, nfcOn, nfc, nacks, found, lastClean>>

Speed == {"slow", "fast"}

Phase == {"pm1 first", "recover", "recover pm1", "recover ioe", "recover end",
          "pm1 init", "ioe init", "epd power", "nfc power",
          "nfc probe", "nfc setup", "set pm1", "set ioe", "set bus", "running"}

Clean == nacks = 0

(* At the first boot the devices may be in any mode, for instance as an      *)
(* earlier firmware left them.                                               *)
Init ==
  /\ pc = "pm1 first" /\ bus = "slow"
  /\ pm1 \in Speed /\ ioe \in Speed /\ found = <<pm1, ioe>>
  /\ pm1Fast = FALSE /\ attempt = 1 /\ epdOn = FALSE /\ nfcOn = FALSE
  /\ nfc = FALSE /\ nacks = 0 /\ lastClean = FALSE

(* The ESP32 starts again; the devices keep their power and their mode.      *)
Reset ==
  /\ pc' = "pm1 first" /\ bus' = "slow"
  /\ found' = <<pm1, ioe>>
  /\ pm1Fast' = FALSE /\ attempt' = 1 /\ epdOn' = FALSE /\ nfcOn' = FALSE
  /\ nfc' = FALSE /\ nacks' = 0 /\ lastClean' = (pc = "running" /\ Clean)
  /\ UNCHANGED <<pm1, ioe>>

Heard(device) == device = bus

Nack == nacks' = IF nacks < ATTEMPTS THEN nacks + 1 ELSE nacks

-----------------------------------------------------------------------------
(* Pm1::init(): twenty probes, then writes that clear the speed bit.  On a   *)
(* bus that was left at 400 kHz a fast PM1 is probed, becomes slow by the    *)
(* first write and is not heard any more by the second.                      *)
Pm1InitSucceeds ==
  /\ Heard(pm1) /\ bus = "slow"
  /\ pm1' = "slow" /\ nacks' = nacks

Pm1InitFails ==
  \/ ~Heard(pm1) /\ UNCHANGED <<pm1, nacks>>
  \/ Heard(pm1) /\ bus = "fast" /\ pm1' = "slow" /\ nacks' = nacks
  \/ Heard(pm1) /\ pm1' \in {pm1, "slow"} /\ Nack

Pm1First ==
  /\ pc = "pm1 first"
  /\ \/ Pm1InitSucceeds /\ pc' = "pm1 init"
     \/ Pm1InitFails /\ pc' = "recover"
  /\ UNCHANGED <<bus, ioe, pm1Fast, attempt, epdOn, nfcOn, nfc, found, lastClean>>

Pm1Again ==
  /\ pc = "pm1 init"
  /\ Pm1InitSucceeds \/ Pm1InitFails
  /\ pc' = "ioe init"
  /\ UNCHANGED <<bus, ioe, pm1Fast, attempt, epdOn, nfcOn, nfc, found, lastClean>>

(* recover_i2c_speed(): both devices are written to whatever the other       *)
(* answered.                                                                 *)
RecoverStart ==
  /\ pc = "recover"
  /\ \/ bus' = "fast" /\ pc' = "recover pm1" /\ nacks' = nacks
     \/ bus' = bus /\ pc' = "pm1 init" /\ Nack
  /\ UNCHANGED <<pm1, ioe, pm1Fast, attempt, epdOn, nfcOn, nfc, found, lastClean>>

RecoverPm1 ==
  /\ pc = "recover pm1"
  /\ \/ Heard(pm1) /\ pm1' = "slow" /\ nacks' = nacks
     \/ Heard(pm1) /\ pm1' \in {pm1, "slow"} /\ Nack
     \/ ~Heard(pm1) /\ UNCHANGED <<pm1, nacks>>
  /\ pc' = "recover ioe"
  /\ UNCHANGED <<bus, ioe, pm1Fast, attempt, epdOn, nfcOn, nfc, found, lastClean>>

\* Mutant of RecoverIoe: the expander is not written to.
RecoverIoeSkipped ==
  /\ pc = "recover ioe" /\ pc' = "recover end"
  /\ UNCHANGED <<bus, pm1, ioe, pm1Fast, attempt, epdOn, nfcOn, nfc, nacks, found, lastClean>>

RecoverIoe ==
  /\ pc = "recover ioe"
  /\ \/ Heard(ioe) /\ ioe' = "slow" /\ nacks' = nacks
     \/ Heard(ioe) /\ ioe' \in {ioe, "slow"} /\ Nack
     \/ ~Heard(ioe) /\ UNCHANGED <<ioe, nacks>>
  /\ pc' = "recover end"
  /\ UNCHANGED <<bus, pm1, pm1Fast, attempt, epdOn, nfcOn, nfc, found, lastClean>>

RecoverEnd ==
  /\ pc = "recover end"
  /\ \/ bus' = "slow" /\ nacks' = nacks
     \/ bus' = bus /\ Nack
  /\ pc' = "pm1 init"
  /\ UNCHANGED <<pm1, ioe, pm1Fast, attempt, epdOn, nfcOn, nfc, found, lastClean>>

-----------------------------------------------------------------------------
(* Ioe1::init(); a failure is logged and bring-up goes on.                   *)
IoeInit ==
  /\ pc = "ioe init"
  /\ \/ Heard(ioe) /\ ioe' = "slow" /\ nacks' = nacks
     \/ Heard(ioe) /\ ioe' \in {ioe, "slow"} /\ Nack
     \/ ~Heard(ioe) /\ UNCHANGED <<ioe, nacks>>
  /\ pc' = "epd power" /\ attempt' = 1
  /\ UNCHANGED <<bus, pm1, pm1Fast, epdOn, nfcOn, nfc, found, lastClean>>

(* One attempt of a loop that tries ATTEMPTS times, and what follows the     *)
(* last one.  (The mutants give up after the first, and try once too often.) *)
AttemptOnce(answers, on, next) ==
  /\ \/ answers /\ on' = TRUE /\ nacks' = nacks
     \/ answers /\ on' = on /\ Nack
     \/ ~answers /\ on' = on /\ nacks' = nacks
  /\ pc' = next /\ attempt' = 1

AttemptOneMore(answers, on, next) ==
  \/ answers /\ on' = TRUE /\ pc' = next /\ attempt' = 1 /\ nacks' = nacks
  \/ /\ ~answers /\ nacks' = nacks /\ on' = on
     /\ IF attempt =< ATTEMPTS THEN attempt' = attempt + 1 /\ pc' = pc
                               ELSE attempt' = 1 /\ pc' = next

Attempt(answers, on, next) ==
  \/ answers /\ on' = TRUE /\ pc' = next /\ attempt' = 1 /\ nacks' = nacks
  \/ /\ \/ answers /\ Nack
        \/ ~answers /\ nacks' = nacks
     /\ on' = on
     /\ IF attempt < ATTEMPTS THEN attempt' = attempt + 1 /\ pc' = pc
                              ELSE attempt' = 1 /\ pc' = next

EpdPowerOn ==
  /\ pc = "epd power"
  /\ Attempt(Heard(ioe), epdOn, "nfc power")
  /\ UNCHANGED <<bus, pm1, ioe, pm1Fast, nfcOn, nfc, found, lastClean>>

NfcPowerOn ==
  /\ pc = "nfc power"
  /\ Attempt(Heard(ioe), nfcOn, "nfc probe")
  /\ UNCHANGED <<bus, pm1, ioe, pm1Fast, epdOn, nfc, found, lastClean>>

(* The identity probe of St25r3916::init().  A chip that nfc_power() did not *)
(* switch on answers all the same if an earlier boot did, or a write that    *)
(* was NACKed: the expander keeps its outputs.                               *)
NfcProbe ==
  /\ pc = "nfc probe"
  /\ \E answers \in {nfcOn, TRUE} : Attempt(answers, nfc, "nfc setup")
  /\ UNCHANGED <<bus, pm1, ioe, pm1Fast, epdOn, nfcOn, found, lastClean>>

(* The rest of St25r3916::init() and configure_nfca(), if the chip was       *)
(* found.  Every access ends in `?` and none is repeated: one NACK, or an    *)
(* oscillator that does not start (it counts as one), and this boot has no   *)
(* NFC chip.                                                                 *)
NfcSetup ==
  /\ pc = "nfc setup"
  /\ \/ nfc' = nfc /\ nacks' = nacks
     \/ nfc /\ nfc' = FALSE /\ Nack
  /\ pc' = "set pm1"
  /\ UNCHANGED <<bus, pm1, ioe, pm1Fast, attempt, epdOn, nfcOn, found, lastClean>>

(* set_i2c_400k() of both devices, and the bus only when both answered Ok.   *)
SetPm1Fast ==
  /\ pc = "set pm1"
  /\ \/ Heard(pm1) /\ pm1' = "fast" /\ pm1Fast' = TRUE /\ nacks' = nacks
     \/ Heard(pm1) /\ pm1' \in {pm1, "fast"} /\ pm1Fast' = FALSE /\ Nack
     \/ ~Heard(pm1) /\ pm1Fast' = FALSE /\ UNCHANGED <<pm1, nacks>>
  /\ pc' = "set ioe"
  /\ UNCHANGED <<bus, ioe, attempt, epdOn, nfcOn, nfc, found, lastClean>>

SetIoeFast ==
  /\ pc = "set ioe"
  /\ \/ /\ Heard(ioe) /\ ioe' = "fast" /\ nacks' = nacks
        /\ pc' = IF pm1Fast THEN "set bus" ELSE "running"
     \/ Heard(ioe) /\ ioe' \in {ioe, "fast"} /\ pc' = "running" /\ Nack
     \/ ~Heard(ioe) /\ pc' = "running" /\ UNCHANGED <<ioe, nacks>>
  /\ UNCHANGED <<bus, pm1, pm1Fast, attempt, epdOn, nfcOn, nfc, found, lastClean>>

SetBusFast ==
  /\ pc = "set bus"
  /\ \/ bus' = "fast" /\ nacks' = nacks
     \/ bus' = bus /\ Nack
  /\ pc' = "running"
  /\ UNCHANGED <<pm1, ioe, pm1Fast, attempt, epdOn, nfcOn, nfc, found, lastClean>>

Next ==
  \/ Reset
  \/ Pm1First \/ Pm1Again
  \/ RecoverStart \/ RecoverPm1 \/ RecoverIoe \/ RecoverEnd
  \/ IoeInit \/ EpdPowerOn \/ NfcPowerOn \/ NfcProbe \/ NfcSetup
  \/ SetPm1Fast \/ SetIoeFast \/ SetBusFast

Spec == Init /\ [][Next]_vars

-----------------------------------------------------------------------------
BoardTypeOK ==
  /\ pc \in Phase /\ bus \in Speed /\ pm1 \in Speed /\ ioe \in Speed
  /\ pm1Fast \in BOOLEAN /\ attempt \in 1..ATTEMPTS
  /\ epdOn \in BOOLEAN /\ nfcOn \in BOOLEAN /\ nfc \in BOOLEAN
  /\ nacks \in 0..ATTEMPTS
  /\ found \in Speed \X Speed /\ lastClean \in BOOLEAN

Working ==
  /\ bus = "fast" /\ pm1 = "fast" /\ ioe = "fast"
  /\ epdOn /\ nfcOn /\ nfc

(* A boot in which no access fails brings everything up at 400 kHz, whatever *)
(* a reset in the middle of an earlier boot left behind (board.rs:139-141,   *)
(* 273-277), but for one case: a slow PM1 with a fast IOE1 is not noticed.   *)
(* That boot runs without the panel, and the one after it is right again.    *)
CleanBootWorks ==
  pc = "running" /\ Clean =>
    \/ Working
    \/ found = <<"slow", "fast">> /\ ~lastClean /\ pm1 = "fast" /\ ioe = "fast"

(* Single NACKs are survived where init() tries again (board.rs:172-174): it *)
(* takes ATTEMPTS of them to lose the supply of the panel or of the NFC chip, *)
(* or not to find the chip, if the expander is heard at all.  The promise    *)
(* ends there: in NfcSetup, and in the accesses after it, one NACK costs the *)
(* chip or the 400 kHz of this boot.                                         *)
NacksAreSurvived ==
  pc = "nfc setup" /\ Heard(ioe) /\ nacks < ATTEMPTS => epdOn /\ nfcOn /\ nfc
=============================================================================
