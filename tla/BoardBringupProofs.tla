------------------------- MODULE BoardBringupProofs ------------------------
(* Theorems about BoardBringup: a boot without failing accesses brings bus,  *)
(* PMIC, expander and NFC chip up, but for the one case init() does not      *)
(* notice, and single NACKs are survived where init() tries again, for every *)
(* number of attempts.                                                       *)
EXTENDS BoardBringup, TLAPS

(* What the PM1 and the IOE1 were found in decides every later step of a     *)
(* boot in which no access fails.                                            *)
Recovered == IF found[1] = "fast" THEN "slow" ELSE found[2]

KnownWhileClean ==
  Clean =>
    /\ pc = "pm1 first" => bus = "slow" /\ pm1 = found[1] /\ ioe = found[2]
    /\ pc = "recover" =>
         bus = "slow" /\ pm1 = "fast" /\ found[1] = "fast" /\ ioe = found[2]
    /\ pc = "recover pm1" =>
         bus = "fast" /\ pm1 = "fast" /\ found[1] = "fast" /\ ioe = found[2]
    /\ pc = "recover ioe" =>
         bus = "fast" /\ pm1 = "slow" /\ found[1] = "fast" /\ ioe = found[2]
    /\ pc = "recover end" =>
         bus = "fast" /\ pm1 = "slow" /\ found[1] = "fast" /\ ioe = "slow"
    /\ pc \in {"pm1 init", "ioe init", "epd power", "nfc power", "nfc probe",
               "nfc setup", "set pm1"} =>
         bus = "slow" /\ pm1 = "slow" /\ ioe = Recovered
    /\ pc = "set ioe" =>
         bus = "slow" /\ pm1 = "fast" /\ pm1Fast /\ ioe = Recovered
    /\ pc = "nfc power" => (Recovered = "slow" => epdOn)
    /\ pc = "nfc probe" => (Recovered = "slow" => epdOn /\ nfcOn)
    /\ pc \in {"nfc setup", "set pm1", "set ioe"} =>
         (Recovered = "slow" => epdOn /\ nfcOn /\ nfc)
    /\ pc = "set bus" =>
         /\ bus = "slow" /\ pm1 = "fast" /\ ioe = "fast"
         /\ Recovered = "slow" /\ epdOn /\ nfcOn /\ nfc
    /\ pc = "running" =>
         /\ pm1 = "fast" /\ ioe = "fast"
         /\ Recovered = "slow" => Working

(* Every failed attempt on a device that answers has cost a NACK.            *)
Tried ==
  \/ Heard(ioe) /\ pc \in {"epd power", "nfc power"}
  \/ nfcOn /\ pc = "nfc probe"

AttemptsCounted == Tried => attempt - 1 =< nacks

FewNacks == nacks < ATTEMPTS

LossesCounted ==
  Heard(ioe) /\ FewNacks =>
    /\ pc = "nfc power" => epdOn
    /\ pc = "nfc probe" => epdOn /\ nfcOn
    /\ pc = "nfc setup" => epdOn /\ nfcOn /\ nfc

NacksCounted == AttemptsCounted /\ LossesCounted

AfterCleanBoot == lastClean => found = <<"fast", "fast">>

IInv == BoardTypeOK /\ KnownWhileClean /\ NacksCounted /\ AfterCleanBoot

LEMMA AttemptBounds ==
  /\ ATTEMPTS \in Nat /\ ATTEMPTS > 0
  /\ 1 \in 1..ATTEMPTS /\ 0 \in 0..ATTEMPTS
BY BoardAssumption

LEMMA NextAttempt ==
  ASSUME attempt \in 1..ATTEMPTS, attempt < ATTEMPTS
  PROVE  attempt + 1 \in 1..ATTEMPTS
BY AttemptBounds

LEMMA CountArithmetic ==
  ASSUME NEW a \in Nat, NEW k \in Nat, NEW k2 \in Nat, NEW n \in Nat, a - 1 =< k
  PROVE  /\ a < n /\ (k2 = k + 1 \/ k2 = n) => (a + 1) - 1 =< k2
         /\ ~(a < n) /\ (k2 = k + 1 \/ k2 = n) => ~(k2 < n)
OBVIOUS

LEMMA InitIInv == Init => IInv
<1> SUFFICES ASSUME Init PROVE IInv
  OBVIOUS
<1> USE DEF Init
<1>1. BoardTypeOK
  BY AttemptBounds DEF BoardTypeOK, Phase, Speed
<1>2. KnownWhileClean
  BY DEF KnownWhileClean
<1> QED BY <1>1, <1>2 DEF IInv, NacksCounted, AttemptsCounted, Tried, LossesCounted,
       AfterCleanBoot

LEMMA NackCounts ==
  ASSUME BoardTypeOK, Nack
  PROVE  /\ nacks' \in 0..ATTEMPTS /\ ~Clean' /\ nacks =< nacks'
         /\ nacks' = nacks + 1 \/ nacks' = ATTEMPTS
BY AttemptBounds DEF BoardTypeOK, Nack, Clean

-----------------------------------------------------------------------------
(* Every step keeps the types.                                               *)
LEMMA TypeStep == BoardTypeOK /\ [Next]_vars => BoardTypeOK'
<1> SUFFICES ASSUME BoardTypeOK, [Next]_vars PROVE BoardTypeOK'
  OBVIOUS
<1> USE DEF BoardTypeOK, Phase, Speed
<1>1. ASSUME Nack PROVE nacks' \in 0..ATTEMPTS
  BY <1>1, NackCounts
<1>2. 1 \in 1..ATTEMPTS /\ 0 \in 0..ATTEMPTS
  BY AttemptBounds
<1>3. CASE Reset
  BY <1>2, <1>3 DEF Reset
<1>4. CASE Pm1First
  BY ZenonT(60), <1>1, <1>4 DEF Pm1First, Pm1InitSucceeds, Pm1InitFails
<1>5. CASE Pm1Again
  BY <1>1, <1>5 DEF Pm1Again, Pm1InitSucceeds, Pm1InitFails
<1>6. CASE RecoverStart
  BY <1>1, <1>6 DEF RecoverStart
<1>7. CASE RecoverPm1
  BY <1>1, <1>7 DEF RecoverPm1
<1>8. CASE RecoverIoe
  BY <1>1, <1>8 DEF RecoverIoe
<1>9. CASE RecoverEnd
  BY <1>1, <1>9 DEF RecoverEnd
<1>10. CASE IoeInit
  BY <1>1, <1>2, <1>10 DEF IoeInit
<1>11. attempt < ATTEMPTS => attempt + 1 \in 1..ATTEMPTS
  BY NextAttempt
<1>12. CASE EpdPowerOn
  BY ZenonT(60), <1>1, <1>2, <1>11, <1>12 DEF EpdPowerOn, Attempt
<1>13. CASE NfcPowerOn
  BY ZenonT(60), <1>1, <1>2, <1>11, <1>13 DEF NfcPowerOn, Attempt
<1>18. CASE NfcProbe
  <2>1. PICK answers \in {nfcOn, TRUE} : Attempt(answers, nfc, "nfc setup")
    BY <1>18 DEF NfcProbe
  <2>2. UNCHANGED <<bus, pm1, ioe, pm1Fast, epdOn, nfcOn, found, lastClean>>
    BY <1>18 DEF NfcProbe
  <2>3. pc' = "nfc setup" \/ pc' = pc
    BY <2>1 DEF Attempt
  <2>4. nfc' \in BOOLEAN
    BY <2>1 DEF Attempt
  <2>5. attempt' \in 1..ATTEMPTS
    BY <1>2, <1>11, <2>1 DEF Attempt
  <2>6. nacks' \in 0..ATTEMPTS
    BY <1>1, <2>1 DEF Attempt
  <2> QED BY ZenonT(60), <2>2, <2>3, <2>4, <2>5, <2>6
<1>19. CASE NfcSetup
  BY <1>1, <1>19 DEF NfcSetup
<1>14. CASE SetPm1Fast
  BY <1>1, <1>14 DEF SetPm1Fast
<1>15. CASE SetIoeFast
  BY ZenonT(60), <1>1, <1>15 DEF SetIoeFast
<1>16. CASE SetBusFast
  BY <1>1, <1>16 DEF SetBusFast
<1>17. CASE UNCHANGED vars
  BY ZenonT(60), <1>17 DEF vars
<1> QED BY <1>3, <1>4, <1>5, <1>6, <1>7, <1>8, <1>9, <1>10, <1>12, <1>13, <1>14,
       <1>15, <1>16, <1>17, <1>18, <1>19 DEF Next

-----------------------------------------------------------------------------
(* In a boot without a failing access each step does what it is meant to do. *)
LEMMA KnownStep == IInv /\ [Next]_vars => KnownWhileClean'
<1> SUFFICES ASSUME IInv, [Next]_vars, Clean' PROVE KnownWhileClean'
  BY DEF KnownWhileClean
<1> USE DEF KnownWhileClean, Recovered, Heard
<1>t. /\ BoardTypeOK /\ KnownWhileClean
      /\ pm1 \in {"slow", "fast"} /\ ioe \in {"slow", "fast"} /\ bus \in {"slow", "fast"}
      /\ found[1] \in {"slow", "fast"} /\ found[2] \in {"slow", "fast"}
  BY DEF IInv, BoardTypeOK, Speed
<1>1. ~Nack
  BY <1>t, NackCounts
<1>2. nacks' = nacks => Clean
  BY DEF Clean
<1>3. CASE Reset
  BY <1>3 DEF Reset
<1>4. CASE Pm1First
  BY <1>t, <1>1, <1>2, <1>4 DEF Pm1First, Pm1InitSucceeds, Pm1InitFails
<1>5. CASE Pm1Again
  BY <1>t, <1>1, <1>2, <1>5 DEF Pm1Again, Pm1InitSucceeds, Pm1InitFails
<1>6. CASE RecoverStart
  BY <1>t, <1>1, <1>2, <1>6 DEF RecoverStart
<1>7. CASE RecoverPm1
  BY <1>t, <1>1, <1>2, <1>7 DEF RecoverPm1
<1>8. CASE RecoverIoe
  BY <1>t, <1>1, <1>2, <1>8 DEF RecoverIoe
<1>9. CASE RecoverEnd
  BY <1>t, <1>1, <1>2, <1>9 DEF RecoverEnd
<1>10. CASE IoeInit
  BY <1>t, <1>1, <1>2, <1>10 DEF IoeInit
<1>12. CASE EpdPowerOn
  BY <1>t, <1>1, <1>2, <1>12 DEF EpdPowerOn, Attempt
<1>13. CASE NfcPowerOn
  BY <1>t, <1>1, <1>2, <1>13 DEF NfcPowerOn, Attempt
<1>18. CASE NfcProbe
  <2>1. PICK answers \in {nfcOn, TRUE} : Attempt(answers, nfc, "nfc setup")
    BY <1>18 DEF NfcProbe
  <2>2. /\ Clean /\ pc = "nfc probe" /\ pc' \in {"nfc probe", "nfc setup"}
        /\ UNCHANGED <<bus, pm1, ioe, epdOn, nfcOn, found>>
    BY <1>1, <1>2, <1>18, <2>1 DEF NfcProbe, Attempt
  <2>3. pc' = "nfc setup" /\ nfcOn => nfc' = TRUE
    BY <1>1, <2>1, <2>2 DEF Attempt
  <2> QED BY <1>t, <2>2, <2>3
<1>19. CASE NfcSetup
  BY <1>t, <1>1, <1>2, <1>19 DEF NfcSetup
<1>14. CASE SetPm1Fast
  BY <1>t, <1>1, <1>2, <1>14 DEF SetPm1Fast
<1>15. CASE SetIoeFast
  BY <1>t, <1>1, <1>2, <1>15 DEF SetIoeFast, Working
<1>16. CASE SetBusFast
  BY <1>t, <1>1, <1>2, <1>16 DEF SetBusFast, Working
<1>17. CASE UNCHANGED vars
  BY <1>t, <1>2, <1>17 DEF vars, Working
<1> QED BY <1>3, <1>4, <1>5, <1>6, <1>7, <1>8, <1>9, <1>10, <1>12, <1>13, <1>14,
       <1>15, <1>16, <1>17, <1>18, <1>19 DEF Next

(* A failed attempt of the three loops is counted; every other step leaves   *)
(* what they achieved alone, or is past them.                                *)
LEMMA NacksStep == IInv /\ [Next]_vars => NacksCounted'
<1> SUFFICES ASSUME IInv, [Next]_vars PROVE AttemptsCounted' /\ LossesCounted'
  BY DEF NacksCounted
<1>c. AttemptsCounted /\ LossesCounted
  BY DEF IInv, NacksCounted
<1>t. BoardTypeOK /\ attempt \in 1..ATTEMPTS /\ nacks \in 0..ATTEMPTS /\ ATTEMPTS \in Nat
  BY AttemptBounds DEF IInv, BoardTypeOK
<1>1. ASSUME Nack
      PROVE  /\ nacks' \in 0..ATTEMPTS /\ nacks =< nacks'
             /\ nacks' = nacks + 1 \/ nacks' = ATTEMPTS
             /\ FewNacks' => FewNacks
  <2>1. nacks' \in 0..ATTEMPTS /\ nacks =< nacks'
        /\ (nacks' = nacks + 1 \/ nacks' = ATTEMPTS)
    BY <1>t, <1>1, NackCounts
  <2> QED BY <1>t, <2>1 DEF FewNacks
<1>n. attempt \in Nat /\ nacks \in Nat /\ ATTEMPTS \in Nat /\ (Nack => nacks' \in Nat)
  BY <1>t, <1>1
<1>2. pc' \notin {"epd power", "nfc power", "nfc probe", "nfc setup"}
        => AttemptsCounted' /\ LossesCounted'
  BY DEF AttemptsCounted, Tried, LossesCounted
<1>3. CASE Reset
  BY <1>2, <1>3 DEF Reset
<1>4. CASE Pm1First \/ Pm1Again \/ RecoverStart \/ RecoverPm1 \/ RecoverIoe \/ RecoverEnd
  BY <1>2, <1>4 DEF Pm1First, Pm1Again, RecoverStart, RecoverPm1, RecoverIoe, RecoverEnd
<1>5. ASSUME attempt' = 1, nacks' = nacks \/ Nack
      PROVE  AttemptsCounted'
  <2>1. attempt' - 1 =< nacks'
    BY <1>t, <1>1, <1>5
  <2> QED BY <2>1 DEF AttemptsCounted
<1>6. ASSUME Tried, Nack, attempt < ATTEMPTS, attempt' = attempt + 1
      PROVE  AttemptsCounted'
  <2>1. attempt - 1 =< nacks
    BY <1>c, <1>6 DEF AttemptsCounted
  <2>2. attempt' - 1 =< nacks'
    BY <1>n, <1>1, <1>6, <2>1, CountArithmetic
  <2> QED BY <2>2 DEF AttemptsCounted
<1>7. ASSUME Tried, Nack, ~(attempt < ATTEMPTS)
      PROVE  ~FewNacks'
  <2>1. attempt - 1 =< nacks
    BY <1>c, <1>7 DEF AttemptsCounted
  <2>2. ~(nacks' < ATTEMPTS)
    BY <1>n, <1>1, <1>7, <2>1, CountArithmetic
  <2> QED BY <2>2 DEF FewNacks
<1>8. nacks' = nacks => FewNacks' = FewNacks
  BY DEF FewNacks
<1>10. CASE IoeInit
  <2>1. attempt' = 1 /\ pc' = "epd power" /\ (nacks' = nacks \/ Nack)
    BY <1>10 DEF IoeInit
  <2> QED BY <1>5, <2>1 DEF LossesCounted
<1>11. CASE EpdPowerOn
  <2> USE <1>11 DEF EpdPowerOn, Attempt, Heard, Tried
  <2>1. AttemptsCounted'
    <3>1. CASE attempt' = 1 /\ (nacks' = nacks \/ Nack)
      BY <1>5, <3>1
    <3>2. CASE Heard(ioe) /\ Nack /\ attempt < ATTEMPTS /\ attempt' = attempt + 1
      BY <1>6, <3>2
    <3>3. CASE ~Heard(ioe)'
      BY <3>3 DEF AttemptsCounted
    <3> QED BY <3>1, <3>2, <3>3
  <2>2. LossesCounted'
    <3>1. CASE pc' = "nfc power" /\ Heard(ioe) /\ FewNacks'
      <4>1. epdOn' = TRUE
        BY <1>7, <3>1
      <4> QED BY <3>1, <4>1 DEF LossesCounted
    <3> QED BY <3>1 DEF LossesCounted
  <2> QED BY <2>1, <2>2
<1>12. CASE NfcPowerOn
  <2> USE <1>12 DEF NfcPowerOn, Attempt, Heard, Tried
  <2>1. AttemptsCounted'
    <3>1. CASE attempt' = 1 /\ (nacks' = nacks \/ Nack)
      BY <1>5, <3>1
    <3>2. CASE Heard(ioe) /\ Nack /\ attempt < ATTEMPTS /\ attempt' = attempt + 1
      BY <1>6, <3>2
    <3>3. CASE ~Heard(ioe)' /\ pc' = "nfc power"
      BY <3>3 DEF AttemptsCounted
    <3> QED BY <3>1, <3>2, <3>3
  <2>2. ASSUME Heard(ioe), FewNacks' PROVE LossesCounted'
    <3>1. FewNacks
      BY <1>1, <1>8, <2>2
    <3>2. epdOn
      BY <1>c, <2>2, <3>1 DEF LossesCounted
    <3>3. pc' = "nfc probe" => nfcOn' = TRUE
      BY <1>7, <2>2
    <3> QED BY <3>2, <3>3 DEF LossesCounted
  <2> QED BY <2>1, <2>2 DEF LossesCounted
<1>15. CASE NfcProbe
  <2> USE DEF Tried
  <2>1. PICK answers \in {nfcOn, TRUE} : Attempt(answers, nfc, "nfc setup")
    BY <1>15 DEF NfcProbe
  <2>2. pc = "nfc probe" /\ UNCHANGED <<bus, ioe, epdOn, nfcOn>> /\ nfcOn \in BOOLEAN
    BY <1>15, <1>t DEF NfcProbe, BoardTypeOK
  <2>3. nfcOn => answers
    BY <2>1
  <2>4. AttemptsCounted'
    <3>1. CASE attempt' = 1
      BY <1>5, <2>1, <3>1 DEF Attempt
    <3>2. CASE Tried /\ Nack /\ attempt < ATTEMPTS /\ attempt' = attempt + 1
      BY <1>6, <3>2
    <3>3. CASE ~Tried'
      BY <3>3 DEF AttemptsCounted
    <3> QED BY <2>1, <2>2, <2>3, <3>1, <3>2, <3>3 DEF Attempt
  <2>5. ASSUME Heard(ioe), FewNacks' PROVE LossesCounted'
    <3>1. FewNacks
      BY <1>1, <1>8, <2>1, <2>5 DEF Attempt
    <3>2. epdOn /\ nfcOn
      BY <1>c, <2>2, <2>5, <3>1 DEF LossesCounted
    <3>3. pc' = "nfc setup" => nfc' = TRUE
      BY <1>7, <2>1, <2>2, <2>3, <2>5, <3>2 DEF Attempt
    <3>4. pc' \in {"nfc probe", "nfc setup"}
      BY <2>1, <2>2 DEF Attempt
    <3> QED BY <2>2, <3>2, <3>3, <3>4 DEF LossesCounted
  <2> QED BY <2>2, <2>4, <2>5 DEF LossesCounted, Heard
<1>13. CASE NfcSetup \/ SetPm1Fast \/ SetIoeFast \/ SetBusFast
  BY <1>2, <1>13 DEF NfcSetup, SetPm1Fast, SetIoeFast, SetBusFast
<1>14. CASE UNCHANGED vars
  BY <1>c, <1>14 DEF vars, AttemptsCounted, Tried, LossesCounted, FewNacks, Heard
<1> QED BY <1>3, <1>4, <1>10, <1>11, <1>12, <1>13, <1>14, <1>15 DEF Next

LEMMA AfterCleanStep == IInv /\ [Next]_vars => AfterCleanBoot'
<1> SUFFICES ASSUME IInv, [Next]_vars PROVE AfterCleanBoot'
  OBVIOUS
<1> USE DEF AfterCleanBoot
<1>1. CASE Reset
  BY <1>1 DEF Reset, IInv, KnownWhileClean
<1>2. ASSUME ~Reset PROVE UNCHANGED <<found, lastClean>>
  BY <1>2 DEF Next, vars, Pm1First, Pm1Again, RecoverStart, RecoverPm1, RecoverIoe,
     RecoverEnd, IoeInit, EpdPowerOn, NfcPowerOn, NfcProbe, NfcSetup,
     SetPm1Fast, SetIoeFast, SetBusFast
<1> QED BY <1>1, <1>2 DEF IInv

THEOREM InductiveInvariant == Spec => []IInv
<1>1. IInv /\ [Next]_vars => IInv'
  BY TypeStep, KnownStep, NacksStep, AfterCleanStep DEF IInv
<1> QED BY <1>1, InitIInv, PTL DEF Spec

(* Every variable keeps its type through boots, resets and failing accesses. *)
THEOREM BoardTypeCorrect == Spec => []BoardTypeOK
<1>1. IInv => BoardTypeOK
  BY DEF IInv
<1> QED BY <1>1, InductiveInvariant, PTL

(* A boot without failing accesses works, or it found the one state that     *)
(* init() does not notice; two such boots in a row always work.              *)
THEOREM CleanBoot == Spec => []CleanBootWorks
<1>1. IInv => CleanBootWorks
  <2> SUFFICES ASSUME IInv, pc = "running", Clean
               PROVE  \/ Working
                      \/ found = <<"slow", "fast">> /\ ~lastClean
                         /\ pm1 = "fast" /\ ioe = "fast"
    BY DEF CleanBootWorks
  <2>1. pm1 = "fast" /\ ioe = "fast" /\ (Recovered = "slow" => Working)
    BY DEF IInv, KnownWhileClean
  <2>2. found \in Speed \X Speed
    BY DEF IInv, BoardTypeOK
  <2>3. CASE Recovered = "slow"
    BY <2>1, <2>3
  <2>4. CASE Recovered # "slow"
    <3>1. found[1] = "slow" /\ found[2] = "fast"
      BY <2>2, <2>4 DEF Recovered, Speed
    <3>2. found = <<"slow", "fast">>
      BY <2>2, <3>1
    <3>3. ~lastClean
      BY <3>1 DEF IInv, AfterCleanBoot
    <3> QED BY <2>1, <3>2, <3>3
  <2> QED BY <2>3, <2>4
<1> QED BY <1>1, InductiveInvariant, PTL

(* When the configuration of the NFC chip begins, a boot that heard the      *)
(* expander and had fewer than ATTEMPTS NACKs has both supplies and has      *)
(* found the chip.                                                           *)
THEOREM NacksSurvived == Spec => []NacksAreSurvived
<1>1. IInv => NacksAreSurvived
  BY DEF IInv, NacksCounted, LossesCounted, FewNacks, NacksAreSurvived
<1> QED BY <1>1, InductiveInvariant, PTL
=============================================================================
