---------------------------- MODULE PlateUpdate ----------------------------
(***************************************************************************)
(* What a BLE transfer promises, without packets: the plate changes from   *)
(* what it showed to the payload in one step, only after the device has    *)
(* accepted the payload, and the client says "ok" only of a payload that   *)
(* was accepted.  BleTransfer implements it.                               *)
(***************************************************************************)
CONSTANTS Payload, Verdicts

VARIABLES plate, accepted, verdict

avars == <<plate, accepted, verdict>>

Init ==
    /\ plate # Payload
    /\ accepted = FALSE
    /\ verdict = "none"

Accept ==
    /\ ~accepted
    /\ accepted' = TRUE
    /\ UNCHANGED <<plate, verdict>>

Apply ==
    /\ accepted
    /\ plate' = Payload
    /\ UNCHANGED <<accepted, verdict>>

Report(v) ==
    /\ verdict = "none"
    /\ v = "ok" => accepted
    /\ verdict' = v
    /\ UNCHANGED <<plate, accepted>>

Next == Accept \/ Apply \/ \E v \in Verdicts : Report(v)

Spec == Init /\ [][Next]_avars
=============================================================================
