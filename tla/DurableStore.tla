----------------------------- MODULE DurableStore -----------------------------
(***************************************************************************)
(* What a store that survives power loss promises: a boot finds the value  *)
(* saved last.  A save lands at one instant; one that is acknowledged has  *)
(* landed, one that is refused has not, and a power cut leaves either.     *)
(***************************************************************************)
CONSTANTS Values, Nothing    \* Nothing: no value was ever saved

VARIABLES saved, attempt, landed

vars == <<saved, attempt, landed>>

Init == saved = Nothing /\ attempt = Nothing /\ landed = FALSE

Begin(v) ==
    /\ attempt = Nothing
    /\ attempt' = v
    /\ UNCHANGED <<saved, landed>>

Land ==
    /\ attempt # Nothing /\ ~landed
    /\ saved' = attempt /\ landed' = TRUE
    /\ UNCHANGED attempt

Acknowledge ==
    /\ landed
    /\ attempt' = Nothing /\ landed' = FALSE
    /\ UNCHANGED saved

Refuse ==
    /\ ~landed
    /\ attempt' = Nothing
    /\ UNCHANGED <<saved, landed>>

PowerCut ==
    /\ attempt' = Nothing /\ landed' = FALSE
    /\ UNCHANGED saved

Next == (\E v \in Values : Begin(v)) \/ Land \/ Acknowledge \/ Refuse \/ PowerCut

Spec == Init /\ [][Next]_vars
=============================================================================
