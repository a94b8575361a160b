---------------------------- MODULE TncModeSetter ----------------------------
(***************************************************************************)
(* ModeSetter (mode_set.rs): one change of a NinoTNC's operating mode.  A  *)
(* SETHW is never acknowledged, so each is followed by a wait, a GETALL    *)
(* and a comparison of the running mode.  A handler returns the change and *)
(* what to send; the instant a deadline passes is left open.               *)
(***************************************************************************)
EXTENDS Naturals

CONSTANT Attempts   \* ModeVerifyPolicy.attempts

SetFromKiss == 15
Modes == 0 .. SetFromKiss

ASSUME AttemptsAssumption == Attempts \in Nat \ {0}

Moved(j, sends) == [job |-> j, sends |-> sends]
SetHw(j) == [op |-> "SetHw", mode |-> j.mode, persist |-> j.persist]

NoJob == [phase |-> "None", mode |-> 0, persist |-> FALSE, attempt |-> 0]

InFlight(j) == j.phase \in {"Settling", "AwaitingReadback"}

\* Mode 15 has no readback to compare: it is done as soon as it is sent.
StartMode(mode, persist) ==
    LET j == [phase |-> IF mode = SetFromKiss THEN "SentUnverified" ELSE "Settling",
              mode |-> mode, persist |-> persist, attempt |-> 1]
    IN  Moved(j, <<SetHw(j)>>)

Ended(j, outcome) == Moved([j EXCEPT !.phase = outcome], <<>>)

NextAttempt(j) ==
    IF j.attempt >= Attempts THEN Ended(j, "NotApplied")
    ELSE Moved([j EXCEPT !.attempt = @ + 1, !.phase = "Settling"], <<SetHw(j)>>)

OnSetterTime(j) ==
    CASE j.phase = "Settling" ->
           Moved([j EXCEPT !.phase = "AwaitingReadback"], <<[op |-> "GetAll"]>>)
      [] j.phase = "AwaitingReadback" -> NextAttempt(j)
      [] OTHER -> Moved(j, <<>>)

\* A report: the firmware decides first, then the running mode, then the DIP
\* switches.  One heard while the change settles may predate it.
OnStatus(j, r) ==
    CASE j.phase # "AwaitingReadback" -> Moved(j, <<>>)
      [] j.phase = "AwaitingReadback" /\ ~r.supported -> Ended(j, "FirmwareTooOld")
      [] j.phase = "AwaitingReadback" /\ r.supported /\ r.mode = j.mode -> Ended(j, "Applied")
      [] j.phase = "AwaitingReadback" /\ r.supported /\ r.mode # j.mode /\ ~r.software
           -> Ended(j, "DipNotSoftware")
      [] OTHER -> NextAttempt(j)
=============================================================================
