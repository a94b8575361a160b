------------------------------ MODULE MCNinoTnc ------------------------------
(***************************************************************************)
(* The files, TNCs and bounds TLC runs the NinoTNC's settings and its      *)
(* firmware updates with.                                                  *)
(***************************************************************************)
EXTENDS NinoTnc

CONSTANTS h1, h2

MCHttp == {h1, h2}

\* A 3.x and a 4.x image, a file that was cut off and one with lines after its
\* end-of-file record.
V3 == <<"data", "fp256", "eof">>
V4 == <<"fp512", "eof">>
MCFiles == {V3, V4, <<"fp256", "data">>, <<"fp512", "eof", "data">>}
MCImages == {V3, V4}

Kept == [mode |-> 1, params |-> "p1"]

\* Scenarios of the update; in the first one both tasks may receive a file at once.
Quiet == [chip |-> "EP256", supported |-> TRUE, software |-> TRUE, saved |-> Unused,
          uploads |-> 2, updates |-> 2, faults |-> 0, noise |-> 0, changes |-> 0,
          restarts |-> 0]

OldFirmware == [Quiet EXCEPT !.uploads = 1, !.chip = "EP512", !.supported = FALSE]

Faulty == [Quiet EXCEPT !.uploads = 1, !.faults = 2]

Noisy == [Quiet EXCEPT !.uploads = 1, !.noise = 2]

Restarting == [Quiet EXCEPT !.uploads = 1, !.faults = 1, !.restarts = 1]

\* Scenarios of the settings, and one of both.
Setting == [Quiet EXCEPT !.uploads = 0, !.updates = 0, !.saved = Kept, !.faults = 1,
                         !.changes = 2]

Beacons == [Setting EXCEPT !.faults = 1, !.noise = 2, !.changes = 1]

Switched == [Setting EXCEPT !.software = FALSE, !.faults = 1, !.noise = 1]

Ignoring == [Setting EXCEPT !.faults = 3, !.changes = 0]

\* A change of mode that settles too soon, on a line with beacons.
Hasty == [Setting EXCEPT !.faults = 2, !.noise = 1, !.changes = 1]

Both == [OldFirmware EXCEPT !.uploads = 1, !.updates = 1, !.saved = Kept,
                            !.changes = 1, !.restarts = 1]

Renewed == [Both EXCEPT !.supported = TRUE, !.restarts = 0]

\* An update that fails and drops the change of mode, and one that is refused.
Dropped == [Restarting EXCEPT !.updates = 2, !.noise = 1, !.saved = Kept]

MCScenarios ==
    {Quiet, OldFirmware, Faulty, Noisy, Restarting, Setting, Beacons, Switched, Ignoring,
     Hasty, Both, Renewed, Dropped}

\* What the properties of MCNinoTncDisputed need.
MCDisputed ==
    {[Faulty EXCEPT !.faults = 1, !.updates = 1], [Quiet EXCEPT !.updates = 1],
     [Setting EXCEPT !.faults = 0, !.changes = 1], Renewed}
=============================================================================
