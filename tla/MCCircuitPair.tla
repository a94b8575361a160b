---------------------------- MODULE MCCircuitPair ----------------------------
(***************************************************************************)
(* The scenarios TLC runs the circuit pair through.  Each one lets a few   *)
(* things go wrong at once and leaves the rest alone.                      *)
(***************************************************************************)
EXTENDS CircuitPair

\* One application writes three frames on a faultless network.
Plain ==
  [keyOfB |-> 1, sizes |-> {1}, patient |-> FALSE,
   writes |-> [A |-> 3, B |-> 0], hangups |-> 0, loss |-> 0, duplicates |-> 0,
   overtakes |-> 0]

\* Frames of one and two fragments, a loss, a duplicate, a hangup.
Lossy ==
  [Plain EXCEPT !.sizes = {1, 2}, !.hangups = 1, !.loss = 1, !.duplicates = 1]

\* Acknowledgements ride on the Information of the other direction.
TwoWay ==
  [Plain EXCEPT !.writes = [A |-> 2, B |-> 1], !.loss = 1, !.duplicates = 1]

\* More fragments than there are sequence numbers.
Wrapping ==
  [Plain EXCEPT !.writes.A = SeqSpace + 2, !.loss = 1, !.duplicates = 1]

\* A datagram overtakes older ones.
Reordered ==
  [Plain EXCEPT !.writes.A = SeqSpace + 1, !.loss = 1, !.duplicates = 1,
                !.overtakes = 1]

\* Timers longer than the round trip, so that a timeout means loss.  The ends have
\* different circuit keys, as they mostly do, or the same one.
Patient ==
  [Plain EXCEPT !.patient = TRUE, !.writes = [A |-> 4, B |-> 1],
                !.hangups = 1, !.loss = 1]

SameKeys == [Patient EXCEPT !.keyOfB = 0]

\* Both ends hang up at once.
Crossing == [Patient EXCEPT !.writes = [A |-> 1, B |-> 1], !.hangups = 2]

MCSafety == {Lossy, TwoWay, Wrapping, Reordered, Patient, SameKeys, Crossing}

\* For the liveness run, whose ends choke each other.
MCLive ==
  {Plain, [Plain EXCEPT !.writes.A = 2, !.hangups = 1, !.loss = 1]}

\* A hangup that is to be answered whatever the keys.
MCCourtesy == {Patient}

=============================================================================
