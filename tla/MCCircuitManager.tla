--------------------------- MODULE MCCircuitManager ---------------------------
(***************************************************************************)
(* The scenarios TLC runs the circuit tables of two nodes through.         *)
(***************************************************************************)
EXTENDS CircuitManager

CONSTANTS a, b

MCNodes == {a, b}

\* One user opens one circuit and writes one frame on it.
Plain ==
  [openers |-> {a}, opens |-> 1, writes |-> 1, hangups |-> 0, refusals |-> 0,
   loss |-> 0, duplicates |-> 0, expiries |-> 0, restarts |-> 0]

\* A loss, a duplicate, two timer expiries, a refusal and a hangup: a circuit may
\* be gone when the Connect Request that minted it comes again.
Faults ==
  [Plain EXCEPT !.writes = 2, !.hangups = 1, !.refusals = 1, !.loss = 1, !.duplicates = 1,
                !.expiries = 2]

\* Both nodes open circuits to each other and allocate the same keys.
Crossing ==
  [Plain EXCEPT !.openers = {a, b}, !.hangups = 1, !.duplicates = 1]

\* More circuits than there are keys, and more than the table holds.
Wrapping ==
  [Plain EXCEPT !.opens = KeySpace + 1, !.writes = 0, !.hangups = 2,
                !.refusals = 1]

\* Both tables full.
Full ==
  [Plain EXCEPT !.openers = {a, b}, !.opens = 2, !.writes = 0, !.hangups = 1,
                !.refusals = 1]

\* A node loses its table while its peers keep their circuits to it.
Restarting ==
  [Plain EXCEPT !.opens = 2, !.hangups = 1, !.refusals = 1, !.duplicates = 1,
                !.restarts = 1]

MCSafety == {Faults, Crossing, Wrapping, Full, Restarting}

MCRestart == {[Plain EXCEPT !.opens = 2, !.restarts = 1]}

\* The late Connect Request on its own.
MCGhost ==
  {[Plain EXCEPT !.writes = 2, !.loss = 1, !.duplicates = 1, !.expiries = 2]}

\* Both nodes open circuits to each other until the keys come round.
MCReuse ==
  {[Plain EXCEPT !.openers = {a, b}, !.opens = 2, !.writes = 0, !.hangups = 2,
                 !.refusals = 1, !.expiries = 3]}

MCDisputed == MCRestart \cup MCGhost \cup MCReuse
=============================================================================
