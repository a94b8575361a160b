\* Keep one of the invariants at a time; TLC stops at the first it refutes.
SPECIFICATION Spec
CONSTANTS
  a = a
  n = n
  t = t
  far = far
  s1 = s1
  s2 = s2
  k1 = k1
  bye = bye
  Stations = {a, n, t}
  Neighbours = {n}
  Routed = {far}
  Slots = {s1, s2}
  Circuits = {k1}
  Openings <- MCOpenings
  MidLink <- MCMidLink
  Typed <- MCTyped
  TelnetTargets = {t, far}
  Bye = bye
  Scenarios <- MCScenarios
  Absent = Absent
INVARIANTS
  CapacityReclaimed
\*  RelayIsTheUsers
\*  BridgesAlwaysPaired
CHECK_DEADLOCK FALSE
