----------------------------- MODULE MCNodeLinks ------------------------------
(***************************************************************************)
(* A user, a neighbour node and a far station, two sessions, one circuit.  *)
(***************************************************************************)
EXTENDS NodeLinks

CONSTANTS a, n, t, far, s1, s2, k1, bye

MCOpenings == {"SABM", "UA", "DM"}
MCMidLink == {"SABM", "UA", "DM", "NetRom", "Text"}
MCTyped == {<<t>>, <<far>>, <<bye>>, <<t, far>>}

\* Users of the console on the air and on a circuit.
Users == [stations |-> Stations, typed |-> MCTyped, telnet |-> {}]

\* A telnet user and a user on the air compete for the circuit.
Relayed == [stations |-> {a, t}, typed |-> {<<far>>}, telnet |-> {t}]
RelayedFar == [stations |-> {a}, typed |-> {<<far>>}, telnet |-> {far}]

\* Telnet users go to different targets, one by radio, one by circuit.
TwoTargets == [stations |-> {t}, typed |-> {}, telnet |-> {t, far}]

MCScenarios == {Users, Relayed, RelayedFar, TwoTargets}
=============================================================================
