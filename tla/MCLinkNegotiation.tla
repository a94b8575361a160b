-------------------------- MODULE MCLinkNegotiation --------------------------
(***************************************************************************)
(* Two dials, to a station of this program and to stations of other makes, *)
(* with losses or patient timers.                                          *)
(***************************************************************************)
EXTENDS LinkNegotiation

Same == [kind |-> "same"]
Foreign == [kind : {"foreign"}, xid : {"silent", "FRMR", "DM"}, sabme : {"UA", "FRMR", "DM"}]
           \ {[kind |-> "foreign", xid |-> "FRMR", sabme |-> "UA"]}

\* peer: what B is; policy: how A dials a peer it knows nothing of; losses:
\* frames that may be lost; patient: no timer runs out while a frame is under
\* way; alone: no other session with the same peer stands before the dial's;
\* eager: the hosts reap whenever they may, not only what was up.
Scenario(peers, losses, patience, company) ==
    [peer : peers, policy : {"Interlink", "UserConnect"}, dials : {2}, losses : losses,
     patient : patience, alone : company, eager : {FALSE}]

MCScenarios ==
    Scenario({Same}, {0, 2}, BOOLEAN, {TRUE}) \cup Scenario(Foreign, {0, 1}, {TRUE}, {TRUE})

\* An older session of the same peer stands before the dial's.
MCCompany == Scenario({Same}, {1}, {TRUE}, {FALSE})

\* Timers shorter than the round trip, and a peer of version 2.0.
MCHasty == Scenario(Foreign, {0}, {FALSE}, {TRUE})

\* A host that reaps after every event.
MCEager == {[s EXCEPT !.eager = TRUE] : s \in Scenario({Same}, {0}, {TRUE}, {TRUE})}

DialReaches == dialled.state # "failed"
=============================================================================
