------------------------------ MODULE MCDataLink ------------------------------
(***************************************************************************)
(* Scenarios for DataLinkPair, each with and without selective reject:     *)
(* four frames against one, more than the window and around the sequence   *)
(* space, through two losses and an early T1; and two against two with an  *)
(* idle T3 and a busy channel.                                             *)
(***************************************************************************)
EXTENDS DataLinkPair

Writes(a, b) == [e \in Ends |-> IF e = "A" THEN a ELSE b]

Lossy(srej) ==
    [srej |-> srej, writes |-> Writes(4, 1), loss |-> 2, early |-> 1, idle |-> 0, busy |-> 0]

Deferred(srej) ==
    [srej |-> srej, writes |-> Writes(2, 2), loss |-> 1, early |-> 0, idle |-> 1, busy |-> 1]

MCScenarios == {Lossy(srej) : srej \in BOOLEAN} \cup {Deferred(srej) : srej \in BOOLEAN}

MCSelective == {Lossy(TRUE)}
MCGoBack == {Lossy(FALSE)}
===============================================================================
