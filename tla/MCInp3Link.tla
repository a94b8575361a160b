------------------------------ MODULE MCInp3Link ------------------------------
(***************************************************************************)
(* Two nodes, one of which has a route to tell about.                      *)
(***************************************************************************)
EXTENDS Inp3Link

CONSTANTS a, b

MCNodes == {a, b}
MCAdvertisers == {a}
=============================================================================
