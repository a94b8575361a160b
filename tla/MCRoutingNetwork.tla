-------------------------- MODULE MCRoutingNetwork --------------------------
(***************************************************************************)
(* Three nodes in a line, where the radio may lose any broadcast, and      *)
(* three that all hear each other, where it loses none.  One node hears    *)
(* the gateway.                                                            *)
(***************************************************************************)
EXTENDS RoutingNetwork, TLC

Line == [audiences |-> (1 :> SUBSET {2}) @@ (2 :> SUBSET {1, 3}) @@ (3 :> SUBSET {2}),
         served |-> SUBSET {1}, farQuality |-> 255]

Ring == [audiences |-> [n \in Nodes |-> {Nodes \ {n}}], served |-> {{1}}, farQuality |-> 3]

MCTopologies == {Line, Ring}
MCRing == {Ring}
=============================================================================
