---------------------------- MODULE MCRoutingNode ----------------------------
(***************************************************************************)
(* The scenarios TLC runs one routing table through: us (0), neighbours    *)
(* 1..3, a far node 4.                                                     *)
(***************************************************************************)
EXTENDS RoutingNode, TLC

Entry(d, b, q) == [dest |-> d, best |-> b, quality |-> q]
Rip(d, h, t) == [dest |-> d, hops |-> h, time |-> t]

Hello == <<>>
Good == <<Entry(4, 4, 255)>>
Poor == <<Entry(4, 4, 1)>>
ByUs == <<Entry(0, 4, 255), Entry(4, 0, 255)>>

Near == <<Rip(4, 0, 100)>>
Far == <<Rip(4, 1, 100)>>                \* one hop beyond the hop horizon
Slow == <<Rip(4, 0, HORIZON_MS - 50)>>   \* the link's cost takes it to the horizon
Gone == <<Rip(0, 0, 0), Rip(4, 0, HORIZON_MS)>>

\* NODES broadcasts alone, and a node that reboots.
Quality ==
    [broadcasts |-> (1 :> {Hello, Good, Poor, ByUs}) @@ (2 :> {Hello, Poor, ByUs}) @@ (3 :> {Good}),
     linkers |-> {}, rifs |-> {}, costs |-> {}, reboots |-> 1]

\* Two neighbours speak INP3, two send NODES.
Times ==
    [broadcasts |-> (1 :> {}) @@ (2 :> {ByUs}) @@ (3 :> {Good}),
     linkers |-> {1, 2}, rifs |-> {Near, Far, Slow, Gone}, costs |-> {50, Unmeasured},
     reboots |-> 0]

MCSafety == {Quality, Times}
MCReboot == {Quality}
=============================================================================
