--------------------------- MODULE RoutingNetwork ---------------------------
(***************************************************************************)
(* Nodes that hear each other's NODES broadcasts: every interval a node    *)
(* sweeps its table and broadcasts it (node.rs housekeeping), and whoever  *)
(* receives the broadcast ingests it.  A gateway outside the modelled      *)
(* nodes advertises a far destination to some of them until it dies.       *)
(***************************************************************************)
EXTENDS RoutingTable

CONSTANTS
    Nodes,       \* the modelled nodes
    Gateway,     \* the neighbour that can die
    Far,         \* a destination only the gateway leads to
    Topologies   \* who hears whom; one is chosen

\* A topology names, for each node and for the gateway, the sets of nodes that one
\* of its broadcasts may reach, and the quality the gateway advertises Far with.
ASSUME NetworkAssumption ==
    /\ Nodes \subseteq Nat /\ {Gateway, Far} \subseteq Nat \ Nodes
    /\ \A t \in Topologies :
         /\ \A n \in Nodes : t.audiences[n] \subseteq SUBSET (Nodes \ {n})
         /\ t.served \subseteq SUBSET Nodes
         /\ t.farQuality \in 0..255

VARIABLES
    tabs,   \* the routing table of every node
    alive,  \* the gateway still broadcasts
    ticked, \* the node whose interval elapsed last, or the gateway
    topology

vars == <<tabs, alive, ticked, topology>>

Init ==
    /\ tabs = [n \in Nodes |-> EmptyTable]
    /\ alive = TRUE
    /\ ticked = Gateway
    /\ topology \in Topologies

\* Those a broadcast reaches ingest it.
Received(ts, n, receivers, entries) ==
    [m \in Nodes |-> IF m \in receivers THEN Ingest(ts[m], m, n, entries) ELSE ts[m]]

\* A node's NODES interval: the sweep, then the broadcast of what is left.
Interval(n, receivers) ==
    LET swept == Sweep(tabs[n])
    IN  /\ tabs' = Received([tabs EXCEPT ![n] = swept], n, receivers, AdvertisementSeq(swept))
        /\ ticked' = n
        /\ UNCHANGED <<alive, topology>>

GatewayBroadcast(receivers) ==
    /\ alive
    /\ tabs' = Received(tabs, Gateway, receivers,
                        <<[dest |-> Far, best |-> Far, quality |-> topology.farQuality]>>)
    /\ UNCHANGED <<alive, ticked, topology>>

GatewayDies ==
    /\ alive
    /\ alive' = FALSE
    /\ UNCHANGED <<tabs, ticked, topology>>

Next ==
    \/ \E n \in Nodes : \E rs \in topology.audiences[n] : Interval(n, rs)
    \/ \E rs \in topology.served : GatewayBroadcast(rs)
    \/ GatewayDies

Spec == Init /\ [][Next]_vars

\* Every node's housekeeping tick goes on: Interval(n), which is always
\* enabled and the only step to set ticked to n, is taken again and again.
\* Nothing is assumed of the radio.
FairSpec == Spec /\ \A n \in Nodes : WF_ticked(ticked' = n)

-----------------------------------------------------------------------------
TypeOK ==
    /\ alive \in BOOLEAN /\ ticked \in Nodes \cup {Gateway}
    /\ \A n \in Nodes :
         /\ \A r \in tabs[n].routes :
              /\ r.dest \in (Nodes \cup {Gateway, Far}) \ {n}
              /\ r.via \in Nodes \cup {Gateway}
              /\ r.quality \in 1..255 /\ r.obs \in 1..ObsInit
              /\ RouteVia(tabs[n], r.dest, r.via) = {r}
         /\ tabs[n].gone = {}

NextHop(n, d) == Best(RoutesTo(tabs[n], d)).via

\* Some nodes hear each other in a ring: each of them hears two others.
HeardBy(n) == {m \in Nodes : n \in UNION topology.audiences[m]}
Ringed == \E ring \in SUBSET Nodes \ {{}} :
              \A n \in ring : Cardinality(HeardBy(n) \cap ring) >= 2

\* Where the nodes hear each other in no ring, no group of them forwards a
\* destination's datagrams only among itself: the trivial-loop guard of ingest,
\* whatever broadcasts were lost and however the intervals drift apart.
NoForwardingLoop ==
    ~Ringed =>
        \A d \in Nodes \cup {Gateway, Far} : \A loop \in SUBSET (Nodes \ {d}) :
            loop # {} => \E n \in loop : \/ d \notin Destinations(tabs[n])
                                         \/ NextHop(n, d) \notin loop

\* A quality that one hop more does not lower, because combine rounds it back up.
Undying(q) == Usable(q) /\ Combine(q, DefaultQuality) = q

Stale(n) == {r \in tabs[n].routes : r.dest \in {Gateway, Far}}

\* Once the gateway is dead, every node forgets it and what it led to, for good,
\* with one exception: nodes in a ring may go on teaching it to each other, but
\* only at a quality that the floor lets through and combine no longer lowers.
DeadForgotten ==
    ~alive ~> [](\A n \in Nodes : \A r \in Stale(n) :
                    Ringed /\ r.via # Gateway /\ Undying(r.quality))

\* As if quality decreased at every hop down to nothing: "Quality therefore decays
\* multiplicatively with each hop" (quality.rs).
DeadAlwaysForgotten == ~alive ~> [](\A n \in Nodes : Stale(n) = {})
=============================================================================
