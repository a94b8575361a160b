----------------------------- MODULE RoutingNode -----------------------------
(***************************************************************************)
(* One node's routing table among neighbours that may say anything of the  *)
(* inputs below: NODES broadcasts and INP3 route updates (RIFs) heard, the *)
(* obsolescence sweep, the INP3 fan-out, interlinks coming and going, the  *)
(* periodic save to flash and a reboot that replays it.                    *)
(***************************************************************************)
EXTENDS RoutingTable

CONSTANTS
    Me,            \* my_call
    Neighbours,    \* callsigns heard directly
    Scenarios,     \* what the neighbours say, and the bounds; see below
    MaxSaved,      \* netrom_store MAX_ROUTES: routes in one flash record
    FrameEntries   \* entries load puts in one replayed broadcast

(***************************************************************************)
(* A scenario names                                                        *)
(*   broadcasts  NODES broadcasts heard: for each neighbour the sequences  *)
(*               of entries it may send                                    *)
(*   linkers     neighbours that open an interlink and speak INP3          *)
(*   rifs        RIFs they may send: sequences of RIPs                     *)
(*   costs       smoothed link times, Unmeasured among them                *)
(*   reboots     bound on reboots                                          *)
(***************************************************************************)
NodesEntries == [dest : Nat, best : Nat, quality : 0..255]
Rips == [dest : Nat, hops : Nat, time : Nat]

ASSUME NodeAssumption ==
    /\ Me \in Nat /\ Neighbours \subseteq Nat \ {Me}
    /\ {MaxSaved, FrameEntries} \subseteq Nat
    /\ \A s \in Scenarios :
         /\ s.broadcasts \in [Neighbours -> SUBSET Seq(NodesEntries)]
         /\ s.linkers \subseteq Neighbours
         /\ s.rifs \subseteq Seq(Rips) /\ s.costs \subseteq Nat
         /\ s.reboots \in Nat

VARIABLES
    tab,        \* the routing table
    up,         \* neighbours a fan-out reaches: INP3-capable, interlink up
    flash,      \* the saved routes, in the order of the record
    reboots,    \* reboots so far
    scenario,   \* the scenario chosen
    \* bookkeeping for the properties
    silence,    \* sweeps since each neighbour was heard, up to ObsInit
    told,       \* destinations each neighbour was told we reach in finite time
    slipped     \* time routes lost to a NODES broadcast, which records nothing

vars == <<tab, up, flash, reboots, scenario, silence, told, slipped>>

Init ==
    /\ scenario \in Scenarios
    /\ tab = EmptyTable
    /\ up = {}
    /\ flash = <<>>
    /\ reboots = 0
    /\ silence = [n \in Neighbours |-> 0]
    /\ told = [n \in Neighbours |-> {}]
    /\ slipped = {}

\* What is lost stays on the list until it is held or recorded again.
StillSlipped(lost) == (slipped \cup lost) \ (Timed(tab') \cup tab'.gone)

Heard(n) == silence' = [silence EXCEPT ![n] = 0]

-----------------------------------------------------------------------------
HearNodes(n, entries) ==
    /\ tab' = Ingest(tab, Me, n, entries)
    /\ slipped' = StillSlipped(Timed(tab))
    /\ Heard(n)
    /\ UNCHANGED <<scenario, up, flash, reboots, told>>

\* dispatch_inbound does not ask whether the sender is a fan-out target.
HearRif(n, sntt, rips) ==
    /\ n \in scenario.linkers
    /\ tab' = IngestRif(tab, Me, n, sntt, rips)
    /\ slipped' = StillSlipped({})
    /\ Heard(n)
    /\ UNCHANGED <<scenario, up, flash, reboots, told>>

SweepTable ==
    /\ tab' = Sweep(tab)
    /\ silence' = [n \in Neighbours |->
                     IF silence[n] < ObsInit THEN silence[n] + 1 ELSE ObsInit]
    /\ UNCHANGED <<scenario, up, flash, reboots, told, slipped>>

\* The table's failover entry point; the firmware only logs the event.
NeighbourDown(n) ==
    /\ tab' = MarkNeighbourDown(tab, n)
    /\ UNCHANGED <<scenario, up, flash, reboots, silence, told, slipped>>

\* One INP3 round: drain, then one RIF per neighbour with the drained set.
FanOut ==
    LET rif(n) == BuildRif(tab, Me, n, tab.gone)
        finite(n) == {p.dest : p \in {q \in rif(n) : q.time < HORIZON_MS}} \ {Me}
        horizon(n) == {p.dest : p \in {q \in rif(n) : q.time >= HORIZON_MS}}
    IN  /\ tab' = Drain(tab)
        /\ told' = [n \in Neighbours |->
                      IF n \in up THEN (told[n] \cup finite(n)) \ horizon(n) ELSE told[n]]
        /\ UNCHANGED <<scenario, up, flash, reboots, silence, slipped>>

LinkUp(n) ==
    /\ n \in scenario.linkers \ up
    /\ up' = up \cup {n}
    /\ UNCHANGED <<scenario, tab, flash, reboots, silence, told, slipped>>

\* What was told over an interlink that went down is no longer followed.
LinkDown(n) ==
    /\ n \in up
    /\ up' = up \ {n}
    /\ told' = [told EXCEPT ![n] = {}]
    /\ UNCHANGED <<scenario, tab, flash, reboots, silence, slipped>>

-----------------------------------------------------------------------------
\* The members of a finite set of numbers in ascending order.
Ascending(S) ==
    CHOOSE s \in [1..Cardinality(S) -> S] : \A i, j \in DOMAIN s : i < j => s[i] < s[j]

AtMost(n, bound) == IF n < bound THEN n ELSE bound

\* netrom_store: the best route of each destination in table order, for which
\* the order of callsigns stands, written when there is any.
Snapshot(t) ==
    LET order == Ascending(Destinations(t))
        best(i) == Best(RoutesTo(t, order[i]))
    IN  [i \in 1..AtMost(Len(order), MaxSaved) |->
            [dest |-> order[i], via |-> best(i).via, quality |-> best(i).quality]]

\* (A save no reboot can follow any more is left out.)
Save ==
    /\ tab.routes # {} /\ reboots < scenario.reboots
    /\ flash' = Snapshot(tab)
    /\ UNCHANGED <<scenario, tab, up, reboots, silence, told, slipped>>

\* The broadcast replayed for next hop n: the first of its routes.
ReplayFrame(record, n) ==
    LET places == Ascending({k \in DOMAIN record : record[k].via = n})
    IN  [i \in 1..AtMost(Len(places), FrameEntries) |->
            [dest |-> record[places[i]].dest, best |-> n, quality |-> record[places[i]].quality]]

\* load replays one broadcast per next hop, at its first route.
ReplayHop(t, record, k) ==
    LET n == record[k].via
    IN  IF \E j \in 1..(k - 1) : record[j].via = n THEN t
        ELSE Ingest(t, Me, n, ReplayFrame(record, n))

Replay(record) ==
    LET after[k \in 0..Len(record)] ==
            IF k = 0 THEN EmptyTable ELSE ReplayHop(after[k - 1], record, k)
    IN  after[Len(record)]

Reboot ==
    /\ reboots < scenario.reboots
    /\ reboots' = reboots + 1
    /\ tab' = Replay(flash)
    /\ up' = {}
    /\ silence' = [n \in Neighbours |-> 0]
    /\ told' = [n \in Neighbours |-> {}]
    /\ slipped' = {}
    /\ UNCHANGED <<scenario, flash>>

Next ==
    \/ \E n \in Neighbours : \E b \in scenario.broadcasts[n] : HearNodes(n, b)
    \/ \E n \in Neighbours, c \in scenario.costs, f \in scenario.rifs : HearRif(n, c, f)
    \/ SweepTable
    \/ \E n \in Neighbours : NeighbourDown(n)
    \/ FanOut
    \/ \E n \in Neighbours : LinkUp(n)
    \/ \E n \in Neighbours : LinkDown(n)
    \/ Save
    \/ Reboot

Spec == Init /\ [][Next]_vars

-----------------------------------------------------------------------------
\* The caps hold, a (destination, neighbour) pair has one route, and every
\* value is in range.
TypeOK ==
    /\ \A r \in tab.routes :
         /\ r.dest \in Nat /\ r.via \in Neighbours
         /\ r.quality \in 0..255 /\ r.obs \in 1..ObsInit
         /\ r.inp3 = NoTime \/ (r.inp3[1] < HORIZON_MS /\ r.inp3[2] <= HopLimit)
         /\ RouteVia(tab, r.dest, r.via) = {r}
         /\ Cardinality(RoutesTo(tab, r.dest)) <= MaxRoutes
    /\ Cardinality(Destinations(tab)) <= MaxDests
    /\ tab.nbrs \subseteq Neighbours /\ Cardinality(tab.nbrs) <= MaxNbrs
    /\ up \subseteq Neighbours
    /\ Len(flash) <= MaxSaved

\* Every kept route can carry something: it has a usable quality or a time
\* metric, and it never leads to ourselves (the floor of upsert_route, the
\* removal in withdraw_inp3, the loop guards of both ingests).
RoutesSound ==
    \A r \in tab.routes : r.dest # Me /\ (Usable(r.quality) \/ r.inp3 # NoTime)

\* A neighbour not heard for OBSINIT sweeps carries no route, however NODES
\* broadcasts, time metrics, evictions and replays were mixed before.
SilentForgotten ==
    \A r \in tab.routes : silence[r.via] < ObsInit

\* Invariant (W) of recently_withdrawn: whatever finite time a linked
\* neighbour was told last, we still hold a time route for it or are about to
\* tell the neighbour otherwise.  The one exception is a time route taken by
\* a NODES broadcast (below the floor, or evicted by a better quality), which
\* upsert_route does not record.
WithdrawalsTold ==
    \A n \in up : told[n] \subseteq Timed(tab) \cup tab.gone \cup slipped

\* netrom_store's header: replaying the best route of each destination is
\* all ingest needs to reconstruct the table.
RebootKeepsRoutes ==
    [][reboots' # reboots =>
         \A i \in DOMAIN flash :
            \E r \in tab'.routes : /\ r.dest = flash[i].dest /\ r.via = flash[i].via
                                   /\ r.quality = flash[i].quality]_vars
=============================================================================
