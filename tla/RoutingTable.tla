---------------------------- MODULE RoutingTable ----------------------------
(***************************************************************************)
(* The learned NET/ROM routing table (netrom/routing/table.rs) as pure     *)
(* operators on a record                                                   *)
(*   [routes |-> set of routes, nbrs |-> heard neighbours,                 *)
(*    gone |-> recently_withdrawn].                                        *)
(* A route is [dest, via, quality, obs, inp3]; inp3 is NoTime or the tuple *)
(* <<target time, hops>>.  A destination is known exactly when a route to  *)
(* it is kept, so destinations have no entry of their own.  Callsigns are  *)
(* naturals, in the order the tie-breaks use.  Aliases, ports and          *)
(* last-heard stamps decide nothing here and are left out; so is the path  *)
(* quality of a neighbour, which is always the configured default.         *)
(***************************************************************************)
EXTENDS Naturals, FiniteSets, Sequences

CONSTANTS
    MaxDests,        \* MAX_DESTS: destinations the table can hold
    MaxRoutes,       \* MAX_ROUTES: routes kept for one destination
    MaxNbrs,         \* MAX_NBRS: neighbours it can hold
    ObsInit,         \* OBSINIT: obsolescence of a route just heard
    ObsMin,          \* OBSMIN: below it a route is no longer advertised
    MinQuality,      \* MINQUAL: below it a route is not kept
    DefaultQuality,  \* path quality of a directly heard neighbour
    HopLimit         \* INP3 hop horizon

ASSUME TableAssumption ==
    /\ {MaxDests, MaxRoutes, MaxNbrs, ObsInit, HopLimit} \subseteq Nat \ {0}
    /\ {ObsMin, MinQuality, DefaultQuality} \subseteq 0..255

HORIZON_MS == 600000
PER_HOP_INCREMENT_MS == 10
Unmeasured == HORIZON_MS + 1      \* SNTT_UNSET_RAW: the link was never measured
NoTime == <<>>

EmptyTable == [routes |-> {}, nbrs |-> {}, gone |-> {}]

-----------------------------------------------------------------------------
\* Reading the table

RoutesTo(t, d) == {r \in t.routes : r.dest = d}
RouteVia(t, d, n) == {r \in RoutesTo(t, d) : r.via = n}
Destinations(t) == {r.dest : r \in t.routes}
Timed(t) == {r.dest : r \in {s \in t.routes : s.inp3 # NoTime}}

\* quality.rs combine
Combine(broadcast, path) == (broadcast * path + 128) \div 256

\* is_better: quality first, then the lower callsign
Better(r, s) == \/ r.quality > s.quality
                \/ r.quality = s.quality /\ r.via < s.via

Best(routes) == CHOOSE r \in routes : \A s \in routes \ {r} : Better(r, s)
Worst(routes) == CHOOSE r \in routes : \A s \in routes \ {r} : Better(s, r)

Usable(q) == q > 0 /\ q >= MinQuality

-----------------------------------------------------------------------------
\* Writing the table

\* A free route slot, in a destination that is known or has room itself.
HasRoom(t, d) ==
    \/ RoutesTo(t, d) = {} /\ Cardinality(Destinations(t)) < MaxDests
    \/ Cardinality(RoutesTo(t, d)) \in 1..(MaxRoutes - 1)

BeatsWorst(t, new) ==
    /\ Cardinality(RoutesTo(t, new.dest)) >= MaxRoutes
    /\ Better(new, Worst(RoutesTo(t, new.dest)))

\* What upsert_route and upsert_inp3_route share: the route replaces the one
\* by the same neighbour, takes a free slot, or displaces the worst kept
\* route if it is better; otherwise it is not kept.
Place(t, new) ==
    LET same == RouteVia(t, new.dest, new.via)
        with(displaced) == [t EXCEPT !.routes = (@ \ displaced) \cup {new}]
    IN  CASE same # {} -> with(same)
          [] same = {} /\ HasRoom(t, new.dest) -> with({})
          [] same = {} /\ BeatsWorst(t, new) -> with({Worst(RoutesTo(t, new.dest))})
          [] OTHER -> t

\* A NODES quality for d by n.  One below the floor removes the route, time
\* metric and all, and leaves recently_withdrawn alone.
UpsertRoute(t, d, n, q) ==
    LET old == RouteVia(t, d, n)
        time == IF old = {} THEN NoTime ELSE Best(old).inp3
    IN  IF ~Usable(q) THEN [t EXCEPT !.routes = @ \ old]
        ELSE Place(t, [dest |-> d, via |-> n, quality |-> q, obs |-> ObsInit, inp3 |-> time])

UpsertInp3Route(t, d, n, metric) ==
    LET old == RouteVia(t, d, n)
        q == IF old = {} THEN 0 ELSE Best(old).quality
    IN  Place(t, [dest |-> d, via |-> n, quality |-> q, obs |-> ObsInit, inp3 |-> metric])

\* Mutant: a route without usable quality stays after its time is cleared.
WithdrawInp3Keeping(t, d, n) ==
    LET timed == {r \in RouteVia(t, d, n) : r.inp3 # NoTime}
        cleared == [t EXCEPT !.routes = (@ \ timed) \cup {[r EXCEPT !.inp3 = NoTime] : r \in timed}]
    IN  [cleared EXCEPT !.gone = @ \cup ({r.dest : r \in timed} \ Timed(cleared))]

\* Mutant: a destination is recorded only when its last route goes.
WithdrawInp3Quietly(t, d, n) ==
    LET timed == {r \in RouteVia(t, d, n) : r.inp3 # NoTime}
        left == {[r EXCEPT !.inp3 = NoTime] : r \in {s \in timed : Usable(s.quality)}}
        cleared == [t EXCEPT !.routes = (@ \ timed) \cup left]
    IN  [cleared EXCEPT !.gone = @ \cup ({r.dest : r \in timed} \ Destinations(cleared))]

\* The time metric of (d by n) is cleared; without a usable quality the route
\* goes too.  A destination left without any time metric is recorded.
WithdrawInp3(t, d, n) ==
    LET timed == {r \in RouteVia(t, d, n) : r.inp3 # NoTime}
        left == {[r EXCEPT !.inp3 = NoTime] : r \in {s \in timed : Usable(s.quality)}}
        cleared == [t EXCEPT !.routes = (@ \ timed) \cup left]
    IN  [cleared EXCEPT !.gone = @ \cup ({r.dest : r \in timed} \ Timed(cleared))]

\* Mutant: a route by way of ourselves is learned like any other.
LearnedQualityUnguarded(me, e) == Combine(e.quality, DefaultQuality)

\* What an advertised entry is worth to us: nothing if it leads back here.
LearnedQuality(me, e) ==
    IF e.best = me THEN 0 ELSE Combine(e.quality, DefaultQuality)

\* What a broadcast of neighbour n says by itself: that n is there.
Meet(t, n) ==
    LET heard == [t EXCEPT !.nbrs =
                    IF Cardinality(@) < MaxNbrs THEN @ \cup {n} ELSE @]
    IN  UpsertRoute(heard, n, n, DefaultQuality)

\* What one entry of it says.
Learn(t, me, n, e) ==
    IF e.dest = me THEN t ELSE UpsertRoute(t, e.dest, n, LearnedQuality(me, e))

\* ingest: a NODES broadcast of neighbour n is its direct route plus a
\* sequence of entries [dest, best, quality].
Ingest(t, me, n, entries) ==
    LET after[k \in 0..Len(entries)] ==
            IF k = 0 THEN Meet(t, n) ELSE Learn(after[k - 1], me, n, entries[k])
    IN  after[Len(entries)]

\* What one RIP [dest, hops, time] of a RIF from neighbour n says, whose link
\* costs sntt, or was never measured.  The horizon withdraws in any case;
\* nothing is learned over an unmeasured link, beyond the hop horizon, or
\* about ourselves.
LearnRip(t, me, n, sntt, p) ==
    LET measured == sntt # Unmeasured
        arrival == p.time + sntt + PER_HOP_INCREMENT_MS
        withdrawn == \/ p.time >= HORIZON_MS
                     \/ measured /\ arrival >= HORIZON_MS
    IN  IF withdrawn THEN WithdrawInp3(t, p.dest, n)
        ELSE IF measured /\ p.hops + 1 <= HopLimit /\ p.dest # me
             THEN UpsertInp3Route(t, p.dest, n, <<arrival, p.hops + 1>>)
             ELSE t

\* ingest_rif: a sequence of RIPs.
IngestRif(t, me, n, sntt, rips) ==
    LET after[k \in 0..Len(rips)] ==
            IF k = 0 THEN t ELSE LearnRip(after[k - 1], me, n, sntt, rips[k])
    IN  after[Len(rips)]

Prune(t) == [t EXCEPT !.nbrs = @ \cap {r.via : r \in t.routes}]

\* What sweep and mark_neighbour_down share: the routes become `left`, a
\* destination that loses its last time metric is recorded, and neighbours
\* no route goes by are dropped.
Shrink(t, left) ==
    LET after == [t EXCEPT !.routes = left]
    IN  Prune([after EXCEPT !.gone = @ \cup (Timed(t) \ Timed(after))])

\* Mutants: a route outlives its count by one sweep, or never goes.
SweepLate(t) == Shrink(t, {[r EXCEPT !.obs = @ - 1] : r \in {s \in t.routes : s.obs > 0}})
SweepNever(t) == Shrink(t, {[r EXCEPT !.obs = IF @ > 1 THEN @ - 1 ELSE 1] : r \in t.routes})

Sweep(t) ==
    Shrink(t, {[r EXCEPT !.obs = @ - 1] : r \in {s \in t.routes : s.obs > 1}})

MarkNeighbourDown(t, n) ==
    LET after == Shrink(t, {r \in t.routes : r.via # n})
    IN  [after EXCEPT !.nbrs = @ \ {n}]

Drain(t) == [t EXCEPT !.gone = {}]

-----------------------------------------------------------------------------
\* What the table tells others

\* build_advertisement: the entries of our own NODES broadcast.  The best
\* route here is the one of highest quality, then highest obsolescence, and
\* only then the one routing prefers.
AdvertiseBest(routes) ==
    LET top == {r \in routes : \A s \in routes :
                  \/ r.quality > s.quality
                  \/ r.quality = s.quality /\ r.obs >= s.obs}
    IN  Best(top)

BuildAdvertisement(t) ==
    LET best(d) == AdvertiseBest(RoutesTo(t, d))
    IN  {[dest |-> d, best |-> best(d).via, quality |-> best(d).quality] :
            d \in {e \in Destinations(t) : best(e).quality > 0 /\ best(e).obs >= ObsMin}}

\* The order the entries go out in: quality descending, then callsign.
AdvertisementSeq(t) ==
    LET entries == BuildAdvertisement(t)
        ahead(x) == {y \in entries : \/ y.quality > x.quality
                                     \/ y.quality = x.quality /\ y.dest < x.dest}
    IN  [i \in 1..Cardinality(entries) |->
            CHOOSE x \in entries : Cardinality(ahead(x)) = i - 1]

\* build_rif: what the RIF toward one neighbour says of each destination, the
\* time or the horizon.  A neighbour that is a kept next hop of d is told the
\* horizon (poison reverse); a withdrawn destination not held again is told
\* it once.  Order and hop counts are left out.
Quantise10(time) ==
    LET granule == 10 * (time \div 10)
    IN  IF granule <= HORIZON_MS - 10 THEN granule ELSE HORIZON_MS - 10

BuildRif(t, me, target, withdrawn) ==
    LET times(d) == {r.inp3[1] : r \in {s \in RoutesTo(t, d) : s.inp3 # NoTime}}
        least(d) == CHOOSE m \in times(d) : \A k \in times(d) : m <= k
        held == Timed(t) \ {me}
    IN  {[dest |-> me, time |-> 0]}
        \cup {[dest |-> d, time |-> IF RouteVia(t, d, target) # {}
                                    THEN HORIZON_MS ELSE Quantise10(least(d))] : d \in held}
        \cup {[dest |-> d, time |-> HORIZON_MS] : d \in withdrawn \ (held \cup {me})}
=============================================================================
