------------------------------- MODULE Inp3Link -------------------------------
(***************************************************************************)
(* The INP3 overlay of two nodes that share an interlink: the engine that  *)
(* probes the neighbour with L3RTT datagrams and times their reflections,  *)
(* the update scheduler, and the host's round that drains the withdrawn    *)
(* routes into RIFs.  The interlink keeps order, delays frames, and drops  *)
(* with everything in flight.  Time is counted in housekeeping ticks; only *)
(* ages are kept.                                                          *)
(***************************************************************************)
EXTENDS Integers, Sequences

CONSTANTS
    Nodes,          \* two nodes
    Advertisers,    \* those that learn a route of their own to tell about
    ProbeUnknown,   \* probe_unknown_capability
    Cadence,        \* l3_rtt_interval_ms
    Window,         \* l3_rtt_reset_window_ms
    RifInterval,    \* rif_interval_ms
    MaxDelay,       \* ticks a frame may be on its way
    MaxFaults       \* bound on link drops and restarts

ASSUME LinkAssumption ==
    /\ \E m, n \in Nodes : m # n /\ Nodes = {m, n}
    /\ Advertisers \subseteq Nodes
    /\ ProbeUnknown \in BOOLEAN
    /\ {Cadence, RifInterval} \subseteq Nat \ {0}
    /\ Window \in Nat /\ Window > Cadence
    /\ {MaxDelay, MaxFaults} \subseteq Nat

VARIABLES
    entry,     \* the engine's state for the peer
    rifAge,    \* ticks since last_periodic_ms
    held,      \* the node holds a time route to its own destination
    gone,      \* that destination is in recently_withdrawn
    belief,    \* the node holds a time route to the peer's destination, by the peer
    up,        \* the interlink is up
    wire,      \* frames on their way, by sender
    ticked,    \* the node had its housekeeping tick
    faults,    \* drops and restarts so far
    \* for the properties
    lost,      \* a probe of the node, or its reflection, was lost since one came back
    covered    \* the peer was told a finite time and has stayed a fan-out target

table == <<held, gone, belief>>
vars == <<entry, rifAge, table, up, wire, ticked, faults, lost, covered>>

Peer(n) == CHOOSE m \in Nodes : m # n

\* A probe never sent is as old as the cadence; ages past their limit do not differ.
Fresh == [known |-> TRUE, sent |-> Cadence, silent |-> 0,
          measured |-> FALSE, capable |-> FALSE, awaiting |-> FALSE]
Forgotten == [Fresh EXCEPT !.known = FALSE]

L3Rtt(n) == [kind |-> "l3rtt", origin |-> n, tells |-> "nothing", age |-> 0]
Rif(n, t) == [kind |-> "rif", origin |-> n, tells |-> t, age |-> 0]
L4(n) == [kind |-> "l4", origin |-> n, tells |-> "nothing", age |-> 0]

\* A frame with no interlink to go by is dropped, not dialled for.
Ship(n, frames) == IF up THEN wire[n] \o frames ELSE wire[n]

\* Where n's probes, on their way to the peer or back, are among m's frames.
Probes(n, m) == {i \in DOMAIN wire[m] : wire[m][i].kind = "l3rtt" /\ wire[m][i].origin = n}

InFlight(n) == \E m \in Nodes : Probes(n, m) # {}

Init ==
    /\ entry = [n \in Nodes |-> Forgotten]
    /\ rifAge = [n \in Advertisers |-> 0]
    /\ held = [n \in Nodes |-> FALSE]
    /\ gone = [n \in Nodes |-> FALSE]
    /\ belief = [n \in Nodes |-> FALSE]
    /\ up = TRUE
    /\ wire = [n \in Nodes |-> <<>>]
    /\ ticked = [n \in Nodes |-> FALSE]
    /\ faults = 0
    /\ lost = [n \in Nodes |-> FALSE]
    /\ covered = [n \in Nodes |-> FALSE]

-----------------------------------------------------------------------------
(***************************************************************************)
(* Inp3Host::tick_round, once in a housekeeping tick.                      *)
(***************************************************************************)
Expired(e) == e.known /\ e.silent > Window

\* Mutant: only a neighbour known to speak INP3 is reset.
AfterResetCapable(e) == IF Expired(e) /\ e.capable THEN Forgotten ELSE e

\* engine.tick: a neighbour silent past the window is reset first ...
AfterReset(e) == IF Expired(e) THEN Forgotten ELSE e

\* Mutant: a probe may go out while one is outstanding.
DueTwice(e) == e.known /\ (e.capable \/ ProbeUnknown) /\ e.sent >= Cadence

\* ... and one that survives is probed when nothing is outstanding.
Due(e) == e.known /\ (e.capable \/ ProbeUnknown) /\ ~e.awaiting /\ e.sent >= Cadence

\* Mutant: a withdrawal is marked POSITIVE and waits for the debounce.
FansOutDebounced(n) == n \in Advertisers /\ rifAge[n] >= RifInterval

\* scheduler.tick: the periodic refresh, or a withdrawal (always NEGATIVE).
\* (A RIF with no route in it only makes its sender known, as SendL4 does.)
FansOut(n) == n \in Advertisers /\ (rifAge[n] >= RifInterval \/ gone[n])

\* build_rif, as to the one destination the peer may learn here: held, in the
\* round's snapshot of withdrawn ones, or in neither.
Tells(n) == IF held[n] THEN "reach" ELSE IF gone[n] THEN "gone" ELSE "nothing"

Round(n) ==
    LET target == entry[n].known /\ entry[n].capable   \* read before engine.tick
        kept == AfterReset(entry[n])
        probes == IF Due(kept) THEN <<L3Rtt(n)>> ELSE <<>>
        rifs == IF FansOut(n) /\ target THEN <<Rif(n, Tells(n))>> ELSE <<>>
    IN  /\ ~ticked[n] /\ ticked' = [ticked EXCEPT ![n] = TRUE]
        /\ entry' = [entry EXCEPT ![n] = IF Due(kept) THEN [kept EXCEPT !.sent = 0, !.awaiting = TRUE]
                                         ELSE kept]
        /\ rifAge' = [m \in Advertisers |->
                        IF m = n /\ rifAge[n] >= RifInterval THEN 0 ELSE rifAge[m]]
        /\ gone' = [gone EXCEPT ![n] = FALSE]
        /\ wire' = [wire EXCEPT ![n] = Ship(n, probes \o rifs)]
        /\ lost' = [lost EXCEPT ![n] = kept.known /\ (@ \/ (Due(kept) /\ ~up))]
        /\ covered' = [covered EXCEPT ![n] =
                         up /\ kept.known /\ (@ \/ (rifs # <<>> /\ held[n]))]
        /\ UNCHANGED <<held, belief, up, faults>>

-----------------------------------------------------------------------------
(***************************************************************************)
(* dispatch_inbound: whatever the peer sends on the interlink makes it     *)
(* known.                                                                  *)
(***************************************************************************)
Observe(e) == IF e.known THEN e ELSE Fresh

Inbound(n) == Head(wire[Peer(n)])
Arrives(n, kind) == wire[Peer(n)] # <<>> /\ Inbound(n).kind = kind
Taken(n) == [wire EXCEPT ![Peer(n)] = Tail(@)]

\* Mutant: a reflection does not count as a sign of life.
ReflectedUnstamped(e) == [e EXCEPT !.awaiting = FALSE, !.measured = TRUE]

\* Our own probe came back: it is timed, and the link is alive.
Reflected(e) == [e EXCEPT !.awaiting = FALSE, !.silent = 0, !.measured = TRUE]

\* on_l3rtt: a reflection that is awaited is matched to the last probe sent;
\* anything else goes back as it came, at once.
HearL3Rtt(n) ==
    LET heard == [Observe(entry[n]) EXCEPT !.capable = TRUE]
        ours == Inbound(n).origin = n /\ heard.awaiting
    IN  /\ Arrives(n, "l3rtt")
        /\ entry' = [entry EXCEPT ![n] = IF ours THEN Reflected(heard) ELSE heard]
        /\ wire' = [Taken(n) EXCEPT ![n] = IF ours THEN @ ELSE Append(@, [Inbound(n) EXCEPT !.age = 0])]
        /\ lost' = [lost EXCEPT ![n] = @ /\ ~ours]
        /\ UNCHANGED <<rifAge, table, up, ticked, faults, covered>>

\* ingest_rif: the horizon withdraws in any case, a finite time is learned
\* over a measured link only.
HearRif(n) ==
    /\ Arrives(n, "rif")
    /\ entry' = [entry EXCEPT ![n] = Observe(@)]
    /\ belief' = [belief EXCEPT ![n] =
                    CASE Inbound(n).tells = "gone" -> FALSE
                      [] Inbound(n).tells = "reach" -> @ \/ entry[n].measured
                      [] OTHER -> @]
    /\ wire' = Taken(n)
    /\ UNCHANGED <<rifAge, held, gone, up, ticked, faults, lost, covered>>

HearL4(n) ==
    /\ Arrives(n, "l4")
    /\ entry' = [entry EXCEPT ![n] = Observe(@)]
    /\ wire' = Taken(n)
    /\ UNCHANGED <<rifAge, table, up, ticked, faults, lost, covered>>

\* A circuit of the node sends something.  (What a peer that knows the node
\* would do with it changes nothing here, and is left out.)
SendL4(n) ==
    /\ up /\ wire[n] = <<>> /\ ~entry[Peer(n)].known
    /\ wire' = [wire EXCEPT ![n] = <<L4(n)>>]
    /\ UNCHANGED <<entry, rifAge, table, up, ticked, faults, lost, covered>>

-----------------------------------------------------------------------------
\* The node's own destination, by a time route that comes and goes.
RouteFound(n) ==
    /\ ~held[n] /\ held' = [held EXCEPT ![n] = TRUE]
    /\ UNCHANGED <<entry, rifAge, gone, belief, up, wire, ticked, faults, lost, covered>>

RouteLost(n) ==
    /\ held[n] /\ held' = [held EXCEPT ![n] = FALSE]
    /\ gone' = [gone EXCEPT ![n] = TRUE]
    /\ UNCHANGED <<entry, rifAge, belief, up, wire, ticked, faults, lost, covered>>

\* Everything on its way is lost with the interlink.
Cut ==
    /\ faults < MaxFaults /\ faults' = faults + 1
    /\ up' = FALSE
    /\ wire' = [n \in Nodes |-> <<>>]
    /\ covered' = [n \in Nodes |-> FALSE]

LinkDrops ==
    /\ up /\ Cut
    /\ lost' = [n \in Nodes |-> lost[n] \/ InFlight(n)]
    /\ UNCHANGED <<entry, rifAge, table, ticked>>

\* A node restarts with nothing (its time routes are not saved).
Restart(n) ==
    /\ Cut
    /\ entry' = [entry EXCEPT ![n] = Forgotten]
    /\ rifAge' = [m \in Advertisers |-> IF m = n THEN 0 ELSE rifAge[m]]
    /\ held' = [held EXCEPT ![n] = FALSE]
    /\ gone' = [gone EXCEPT ![n] = FALSE]
    /\ belief' = [belief EXCEPT ![n] = FALSE]
    /\ lost' = [m \in Nodes |-> m # n /\ (lost[m] \/ InFlight(m))]
    /\ UNCHANGED ticked

LinkReturns ==
    /\ ~up /\ up' = TRUE
    /\ UNCHANGED <<entry, rifAge, table, wire, ticked, faults, lost, covered>>

\* One housekeeping tick later.
Older(age, limit) == IF age < limit THEN age + 1 ELSE limit

Elapse ==
    /\ \A n \in Nodes : ticked[n]
    /\ \A n \in Nodes : \A i \in DOMAIN wire[n] : wire[n][i].age < MaxDelay
    /\ ticked' = [n \in Nodes |-> FALSE]
    /\ entry' = [n \in Nodes |->
                   IF entry[n].known
                   THEN [entry[n] EXCEPT !.sent = Older(@, Cadence), !.silent = Older(@, Window + 1)]
                   ELSE entry[n]]
    /\ rifAge' = [n \in Advertisers |-> Older(rifAge[n], RifInterval)]
    /\ wire' = [n \in Nodes |-> [i \in DOMAIN wire[n] |-> [wire[n][i] EXCEPT !.age = @ + 1]]]
    /\ UNCHANGED <<table, up, faults, lost, covered>>

Hear(n) == HearL3Rtt(n) \/ HearRif(n) \/ HearL4(n)

Next ==
    \/ \E n \in Nodes : Round(n) \/ Hear(n) \/ SendL4(n) \/ Restart(n)
    \/ \E n \in Advertisers : RouteFound(n) \/ RouteLost(n)
    \/ LinkDrops \/ LinkReturns \/ Elapse

\* The housekeeping timer fires, the link layer delivers, an interlink that
\* dropped is dialled again.
Fairness ==
    /\ WF_vars(Elapse) /\ WF_vars(LinkReturns)
    /\ \A n \in Nodes : WF_vars(Round(n)) /\ WF_vars(Hear(n))

Spec == Init /\ [][Next]_vars /\ Fairness

-----------------------------------------------------------------------------
\* "At most one in flight per neighbour", which "makes 'is this reflection
\* ours?' unambiguous" (inp3_engine.rs, awaiting_reflection): no second probe,
\* and no old one that its sender no longer awaits, is ever on its way.  A
\* frame nobody awaits would be sent to and fro for ever, and be matched to a
\* later probe.
OneInFlight ==
    \A n, m, l \in Nodes : \A i \in Probes(n, m), j \in Probes(n, l) :
        entry[n].awaiting /\ m = l /\ i = j

\* A neighbour is reset, and reported down if it is capable, only when a probe
\* to it or the reflection was really lost: answers that take as long as the
\* link allows, in any interleaving with the rounds, come before the window
\* ends.
DownOnlyAfterLoss ==
    \A n \in Nodes : Expired(entry[n]) => lost[n]

\* The peer will hold n's destination when all RIFs on their way are in: the
\* last one that tells of it says so, or none does and the peer holds it.
Untold(n, i, j) == \A k \in i .. j : wire[n][k].tells = "nothing"

Settles(n) ==
    \/ \E i \in DOMAIN wire[n] :
          wire[n][i].tells = "reach" /\ Untold(n, i + 1, Len(wire[n]))
    \/ belief[Peer(n)] /\ Untold(n, 1, Len(wire[n]))

\* A peer told of a route, that has stayed a target since, is told of its loss:
\* the drained snapshot belongs to one round, and that round must fan out.
LossIsTold ==
    \A n \in Nodes : covered[n] /\ ~held[n] /\ Settles(n) => gone[n]

\* Probing recovers from every loss: once the interlink stays up and carries
\* traffic both ways, a route that lasts is learned by the peer for good.
Traffic == \A n \in Nodes : WF_vars(SendL4(n))

RoutesArrive ==
    Traffic => \A n \in Advertisers : <>[]held[n] => <>[]belief[Peer(n)]
=============================================================================
