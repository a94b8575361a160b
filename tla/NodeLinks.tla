------------------------------ MODULE NodeLinks -------------------------------
(***************************************************************************)
(* The links of one node: the node task's peer table with the session      *)
(* manager behind it, the cross-connects between two legs (a leg is an     *)
(* AX.25 link or a NET/ROM circuit), and the telnet task that connects     *)
(* onward through the node task by way of the relay statics.               *)
(*                                                                         *)
(* The node task handles one event at a time: it posts the event, then     *)
(* works off what it leads to (queue, pending) before it waits again.      *)
(* Every link has the node's own call at this end, so a session is named   *)
(* by its peer.  The data-link tables, the circuits and the radio are      *)
(* outside this module: their answers are the ones the code provides for.  *)
(***************************************************************************)
EXTENDS Naturals, Sequences, SequencesExt, FiniteSets

CONSTANTS
    Stations,     \* stations on the radio
    Neighbours,   \* those of them in the routing table
    Routed,       \* targets the routing table has a route to
    Slots,        \* the peer table, as large as the session manager
    Circuits,     \* the circuit table; a circuit is named by its slot
    Openings,     \* frames a station without a session may send
    MidLink,      \* frames a station with a session may send
    Typed,        \* the lines one delivery of data completes
    TelnetTargets,
    Bye,          \* the line that ends a console session; the others are targets
    Scenarios,    \* who is on the air, what is typed, where telnet users go
    Absent

ASSUME LinksAssumption ==
    /\ Neighbours \subseteq Stations
    /\ IsFiniteSet(Slots) /\ IsFiniteSet(Stations)
    /\ Absent \notin Stations \cup Circuits \cup Routed
    /\ Bye \notin Stations \cup Circuits \cup Routed
    /\ Stations \cap Circuits = {}
    /\ \A l \in Typed : l \in Seq(Range(l))
    /\ Scenarios \subseteq [stations : SUBSET Stations, typed : SUBSET Typed,
                            telnet : SUBSET TelnetTargets]

VARIABLES
    peers,      \* the node task's PeerState per slot
    sess,       \* the session manager's slot per station: Absent or a state
    circuits,   \* the node task's CircuitSlot per slot, and the circuit's phase
    queue,      \* events still to post, by peer slot
    pending,    \* follow-ups still to apply
    request,    \* CONNECT_REQ
    hangup,     \* USER_HANGUP
    status,     \* STATUS
    user,       \* the target the telnet user is piped to
    strays,     \* history: slots whose last frame made no session and raised nothing
    muddled,    \* history: a leg was bridged or reset while it belonged to another
    overlapped, \* history: the relay was begun while one before it was under way
    scenario

links == <<peers, sess, circuits>>
work == <<queue, pending>>
relay == <<request, hangup, status, user>>
history == <<strays, muddled, overlapped, scenario>>
vars == <<links, work, relay, history>>

CircuitIs(k, phase) == circuits[k] # Absent /\ circuits[k].phase = phase
Idle == queue = <<>> /\ pending = <<>>

(***************************************************************************)
(* Roles and legs                                                          *)
(***************************************************************************)
Plain(k) == [kind |-> k, other |-> Absent, initiator |-> FALSE]
Bridge(leg, init) == [kind |-> "Bridge", other |-> leg, initiator |-> init]

\* What the two tables and the session manager hold.
Roles == [kind : {"None", "Console", "Interlink", "Bridge", "Telnet"},
          other : Stations \cup Circuits \cup {Absent}, initiator : BOOLEAN]
PeerStates == [peer : Stations, role : Roles]
CircuitStates == [far : Routed \cup {Absent}, mode : Roles,
                  phase : {"Connecting", "Up", "Closing"}]
SessionStates == {"Dialling", "Resetting", "Connected", "Releasing"}

ASSUME AbsentAssumption ==
    /\ Absent \notin PeerStates /\ Absent \notin CircuitStates
    /\ Absent \notin SessionStates /\ Absent \notin {"Connected", "Ended"}

SlotsOf(s) == {i \in Slots : peers[i] # Absent /\ peers[i].peer = s}
FreeSlots == {i \in Slots : peers[i] = Absent}
PeerState(s, role) == [peer |-> s, role |-> role]

WithRole(ps, leg, role) ==
    [i \in Slots |-> IF ps[i] # Absent /\ ps[i].peer = leg
                     THEN [ps[i] EXCEPT !.role = role] ELSE ps[i]]
WithMode(cs, leg, mode) ==
    [k \in Circuits |-> IF k = leg /\ cs[k] # Absent
                        THEN [cs[k] EXCEPT !.mode = mode] ELSE cs[k]]

RoleOf(leg) ==
    {peers[i].role : i \in SlotsOf(leg)} \cup
    {circuits[k].mode : k \in {j \in Circuits : j = leg /\ circuits[j] # Absent}}

\* A circuit's key is not given out again while a leg names it.
Named == {peers[i].role.other : i \in {j \in Slots : peers[j] # Absent}} \cup
         {circuits[k].mode.other : k \in {j \in Circuits : circuits[j] # Absent}}
\* The leg belongs to a cross-connect, or another leg still says so.
Crossed(leg) == leg \in Named \/ \E r \in RoleOf(leg) : r.kind = "Bridge"
FreeCircuits == {k \in Circuits : circuits[k] = Absent /\ k \notin Named}

Ev(k) == [kind |-> k, lines |-> <<>>]
Post(i, ev) == [slot |-> i, ev |-> ev]

\* What a leg is told: data queued for its link, or written to its circuit.
Tell(leg) == queue \o SetToSeq({Post(i, Ev("Data")) : i \in SlotsOf(leg)})

StartBridge(leg, t) == [kind |-> "StartBridge", leg |-> leg, target |-> t]
Forward(leg) == [kind |-> "Forward", leg |-> leg, target |-> Absent]
BridgeEnded(leg) == [kind |-> "BridgeEnded", leg |-> leg, target |-> Absent]
Ended(role) == IF role.kind = "Bridge" THEN <<BridgeEnded(role.other)>> ELSE <<>>

\* Each line but the closing one asks for an onward connect.
Asks(lines) == {n \in 1..Len(lines) : lines[n] # Bye}
Connects(leg, lines) ==
    LET asks == Asks(lines)
        Nth(k) == CHOOSE n \in asks : Cardinality({m \in asks : m < n}) = k - 1
    IN  [k \in 1..Cardinality(asks) |-> StartBridge(leg, lines[Nth(k)])]

(***************************************************************************)
(* The data-link machine (figures C4.1 to C4.6): the states a session may  *)
(* take on an event, with the signal it raises.  "Dialling" and            *)
(* "Resetting" are AwaitingConnection with and without layer 3 initiated;  *)
(* "Connected" includes TimerRecovery.                                     *)
(***************************************************************************)
To(st, sig) == {[next |-> st, sig |-> sig]}
Stay(st) == To(st, "none")
\* DL-CONNECT indication, if V(S) # V(A): data of ours is unacknowledged.
Reset == Stay("Connected") \cup To("Connected", "Indication")

Sdl(st, ev) ==
    CASE st = "Disconnected" ->
            CASE ev = "Connect" -> Stay("Dialling")
              [] ev = "Release" -> To(st, "Closed")
              [] ev = "SABM"    -> To("Connected", "Indication")
              [] ev = "UA"      -> To(st, "Error")
              [] OTHER          -> Stay(st)
      [] st \in {"Dialling", "Resetting"} ->
            CASE ev = "UA" /\ st = "Dialling"  -> To("Connected", "Confirm")
              [] ev = "UA" /\ st = "Resetting" -> Reset
              [] ev \in {"DM", "GiveUp"} -> To("Disconnected", "Closed")
              [] ev = "Release" -> Stay("Releasing") \cup To("Disconnected", "Closed")
              [] OTHER          -> Stay(st)
      [] st = "Connected" ->
            CASE ev = "SABM"    -> Reset
              [] ev = "UA"      -> Stay("Resetting")
              [] ev \in {"DISC", "DM", "GiveUp"} -> To("Disconnected", "Closed")
              [] ev = "Release" -> Stay("Releasing")
              [] ev = "Text"    -> To(st, "Text")
              [] ev = "NetRom"  -> To(st, "NetRom")
              [] OTHER          -> Stay(st)
      [] st = "Releasing" ->
            CASE ev \in {"UA", "DM", "GiveUp"} -> To("Disconnected", "Closed")
              [] ev = "Release" -> Stay(st) \cup To("Disconnected", "Closed")
              [] OTHER          -> Stay(st)

(***************************************************************************)
(* The session manager                                                     *)
(***************************************************************************)
State(s) == IF sess[s] = Absent THEN "Disconnected" ELSE sess[s]

\* Mutant: what the call raised is not looked at.
TransientWhateverRaised(s, o) == sess[s] = Absent /\ o.next = "Disconnected"

\* A slot this call made and that comes out idle with nothing raised is freed.
Transient(s, o) == sess[s] = Absent /\ o.next = "Disconnected" /\ o.sig = "none"

(***************************************************************************)
(* post_one and reap                                                       *)
(***************************************************************************)
\* A station without a session has none afterwards either, and the node hears
\* nothing of its frame.
Stray(s, o) == State(s) = "Disconnected" /\ o.next = "Disconnected" /\ o.sig = "none"

\* The role after a signal.
RoleAfter(s, role, sig) ==
    CASE sig = "Indication" -> Plain(IF s \in Neighbours THEN "Interlink" ELSE "Console")
      [] sig = "Closed"     -> Plain("None")
      [] sig = "NetRom" /\ role.kind = "Console" -> Plain("Interlink")
      [] OTHER -> role

\* Mutant: the far leg is not told of the end of this one.
FollowUpsUntold(s, role, sig, lines) ==
    CASE sig = "Text" /\ role.kind = "Console" -> Connects(s, lines)
      [] sig = "Text" /\ role.kind = "Bridge"  -> <<Forward(role.other)>>
      [] OTHER -> <<>>

\* The cross-leg work a signal leaves.
FollowUps(s, role, sig, lines) ==
    CASE sig = "Closed" -> Ended(role)
      [] sig = "Text" /\ role.kind = "Console" -> Connects(s, lines)
      [] sig = "Text" /\ role.kind = "Bridge"  -> <<Forward(role.other)>>
      [] OTHER -> <<>>

\* A closing line posts DL-DISCONNECT before the rest of the data is handled.
SessionAfter(role, o, lines) ==
    IF o.sig = "Text" /\ role.kind = "Console" /\ Bye \in Range(lines)
    THEN "Releasing" ELSE o.next

StatusAfter(role, sig) ==
    CASE role.kind = "Telnet" /\ sig = "Confirm" -> "Connected"
      [] role.kind = "Telnet" /\ sig = "Closed"  -> "Ended"
      [] OTHER -> status

PostOne ==
    /\ pending = <<>> /\ queue # <<>>
    /\ LET i == Head(queue).slot
           ev == Head(queue).ev
           p == peers[i]
       IN  /\ queue' = Tail(queue)
           /\ \/ /\ p = Absent
                 /\ UNCHANGED <<links, pending, relay, history>>
              \/ /\ p # Absent
                 /\ \E o \in Sdl(State(p.peer), ev.kind) :
                      LET next == SessionAfter(p.role, o, ev.lines)
                          free == Transient(p.peer, o)
                          reaped == next = "Disconnected" /\ ~free
                      IN  /\ sess' = [sess EXCEPT ![p.peer] =
                                        IF free \/ reaped THEN Absent ELSE next]
                          /\ peers' = [peers EXCEPT ![i] =
                                        IF reaped THEN Absent
                                        ELSE [p EXCEPT !.role = RoleAfter(p.peer, p.role, o.sig)]]
                          /\ pending' = FollowUps(p.peer, p.role, o.sig, ev.lines)
                          /\ status' = StatusAfter(p.role, o.sig)
                          /\ strays' = IF Stray(p.peer, o) THEN strays \cup {i} ELSE strays \ {i}
                          /\ muddled' = (muddled \/ (o.sig = "Indication" /\ p.role.kind = "Bridge"))
                 /\ UNCHANGED <<circuits, request, hangup, user, overlapped, scenario>>

(***************************************************************************)
(* Onward connects                                                         *)
(***************************************************************************)
\* The target is not busy and a slot is free; a port may still not be up.
CanDial(t) == t \in Stations /\ SlotsOf(t) = {} /\ FreeSlots # {}

DialFrom(i, t, role, ps) ==
    /\ peers' = [ps EXCEPT ![i] = PeerState(t, role)]
    /\ queue' = Append(queue, Post(i, Ev("Connect")))

ByCircuit(t) == t \in Routed /\ FreeCircuits # {}

OpenCircuit(k, t, mode, cs) ==
    [cs EXCEPT ![k] = [far |-> t, mode |-> mode, phase |-> "Connecting"]]

\* History: a leg that still belongs to another cross-connect is bridged.  With
\* no cross-connect left there is nothing to muddle up.
Bridging(crossed) ==
    /\ muddled' = (crossed \/ (muddled /\ \E leg \in Stations \cup Circuits : Crossed(leg)))
    /\ UNCHANGED <<strays, overlapped, scenario>>

DoStartBridge(f) ==
    \/ /\ ByCircuit(f.target)
       /\ \E k \in FreeCircuits :
            /\ peers' = WithRole(peers, f.leg, Bridge(k, TRUE))
            /\ circuits' = OpenCircuit(k, f.target, Bridge(f.leg, FALSE),
                                       WithMode(circuits, f.leg, Bridge(k, TRUE)))
       /\ Bridging(Crossed(f.leg))
       /\ UNCHANGED <<sess, queue, relay>>
    \/ /\ ~ByCircuit(f.target) /\ CanDial(f.target)
       /\ \E i \in FreeSlots :
            DialFrom(i, f.target, Bridge(f.leg, FALSE),
                     WithRole(peers, f.leg, Bridge(f.target, TRUE)))
       /\ circuits' = WithMode(circuits, f.leg, Bridge(f.target, TRUE))
       /\ Bridging(Crossed(f.leg) \/ Crossed(f.target))
       /\ UNCHANGED <<sess, relay>>
    \/ /\ ~ByCircuit(f.target)
       /\ queue' = Tell(f.leg)
       /\ UNCHANGED <<links, relay, history>>

\* Mutant: the survivor keeps its role.
DoBridgeEndedKeeping(leg) ==
    /\ queue' = Tell(leg)
    /\ UNCHANGED <<links, relay, history>>

\* A user gets its console back, a target is let go.
DoBridgeEnded(leg) ==
    LET Is(role) == role.kind = "Bridge" /\ role.initiator
        users == {i \in SlotsOf(leg) : Is(peers[i].role)}
        targets == SlotsOf(leg) \ users
    IN  /\ peers' = WithRole(peers, leg, IF users # {} THEN Plain("Console") ELSE Plain("None"))
        /\ queue' = queue \o SetToSeq({Post(i, Ev("Data")) : i \in users} \cup
                                      {Post(i, Ev("Release")) : i \in targets})
        /\ circuits' = [k \in Circuits |->
              IF k # leg \/ circuits[k] = Absent THEN circuits[k]
              ELSE IF Is(circuits[k].mode) THEN [circuits[k] EXCEPT !.mode = Plain("Console")]
              ELSE [circuits[k] EXCEPT !.phase = "Closing"]]
        /\ UNCHANGED <<sess, relay, history>>

ApplyFollowUp ==
    /\ pending # <<>>
    /\ pending' = Tail(pending)
    /\ LET f == Head(pending)
       IN  \/ f.kind = "StartBridge" /\ DoStartBridge(f)
           \/ f.kind = "Forward" /\ queue' = Tell(f.leg) /\ UNCHANGED <<links, relay, history>>
           \/ f.kind = "BridgeEnded" /\ DoBridgeEnded(f.leg)

(***************************************************************************)
(* What wakes the node task: the radio, timers, circuits, interlinks       *)
(***************************************************************************)
\* A frame for the node; with no slot for a new peer it is dropped.
Receive(s, f) ==
    /\ Idle
    /\ s \in scenario.stations
    /\ f.kind \in (IF sess[s] = Absent THEN Openings ELSE MidLink)
    /\ f.kind = "Text" => f.lines \in scenario.typed
    /\ \/ /\ SlotsOf(s) # {}
          /\ queue' = SetToSeq({Post(i, f) : i \in SlotsOf(s)})
          /\ UNCHANGED peers
       \/ /\ SlotsOf(s) = {}
          /\ \E i \in FreeSlots :
               /\ peers' = [peers EXCEPT ![i] = PeerState(s, Plain("None"))]
               /\ queue' = <<Post(i, f)>>
    /\ UNCHANGED <<sess, circuits, pending, relay, history>>

\* T1 has run out N2 times.
GiveUp(s) ==
    /\ Idle /\ sess[s] \notin {Absent, "Disconnected"} /\ SlotsOf(s) # {}
    /\ queue' = SetToSeq({Post(i, Ev("GiveUp")) : i \in SlotsOf(s)})
    /\ UNCHANGED <<links, pending, relay, history>>

\* ensure_interlinks, and a datagram for a neighbour with no link.
DialInterlink(s) ==
    /\ Idle /\ s \in Neighbours \cap scenario.stations /\ CanDial(s)
    /\ \E i \in FreeSlots : DialFrom(i, s, Plain("Interlink"), peers)
    /\ UNCHANGED <<sess, circuits, pending, relay, history>>

CircuitIn ==
    /\ Idle
    /\ \E k \in FreeCircuits :
         circuits' = [circuits EXCEPT ![k] =
                        [far |-> Absent, mode |-> Plain("Console"), phase |-> "Up"]]
    /\ UNCHANGED <<peers, sess, work, relay, history>>

CircuitUp(k) ==
    /\ Idle /\ CircuitIs(k, "Connecting")
    /\ circuits' = [circuits EXCEPT ![k].phase = "Up"]
    /\ status' = IF circuits[k].mode.kind = "Telnet" THEN "Connected" ELSE status
    /\ UNCHANGED <<peers, sess, work, request, hangup, user, history>>

\* Lines typed after a connect belong to the far side.
UpToConnect(lines) ==
    LET read == {n \in 1..Len(lines) : \A m \in 1..(n - 1) : lines[m] = Bye}
    IN  SubSeq(lines, 1, Cardinality(read))

CircuitData(k, lines) ==
    /\ Idle /\ CircuitIs(k, "Up") /\ lines \in scenario.typed
    /\ LET mode == circuits[k].mode
           read == UpToConnect(lines)
       IN  \/ /\ mode.kind = "Console"
              /\ pending' = Connects(k, read)
              /\ circuits' = IF Bye \in Range(read)
                             THEN [circuits EXCEPT ![k].phase = "Closing"] ELSE circuits
           \/ /\ mode.kind = "Bridge"
              /\ pending' = <<Forward(mode.other)>>
              /\ UNCHANGED circuits
    /\ UNCHANGED <<peers, sess, queue, relay, history>>

CircuitClosed(k) ==
    /\ Idle /\ circuits[k] # Absent
    /\ circuits' = [circuits EXCEPT ![k] = Absent]
    /\ pending' = Ended(circuits[k].mode)
    /\ status' = IF circuits[k].mode.kind = "Telnet" THEN "Ended" ELSE status
    /\ UNCHANGED <<peers, sess, queue, request, hangup, user, history>>

(***************************************************************************)
(* The telnet relay                                                        *)
(***************************************************************************)
RelaySlots == {i \in Slots : peers[i] # Absent /\ peers[i].role.kind = "Telnet"}
RelayCircuits == {k \in Circuits : circuits[k] # Absent /\ circuits[k].mode.kind = "Telnet"}
RelayActive == RelaySlots \cup RelayCircuits # {}

\* The telnet task: begin, and the relay loop.  The tasks share one executor,
\* so the node has heard of a hangup it waits for before the user is back.
Begin(t) ==
    /\ user = Absent /\ t \in scenario.telnet
    /\ hangup => ~RelayActive /\ request = Absent
    /\ hangup' = FALSE /\ status' = Absent
    /\ IF request = Absent THEN request' = t /\ user' = t
                           ELSE UNCHANGED <<request, user>>
    /\ overlapped' = (RelayActive \/ request # Absent)
    /\ UNCHANGED <<links, work, strays, muddled, scenario>>

UserLeaves ==
    /\ user # Absent
    /\ hangup' = TRUE /\ user' = Absent
    /\ UNCHANGED <<links, work, request, status, history>>

ReadStatus ==
    /\ user # Absent /\ status # Absent
    /\ status' = Absent
    /\ user' = IF status = "Ended" THEN Absent ELSE user
    /\ UNCHANGED <<links, work, request, hangup, history>>

\* The node task: it takes a request only when no relay is under way.
StartRelay ==
    /\ Idle /\ ~RelayActive /\ request # Absent
    /\ request' = Absent
    /\ \/ /\ ByCircuit(request)
          /\ \E k \in FreeCircuits : circuits' = OpenCircuit(k, request, Plain("Telnet"), circuits)
          /\ UNCHANGED <<peers, queue, status>>
       \/ /\ ~ByCircuit(request) /\ CanDial(request)
          /\ \E i \in FreeSlots : DialFrom(i, request, Plain("Telnet"), peers)
          /\ UNCHANGED <<circuits, status>>
       \/ /\ ~ByCircuit(request)
          /\ status' = "Ended"
          /\ UNCHANGED <<peers, circuits, queue>>
    /\ UNCHANGED <<sess, pending, hangup, user, history>>

\* Mutant: a hangup is taken before its relay is under way.
RelayHangupEarly ==
    /\ Idle /\ hangup
    /\ hangup' = FALSE
    /\ circuits' = [k \in Circuits |-> IF k \in RelayCircuits
                       THEN [circuits[k] EXCEPT !.phase = "Closing"] ELSE circuits[k]]
    /\ peers' = [i \in Slots |-> IF i \in RelaySlots
                       THEN [peers[i] EXCEPT !.role = Plain("None")] ELSE peers[i]]
    /\ queue' = SetToSeq({Post(i, Ev("Release")) : i \in RelaySlots})
    /\ UNCHANGED <<sess, pending, request, status, user, history>>

RelayHangup ==
    /\ Idle /\ RelayActive /\ hangup
    /\ hangup' = FALSE
    /\ \/ /\ RelayCircuits # {}
          /\ circuits' = [k \in Circuits |-> IF k \in RelayCircuits
                            THEN [circuits[k] EXCEPT !.phase = "Closing"] ELSE circuits[k]]
          /\ UNCHANGED <<peers, queue>>
       \/ /\ RelayCircuits = {}
          /\ peers' = [i \in Slots |-> IF i \in RelaySlots
                            THEN [peers[i] EXCEPT !.role = Plain("None")] ELSE peers[i]]
          /\ queue' = SetToSeq({Post(i, Ev("Release")) : i \in RelaySlots})
          /\ UNCHANGED circuits
    /\ UNCHANGED <<sess, pending, request, status, user, history>>

-------------------------------------------------------------------------------
Frames == {Ev(k) : k \in (Openings \cup MidLink) \ {"Text"}} \cup
          {[kind |-> "Text", lines |-> l] : l \in Typed}

Init ==
    /\ peers = [i \in Slots |-> Absent]
    /\ sess = [s \in Stations |-> Absent]
    /\ circuits = [k \in Circuits |-> Absent]
    /\ queue = <<>> /\ pending = <<>>
    /\ request = Absent /\ hangup = FALSE /\ status = Absent /\ user = Absent
    /\ strays = {} /\ muddled = FALSE /\ overlapped = FALSE
    /\ scenario \in Scenarios

NodeStep == PostOne \/ ApplyFollowUp

Next ==
    \/ NodeStep
    \/ \E s \in Stations : GiveUp(s) \/ DialInterlink(s) \/ \E f \in Frames : Receive(s, f)
    \/ CircuitIn
    \/ \E k \in Circuits : CircuitUp(k) \/ CircuitClosed(k) \/ \E l \in Typed : CircuitData(k, l)
    \/ \E t \in TelnetTargets : Begin(t)
    \/ UserLeaves \/ ReadStatus \/ StartRelay \/ RelayHangup

\* The node works on until it is idle.  A link that is neither up nor idle has T1
\* armed and N2 retries at most, and a circuit that is not up has its own retries;
\* the node takes an expired timer between frames, which come at radio speed.
Fairness ==
    /\ WF_vars(NodeStep)
    /\ \A s \in Stations :
          SF_vars(sess[s] \in {"Dialling", "Resetting", "Releasing"} /\ GiveUp(s))
    /\ \A k \in Circuits : SF_vars(~CircuitIs(k, "Up") /\ CircuitClosed(k))

Spec == Init /\ [][Next]_vars /\ Fairness

-------------------------------------------------------------------------------
(***************************************************************************)
(* Properties                                                              *)
(***************************************************************************)
Occupied == {i \in Slots : peers[i] # Absent}
\* The peer table and the session manager agree whenever the node waits, but for
\* the strays: a session has a slot, and a slot has a session or is one that a
\* station took with a frame nothing came of, such as a DM or a poll.  The session
\* manager gave that one up without telling the node, which keeps it.
SlotsMatchSessions ==
    Idle => /\ {peers[i].peer : i \in Occupied \ strays} = {s \in Stations : sess[s] # Absent}
            /\ strays \subseteq Occupied

\* What node.rs says of every slot: a session is reaped "and the peer slot with it -
\* capacity reclaimed, timers stopped".
CapacityReclaimed == SlotsMatchSessions /\ (Idle => strays = {})

\* The two legs of a cross-connect name each other, and exactly one of them is the
\* user's.  A circuit on its way out may be left over.
LegsPaired ==
    \A leg \in Stations \cup Circuits : \A r \in RoleOf(leg) : r.kind = "Bridge" =>
        \/ Bridge(leg, ~r.initiator) \in RoleOf(r.other)
        \/ leg \in Circuits /\ circuits[leg].phase = "Closing"

\* They do whenever the node waits, through every order of connects, refusals and
\* ends of either leg, until a leg is reset, or bridged again, while it belongs to a
\* cross-connect: the node forgets the other leg then.
BridgesPaired == Idle /\ ~muddled => LegsPaired
BridgesAlwaysPaired == Idle => LegsPaired

\* A relay the telnet user started is under way only while that user is there, or
\* its hangup is still to be handled; and it goes to the target the user asked for.
RelayTargets == {peers[i].peer : i \in RelaySlots} \cup
                {circuits[k].far : k \in {j \in RelayCircuits : circuits[j].phase # "Closing"}}
RelayIsTheUsers ==
    RelayActive /\ ~hangup /\ status # "Ended" => RelayTargets \subseteq {user}

\* So it is unless the relay was begun while the circuit of the one before was still
\* closing, since the two share one hangup and one status.  relay.rs says it of all.
RelayAttended == ~overlapped => RelayIsTheUsers

\* A user who asked for an onward connect gets through, or gets its console back,
\* or is gone: nobody is left with a far side that never comes up, unless the
\* legs were muddled up.
FarUp(leg) == \/ leg \in Stations /\ sess[leg] = "Connected"
              \/ leg \in Circuits /\ CircuitIs(leg, "Up")
Unanswered(leg) == \E far \in Stations \cup Circuits :
    Bridge(far, TRUE) \in RoleOf(leg) /\ ~FarUp(far)
OnwardSettles == \A leg \in Stations \cup Circuits : []<>(muddled \/ ~Unanswered(leg))
=============================================================================
