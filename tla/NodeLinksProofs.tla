---------------------------- MODULE NodeLinksProofs ----------------------------
(***************************************************************************)
(* The links of a node, for any number of stations, slots and circuits.    *)
(* The argument: a slot given out before its session exists has an event   *)
(* in the queue, which makes the session or leaves a stray; and an event   *)
(* that may end a session is alone in the queue, with no follow-up before  *)
(* it, so that no event ever reaches a slot given out again.               *)
(***************************************************************************)
EXTENDS NodeLinks, FiniteSetTheorems, SequenceTheorems, TLAPS

EventKinds == Openings \cup MidLink \cup {"Connect", "Data", "Release", "GiveUp"}
Lines == UNION {Range(l) : l \in Typed}
Events == [kind : EventKinds, lines : Seq(Lines)]
Posts == [slot : Slots, ev : Events]
Legs == Stations \cup Circuits \cup {Absent}
WorkKinds == {"StartBridge", "Forward", "BridgeEnded"}

\* The shape of the state.
TypeOK ==
    /\ peers \in [Slots -> PeerStates \cup {Absent}]
    /\ sess \in [Stations -> SessionStates \cup {Absent}]
    /\ circuits \in [Circuits -> CircuitStates \cup {Absent}]
    /\ queue \in Seq(Posts)
    /\ pending \in Seq(Range(pending))
    /\ \A n \in 1..Len(pending) : pending[n].kind \in WorkKinds /\ pending[n].leg \in Legs

\* No two slots have the same peer.
OnePeerPerSlot == \A i, j \in Occupied : peers[i].peer = peers[j].peer => i = j

\* A session has a slot.
Behind == \A s \in Stations : sess[s] # Absent => SlotsOf(s) # {}

\* The first event in the queue for slot i is the n-th.
FirstFor(i, n) ==
    n \in 1..Len(queue) /\ queue[n].slot = i /\ \A m \in 1..(n - 1) : queue[m].slot # i

\* A stray has no session, and any other slot without one has an event to come,
\* which makes the session, or a stray, or has the slot reaped.
Fed ==
    /\ \A i \in strays : i \in Occupied /\ sess[peers[i].peer] = Absent
    /\ \A i \in Occupied \ strays : sess[peers[i].peer] = Absent =>
          \E n \in 1..Len(queue) : FirstFor(i, n)

\* Nothing in the queue ends a session.
Harmless ==
    \A n \in 1..Len(queue) : queue[n].ev.kind \in {"Connect", "Data"} /\ queue[n].slot \in Occupied

\* What may end a session is alone in the queue, and so is the end of a bridge
\* among the follow-ups.
Calm ==
    \/ Harmless /\ \A n \in 1..Len(pending) : pending[n].kind # "BridgeEnded"
    \/ queue = <<>> /\ Len(pending) = 1
    \/ pending = <<>> /\ Len(queue) <= 1

\* The telnet task has one link at most.
OneRelay == \A i, j \in RelaySlots : i = j

Inv == TypeOK /\ OnePeerPerSlot /\ Behind /\ Fed /\ Calm /\ OneRelay

-------------------------------------------------------------------------------
(***************************************************************************)
(* The operators.                                                          *)
(***************************************************************************)
LEMMA SetToSeqType ==
    ASSUME NEW S, IsFiniteSet(S)
    PROVE  /\ SetToSeq(S) \in Seq(S)
           /\ Len(SetToSeq(S)) = Cardinality(S)
           /\ Cardinality(S) \in Nat
<1>1. Cardinality(S) \in Nat /\ ExistsBijection(1..Cardinality(S), S)
  BY FS_CardinalityType
<1>2. \E f \in [1..Cardinality(S) -> S] : IsInjective(f)
  BY <1>1 DEF ExistsBijection, Bijection, Injection, IsInjective
<1>3. SetToSeq(S) \in [1..Cardinality(S) -> S]
  BY <1>2 DEF SetToSeq
<1> QED BY <1>1, <1>3

\* A set with at most one element.
LEMMA ShortSeq ==
    ASSUME NEW S, \A x, y \in S : x = y
    PROVE  SetToSeq(S) \in Seq(S) /\ Len(SetToSeq(S)) <= 1
<1>1. IsFiniteSet(S) /\ Cardinality(S) <= 1
  <2>1. CASE S = {}
    <3>1. IsFiniteSet(S) /\ Cardinality(S) = 0
      BY <2>1, FS_EmptySet
    <3> QED BY <3>1
  <2>2. CASE S # {}
    <3>1. PICK x \in S : TRUE
      BY <2>2
    <3>2. S = {x}
      BY <3>1
    <3>3. IsFiniteSet(S) /\ Cardinality(S) = 1
      BY <3>2, FS_Singleton
    <3> QED BY <3>3
  <2> QED BY <2>1, <2>2
<1> QED BY <1>1, SetToSeqType

\* What the data-link machine answers is a state and a signal.
LEMMA SdlType ==
    ASSUME NEW st \in SessionStates \cup {"Disconnected"}, NEW ev, NEW o \in Sdl(st, ev)
    PROVE  o.next \in SessionStates \cup {"Disconnected"}
BY DEF Sdl, To, Stay, Reset, SessionStates

\* Data and a request to connect leave a session, and say nothing.
LEMMA SdlHarmless ==
    ASSUME NEW st \in SessionStates \cup {"Disconnected"}, NEW ev \in {"Connect", "Data"},
           NEW o \in Sdl(st, ev)
    PROVE  /\ o.sig = "none"
           /\ st # "Disconnected" => o.next = st
           /\ ev = "Connect" => o.next # "Disconnected"
BY DEF Sdl, To, Stay, SessionStates

\* The follow-ups of the lines typed are connects.
LEMMA ConnectsType ==
    ASSUME NEW leg, NEW lines, Len(lines) \in Nat
    PROVE  LET c == Connects(leg, lines)
           IN  /\ c \in Seq(Range(c)) /\ Len(c) = Cardinality(Asks(lines))
               /\ \A n \in 1..Len(c) : c[n].kind = "StartBridge" /\ c[n].leg = leg
<1> DEFINE asks == Asks(lines)
           Nth(k) == CHOOSE n \in asks : Cardinality({m \in asks : m < n}) = k - 1
           c == Connects(leg, lines)
<1>1. asks \subseteq 1..Len(lines)
  BY DEF Asks
<1>2. IsFiniteSet(1..Len(lines))
  BY FS_Interval
<1>3. IsFiniteSet(asks)
  BY <1>1, <1>2, FS_Subset
<1>4. Cardinality(asks) \in Nat
  BY <1>3, FS_CardinalityType
<1>5. c = [k \in 1..Cardinality(asks) |-> StartBridge(leg, lines[Nth(k)])]
  BY DEF Connects
<1>6. \A k \in 1..Cardinality(asks) : c[k] = StartBridge(leg, lines[Nth(k)])
  BY <1>5
<1>7. DOMAIN c = 1..Cardinality(asks)
  BY <1>5
<1>8. c \in Seq(Range(c)) /\ Len(c) = Cardinality(asks)
  <2>1. c \in [1..Cardinality(asks) -> Range(c)]
    BY <1>5, <1>7 DEF Range
  <2> HIDE DEF c, asks
  <2> QED BY <2>1, <1>4
<1>9. \A n \in 1..Len(c) : c[n].kind = "StartBridge" /\ c[n].leg = leg
  <2>1. \A n \in 1..Len(c) : \E t : c[n] = StartBridge(leg, t)
    <3> HIDE DEF c, asks, Nth
    <3> QED BY <1>6, <1>8
  <2> SUFFICES ASSUME NEW n \in 1..Len(c)
               PROVE  c[n].kind = "StartBridge" /\ c[n].leg = leg
    OBVIOUS
  <2>2. PICK t : c[n] = StartBridge(leg, t)
    BY <2>1
  <2> HIDE DEF c, asks, Nth
  <2> QED BY <2>2 DEF StartBridge
<1> HIDE DEF c
<1> QED BY <1>8, <1>9 DEF c

LEMMA OneElement ==
    ASSUME NEW x
    PROVE  <<x>> \in Seq(Range(<<x>>)) /\ Len(<<x>>) = 1 /\ <<x>>[1] = x
BY DEF Range

\* The tail of a sequence.
LEMMA TailFacts ==
    ASSUME NEW S, NEW q \in Seq(S), q # <<>>
    PROVE  /\ Tail(q) \in Seq(S) /\ Len(Tail(q)) = Len(q) - 1 /\ Head(q) = q[1] /\ q[1] \in S
           /\ \A n \in 1..Len(Tail(q)) : Tail(q)[n] = q[n + 1]
           /\ Len(q) \in Nat \ {0}
OBVIOUS

\* What is left of the follow-ups.
LEMMA TailIsSeq ==
    ASSUME NEW q, q \in Seq(Range(q)), q # <<>>
    PROVE  Tail(q) \in Seq(Range(Tail(q)))
<1>1. Tail(q) \in Seq(Range(q))
  OBVIOUS
<1> QED BY <1>1, SeqOfRange

LEMMA ConcatFacts ==
    ASSUME NEW S, NEW p \in Seq(S), NEW q \in Seq(S)
    PROVE  /\ p \o q \in Seq(S) /\ Len(p \o q) = Len(p) + Len(q)
           /\ \A n \in 1..Len(p) : (p \o q)[n] = p[n]
           /\ \A n \in 1..Len(q) : (p \o q)[Len(p) + n] = q[n]
           /\ Len(p) \in Nat /\ Len(q) \in Nat
OBVIOUS

-------------------------------------------------------------------------------
(***************************************************************************)
(* Slots and sessions.                                                     *)
(***************************************************************************)
LEMMA InitInv == Init => Inv
<1> SUFFICES ASSUME Init PROVE Inv
  OBVIOUS
<1>1. Occupied = {}
  BY DEF Init, Occupied
<1>2. TypeOK
  BY DEF Init, TypeOK, Range
<1>3. OnePeerPerSlot /\ Fed /\ OneRelay
  BY <1>1 DEF Init, OnePeerPerSlot, Fed, OneRelay, RelaySlots, Occupied
<1>4. Behind
  BY DEF Init, Behind
<1>5. Calm
  BY DEF Init, Calm
<1> QED BY <1>2, <1>3, <1>4, <1>5 DEF Inv

\* While the node waits, every slot but the strays has its session and every
\* session its slot.
LEMMA IdleMatches ==
    ASSUME Inv, queue = <<>>
    PROVE  /\ \A i \in Occupied \ strays : sess[peers[i].peer] # Absent
           /\ strays \subseteq Occupied
           /\ {peers[i].peer : i \in Occupied \ strays} = {s \in Stations : sess[s] # Absent}
<1>1. /\ \A i \in strays : i \in Occupied /\ sess[peers[i].peer] = Absent
      /\ \A i \in Occupied \ strays : sess[peers[i].peer] # Absent
  BY DEF Inv, Fed
<1>2. \A s \in Stations : sess[s] # Absent => \E i \in Occupied : peers[i].peer = s
  BY DEF Inv, Behind, SlotsOf, Occupied
<1>3. \A i \in Occupied : peers[i].peer \in Stations
  BY DEF Inv, TypeOK, Occupied, PeerStates
<1>4. \A s \in Stations : sess[s] # Absent => \E i \in Occupied \ strays : peers[i].peer = s
  BY <1>1, <1>2
<1>5. strays \subseteq Occupied
  BY <1>1
<1> QED BY <1>1, <1>3, <1>4, <1>5

\* A step that leaves the peer table, the sessions and the work alone.
LEMMA QuietStep ==
    ASSUME Inv, UNCHANGED <<peers, sess, queue, pending, strays>>,
           circuits' \in [Circuits -> CircuitStates \cup {Absent}]
    PROVE  Inv'
BY DEF Inv, TypeOK, OnePeerPerSlot, Behind, Fed, FirstFor, Calm, Harmless, OneRelay, RelaySlots,
       Occupied, SlotsOf

\* The peer table names the same peers in the same slots, and no relay is new.
SamePeers ==
    /\ peers' \in [Slots -> PeerStates \cup {Absent}]
    /\ \A i \in Slots : /\ peers'[i] = Absent <=> peers[i] = Absent
                        /\ peers[i] # Absent => peers'[i].peer = peers[i].peer
    /\ RelaySlots' \subseteq RelaySlots

\* Events put at the end of the queue, the slots as they were.
LEMMA QueueMore ==
    ASSUME Inv, SamePeers, sess' = sess, strays' = strays,
           queue' \in Seq(Posts), Len(queue) <= Len(queue'),
           \A n \in 1..Len(queue) : queue'[n] = queue[n]
    PROVE  OnePeerPerSlot' /\ Behind' /\ Fed' /\ OneRelay'
<1>1. Occupied' = Occupied /\ \A i \in Occupied : peers'[i].peer = peers[i].peer
  BY DEF SamePeers, Occupied
<1>2. OnePeerPerSlot'
  BY <1>1 DEF Inv, OnePeerPerSlot
<1>3. Behind'
  <2>1. \A s \in Stations : SlotsOf(s)' = SlotsOf(s)
    BY <1>1 DEF SlotsOf, Occupied
  <2> QED BY <2>1 DEF Inv, Behind
<1>4. Len(queue) \in Nat /\ Len(queue') \in Nat
  BY DEF Inv, TypeOK
<1>5. Fed'
  <2>1. \A i \in strays : i \in Occupied' /\ sess[peers'[i].peer] = Absent
    BY <1>1 DEF Inv, Fed
  <2> SUFFICES ASSUME NEW i \in Occupied' \ strays, sess[peers'[i].peer] = Absent
               PROVE  \E n \in 1..Len(queue') : FirstFor(i, n)'
    BY <2>1 DEF Fed
  <2>2. PICK n \in 1..Len(queue) : FirstFor(i, n)
    BY <1>1 DEF Inv, Fed
  <2>3. n \in 1..Len(queue') /\ \A m \in 1..n : queue'[m] = queue[m]
    BY <1>4
  <2>4. FirstFor(i, n)'
    BY <2>2, <2>3 DEF FirstFor
  <2> QED BY <2>3, <2>4
<1>6. OneRelay'
  BY DEF SamePeers, Inv, OneRelay
<1> QED BY <1>2, <1>3, <1>5, <1>6

\* A slot is given to a station that has none, and the first event for it is put
\* at the end of the queue.
Given(i, t, role, ev) ==
    /\ i \in FreeSlots /\ t \in Stations /\ SlotsOf(t) = {}
    /\ role \in Roles /\ (role.kind = "Telnet" => RelaySlots = {})
    /\ ev \in Events
    /\ peers' \in [Slots -> PeerStates \cup {Absent}]
    /\ peers'[i] = PeerState(t, role)
    /\ \A j \in Slots \ {i} : /\ peers'[j] = Absent <=> peers[j] = Absent
                              /\ peers[j] # Absent => peers'[j].peer = peers[j].peer
                              /\ j \in RelaySlots' => j \in RelaySlots
    /\ sess' = sess /\ strays' = strays /\ queue' = Append(queue, Post(i, ev))

LEMMA SlotGiven ==
    ASSUME Inv, Harmless \/ queue = <<>>,
           NEW i, NEW t, NEW role, NEW ev, Given(i, t, role, ev)
    PROVE  /\ OnePeerPerSlot' /\ Behind' /\ Fed' /\ OneRelay' /\ queue' \in Seq(Posts)
           /\ Harmless /\ ev.kind = "Connect" => Harmless'
           /\ Len(queue') = Len(queue) + 1
<1> USE DEF Given
<1>1. /\ i \in Slots /\ i \notin Occupied /\ Occupied' = Occupied \cup {i} /\ Occupied \subseteq Slots
      /\ \A j \in Occupied : peers'[j].peer = peers[j].peer /\ j # i
      /\ peers'[i].peer = t /\ peers'[i].role = role
  <2>1. PeerState(t, role) # Absent
    BY AbsentAssumption DEF PeerState, PeerStates
  <2>2. i \in Slots /\ peers[i] = Absent
    BY DEF FreeSlots
  <2>3. \A j \in Slots : j \in Occupied' <=> j \in Occupied \/ j = i
    BY <2>1, <2>2 DEF Occupied
  <2> QED BY <2>1, <2>2, <2>3 DEF Occupied, PeerState
<1>2. \A j \in Occupied : peers[j].peer # t
  BY DEF SlotsOf, Occupied
<1>3. OnePeerPerSlot'
  BY <1>1, <1>2 DEF Inv, OnePeerPerSlot
<1>4. Behind'
  <2>1. \A s \in Stations : SlotsOf(s) \subseteq SlotsOf(s)'
    BY <1>1 DEF SlotsOf, Occupied
  <2> QED BY <2>1 DEF Inv, Behind
<1>5. /\ queue \in Seq(Posts) /\ Len(queue) \in Nat
      /\ Post(i, ev) \in Posts
  BY <1>1 DEF Inv, TypeOK, Post, Posts
<1>6. /\ queue' \in Seq(Posts) /\ Len(queue') = Len(queue) + 1
      /\ \A n \in 1..Len(queue) : queue'[n] = queue[n]
      /\ queue'[Len(queue) + 1] = Post(i, ev)
  BY <1>5
<1>7. \A n \in 1..Len(queue) : queue[n].slot \in Occupied
  BY <1>5 DEF Harmless
<1>8. Fed'
  <2>0. \A j \in strays : j \in Occupied' /\ sess[peers'[j].peer] = Absent
    BY <1>1 DEF Inv, Fed
  <2> SUFFICES ASSUME NEW j \in Occupied' \ strays, sess[peers'[j].peer] = Absent
               PROVE  \E n \in 1..Len(queue') : FirstFor(j, n)'
    BY <2>0 DEF Fed
  <2>1. CASE j = i
    <3>1. \A m \in 1..Len(queue) : queue'[m].slot # i
      BY <1>1, <1>6, <1>7
    <3>2. PICK L \in 1..Len(queue') : L = Len(queue) + 1
      BY <1>5, <1>6
    <3>3. queue'[L].slot = i
      BY <1>6, <3>2 DEF Post
    <3>4. \A m \in 1..(L - 1) : queue'[m].slot # i
      BY <1>5, <3>1, <3>2
    <3>5. FirstFor(i, L)'
      BY <3>2, <3>3, <3>4 DEF FirstFor
    <3> QED BY <2>1, <3>2, <3>5
  <2>2. CASE j # i
    <3>1. j \in Occupied \ strays /\ sess[peers[j].peer] = Absent
      BY <1>1, <2>2
    <3>2. PICK n \in 1..Len(queue) : FirstFor(j, n)
      BY <3>1 DEF Inv, Fed
    <3>3. n \in 1..Len(queue') /\ \A m \in 1..n : queue'[m] = queue[m]
      BY <1>5, <1>6
    <3>4. FirstFor(j, n)'
      BY <3>2, <3>3 DEF FirstFor
    <3> QED BY <3>3, <3>4
  <2> QED BY <2>1, <2>2
<1>9. OneRelay'
  <2>1. RelaySlots' \subseteq RelaySlots \cup {i}
    BY DEF RelaySlots
  <2>2. CASE role.kind = "Telnet"
    BY <2>1, <2>2 DEF OneRelay
  <2>3. CASE role.kind # "Telnet"
    <3>1. i \notin RelaySlots'
      BY <1>1, <2>3 DEF RelaySlots
    <3> QED BY <2>1, <3>1 DEF Inv, OneRelay
  <2> QED BY <2>2, <2>3
<1>10. Harmless /\ ev.kind = "Connect" => Harmless'
  <2> SUFFICES ASSUME Harmless, ev.kind = "Connect", NEW n \in 1..Len(queue')
               PROVE  queue'[n].ev.kind \in {"Connect", "Data"} /\ queue'[n].slot \in Occupied'
    BY DEF Harmless
  <2>1. CASE n \in 1..Len(queue)
    BY <1>1, <1>6, <2>1 DEF Harmless
  <2>2. CASE n = Len(queue) + 1
    BY <1>1, <1>6, <2>2 DEF Post
  <2> QED BY <1>5, <1>6, <2>1, <2>2
<1> QED BY <1>3, <1>4, <1>6, <1>8, <1>9, <1>10

\* What a slot and its session come to with one event.
LEMMA Handled ==
    ASSUME Inv, PostOne, peers[Head(queue).slot] # Absent
    PROVE  LET i == Head(queue).slot
               ev == Head(queue).ev
               p == peers[i]
           IN  \E o \in Sdl(State(p.peer), ev.kind), st \in SessionStates \cup {Absent},
                  reaped \in BOOLEAN :
                   /\ sess' = [sess EXCEPT ![p.peer] = st]
                   /\ peers' = [peers EXCEPT ![i] =
                         IF reaped THEN Absent
                         ELSE [p EXCEPT !.role = RoleAfter(p.peer, p.role, o.sig)]]
                   /\ pending' = FollowUps(p.peer, p.role, o.sig, ev.lines)
                   /\ reaped => st = Absent /\ o.next = "Disconnected"
                   /\ st = Absent /\ ~reaped => strays' = strays \cup {i}
                   /\ st # Absent \/ reaped => strays' = strays \ {i}
                   /\ Harmless => o.sig = "none" /\ ~reaped
                   /\ st = Absent /\ ~reaped =>
                         sess[p.peer] = Absent /\ o.next = "Disconnected" /\ o.sig = "none"
                   /\ muddled' = (muddled \/ (o.sig = "Indication" /\ p.role.kind = "Bridge"))
<1> DEFINE i == Head(queue).slot
           ev == Head(queue).ev
           p == peers[i]
<1>1. /\ queue # <<>> /\ queue \in Seq(Posts)
      /\ Head(queue) = queue[1] /\ queue[1] \in Posts /\ Len(queue) \in Nat \ {0}
  BY TailFacts DEF PostOne, Inv, TypeOK
<1>2. i \in Slots /\ ev \in Events /\ i \in Occupied /\ p \in PeerStates /\ p.peer \in Stations
  BY <1>1 DEF Posts, Inv, TypeOK, Occupied, PeerStates
<1>3. PICK o \in Sdl(State(p.peer), ev.kind) :
         LET next == SessionAfter(p.role, o, ev.lines)
             free == Transient(p.peer, o)
             reaped == next = "Disconnected" /\ ~free
         IN  /\ sess' = [sess EXCEPT ![p.peer] = IF free \/ reaped THEN Absent ELSE next]
             /\ peers' = [peers EXCEPT ![i] =
                             IF reaped THEN Absent
                             ELSE [p EXCEPT !.role = RoleAfter(p.peer, p.role, o.sig)]]
             /\ pending' = FollowUps(p.peer, p.role, o.sig, ev.lines)
             /\ strays' = IF Stray(p.peer, o) THEN strays \cup {i} ELSE strays \ {i}
             /\ muddled' = (muddled \/ (o.sig = "Indication" /\ p.role.kind = "Bridge"))
  BY DEF PostOne
<1>4. /\ State(p.peer) \in SessionStates \cup {"Disconnected"}
      /\ sess[p.peer] = Absent <=> State(p.peer) = "Disconnected"
      /\ sess[p.peer] \in SessionStates \cup {Absent}
  BY <1>2, AbsentAssumption DEF State, Inv, TypeOK, SessionStates
<1>5. o.next \in SessionStates \cup {"Disconnected"}
  BY <1>4, SdlType
<1>6. Stray(p.peer, o) <=> Transient(p.peer, o)
  BY <1>4 DEF Stray, Transient
<1> DEFINE next == SessionAfter(p.role, o, ev.lines)
           free == Transient(p.peer, o)
           st == IF next = "Disconnected" THEN Absent ELSE next
           gone == next = "Disconnected" /\ ~free
<1>8. next \in SessionStates \cup {"Disconnected"}
  BY <1>5 DEF SessionAfter, SessionStates
<1>9. /\ st \in SessionStates \cup {Absent} /\ (st = Absent <=> next = "Disconnected")
      /\ gone \in BOOLEAN /\ (gone => st = Absent /\ o.next = "Disconnected")
  <2>1. next = "Disconnected" => o.next = "Disconnected"
    BY DEF SessionAfter
  <2> QED BY <1>8, <2>1, AbsentAssumption DEF SessionStates
<1>10. free => next = "Disconnected"
  BY DEF Transient, SessionAfter
<1>7. free <=> st = Absent /\ ~gone
  BY <1>9, <1>10
<1>11. /\ sess' = [sess EXCEPT ![p.peer] = st]
       /\ peers' = [peers EXCEPT ![i] = IF gone THEN Absent
                       ELSE [p EXCEPT !.role = RoleAfter(p.peer, p.role, o.sig)]]
       /\ pending' = FollowUps(p.peer, p.role, o.sig, ev.lines)
  <2>1. (IF free \/ gone THEN Absent ELSE next) = st
    BY <1>10
  <2> HIDE DEF i, ev, p, next
  <2> QED BY <1>3, <2>1 DEF next
<1>12. strays' = IF st = Absent /\ ~gone THEN strays \cup {i} ELSE strays \ {i}
  BY <1>3, <1>6, <1>7
<1>13. Harmless => o.sig = "none" /\ ~gone
  <2> SUFFICES ASSUME Harmless PROVE o.sig = "none" /\ ~gone
    OBVIOUS
  <2>1. ev.kind \in {"Connect", "Data"}
    BY <1>1 DEF Harmless
  <2>2. o.sig = "none" /\ (State(p.peer) # "Disconnected" => o.next = State(p.peer))
        /\ (ev.kind = "Connect" => o.next # "Disconnected")
    BY <1>3, <1>4, <2>1, SdlHarmless
  <2>3. next = o.next
    BY <2>2 DEF SessionAfter
  <2>4. o.next = "Disconnected" => free
    BY <1>4, <2>2 DEF Transient
  <2> QED BY <2>2, <2>3, <2>4
<1>14. /\ o \in Sdl(State(p.peer), ev.kind)
       /\ muddled' = (muddled \/ (o.sig = "Indication" /\ p.role.kind = "Bridge"))
  BY <1>3
<1>15. st = Absent /\ ~gone => sess[p.peer] = Absent /\ o.next = "Disconnected" /\ o.sig = "none"
  BY <1>7 DEF Transient
<1> HIDE DEF i, ev, p, next, st, free, gone
<1> QED BY <1>9, <1>11, <1>12, <1>13, <1>14, <1>15 DEF i, ev, p

\* The role after a signal, and the follow-ups it leaves.
LEMMA RoleAfterType ==
    ASSUME NEW s \in Stations, NEW role \in Roles, NEW sig
    PROVE  /\ RoleAfter(s, role, sig) \in Roles
           /\ RoleAfter(s, role, sig).kind = "Telnet" => role.kind = "Telnet"
           /\ sig = "none" => RoleAfter(s, role, sig) = role
BY DEF RoleAfter, Roles, Plain

LEMMA EndedType ==
    ASSUME NEW role \in Roles
    PROVE  /\ Ended(role) \in Seq(Range(Ended(role))) /\ Len(Ended(role)) <= 1
           /\ \A n \in 1..Len(Ended(role)) : Ended(role)[n].kind \in WorkKinds /\ Ended(role)[n].leg \in Legs
           /\ Ended(role) = <<>> \/ Len(Ended(role)) = 1
<1>1. CASE role.kind = "Bridge"
  <2>1. Ended(role) = <<BridgeEnded(role.other)>>
    BY <1>1 DEF Ended
  <2>2. BridgeEnded(role.other).kind \in WorkKinds /\ BridgeEnded(role.other).leg \in Legs
    BY DEF BridgeEnded, WorkKinds, Roles, Legs
  <2>3. PICK x : x = BridgeEnded(role.other)
    OBVIOUS
  <2>4. <<x>> \in Seq(Range(<<x>>)) /\ Len(<<x>>) = 1 /\ <<x>>[1] = x
    BY OneElement
  <2>5. \A n \in 1..Len(<<x>>) : <<x>>[n] = x
    BY <2>4
  <2>6. Ended(role) = <<x>> /\ x.kind \in WorkKinds /\ x.leg \in Legs
    BY <2>1, <2>2, <2>3
  <2> QED BY <2>4, <2>5, <2>6
<1>2. CASE role.kind # "Bridge"
  <2>1. Ended(role) = <<>>
    BY <1>2 DEF Ended
  <2> QED BY <2>1
<1> QED BY <1>1, <1>2

LEMMA FollowUpsType ==
    ASSUME NEW s \in Stations, NEW role \in Roles, NEW sig, NEW lines, Len(lines) \in Nat
    PROVE  LET f == FollowUps(s, role, sig, lines)
           IN  /\ f \in Seq(Range(f))
               /\ \A n \in 1..Len(f) : f[n].kind \in WorkKinds /\ f[n].leg \in Legs
               /\ Len(f) = 1 \/ \A n \in 1..Len(f) : f[n].kind # "BridgeEnded"
               /\ sig = "none" => f = <<>>
<1> DEFINE f == FollowUps(s, role, sig, lines)
<1>1. CASE sig = "Closed"
  <2>1. f = Ended(role)
    BY <1>1 DEF FollowUps
  <2>2. sig # "none"
    BY <1>1
  <2> HIDE DEF f
  <2>3. \A n \in 1..Len(<<>>) : FALSE
    OBVIOUS
  <2> QED BY <2>1, <2>2, <2>3, EndedType DEF f
<1>2. CASE sig = "Text" /\ role.kind = "Console"
  <2>1. f = Connects(s, lines)
    BY <1>2 DEF FollowUps
  <2>2. s \in Legs
    BY DEF Legs
  <2>3. sig # "none"
    BY <1>2
  <2>4. /\ Connects(s, lines) \in Seq(Range(Connects(s, lines)))
        /\ \A n \in 1..Len(Connects(s, lines)) : /\ Connects(s, lines)[n].kind = "StartBridge"
                                                 /\ Connects(s, lines)[n].leg = s
    BY ConnectsType
  <2> HIDE DEF f
  <2> QED BY <2>1, <2>2, <2>3, <2>4 DEF WorkKinds, f
<1>3. CASE sig = "Text" /\ role.kind = "Bridge"
  <2>1. f = <<Forward(role.other)>>
    BY <1>3 DEF FollowUps
  <2>2. Forward(role.other).kind \in WorkKinds /\ Forward(role.other).leg \in Legs
    BY DEF Forward, WorkKinds, Roles, Legs
  <2>3. PICK x : x = Forward(role.other)
    OBVIOUS
  <2>4. <<x>> \in Seq(Range(<<x>>)) /\ Len(<<x>>) = 1 /\ <<x>>[1] = x
    BY OneElement
  <2>5. \A n \in 1..Len(<<x>>) : <<x>>[n] = x
    BY <2>4
  <2>6. f = <<x>> /\ x.kind \in WorkKinds /\ x.leg \in Legs /\ sig # "none"
    BY <1>3, <2>1, <2>2, <2>3
  <2> HIDE DEF f
  <2> QED BY <2>4, <2>5, <2>6 DEF f
<1>4. CASE ~(sig = "Closed" \/ (sig = "Text" /\ role.kind \in {"Console", "Bridge"}))
  <2>1. f = <<>>
    BY <1>4 DEF FollowUps
  <2> HIDE DEF f
  <2> QED BY <2>1 DEF f
<1> QED BY <1>1, <1>2, <1>3, <1>4

\* One event less in the queue.
LEMMA Shifted ==
    ASSUME queue \in Seq(Posts), queue # <<>>, queue' = Tail(queue),
           NEW i, NEW n \in 1..Len(queue), FirstFor(i, n), i # Head(queue).slot
    PROVE  n - 1 \in 1..Len(queue') /\ FirstFor(i, n - 1)' /\ queue'[n - 1] = queue[n]
<1>1. /\ Len(queue') = Len(queue) - 1 /\ Head(queue) = queue[1] /\ Len(queue) \in Nat \ {0}
      /\ \A m \in 1..Len(queue') : queue'[m] = queue[m + 1]
  BY TailFacts
<1>2. n # 1
  BY <1>1 DEF FirstFor
<1>3. PICK k \in 1..Len(queue') : n = k + 1
  BY <1>1, <1>2
<1>4. queue'[k].slot = i /\ \A m \in 1..(k - 1) : queue'[m].slot # i
  BY <1>1, <1>3 DEF FirstFor
<1>5. FirstFor(i, k)'
  BY <1>3, <1>4 DEF FirstFor
<1>6. n - 1 = k
  BY <1>3
<1> QED BY <1>1, <1>3, <1>5, <1>6

LEMMA PostOneInv ==
    ASSUME Inv, PostOne
    PROVE  Inv'
<1> DEFINE i == Head(queue).slot
           ev == Head(queue).ev
           p == peers[i]
<1>1. /\ queue # <<>> /\ queue \in Seq(Posts) /\ queue' = Tail(queue) /\ queue' \in Seq(Posts)
      /\ Head(queue) = queue[1] /\ queue[1] \in Posts /\ Len(queue) \in Nat \ {0}
      /\ Len(queue') = Len(queue) - 1
      /\ \A n \in 1..Len(queue') : queue'[n] = queue[n + 1]
      /\ pending = <<>> /\ circuits' = circuits
  <2>1. queue # <<>> /\ queue \in Seq(Posts)
    BY DEF PostOne, Inv, TypeOK
  <2>2. /\ queue' = Tail(queue) /\ pending = <<>> /\ circuits' = circuits
    BY DEF PostOne, links
  <2> QED BY <2>1, <2>2, TailFacts
<1>2. i \in Slots /\ ev \in Events /\ Len(ev.lines) \in Nat
  BY <1>1 DEF Posts, Events
<1>3. Len(queue) <= 1 => queue' = <<>>
  BY <1>1
<1>4. CASE p = Absent
  <2>1. UNCHANGED <<peers, sess, pending, strays>> /\ i \notin Occupied
    BY <1>4 DEF PostOne, links, history, Occupied
  <2>2. Occupied' = Occupied /\ RelaySlots' = RelaySlots
    BY <2>1 DEF Occupied, RelaySlots
  <2>3. OnePeerPerSlot' /\ Behind' /\ OneRelay'
    BY <2>1, <2>2 DEF Inv, OnePeerPerSlot, Behind, OneRelay, SlotsOf
  <2>4. Fed'
    <3> SUFFICES ASSUME NEW j \in Occupied \ strays, sess[peers[j].peer] = Absent
                 PROVE  \E n \in 1..Len(queue') : FirstFor(j, n)'
      BY <2>1, <2>2 DEF Inv, Fed
    <3>1. PICK n \in 1..Len(queue) : FirstFor(j, n)
      BY DEF Inv, Fed
    <3>2. j # i
      BY <2>1
    <3>3. n - 1 \in 1..Len(queue') /\ FirstFor(j, n - 1)' /\ queue'[n - 1] = queue[n]
      BY <1>1, <3>1, <3>2, Shifted
    <3> QED BY <3>1, <3>3
  <2>5. Calm'
    <3>1. ~Harmless
      BY <1>1, <2>1 DEF Harmless
    <3>2. Len(queue) <= 1
      BY <1>1, <3>1 DEF Inv, Calm
    <3> QED BY <1>1, <1>3, <2>1, <3>2 DEF Calm
  <2>6. TypeOK'
    BY <1>1, <2>1 DEF Inv, TypeOK
  <2> QED BY <2>3, <2>4, <2>5, <2>6 DEF Inv
<1>5. CASE p # Absent
  <2>1. /\ p \in PeerStates /\ p.peer \in Stations /\ p.role \in Roles /\ i \in Occupied
        /\ peers \in [Slots -> PeerStates \cup {Absent}] /\ sess \in [Stations -> SessionStates \cup {Absent}]
    BY <1>2, <1>5 DEF Inv, TypeOK, PeerStates, Occupied
  <2>2. PICK o \in Sdl(State(p.peer), ev.kind), st \in SessionStates \cup {Absent},
             reaped \in BOOLEAN :
           /\ sess' = [sess EXCEPT ![p.peer] = st]
           /\ peers' = [peers EXCEPT ![i] = IF reaped THEN Absent
                           ELSE [p EXCEPT !.role = RoleAfter(p.peer, p.role, o.sig)]]
           /\ pending' = FollowUps(p.peer, p.role, o.sig, ev.lines)
           /\ reaped => st = Absent /\ o.next = "Disconnected"
           /\ st = Absent /\ ~reaped => strays' = strays \cup {i}
           /\ st # Absent \/ reaped => strays' = strays \ {i}
           /\ Harmless => o.sig = "none" /\ ~reaped
    BY <1>5, Handled
  <2> DEFINE after == [p EXCEPT !.role = RoleAfter(p.peer, p.role, o.sig)]
  <2>3. /\ after \in PeerStates /\ after.peer = p.peer
        /\ after.role.kind = "Telnet" => p.role.kind = "Telnet"
    BY <2>1, RoleAfterType DEF PeerStates
  <2>4. after # Absent
    BY <2>3, AbsentAssumption
  <2>5. /\ sess'[p.peer] = st /\ \A s \in Stations \ {p.peer} : sess'[s] = sess[s]
        /\ peers'[i] = IF reaped THEN Absent ELSE after
        /\ \A j \in Slots \ {i} : peers'[j] = peers[j]
        /\ peers' \in [Slots -> PeerStates \cup {Absent}]
        /\ sess' \in [Stations -> SessionStates \cup {Absent}]
    <3> HIDE DEF after, i, ev
    <3>1. peers' = [peers EXCEPT ![i] = IF reaped THEN Absent ELSE after]
      BY <2>2 DEF after
    <3> QED BY <1>2, <2>1, <2>2, <2>3, <3>1
  <2> HIDE DEF after
  <2>6. /\ Occupied' = IF reaped THEN Occupied \ {i} ELSE Occupied
        /\ \A j \in Occupied' : peers'[j].peer = peers[j].peer
        /\ RelaySlots' \subseteq RelaySlots
    BY <1>2, <2>1, <2>3, <2>4, <2>5 DEF Occupied, RelaySlots
  <2>7. OnePeerPerSlot'
    BY <2>6 DEF Inv, OnePeerPerSlot
  <2>8. \A j \in Occupied \ {i} : peers[j].peer # p.peer
    BY <2>1 DEF Inv, OnePeerPerSlot
  <2>9. Behind'
    <3> SUFFICES ASSUME NEW s \in Stations, sess'[s] # Absent
                 PROVE  \E j \in Occupied' : peers'[j].peer = s
      BY DEF Behind, SlotsOf, Occupied
    <3>1. CASE s = p.peer
      BY <2>1, <2>2, <2>5, <2>6, <3>1
    <3>2. CASE s # p.peer
      <4>1. PICK j \in Occupied : peers[j].peer = s
        BY <2>5, <3>2 DEF Inv, Behind, SlotsOf, Occupied
      <4> QED BY <2>6, <3>2, <4>1
    <3> QED BY <3>1, <3>2
  <2>10. Fed'
    <3>0. \A j \in Occupied \ {i} : /\ j \in Occupied' /\ peers[j].peer \in Stations \ {p.peer}
                                      /\ sess'[peers'[j].peer] = sess[peers[j].peer]
      <4>1. \A j \in Occupied \ {i} : j \in Occupied' /\ peers[j].peer \in Stations \ {p.peer}
        BY <2>1, <2>6, <2>8 DEF Occupied, PeerStates
      <4> QED BY <2>5, <2>6, <4>1
    <3>1. strays \subseteq Occupied
      BY DEF Inv, Fed
    <3>2. \A j \in strays' : j \in Occupied' /\ sess'[peers'[j].peer] = Absent
      <4> SUFFICES ASSUME NEW j \in strays'
                   PROVE  j \in Occupied' /\ sess'[peers'[j].peer] = Absent
        OBVIOUS
      <4>1. CASE j = i
        BY <2>1, <2>2, <2>5, <2>6, <4>1
      <4>2. CASE j # i
        <5>1. j \in strays
          BY <2>2, <4>2
        <5> QED BY <3>0, <3>1, <4>2, <5>1 DEF Inv, Fed
      <4> QED BY <4>1, <4>2
    <3> SUFFICES ASSUME NEW j \in Occupied' \ strays', sess'[peers'[j].peer] = Absent
                 PROVE  \E n \in 1..Len(queue') : FirstFor(j, n)'
      BY <3>2 DEF Fed
    <3>3. j \in Occupied /\ j # i
      BY <2>1, <2>2, <2>5, <2>6
    <3>4. j \notin strays /\ sess[peers[j].peer] = Absent
      BY <2>2, <3>0, <3>3
    <3>5. PICK n \in 1..Len(queue) : FirstFor(j, n)
      BY <3>3, <3>4 DEF Inv, Fed
    <3>6. n - 1 \in 1..Len(queue') /\ FirstFor(j, n - 1)'
      BY <1>1, <3>3, <3>5, Shifted
    <3> QED BY <3>6
  <2>11. /\ pending' \in Seq(Range(pending'))
         /\ \A n \in 1..Len(pending') : pending'[n].kind \in WorkKinds /\ pending'[n].leg \in Legs
         /\ Len(pending') = 1 \/ \A n \in 1..Len(pending') : pending'[n].kind # "BridgeEnded"
         /\ o.sig = "none" => pending' = <<>>
    <3> HIDE DEF p, ev, i
    <3> QED BY <1>2, <2>1, <2>2, FollowUpsType
  <2>12. Calm'
    <3>1. CASE Harmless
      <4>1. pending' = <<>> /\ Occupied' = Occupied
        BY <2>2, <2>6, <2>11, <3>1
      <4>2. Harmless'
        BY <1>1, <3>1, <4>1 DEF Harmless
      <4>3. \A n \in 1..Len(pending') : FALSE
        BY <4>1
      <4> QED BY <4>2, <4>3 DEF Calm
    <3>2. CASE Len(queue) <= 1
      <4>1. queue' = <<>>
        BY <1>3, <3>2
      <4>2. Harmless'
        BY <4>1 DEF Harmless
      <4> QED BY <2>11, <4>1, <4>2 DEF Calm
    <3> QED BY <1>1, <3>1, <3>2 DEF Inv, Calm
  <2>13. OneRelay'
    BY <2>6 DEF Inv, OneRelay
  <2>14. TypeOK'
    BY <1>1, <2>5, <2>11 DEF Inv, TypeOK
  <2> QED BY <2>7, <2>9, <2>10, <2>12, <2>13, <2>14 DEF Inv
<1> QED BY <1>4, <1>5

\* Roles change, the peers stay.
LEMMA WithRoleFacts ==
    ASSUME TypeOK, NEW leg, NEW role \in Roles, role.kind # "Telnet"
    PROVE  LET ps == WithRole(peers, leg, role)
           IN  /\ ps \in [Slots -> PeerStates \cup {Absent}]
               /\ \A i \in Slots : /\ ps[i] = Absent <=> peers[i] = Absent
                                   /\ peers[i] # Absent => ps[i].peer = peers[i].peer
                                   /\ ps[i] # Absent /\ ps[i].role.kind = "Telnet" =>
                                         peers[i].role.kind = "Telnet"
<1>0. PICK ps : ps = WithRole(peers, leg, role)
  OBVIOUS
<1>1. \A i \in Slots : peers[i] # Absent =>
         /\ peers[i] \in PeerStates
         /\ [peers[i] EXCEPT !.role = role] \in PeerStates
         /\ [peers[i] EXCEPT !.role = role].peer = peers[i].peer
         /\ [peers[i] EXCEPT !.role = role].role = role
  BY DEF TypeOK, PeerStates
<1>2. \A i \in Slots : ps[i] = IF peers[i] # Absent /\ peers[i].peer = leg
                               THEN [peers[i] EXCEPT !.role = role] ELSE peers[i]
  BY <1>0 DEF WithRole
<1>3. DOMAIN ps = Slots /\ ps = [i \in Slots |-> ps[i]]
  BY <1>0 DEF WithRole
<1>4. \A i \in Slots : ps[i] \in PeerStates \cup {Absent}
  BY <1>1, <1>2 DEF TypeOK
<1>5. \A i \in Slots : peers[i] # Absent => ps[i] # Absent
  BY <1>1, <1>2, AbsentAssumption
<1>6. \A i \in Slots : peers[i] = Absent => ps[i] = Absent
  BY <1>2
<1>7. \A i \in Slots : peers[i] # Absent => ps[i].peer = peers[i].peer
  BY <1>1, <1>2
<1>8. \A i \in Slots : ps[i] # Absent /\ ps[i].role.kind = "Telnet" => peers[i].role.kind = "Telnet"
  BY <1>1, <1>2
<1>9. ps \in [Slots -> PeerStates \cup {Absent}]
  BY <1>3, <1>4
<1> QED BY <1>0, <1>5, <1>6, <1>7, <1>8, <1>9

LEMMA WithModeType ==
    ASSUME TypeOK, NEW leg, NEW mode \in Roles
    PROVE  WithMode(circuits, leg, mode) \in [Circuits -> CircuitStates \cup {Absent}]
<1>1. \A k \in Circuits : circuits[k] # Absent => [circuits[k] EXCEPT !.mode = mode] \in CircuitStates
  BY DEF TypeOK, CircuitStates
<1> QED BY <1>1 DEF WithMode, TypeOK

LEMMA OpenCircuitType ==
    ASSUME NEW cs \in [Circuits -> CircuitStates \cup {Absent}], NEW k \in Circuits,
           NEW t \in Routed, NEW mode \in Roles
    PROVE  OpenCircuit(k, t, mode, cs) \in [Circuits -> CircuitStates \cup {Absent}]
<1>1. [far |-> t, mode |-> mode, phase |-> "Connecting"] \in CircuitStates
  BY DEF CircuitStates
<1> QED BY <1>1 DEF OpenCircuit

LEMMA EvType ==
    ASSUME NEW k \in {"Connect", "Data", "Release", "GiveUp"}
    PROVE  Ev(k) \in Events /\ Ev(k).kind = k
BY DEF Ev, Events, EventKinds

\* What the slots of one station are sent is one event at most.
LEMMA ToldFacts ==
    ASSUME Inv, NEW s, NEW ev \in Events, NEW told, told = SetToSeq({Post(i, ev) : i \in SlotsOf(s)})
    PROVE  /\ told \in Seq(Posts) /\ Len(told) <= 1 /\ Len(told) \in Nat
           /\ \A n \in 1..Len(told) : told[n].ev = ev /\ told[n].slot \in Occupied
<1> DEFINE S == {Post(i, ev) : i \in SlotsOf(s)}
<1>1. SlotsOf(s) \subseteq Occupied /\ Occupied \subseteq Slots
  BY DEF SlotsOf, Occupied
<1>2. \A i, j \in SlotsOf(s) : i = j
  BY <1>1 DEF Inv, OnePeerPerSlot, SlotsOf
<1>3. \A x, y \in S : x = y
  BY <1>2
<1>4. \A x \in S : x \in Posts /\ x.ev = ev /\ x.slot \in Occupied
  BY <1>1 DEF Post, Posts
<1> HIDE DEF S
<1>5. told \in Seq(S) /\ Len(told) <= 1
  BY <1>3, ShortSeq DEF S
<1>6. told \in Seq(Posts)
  BY <1>4, <1>5, SeqMonotonic
<1>7. \A n \in 1..Len(told) : told[n] \in S
  BY <1>5
<1> QED BY <1>4, <1>5, <1>6, <1>7

\* Data for a leg is put at the end of the queue.
LEMMA TellFacts ==
    ASSUME Inv, NEW leg, queue' = Tell(leg)
    PROVE  /\ queue' \in Seq(Posts) /\ Len(queue) <= Len(queue')
           /\ \A n \in 1..Len(queue) : queue'[n] = queue[n]
           /\ Harmless /\ Occupied' = Occupied => Harmless'
<1>0. PICK ev \in Events : ev = Ev("Data") /\ ev.kind = "Data"
  BY EvType
<1>1. PICK told : told = SetToSeq({Post(i, ev) : i \in SlotsOf(leg)})
  OBVIOUS
<1>2. /\ told \in Seq(Posts)
      /\ \A n \in 1..Len(told) : told[n].ev = ev /\ told[n].slot \in Occupied
  BY <1>1, ToldFacts
<1>3. queue' = queue \o told /\ queue \in Seq(Posts)
  BY <1>0, <1>1 DEF Tell, Inv, TypeOK
<1>4. /\ queue' \in Seq(Posts) /\ Len(queue') = Len(queue) + Len(told)
      /\ \A n \in 1..Len(queue) : queue'[n] = queue[n]
      /\ \A n \in 1..Len(told) : queue'[Len(queue) + n] = told[n]
      /\ Len(queue) \in Nat /\ Len(told) \in Nat
  BY <1>2, <1>3, ConcatFacts
<1>5. Harmless /\ Occupied' = Occupied => Harmless'
  <2> SUFFICES ASSUME Harmless, Occupied' = Occupied, NEW n \in 1..Len(queue')
               PROVE  queue'[n].ev.kind \in {"Connect", "Data"} /\ queue'[n].slot \in Occupied'
    BY DEF Harmless
  <2>1. CASE n \in 1..Len(queue)
    BY <1>4, <2>1 DEF Harmless
  <2>2. CASE n > Len(queue)
    <3>1. n - Len(queue) \in 1..Len(told) /\ n = Len(queue) + (n - Len(queue))
      BY <1>4, <2>2
    <3>2. PICK m \in 1..Len(told) : n = Len(queue) + m
      BY <3>1
    <3>3. queue'[n] = told[m]
      BY <1>4, <3>2
    <3>4. told[m].ev.kind = "Data" /\ told[m].slot \in Occupied
      BY <1>0, <1>2, <3>2
    <3> QED BY <3>3, <3>4
  <2> QED BY <1>4, <2>1, <2>2
<1> QED BY <1>4, <1>5

\* An onward connect: whatever it comes to, it harms no session.
LEMMA StartBridgeStep ==
    ASSUME Inv, Harmless, NEW f, f.leg \in Legs, DoStartBridge(f)
    PROVE  /\ OnePeerPerSlot' /\ Behind' /\ Fed' /\ OneRelay' /\ Harmless'
           /\ peers' \in [Slots -> PeerStates \cup {Absent}]
           /\ circuits' \in [Circuits -> CircuitStates \cup {Absent}]
           /\ queue' \in Seq(Posts) /\ sess' = sess /\ strays' = strays
<1>1. TypeOK
  BY DEF Inv
<1>0. strays' = strays
  BY DEF DoStartBridge, Bridging, history
<1>2. CASE ByCircuit(f.target) /\ \E k \in FreeCircuits :
              /\ peers' = WithRole(peers, f.leg, Bridge(k, TRUE))
              /\ circuits' = OpenCircuit(k, f.target, Bridge(f.leg, FALSE),
                                         WithMode(circuits, f.leg, Bridge(k, TRUE)))
              /\ UNCHANGED <<sess, queue>>
  <2>1. PICK k \in FreeCircuits :
              /\ peers' = WithRole(peers, f.leg, Bridge(k, TRUE))
              /\ circuits' = OpenCircuit(k, f.target, Bridge(f.leg, FALSE),
                                         WithMode(circuits, f.leg, Bridge(k, TRUE)))
    BY <1>2
  <2>2. k \in Circuits /\ f.target \in Routed
    BY <1>2 DEF FreeCircuits, ByCircuit
  <2>3. Bridge(k, TRUE) \in Roles /\ Bridge(f.leg, FALSE) \in Roles /\ Bridge(k, TRUE).kind # "Telnet"
    BY <2>2 DEF Bridge, Roles, Legs
  <2>4. circuits' \in [Circuits -> CircuitStates \cup {Absent}]
    BY <1>1, <2>1, <2>2, <2>3, WithModeType, OpenCircuitType
  <2>5. /\ peers' \in [Slots -> PeerStates \cup {Absent}]
        /\ \A i \in Slots : /\ peers'[i] = Absent <=> peers[i] = Absent
                            /\ peers[i] # Absent => peers'[i].peer = peers[i].peer
                            /\ peers'[i] # Absent /\ peers'[i].role.kind = "Telnet" =>
                                  peers[i].role.kind = "Telnet"
    <3>1. PICK role \in Roles : role = Bridge(k, TRUE) /\ role.kind # "Telnet"
      BY <2>3
    <3>2. peers' = WithRole(peers, f.leg, role)
      BY <2>1, <3>1
    <3> QED BY <1>1, <3>1, <3>2, WithRoleFacts
  <2>6. SamePeers
    BY <2>5 DEF SamePeers, RelaySlots
  <2>7. Occupied' = Occupied
    BY <2>5 DEF Occupied
  <2>8. queue' = queue /\ sess' = sess
    BY <1>2
  <2>9. queue' \in Seq(Posts) /\ Len(queue') = Len(queue) /\ Len(queue) \in Nat
    BY <1>1, <2>8 DEF TypeOK
  <2>10. OnePeerPerSlot' /\ Behind' /\ Fed' /\ OneRelay'
    BY <1>0, <2>6, <2>8, <2>9, QueueMore
  <2>11. Harmless'
    BY <2>7, <2>8 DEF Harmless
  <2> QED BY <1>0, <2>4, <2>5, <2>8, <2>9, <2>10, <2>11
<1>3. CASE CanDial(f.target) /\ \E i \in FreeSlots :
              /\ DialFrom(i, f.target, Bridge(f.leg, FALSE),
                          WithRole(peers, f.leg, Bridge(f.target, TRUE)))
              /\ circuits' = WithMode(circuits, f.leg, Bridge(f.target, TRUE))
              /\ sess' = sess
  <2>1. PICK i, ps :
              /\ i \in FreeSlots
              /\ ps = WithRole(peers, f.leg, Bridge(f.target, TRUE))
              /\ peers' = [ps EXCEPT ![i] = PeerState(f.target, Bridge(f.leg, FALSE))]
              /\ queue' = Append(queue, Post(i, Ev("Connect")))
              /\ circuits' = WithMode(circuits, f.leg, Bridge(f.target, TRUE))
    BY <1>3 DEF DialFrom
  <2>2. f.target \in Stations /\ SlotsOf(f.target) = {} /\ i \in Slots
    BY <1>3, <2>1 DEF CanDial, FreeSlots
  <2>3. /\ Bridge(f.target, TRUE) \in Roles /\ Bridge(f.leg, FALSE) \in Roles
        /\ Bridge(f.target, TRUE).kind # "Telnet" /\ Bridge(f.leg, FALSE).kind # "Telnet"
    BY <2>2 DEF Bridge, Roles, Legs
  <2>4. circuits' \in [Circuits -> CircuitStates \cup {Absent}]
    BY <1>1, <2>1, <2>3, WithModeType
  <2>5. /\ ps \in [Slots -> PeerStates \cup {Absent}]
        /\ \A j \in Slots : /\ ps[j] = Absent <=> peers[j] = Absent
                            /\ peers[j] # Absent => ps[j].peer = peers[j].peer
                            /\ ps[j] # Absent /\ ps[j].role.kind = "Telnet" =>
                                  peers[j].role.kind = "Telnet"
    <3>1. PICK role \in Roles : role = Bridge(f.target, TRUE) /\ role.kind # "Telnet"
      BY <2>3
    <3>2. ps = WithRole(peers, f.leg, role)
      BY <2>1, <3>1
    <3> QED BY <1>1, <3>1, <3>2, WithRoleFacts
  <2>6. PICK role \in Roles : role = Bridge(f.leg, FALSE) /\ role.kind # "Telnet"
    BY <2>3
  <2>7. PeerState(f.target, role) \in PeerStates
    BY <2>2 DEF PeerState, PeerStates
  <2>8. /\ peers' \in [Slots -> PeerStates \cup {Absent}]
        /\ peers'[i] = PeerState(f.target, role)
        /\ \A j \in Slots \ {i} : peers'[j] = ps[j]
    BY <2>1, <2>2, <2>5, <2>6, <2>7
  <2>9. \A j \in Slots \ {i} : /\ peers'[j] = Absent <=> peers[j] = Absent
                               /\ peers[j] # Absent => peers'[j].peer = peers[j].peer
                               /\ j \in RelaySlots' => j \in RelaySlots
    BY <2>5, <2>8 DEF RelaySlots
  <2>10. PICK ev \in Events : ev = Ev("Connect") /\ ev.kind = "Connect"
    BY EvType
  <2>11. PICK t \in Stations : t = f.target
    BY <2>2
  <2>12. queue' = Append(queue, Post(i, ev)) /\ peers'[i] = PeerState(t, role) /\ SlotsOf(t) = {}
    BY <2>1, <2>2, <2>8, <2>10, <2>11
  <2>13. /\ OnePeerPerSlot' /\ Behind' /\ Fed' /\ OneRelay' /\ queue' \in Seq(Posts)
         /\ Harmless'
    <3>1. Given(i, t, role, ev)
      BY <1>0, <1>3, <2>1, <2>6, <2>8, <2>9, <2>10, <2>12 DEF Given
    <3> QED BY <2>10, <3>1, SlotGiven
  <2> QED BY <1>0, <1>3, <2>4, <2>8, <2>13
<1>4. CASE queue' = Tell(f.leg) /\ UNCHANGED <<peers, sess, circuits>>
  <2>1. SamePeers /\ Occupied' = Occupied
    BY <1>1, <1>4 DEF SamePeers, RelaySlots, TypeOK, Occupied
  <2>2. /\ queue' \in Seq(Posts) /\ Len(queue) <= Len(queue')
        /\ \A n \in 1..Len(queue) : queue'[n] = queue[n]
        /\ Harmless'
    BY <1>4, <2>1, TellFacts
  <2>3. OnePeerPerSlot' /\ Behind' /\ Fed' /\ OneRelay'
    BY <1>0, <1>4, <2>1, <2>2, QueueMore
  <2> QED BY <1>0, <1>1, <1>4, <2>2, <2>3 DEF TypeOK
<1> QED BY <1>2, <1>3, <1>4 DEF DoStartBridge, links

\* The end of a bridge sends each slot of the far leg one event.
LEMMA BridgeEndedStep ==
    ASSUME Inv, queue = <<>>, NEW leg, DoBridgeEnded(leg)
    PROVE  /\ OnePeerPerSlot' /\ Behind' /\ Fed' /\ OneRelay'
           /\ peers' \in [Slots -> PeerStates \cup {Absent}]
           /\ circuits' \in [Circuits -> CircuitStates \cup {Absent}]
           /\ queue' \in Seq(Posts) /\ sess' = sess /\ Len(queue') <= 1
           /\ \A n \in 1..Len(queue') : queue'[n].ev.kind \in {"Data", "Release"}
           /\ Occupied' = Occupied /\ \A i \in Occupied : peers'[i].peer = peers[i].peer
<1> DEFINE users == {i \in SlotsOf(leg) : peers[i].role.kind = "Bridge" /\ peers[i].role.initiator}
           S == {Post(i, Ev("Data")) : i \in users}
                \cup {Post(i, Ev("Release")) : i \in SlotsOf(leg) \ users}
<1>1. PICK role \in Roles : /\ role.kind # "Telnet"
                            /\ peers' = WithRole(peers, leg, role)
  <2>1. Plain("Console") \in Roles /\ Plain("None") \in Roles
    BY DEF Plain, Roles
  <2>2. \/ peers' = WithRole(peers, leg, Plain("Console"))
        \/ peers' = WithRole(peers, leg, Plain("None"))
    BY DEF DoBridgeEnded
  <2>3. Plain("Console").kind # "Telnet" /\ Plain("None").kind # "Telnet"
    BY DEF Plain
  <2> QED BY <2>1, <2>2, <2>3
<1>2. /\ peers' \in [Slots -> PeerStates \cup {Absent}]
      /\ \A i \in Slots : /\ peers'[i] = Absent <=> peers[i] = Absent
                          /\ peers[i] # Absent => peers'[i].peer = peers[i].peer
                          /\ peers'[i] # Absent /\ peers'[i].role.kind = "Telnet" =>
                                peers[i].role.kind = "Telnet"
  BY <1>1, WithRoleFacts DEF Inv
<1>3. SamePeers
  BY <1>2 DEF SamePeers, RelaySlots
<1>4. sess' = sess /\ strays' = strays
  BY DEF DoBridgeEnded, history
<1>5. circuits' \in [Circuits -> CircuitStates \cup {Absent}]
  <2>1. circuits \in [Circuits -> CircuitStates \cup {Absent}]
    BY DEF Inv, TypeOK
  <2>2. \A k \in Circuits : circuits[k] # Absent =>
           /\ [circuits[k] EXCEPT !.mode = Plain("Console")] \in CircuitStates
           /\ [circuits[k] EXCEPT !.phase = "Closing"] \in CircuitStates
    BY <2>1 DEF CircuitStates, Plain, Roles
  <2> QED BY <2>1, <2>2 DEF DoBridgeEnded
<1>6. queue' = queue \o SetToSeq(S)
  BY DEF DoBridgeEnded
<1>7. SlotsOf(leg) \subseteq Slots /\ \A i, j \in SlotsOf(leg) : i = j
  BY DEF Inv, OnePeerPerSlot, SlotsOf, Occupied
<1>8. \A x, y \in S : x = y
  BY <1>7
<1>9. S \subseteq Posts
  <2>1. Ev("Data") \in Events /\ Ev("Release") \in Events
    BY EvType
  <2> QED BY <1>7, <2>1 DEF Post, Posts
<1>10. \A e \in S : e.ev.kind \in {"Data", "Release"}
  <2>1. Ev("Data").kind = "Data" /\ Ev("Release").kind = "Release"
    BY DEF Ev
  <2> QED BY <2>1 DEF Post
<1>11. SetToSeq(S) \in Seq(S)
  BY <1>8, ShortSeq
<1> HIDE DEF S, users
<1>12. SetToSeq(S) \in Seq(Posts) /\ Len(SetToSeq(S)) <= 1
  BY <1>8, <1>9, ShortSeq, SeqMonotonic
<1>13. queue' = SetToSeq(S)
  BY <1>6, <1>12
<1>14. /\ queue' \in Seq(Posts) /\ Len(queue') <= 1 /\ Len(queue) = 0 /\ Len(queue') \in Nat
  BY <1>12, <1>13
<1>15. OnePeerPerSlot' /\ Behind' /\ Fed' /\ OneRelay'
  BY <1>3, <1>4, <1>14, QueueMore
<1>16. \A n \in 1..Len(queue') : queue'[n].ev.kind \in {"Data", "Release"}
  BY <1>13, <1>10, <1>11
<1>17. Occupied' = Occupied /\ \A i \in Occupied : peers'[i].peer = peers[i].peer
  BY <1>3 DEF SamePeers, Occupied
<1> QED BY <1>2, <1>4, <1>5, <1>14, <1>15, <1>16, <1>17

LEMMA ApplyFollowUpInv ==
    ASSUME Inv, ApplyFollowUp
    PROVE  Inv'
<1>1. /\ pending # <<>> /\ pending' = Tail(pending) /\ pending \in Seq(Range(pending))
      /\ \A n \in 1..Len(pending) : pending[n].kind \in WorkKinds /\ pending[n].leg \in Legs
  BY DEF ApplyFollowUp, Inv, TypeOK
<1>2. /\ Head(pending) = pending[1] /\ Len(pending) \in Nat \ {0} /\ Len(pending') = Len(pending) - 1
      /\ \A n \in 1..Len(pending') : pending'[n] = pending[n + 1]
  BY <1>1, TailFacts
<1>3. pending' \in Seq(Range(pending'))
  BY <1>1, TailIsSeq
<1>4. \A n \in 1..Len(pending') : pending'[n].kind \in WorkKinds /\ pending'[n].leg \in Legs
  BY <1>1, <1>2
<1>5. PICK f : f = Head(pending)
  OBVIOUS
<1>6. f.kind \in WorkKinds /\ f.leg \in Legs /\ f = pending[1]
  BY <1>1, <1>2, <1>5
<1>7. \/ Harmless /\ \A n \in 1..Len(pending) : pending[n].kind # "BridgeEnded"
      \/ queue = <<>> /\ Len(pending) = 1
  BY <1>1 DEF Inv, Calm
<1>8. CASE f.kind \in {"StartBridge", "Forward"}
  <2>1. Harmless
    BY <1>7 DEF Harmless
  <2>2. /\ OnePeerPerSlot' /\ Behind' /\ Fed' /\ OneRelay' /\ Harmless'
        /\ peers' \in [Slots -> PeerStates \cup {Absent}]
        /\ circuits' \in [Circuits -> CircuitStates \cup {Absent}]
        /\ queue' \in Seq(Posts) /\ sess' = sess
    <3>1. CASE DoStartBridge(f)
      BY <1>6, <2>1, <3>1, StartBridgeStep
    <3>2. CASE queue' = Tell(f.leg) /\ UNCHANGED <<links, history>>
      <4>1. UNCHANGED <<peers, sess, circuits, strays>>
        BY <3>2 DEF links, history
      <4>2. SamePeers /\ Occupied' = Occupied
        BY <4>1 DEF SamePeers, RelaySlots, Inv, TypeOK, Occupied
      <4>3. /\ queue' \in Seq(Posts) /\ Len(queue) <= Len(queue')
            /\ \A n \in 1..Len(queue) : queue'[n] = queue[n]
            /\ Harmless'
        BY <2>1, <3>2, <4>2, TellFacts
      <4>4. OnePeerPerSlot' /\ Behind' /\ Fed' /\ OneRelay'
        BY <4>1, <4>2, <4>3, QueueMore
      <4> QED BY <4>1, <4>3, <4>4 DEF Inv, TypeOK
    <3> QED BY <1>5, <1>8, <3>1, <3>2 DEF ApplyFollowUp
  <2>3. \A n \in 1..Len(pending') : pending'[n].kind # "BridgeEnded"
    <3>1. CASE \A n \in 1..Len(pending) : pending[n].kind # "BridgeEnded"
      BY <1>2, <3>1
    <3>2. CASE Len(pending) = 1
      BY <1>2, <3>2
    <3> QED BY <1>7, <3>1, <3>2
  <2>4. Calm'
    BY <2>2, <2>3 DEF Calm
  <2>5. sess' \in [Stations -> SessionStates \cup {Absent}]
    BY <2>2 DEF Inv, TypeOK
  <2>6. TypeOK'
    BY <1>3, <1>4, <2>2, <2>5 DEF TypeOK
  <2> QED BY <2>2, <2>4, <2>6 DEF Inv
<1>9. CASE f.kind = "BridgeEnded"
  <2>1. queue = <<>> /\ Len(pending) = 1
    BY <1>2, <1>6, <1>7, <1>9
  <2>2. pending' = <<>>
    BY <1>2, <1>3, <2>1
  <2>3. DoBridgeEnded(f.leg)
    BY <1>5, <1>9 DEF ApplyFollowUp
  <2>4. /\ OnePeerPerSlot' /\ Behind' /\ Fed' /\ OneRelay'
        /\ peers' \in [Slots -> PeerStates \cup {Absent}]
        /\ circuits' \in [Circuits -> CircuitStates \cup {Absent}]
        /\ queue' \in Seq(Posts) /\ sess' = sess /\ Len(queue') <= 1
    BY <2>1, <2>3, BridgeEndedStep
  <2>5. Calm'
    BY <2>2, <2>4 DEF Calm
  <2>6. sess' \in [Stations -> SessionStates \cup {Absent}]
    BY <2>4 DEF Inv, TypeOK
  <2>7. TypeOK'
    BY <1>3, <1>4, <2>4, <2>6 DEF TypeOK
  <2> QED BY <2>4, <2>5, <2>7 DEF Inv
<1> QED BY <1>6, <1>8, <1>9 DEF WorkKinds

\* The node was idle, and posts one event to a slot that exists.
LEMMA PostedStep ==
    ASSUME Inv, Idle, SamePeers, sess' = sess, pending' = pending, strays' = strays,
           queue' \in Seq(Posts), Len(queue') <= 1,
           circuits' \in [Circuits -> CircuitStates \cup {Absent}]
    PROVE  Inv'
<1>1. queue = <<>> /\ pending' = <<>> /\ Len(queue) = 0 /\ Len(queue') \in Nat
  BY DEF Idle
<1>2. OnePeerPerSlot' /\ Behind' /\ Fed' /\ OneRelay'
  BY <1>1, QueueMore
<1>3. Calm'
  BY <1>1 DEF Calm
<1>4. TypeOK'
  <2>1. \A n \in 1..Len(<<>>) : FALSE
    OBVIOUS
  <2>2. <<>> \in Seq(Range(<<>>))
    OBVIOUS
  <2> QED BY <1>1, <2>1, <2>2 DEF SamePeers, Inv, TypeOK
<1> QED BY <1>2, <1>3, <1>4 DEF Inv

\* The node was idle, and gives out a slot.
LEMMA GivenStep ==
    ASSUME Inv, Idle, NEW i, NEW t, NEW role, NEW ev, Given(i, t, role, ev), pending' = pending,
           circuits' \in [Circuits -> CircuitStates \cup {Absent}]
    PROVE  Inv'
<1>1. queue = <<>> /\ pending' = <<>> /\ Len(queue) = 0
  BY DEF Idle
<1>2. OnePeerPerSlot' /\ Behind' /\ Fed' /\ OneRelay' /\ queue' \in Seq(Posts)
      /\ Len(queue') = Len(queue) + 1
  BY <1>1, SlotGiven
<1>3. Calm'
  BY <1>1, <1>2 DEF Calm
<1>4. TypeOK'
  <2>1. \A n \in 1..Len(<<>>) : FALSE
    OBVIOUS
  <2>2. <<>> \in Seq(Range(<<>>))
    OBVIOUS
  <2> QED BY <1>1, <1>2, <2>1, <2>2 DEF Given, Inv, TypeOK
<1> QED BY <1>2, <1>3, <1>4 DEF Inv

\* The node was idle, and a circuit leaves it follow-ups.
LEMMA WorkStep ==
    ASSUME Inv, Idle, UNCHANGED <<peers, sess, queue, strays>>,
           circuits' \in [Circuits -> CircuitStates \cup {Absent}],
           pending' \in Seq(Range(pending')),
           \A n \in 1..Len(pending') : pending'[n].kind \in WorkKinds /\ pending'[n].leg \in Legs,
           Len(pending') = 1 \/ \A n \in 1..Len(pending') : pending'[n].kind # "BridgeEnded"
    PROVE  Inv'
<1>1. queue' = <<>>
  BY DEF Idle
<1>2. Calm'
  <2>1. Harmless'
    BY <1>1 DEF Harmless
  <2> QED BY <1>1, <2>1 DEF Calm
<1>3. OnePeerPerSlot' /\ Behind' /\ Fed' /\ OneRelay'
  BY DEF Inv, OnePeerPerSlot, Behind, Fed, FirstFor, OneRelay, RelaySlots, Occupied, SlotsOf
<1>4. TypeOK'
  BY DEF Inv, TypeOK
<1> QED BY <1>2, <1>3, <1>4 DEF Inv

\* A frame is an event.
LEMMA FramesAreEvents ==
    ASSUME NEW f \in Frames, f.kind \in Openings \cup MidLink
    PROVE  f \in Events
<1>1. CASE f \in {Ev(k) : k \in (Openings \cup MidLink) \ {"Text"}}
  <2>1. PICK k \in (Openings \cup MidLink) \ {"Text"} : f = [kind |-> k, lines |-> <<>>]
    BY <1>1 DEF Ev
  <2>2. f.kind = k
    BY <2>1
  <2>3. k \in EventKinds
    BY <2>2 DEF EventKinds
  <2>4. <<>> \in Seq(Lines)
    OBVIOUS
  <2> QED BY <2>1, <2>3, <2>4 DEF Events
<1>2. CASE f \in {[kind |-> "Text", lines |-> l] : l \in Typed}
  <2>1. PICK l \in Typed : f = [kind |-> "Text", lines |-> l]
    BY <1>2
  <2>2. l \in Seq(Range(l)) /\ Range(l) \subseteq Lines
    BY LinksAssumption DEF Lines
  <2>3. l \in Seq(Lines)
    BY <2>2, SeqMonotonic
  <2>4. f.kind = "Text"
    BY <2>1
  <2> QED BY <2>1, <2>3, <2>4 DEF Events, EventKinds
<1> QED BY <1>1, <1>2 DEF Frames

LEMMA ReceiveInv ==
    ASSUME Inv,
           NEW s \in Stations, NEW f \in Frames, Receive(s, f)
    PROVE  Inv'
<1>1. /\ Idle /\ sess' = sess /\ circuits' = circuits /\ pending' = pending
      /\ circuits' \in [Circuits -> CircuitStates \cup {Absent}] /\ strays' = strays
  BY DEF Receive, history, Inv, TypeOK
<1>2. f.kind \in Openings \cup MidLink
  BY DEF Receive
<1>3. f \in Events
  BY <1>2, FramesAreEvents
<1>4. CASE SlotsOf(s) # {}
  <2>1. queue' = SetToSeq({Post(i, f) : i \in SlotsOf(s)}) /\ peers' = peers
    BY <1>4 DEF Receive
  <2>2. queue' \in Seq(Posts) /\ Len(queue') <= 1
    BY <1>3, <2>1, ToldFacts
  <2>3. SamePeers
    BY <2>1 DEF SamePeers, RelaySlots, Inv, TypeOK
  <2> QED BY <1>1, <2>2, <2>3, PostedStep
<1>5. CASE SlotsOf(s) = {}
  <2>1. PICK i \in FreeSlots : /\ peers' = [peers EXCEPT ![i] = PeerState(s, Plain("None"))]
                               /\ queue' = <<Post(i, f)>>
    BY <1>5 DEF Receive
  <2>3. PICK role \in Roles : role = Plain("None") /\ role.kind # "Telnet"
    <3>1. Plain("None") \in Roles /\ Plain("None").kind # "Telnet"
      BY DEF Plain, Roles
    <3> QED BY <3>1
  <2>4. PeerState(s, role) \in PeerStates /\ i \in Slots
    BY DEF PeerState, PeerStates, FreeSlots
  <2>5. /\ peers' \in [Slots -> PeerStates \cup {Absent}]
        /\ peers'[i] = PeerState(s, role)
        /\ \A j \in Slots \ {i} : peers'[j] = peers[j]
    BY <2>1, <2>3, <2>4 DEF Inv, TypeOK
  <2>6. \A j \in Slots \ {i} : j \in RelaySlots' => j \in RelaySlots
    BY <2>5 DEF RelaySlots
  <2>7. queue' = Append(queue, Post(i, f))
    BY <1>1, <2>1 DEF Idle
  <2>8. Given(i, s, role, f)
    BY <1>1, <1>3, <1>5, <2>3, <2>5, <2>6, <2>7 DEF Given
  <2> QED BY <1>1, <2>8, GivenStep
<1> QED BY <1>4, <1>5

LEMMA GiveUpInv ==
    ASSUME Inv, NEW s \in Stations, GiveUp(s)
    PROVE  Inv'
<1>1. /\ Idle /\ UNCHANGED <<peers, sess, circuits, pending, strays>>
      /\ circuits' \in [Circuits -> CircuitStates \cup {Absent}]
  BY DEF GiveUp, links, history, Inv, TypeOK
<1>2. PICK ev \in Events : ev = Ev("GiveUp")
  BY EvType
<1>3. queue' = SetToSeq({Post(i, ev) : i \in SlotsOf(s)})
  BY <1>2 DEF GiveUp
<1>4. queue' \in Seq(Posts) /\ Len(queue') <= 1
  BY <1>3, ToldFacts
<1>5. SamePeers
  BY <1>1 DEF SamePeers, RelaySlots, Inv, TypeOK
<1> QED BY <1>1, <1>4, <1>5, PostedStep

\* A dial of an idle node.
LEMMA DialStep ==
    ASSUME Inv, Idle, NEW i \in FreeSlots, NEW t, NEW role \in Roles,
           role.kind = "Telnet" => RelaySlots = {},
           CanDial(t), DialFrom(i, t, role, peers), UNCHANGED <<sess, circuits, pending, strays>>
    PROVE  Inv'
<1>1. t \in Stations /\ SlotsOf(t) = {} /\ i \in Slots
  BY DEF CanDial, FreeSlots
<1>2. PICK ev \in Events : ev = Ev("Connect")
  BY EvType
<1>3. PeerState(t, role) \in PeerStates
  BY <1>1 DEF PeerState, PeerStates
<1>4. /\ peers' \in [Slots -> PeerStates \cup {Absent}]
      /\ peers'[i] = PeerState(t, role)
      /\ \A j \in Slots \ {i} : peers'[j] = peers[j]
  BY <1>1, <1>3 DEF DialFrom, Inv, TypeOK
<1>5. \A j \in Slots \ {i} : j \in RelaySlots' => j \in RelaySlots
  BY <1>4 DEF RelaySlots
<1>6. queue' = Append(queue, Post(i, ev))
  BY <1>2 DEF DialFrom
<1>7. Given(i, t, role, ev)
  BY <1>1, <1>2, <1>4, <1>5, <1>6 DEF Given
<1>8. circuits' \in [Circuits -> CircuitStates \cup {Absent}]
  BY DEF Inv, TypeOK
<1> QED BY <1>7, <1>8, GivenStep

LEMMA DialInterlinkInv ==
    ASSUME Inv, NEW s \in Stations, DialInterlink(s)
    PROVE  Inv'
<1>1. Idle /\ CanDial(s) /\ UNCHANGED <<sess, circuits, pending, strays>>
  BY DEF DialInterlink, history
<1>2. PICK role \in Roles : role = Plain("Interlink") /\ role.kind # "Telnet"
  <2>1. Plain("Interlink") \in Roles /\ Plain("Interlink").kind # "Telnet"
    BY DEF Plain, Roles
  <2> QED BY <2>1
<1>3. PICK i \in FreeSlots : DialFrom(i, s, role, peers)
  BY <1>2 DEF DialInterlink
<1> QED BY <1>1, <1>2, <1>3, DialStep

LEMMA CircuitInInv ==
    ASSUME Inv, CircuitIn
    PROVE  Inv'
<1>1. UNCHANGED <<peers, sess, queue, pending, strays>>
  BY DEF CircuitIn, work, history
<1>2. PICK k \in FreeCircuits :
         circuits' = [circuits EXCEPT ![k] = [far |-> Absent, mode |-> Plain("Console"), phase |-> "Up"]]
  BY DEF CircuitIn
<1>3. [far |-> Absent, mode |-> Plain("Console"), phase |-> "Up"] \in CircuitStates
  BY DEF CircuitStates, Plain, Roles
<1>4. circuits' \in [Circuits -> CircuitStates \cup {Absent}]
  BY <1>2, <1>3 DEF Inv, TypeOK
<1> QED BY <1>1, <1>4, QuietStep

LEMMA CircuitUpInv ==
    ASSUME Inv, NEW k \in Circuits, CircuitUp(k)
    PROVE  Inv'
<1>1. UNCHANGED <<peers, sess, queue, pending, strays>>
  BY DEF CircuitUp, work, history
<1>2. circuits' = [circuits EXCEPT ![k].phase = "Up"] /\ circuits[k] # Absent
  BY DEF CircuitUp, CircuitIs
<1>3. [circuits[k] EXCEPT !.phase = "Up"] \in CircuitStates
  BY <1>2 DEF Inv, TypeOK, CircuitStates
<1>4. circuits' \in [Circuits -> CircuitStates \cup {Absent}]
  BY <1>2, <1>3 DEF Inv, TypeOK
<1> QED BY <1>1, <1>4, QuietStep

\* The lines a console circuit reads.
LEMMA UpToConnectType ==
    ASSUME NEW lines \in Typed
    PROVE  /\ Len(UpToConnect(lines)) \in Nat /\ Len(lines) \in Nat
           /\ Len(UpToConnect(lines)) <= Len(lines)
           /\ \A n \in 1..Len(UpToConnect(lines)) : UpToConnect(lines)[n] = lines[n]
<1> DEFINE read == {n \in 1..Len(lines) : \A m \in 1..(n - 1) : lines[m] = Bye}
           c == Cardinality(read)
           R == Range(lines)
<1>1. lines \in Seq(R)
  BY LinksAssumption
<1> HIDE DEF R
<1>2. Len(lines) \in Nat /\ read \subseteq 1..Len(lines)
  BY <1>1
<1>3. IsFiniteSet(1..Len(lines)) /\ Cardinality(1..Len(lines)) = Len(lines)
  <2>1. /\ IsFiniteSet(1..Len(lines))
        /\ Cardinality(1..Len(lines)) = IF 1 > Len(lines) THEN 0 ELSE Len(lines) - 1 + 1
    BY <1>2, FS_Interval
  <2> QED BY <1>2, <2>1
<1>4. c \in Nat /\ c <= Len(lines)
  <2>1. IsFiniteSet(read) /\ c <= Cardinality(1..Len(lines))
    BY <1>2, <1>3, FS_Subset
  <2>2. c \in Nat
    BY <2>1, FS_CardinalityType
  <2> QED BY <1>3, <2>1, <2>2
<1>5. UpToConnect(lines) = SubSeq(lines, 1, c)
  BY DEF UpToConnect
<1> HIDE DEF c
<1>6. /\ Len(SubSeq(lines, 1, c)) = IF 1 <= c THEN c - 1 + 1 ELSE 0
      /\ \A n \in 1..(c - 1 + 1) : SubSeq(lines, 1, c)[n] = lines[1 + n - 1]
  <2>1. \A n \in 1..c : lines[n] \in R
    BY <1>1, <1>4
  <2> QED BY <1>4, <2>1, SubSeqProperties
<1>7. Len(SubSeq(lines, 1, c)) = c
  BY <1>4, <1>6
<1>8. \A n \in 1..c : SubSeq(lines, 1, c)[n] = lines[n]
  <2>1. \A n \in 1..c : n \in 1..(c - 1 + 1) /\ 1 + n - 1 = n
    BY <1>4
  <2> QED BY <1>6, <2>1
<1> QED BY <1>2, <1>4, <1>5, <1>7, <1>8

LEMMA CircuitDataInv ==
    ASSUME Inv, NEW k \in Circuits, NEW lines \in Typed, CircuitData(k, lines)
    PROVE  Inv'
<1>1. Idle /\ UNCHANGED <<peers, sess, queue, strays>> /\ circuits[k] \in CircuitStates
  BY DEF CircuitData, history, CircuitIs, Inv, TypeOK
<1>2. circuits[k].mode \in Roles
  BY <1>1 DEF CircuitStates
<1>3. circuits' \in [Circuits -> CircuitStates \cup {Absent}]
  <2>1. [circuits[k] EXCEPT !.phase = "Closing"] \in CircuitStates
    BY <1>1 DEF CircuitStates
  <2>2. circuits' = circuits \/ circuits' = [circuits EXCEPT ![k].phase = "Closing"]
    BY DEF CircuitData
  <2> QED BY <2>1, <2>2 DEF Inv, TypeOK
<1>4. CASE pending' = Connects(k, UpToConnect(lines))
  <2>1. PICK c : c = Connects(k, UpToConnect(lines))
    OBVIOUS
  <2>2. /\ c \in Seq(Range(c))
        /\ \A n \in 1..Len(c) : c[n].kind = "StartBridge" /\ c[n].leg = k
    BY <2>1, UpToConnectType, ConnectsType
  <2>3. k \in Legs
    BY DEF Legs
  <2>4. pending' = c
    BY <1>4, <2>1
  <2> QED BY <1>1, <1>3, <2>2, <2>3, <2>4, WorkStep DEF WorkKinds
<1>5. CASE pending' = <<Forward(circuits[k].mode.other)>>
  <2>1. PICK x : x = Forward(circuits[k].mode.other)
    OBVIOUS
  <2>2. x.kind \in WorkKinds /\ x.leg \in Legs
    BY <1>2, <2>1 DEF Forward, WorkKinds, Roles, Legs
  <2>3. <<x>> \in Seq(Range(<<x>>)) /\ Len(<<x>>) = 1 /\ <<x>>[1] = x
    BY OneElement
  <2>4. pending' = <<x>>
    BY <1>5, <2>1
  <2> QED BY <1>1, <1>3, <2>2, <2>3, <2>4, WorkStep
<1> QED BY <1>4, <1>5 DEF CircuitData

LEMMA CircuitClosedInv ==
    ASSUME Inv, NEW k \in Circuits, CircuitClosed(k)
    PROVE  Inv'
<1>1. Idle /\ UNCHANGED <<peers, sess, queue, strays>> /\ circuits[k] \in CircuitStates
  BY DEF CircuitClosed, history, Inv, TypeOK
<1>2. circuits[k].mode \in Roles
  BY <1>1 DEF CircuitStates
<1>3. circuits' \in [Circuits -> CircuitStates \cup {Absent}]
  BY DEF CircuitClosed, Inv, TypeOK
<1>4. PICK c : c = Ended(circuits[k].mode)
  OBVIOUS
<1>5. /\ c \in Seq(Range(c))
      /\ \A n \in 1..Len(c) : c[n].kind \in WorkKinds /\ c[n].leg \in Legs
      /\ c = <<>> \/ Len(c) = 1
  BY <1>2, <1>4, EndedType
<1>6. Len(c) = 1 \/ \A n \in 1..Len(c) : c[n].kind # "BridgeEnded"
  <2>1. CASE c = <<>>
    <3>1. Len(c) = 0
      BY <2>1
    <3> QED BY <3>1
  <2> QED BY <1>5, <2>1
<1>7. pending' = c
  BY <1>4 DEF CircuitClosed
<1> QED BY <1>1, <1>3, <1>5, <1>6, <1>7, WorkStep

LEMMA RelayInv ==
    ASSUME Inv, (\E t \in TelnetTargets : Begin(t)) \/ UserLeaves \/ ReadStatus \/ UNCHANGED vars
    PROVE  Inv'
<1>1. UNCHANGED <<peers, sess, queue, pending, circuits, strays>>
  BY DEF Begin, UserLeaves, ReadStatus, vars, links, work, history
<1>2. circuits' \in [Circuits -> CircuitStates \cup {Absent}]
  BY <1>1 DEF Inv, TypeOK
<1> QED BY <1>1, <1>2, QuietStep

LEMMA StartRelayInv ==
    ASSUME Inv, StartRelay
    PROVE  Inv'
<1>1. Idle /\ RelaySlots = {} /\ UNCHANGED <<sess, pending, strays>>
  BY DEF StartRelay, history, RelayActive
<1>2. PICK role \in Roles : role = Plain("Telnet")
  BY DEF Plain, Roles
<1>3. CASE ByCircuit(request) /\ UNCHANGED <<peers, queue>>
             /\ \E k \in FreeCircuits : circuits' = OpenCircuit(k, request, role, circuits)
  <2>1. circuits' \in [Circuits -> CircuitStates \cup {Absent}]
    <3>1. PICK k \in Circuits : circuits' = OpenCircuit(k, request, role, circuits)
      BY <1>3 DEF FreeCircuits
    <3> QED BY <1>3, <3>1, OpenCircuitType DEF ByCircuit, Inv, TypeOK
  <2> QED BY <1>1, <1>3, <2>1, QuietStep
<1>4. CASE CanDial(request) /\ UNCHANGED circuits
             /\ \E i \in FreeSlots : DialFrom(i, request, role, peers)
  <2>1. PICK i \in FreeSlots : DialFrom(i, request, role, peers)
    BY <1>4
  <2> QED BY <1>1, <1>4, <2>1, DialStep
<1>5. CASE UNCHANGED <<peers, circuits, queue>>
  <2>1. circuits' \in [Circuits -> CircuitStates \cup {Absent}]
    BY <1>5 DEF Inv, TypeOK
  <2> QED BY <1>1, <1>5, <2>1, QuietStep
<1> QED BY <1>2, <1>3, <1>4, <1>5 DEF StartRelay

LEMMA RelayHangupInv ==
    ASSUME Inv, RelayHangup
    PROVE  Inv'
<1>1. Idle /\ UNCHANGED <<sess, pending, strays>> /\ TypeOK
  BY DEF RelayHangup, history, Inv
<1>2. CASE UNCHANGED <<peers, queue>> /\ circuits' = [k \in Circuits |-> IF k \in RelayCircuits
              THEN [circuits[k] EXCEPT !.phase = "Closing"] ELSE circuits[k]]
  <2>1. \A k \in RelayCircuits : [circuits[k] EXCEPT !.phase = "Closing"] \in CircuitStates
    BY <1>1 DEF RelayCircuits, TypeOK, CircuitStates
  <2>2. circuits' \in [Circuits -> CircuitStates \cup {Absent}]
    BY <1>1, <1>2, <2>1 DEF TypeOK
  <2> QED BY <1>1, <1>2, <2>2, QuietStep
<1>3. CASE /\ UNCHANGED circuits
           /\ peers' = [i \in Slots |-> IF i \in RelaySlots
                            THEN [peers[i] EXCEPT !.role = Plain("None")] ELSE peers[i]]
           /\ queue' = SetToSeq({Post(i, Ev("Release")) : i \in RelaySlots})
  <2>1. \A i \in RelaySlots : /\ i \in Slots /\ peers[i] # Absent
                              /\ [peers[i] EXCEPT !.role = Plain("None")] \in PeerStates
                              /\ [peers[i] EXCEPT !.role = Plain("None")].peer = peers[i].peer
    BY <1>1 DEF RelaySlots, TypeOK, PeerStates, Plain, Roles
  <2>2. /\ \A i \in Slots : peers'[i] = IF i \in RelaySlots
                THEN [peers[i] EXCEPT !.role = Plain("None")] ELSE peers[i]
        /\ peers' \in [Slots -> PeerStates \cup {Absent}]
    BY <1>1, <1>3, <2>1 DEF TypeOK
  <2>3. \A i \in RelaySlots : peers'[i] # Absent
    BY <2>1, <2>2, AbsentAssumption
  <2>4. SamePeers
    <3>1. \A i \in Slots : /\ peers'[i] = Absent <=> peers[i] = Absent
                           /\ peers[i] # Absent => peers'[i].peer = peers[i].peer
      BY <2>1, <2>2, <2>3
    <3>2. \A i \in Slots : i \notin RelaySlots => i \notin RelaySlots'
      BY <2>2 DEF RelaySlots
    <3>3. RelaySlots' \subseteq RelaySlots
      BY <3>2 DEF RelaySlots
    <3> QED BY <2>2, <3>1, <3>3 DEF SamePeers
  <2> DEFINE S == {Post(i, Ev("Release")) : i \in RelaySlots}
  <2>5. \A x, y \in S : x = y
    BY DEF Inv, OneRelay
  <2>6. S \subseteq Posts
    <3>1. Ev("Release") \in Events /\ RelaySlots \subseteq Slots
      BY EvType DEF RelaySlots
    <3> QED BY <3>1 DEF Post, Posts
  <2>7. queue' = SetToSeq(S)
    BY <1>3
  <2> HIDE DEF S
  <2>8. queue' \in Seq(Posts) /\ Len(queue') <= 1
    BY <2>5, <2>6, <2>7, ShortSeq, SeqMonotonic
  <2>9. circuits' \in [Circuits -> CircuitStates \cup {Absent}]
    BY <1>1, <1>3 DEF TypeOK
  <2> QED BY <1>1, <2>4, <2>8, <2>9, PostedStep
<1> QED BY <1>2, <1>3 DEF RelayHangup

\* The invariant holds whatever is typed and sent, whatever the link does and
\* however long a circuit takes.
THEOREM Invariant == Spec => []Inv
<1>1. Inv /\ [Next]_vars => Inv'
  BY PostOneInv, ApplyFollowUpInv, ReceiveInv, GiveUpInv, DialInterlinkInv, CircuitInInv,
     CircuitUpInv, CircuitDataInv, CircuitClosedInv, RelayInv, StartRelayInv, RelayHangupInv
  DEF Next, NodeStep
<1> QED BY <1>1, InitInv, PTL DEF Spec

\* Whenever the node waits, the slots of its peer table are exactly those of its
\* sessions, but for the strays, whatever a station sends without a session: no
\* slot is held for a session that is gone, no session is without the timers its
\* slot has, and a slot outlives its session only where a frame that made none and
\* raised nothing was the last the slot was given.
THEOREM SlotsAndSessions == Spec => []SlotsMatchSessions
<1>1. Inv => SlotsMatchSessions
  <2>1. queue # <<>> => SlotsMatchSessions
    BY DEF SlotsMatchSessions, Idle
  <2> QED BY <2>1, IdleMatches DEF SlotsMatchSessions
<1>2. Spec => []Inv
  BY Invariant
<1> QED BY <1>1, <1>2, PTL

-------------------------------------------------------------------------------
(***************************************************************************)
(* The legs that belong together: the telnet user and its relay, and the   *)
(* two legs of a cross-connect.                                            *)
(***************************************************************************)

(***************************************************************************)
(* What the steps leave in the tables.                                     *)
(***************************************************************************)
\* The slots of a leg take the role, the others keep theirs.
LEMMA RoleGiven ==
    ASSUME TypeOK, NEW leg, NEW role \in Roles
    PROVE  LET ps == WithRole(peers, leg, role)
           IN  \A i \in Slots :
                  /\ ps[i] = Absent <=> peers[i] = Absent
                  /\ peers[i] # Absent =>
                        /\ ps[i].peer = peers[i].peer
                        /\ ps[i].role = IF peers[i].peer = leg THEN role ELSE peers[i].role
<1>0. PICK ps : ps = WithRole(peers, leg, role)
  OBVIOUS
<1>1. \A i \in Slots : peers[i] # Absent =>
         /\ peers[i] \in PeerStates
         /\ [peers[i] EXCEPT !.role = role] \in PeerStates
         /\ [peers[i] EXCEPT !.role = role].peer = peers[i].peer
         /\ [peers[i] EXCEPT !.role = role].role = role
  BY DEF TypeOK, PeerStates
<1>2. \A i \in Slots : ps[i] = IF peers[i] # Absent /\ peers[i].peer = leg
                               THEN [peers[i] EXCEPT !.role = role] ELSE peers[i]
  BY <1>0 DEF WithRole
<1>3. \A i \in Slots : peers[i] # Absent => ps[i] # Absent
  BY <1>1, <1>2, AbsentAssumption
<1>4. \A i \in Slots : peers[i] = Absent => ps[i] = Absent
  BY <1>2
<1>5. \A i \in Slots : peers[i] # Absent =>
         /\ ps[i].peer = peers[i].peer
         /\ ps[i].role = IF peers[i].peer = leg THEN role ELSE peers[i].role
  BY <1>1, <1>2
<1> QED BY <1>0, <1>3, <1>4, <1>5

\* The circuit of a leg takes the mode, the others keep theirs.
LEMMA ModeGiven ==
    ASSUME TypeOK, NEW leg, NEW mode \in Roles
    PROVE  LET cs == WithMode(circuits, leg, mode)
           IN  /\ cs \in [Circuits -> CircuitStates \cup {Absent}]
               /\ \A k \in Circuits :
                  /\ cs[k] = Absent <=> circuits[k] = Absent
                  /\ circuits[k] # Absent =>
                        /\ cs[k].far = circuits[k].far /\ cs[k].phase = circuits[k].phase
                        /\ cs[k].mode = IF k = leg THEN mode ELSE circuits[k].mode
<1>0. PICK cs : cs = WithMode(circuits, leg, mode)
  OBVIOUS
<1>1. \A k \in Circuits : circuits[k] # Absent =>
         /\ circuits[k] \in CircuitStates
         /\ [circuits[k] EXCEPT !.mode = mode] \in CircuitStates
         /\ [circuits[k] EXCEPT !.mode = mode].far = circuits[k].far
         /\ [circuits[k] EXCEPT !.mode = mode].phase = circuits[k].phase
         /\ [circuits[k] EXCEPT !.mode = mode].mode = mode
  BY DEF TypeOK, CircuitStates
<1>2. \A k \in Circuits : cs[k] = IF k = leg /\ circuits[k] # Absent
                                  THEN [circuits[k] EXCEPT !.mode = mode] ELSE circuits[k]
  BY <1>0 DEF WithMode
<1>3. \A k \in Circuits : cs[k] = Absent <=> circuits[k] = Absent
  BY <1>1, <1>2, AbsentAssumption
<1>4. \A k \in Circuits : circuits[k] # Absent =>
         /\ cs[k].far = circuits[k].far /\ cs[k].phase = circuits[k].phase
         /\ cs[k].mode = IF k = leg THEN mode ELSE circuits[k].mode
  BY <1>1, <1>2
<1>5. cs \in [Circuits -> CircuitStates \cup {Absent}]
  BY <1>0, WithModeType
<1> QED BY <1>0, <1>3, <1>4, <1>5

\* A circuit is opened, the others stay.
LEMMA CircuitOpened ==
    ASSUME NEW cs \in [Circuits -> CircuitStates \cup {Absent}], NEW k \in Circuits,
           NEW t \in Routed, NEW mode \in Roles
    PROVE  LET ds == OpenCircuit(k, t, mode, cs)
           IN  /\ ds[k] # Absent /\ ds[k].mode = mode /\ ds[k].phase = "Connecting" /\ ds[k].far = t
               /\ \A l \in Circuits \ {k} : ds[l] = cs[l]
<1>0. PICK ds : ds = OpenCircuit(k, t, mode, cs)
  OBVIOUS
<1>1. PICK c \in CircuitStates : c = [far |-> t, mode |-> mode, phase |-> "Connecting"]
  BY DEF CircuitStates
<1>2. ds[k] = c /\ \A l \in Circuits \ {k} : ds[l] = cs[l]
  BY <1>0, <1>1 DEF OpenCircuit
<1>3. c # Absent /\ c.mode = mode /\ c.phase = "Connecting" /\ c.far = t
  BY <1>1, AbsentAssumption
<1> QED BY <1>0, <1>2, <1>3

\* What an onward connect does to the tables: a circuit, a dial, or nothing.
LEMMA Connected ==
    ASSUME Inv, NEW f, f.leg \in Legs, DoStartBridge(f)
    PROVE  \/ \E k \in FreeCircuits :
                /\ f.target \in Routed /\ queue' = queue
                /\ peers' = WithRole(peers, f.leg, Bridge(k, TRUE))
                /\ circuits' = OpenCircuit(k, f.target, Bridge(f.leg, FALSE),
                                           WithMode(circuits, f.leg, Bridge(k, TRUE)))
                /\ Bridging(Crossed(f.leg))
           \/ \E i \in FreeSlots :
                /\ f.target \in Stations /\ SlotsOf(f.target) = {}
                /\ peers' = [WithRole(peers, f.leg, Bridge(f.target, TRUE))
                                EXCEPT ![i] = PeerState(f.target, Bridge(f.leg, FALSE))]
                /\ queue' = Append(queue, Post(i, Ev("Connect")))
                /\ circuits' = WithMode(circuits, f.leg, Bridge(f.target, TRUE))
                /\ Bridging(Crossed(f.leg) \/ Crossed(f.target))
           \/ /\ queue' = Tell(f.leg) /\ peers' = peers /\ circuits' = circuits
              /\ UNCHANGED history
BY DEF DoStartBridge, ByCircuit, CanDial, DialFrom, links

-------------------------------------------------------------------------------
(***************************************************************************)
(* The telnet user and its relay.                                          *)
(***************************************************************************)
OpenRelays == {k \in RelayCircuits : circuits[k].phase # "Closing"}
NoRelay == RelaySlots = {} /\ OpenRelays = {}

\* There is one relay at most.
OnlyRelay ==
    /\ RelayCircuits # {} => RelaySlots = {}
    /\ \A k, l \in RelayCircuits : k = l

\* A relay goes to the target of the user who is there; without a user, and with no
\* hangup still to be taken, there is neither a relay nor a request for one.  So it
\* is unless the relay was begun while the one before it was still under way.
Attending ==
    /\ user # Absent => ~hangup /\ RelayTargets \subseteq {user}
    /\ request # Absent => ~RelayActive /\ (user # Absent => request = user)
    /\ user = Absent /\ ~hangup => request = Absent /\ NoRelay
    /\ status = "Ended" => request = Absent /\ NoRelay

Relayed == OnlyRelay /\ (~overlapped => Attending)

\* No relay is new, and one that is closing goes on closing.
NoNewRelay ==
    /\ \A i \in RelaySlots' : i \in RelaySlots /\ peers'[i].peer = peers[i].peer
    /\ \A k \in RelayCircuits' :
          /\ k \in RelayCircuits /\ circuits'[k].far = circuits[k].far
          /\ circuits[k].phase = "Closing" => circuits'[k].phase = "Closing"

LEMMA FewerRelays ==
    ASSUME OnlyRelay, NoNewRelay
    PROVE  /\ OnlyRelay' /\ RelayTargets' \subseteq RelayTargets
           /\ NoRelay => NoRelay'
           /\ ~RelayActive => ~RelayActive'
<1>1. RelaySlots' \subseteq RelaySlots /\ RelayCircuits' \subseteq RelayCircuits
  BY DEF NoNewRelay
<1>2. OpenRelays' \subseteq OpenRelays
  BY DEF OpenRelays, NoNewRelay
<1>3. OnlyRelay'
  BY <1>1 DEF OnlyRelay
<1>4. RelayTargets' \subseteq RelayTargets
  <2> SUFFICES ASSUME NEW t \in RelayTargets' PROVE t \in RelayTargets
    OBVIOUS
  <2>1. CASE \E i \in RelaySlots' : t = peers'[i].peer
    BY <2>1 DEF NoNewRelay, RelayTargets
  <2>2. CASE \E k \in OpenRelays' : t = circuits'[k].far
    <3>1. PICK k \in OpenRelays' : t = circuits'[k].far
      BY <2>2
    <3>2. k \in OpenRelays /\ t = circuits[k].far
      BY <1>2, <3>1 DEF OpenRelays, NoNewRelay
    <3> QED BY <3>2 DEF OpenRelays, RelayTargets
  <2> QED BY <2>1, <2>2 DEF RelayTargets, OpenRelays
<1>5. NoRelay => NoRelay'
  BY <1>1, <1>2 DEF NoRelay
<1>6. ~RelayActive => ~RelayActive'
  BY <1>1 DEF RelayActive
<1> QED BY <1>3, <1>4, <1>5, <1>6

\* A step that starts no relay and leaves the statics alone.
LEMMA RelaySame ==
    ASSUME Relayed, NoNewRelay, UNCHANGED <<request, hangup, user, overlapped>>,
           status' = status \/ status' # "Ended" \/ ((~overlapped => request = Absent) /\ NoRelay')
    PROVE  Relayed'
<1>1. /\ OnlyRelay' /\ RelayTargets' \subseteq RelayTargets
      /\ NoRelay => NoRelay'
      /\ ~RelayActive => ~RelayActive'
  BY FewerRelays DEF Relayed
<1>2. ~overlapped => Attending'
  BY <1>1 DEF Relayed, Attending
<1> QED BY <1>1, <1>2 DEF Relayed

LEMMA InitRelayed == Init => Relayed
<1> SUFFICES ASSUME Init PROVE Relayed
  OBVIOUS
<1>1. RelaySlots = {} /\ RelayCircuits = {}
  BY DEF Init, RelaySlots, RelayCircuits
<1> QED BY <1>1 DEF Init, Relayed, OnlyRelay, Attending, NoRelay, OpenRelays, RelayActive, RelayTargets

LEMMA PostOneRelayed ==
    ASSUME Inv, Relayed, PostOne
    PROVE  Relayed'
<1> DEFINE i == Head(queue).slot
           ev == Head(queue).ev
           p == peers[i]
<1>1. /\ i \in Slots /\ circuits' = circuits /\ UNCHANGED <<request, hangup, user, overlapped>>
  <2>1. queue # <<>> /\ queue \in Seq(Posts)
    BY DEF PostOne, Inv, TypeOK
  <2>2. Head(queue) \in Posts
    BY <2>1, TailFacts
  <2> QED BY <2>2 DEF Posts, PostOne, links, relay, history
<1>2. CASE p = Absent
  <2>1. peers' = peers /\ status' = status
    BY <1>2 DEF PostOne, links, relay
  <2>2. NoNewRelay
    BY <1>1, <2>1 DEF NoNewRelay, RelaySlots, RelayCircuits
  <2> QED BY <1>1, <2>1, <2>2, RelaySame
<1>3. CASE p # Absent
  <2>1. /\ p \in PeerStates /\ p.peer \in Stations /\ p.role \in Roles
        /\ peers \in [Slots -> PeerStates \cup {Absent}]
    BY <1>1, <1>3 DEF Inv, TypeOK, PeerStates
  <2>2. PICK o \in Sdl(State(p.peer), ev.kind), gone \in BOOLEAN :
           /\ peers' = [peers EXCEPT ![i] = IF gone THEN Absent
                           ELSE [p EXCEPT !.role = RoleAfter(p.peer, p.role, o.sig)]]
           /\ status' = StatusAfter(p.role, o.sig)
    <3>1. PICK o \in Sdl(State(p.peer), ev.kind) :
             LET next == SessionAfter(p.role, o, ev.lines)
                 free == Transient(p.peer, o)
                 reaped == next = "Disconnected" /\ ~free
             IN  /\ peers' = [peers EXCEPT ![i] = IF reaped THEN Absent
                                 ELSE [p EXCEPT !.role = RoleAfter(p.peer, p.role, o.sig)]]
                 /\ status' = StatusAfter(p.role, o.sig)
      BY <1>3 DEF PostOne
    <3> DEFINE next == SessionAfter(p.role, o, ev.lines)
               free == Transient(p.peer, o)
               reaped == next = "Disconnected" /\ ~free
    <3>2. reaped \in BOOLEAN
      OBVIOUS
    <3> HIDE DEF i, ev, p, next, free
    <3> QED BY <3>1, <3>2 DEF next, free
  <2> DEFINE role == RoleAfter(p.peer, p.role, o.sig)
             after == [p EXCEPT !.role = role]
  <2>3. /\ after.peer = p.peer /\ after.role = role
        /\ role.kind = "Telnet" => p.role.kind = "Telnet"
        /\ o.sig = "Closed" => role.kind # "Telnet"
    BY <2>1, RoleAfterType DEF PeerStates, RoleAfter, Plain
  <2>4. /\ peers'[i] = IF gone THEN Absent ELSE after
        /\ \A j \in Slots \ {i} : peers'[j] = peers[j]
    <3> HIDE DEF i, p, ev, role
    <3> QED BY <1>1, <2>1, <2>2 DEF role
  <2> HIDE DEF after, role
  <2>5. RelaySlots' \subseteq RelaySlots /\ \A j \in RelaySlots' : peers'[j].peer = peers[j].peer
    BY <1>1, <1>3, <2>1, <2>3, <2>4 DEF RelaySlots
  <2>6. NoNewRelay
    BY <1>1, <2>5 DEF NoNewRelay, RelayCircuits
  <2>7. CASE p.role.kind = "Telnet" /\ o.sig = "Closed"
    <3>1. i \in RelaySlots /\ i \notin RelaySlots'
      BY <1>1, <1>3, <2>3, <2>4, <2>7 DEF RelaySlots
    <3>2. RelaySlots' = {}
      BY <2>5, <3>1 DEF Inv, OneRelay
    <3>3. RelayCircuits = {} /\ RelayCircuits' = {}
      BY <1>1, <3>1 DEF Relayed, OnlyRelay, RelayCircuits
    <3>4. NoRelay' /\ RelayActive
      BY <3>1, <3>2, <3>3 DEF NoRelay, OpenRelays, RelayActive
    <3>5. ~overlapped => request = Absent
      BY <3>4 DEF Relayed, Attending
    <3> QED BY <1>1, <2>6, <3>4, <3>5, RelaySame
  <2>8. CASE ~(p.role.kind = "Telnet" /\ o.sig = "Closed")
    <3>1. status' = status \/ status' # "Ended"
      BY <2>2, <2>8 DEF StatusAfter
    <3> QED BY <1>1, <2>6, <3>1, RelaySame
  <2> QED BY <2>7, <2>8
<1> QED BY <1>2, <1>3

LEMMA ApplyFollowUpRelayed ==
    ASSUME Inv, Relayed, ApplyFollowUp
    PROVE  Relayed'
<1>1. PICK f : f = Head(pending)
  OBVIOUS
<1>2. f.leg \in Legs /\ TypeOK
  <2>1. pending # <<>> /\ pending \in Seq(Range(pending))
    BY DEF ApplyFollowUp, Inv, TypeOK
  <2>2. Head(pending) = pending[1] /\ Len(pending) \in Nat \ {0}
    BY <2>1, TailFacts
  <2> QED BY <1>1, <2>2 DEF Inv, TypeOK
<1>3. UNCHANGED <<request, hangup, user, status, overlapped>>
  BY DEF ApplyFollowUp, DoStartBridge, DoBridgeEnded, Bridging, relay, history
<1>4. CASE DoStartBridge(f)
  <2>1. CASE \E k \in FreeCircuits :
                /\ f.target \in Routed
                /\ peers' = WithRole(peers, f.leg, Bridge(k, TRUE))
                /\ circuits' = OpenCircuit(k, f.target, Bridge(f.leg, FALSE),
                                           WithMode(circuits, f.leg, Bridge(k, TRUE)))
    <3>1. PICK k \in FreeCircuits :
                /\ f.target \in Routed
                /\ peers' = WithRole(peers, f.leg, Bridge(k, TRUE))
                /\ circuits' = OpenCircuit(k, f.target, Bridge(f.leg, FALSE),
                                           WithMode(circuits, f.leg, Bridge(k, TRUE)))
      BY <2>1
    <3>2. k \in Circuits /\ circuits[k] = Absent
      BY DEF FreeCircuits
    <3>3. PICK role \in Roles : role = Bridge(k, TRUE) /\ role.kind # "Telnet"
      <4>1. Bridge(k, TRUE) \in Roles /\ Bridge(k, TRUE).kind # "Telnet"
        BY <3>2 DEF Bridge, Roles
      <4> QED BY <4>1
    <3>4. PICK mode \in Roles : mode = Bridge(f.leg, FALSE) /\ mode.kind # "Telnet"
      <4>1. Bridge(f.leg, FALSE) \in Roles /\ Bridge(f.leg, FALSE).kind # "Telnet"
        BY <1>2 DEF Bridge, Roles, Legs
      <4> QED BY <4>1
    <3>5. PICK cs : cs = WithMode(circuits, f.leg, role)
      OBVIOUS
    <3>6. /\ cs \in [Circuits -> CircuitStates \cup {Absent}]
          /\ \A l \in Circuits :
                /\ cs[l] = Absent <=> circuits[l] = Absent
                /\ circuits[l] # Absent =>
                      /\ cs[l].far = circuits[l].far /\ cs[l].phase = circuits[l].phase
                      /\ cs[l].mode = IF l = f.leg THEN role ELSE circuits[l].mode
      BY <1>2, <3>5, ModeGiven
    <3>7. PICK t \in Routed : t = f.target
      BY <3>1
    <3>8. /\ circuits'[k] # Absent /\ circuits'[k].mode = mode
          /\ \A l \in Circuits \ {k} : circuits'[l] = cs[l]
      <4>1. circuits' = OpenCircuit(k, t, mode, cs)
        BY <3>1, <3>3, <3>4, <3>5, <3>7
      <4> QED BY <3>2, <3>6, <4>1, CircuitOpened
    <3>9. \A i \in Slots :
                  /\ peers'[i] = Absent <=> peers[i] = Absent
                  /\ peers[i] # Absent =>
                        /\ peers'[i].peer = peers[i].peer
                        /\ peers'[i].role = IF peers[i].peer = f.leg THEN role ELSE peers[i].role
      <4>1. peers' = WithRole(peers, f.leg, role)
        BY <3>1, <3>3
      <4> QED BY <1>2, <4>1, RoleGiven
    <3>10. \A i \in RelaySlots' : i \in RelaySlots /\ peers'[i].peer = peers[i].peer
      BY <3>3, <3>9 DEF RelaySlots
    <3>11. \A l \in RelayCircuits' : /\ l \in RelayCircuits /\ circuits'[l].far = circuits[l].far
                                     /\ circuits'[l].phase = circuits[l].phase
      <4>1. SUFFICES ASSUME NEW l \in RelayCircuits'
                     PROVE  /\ l \in RelayCircuits /\ circuits'[l].far = circuits[l].far
                            /\ circuits'[l].phase = circuits[l].phase
        OBVIOUS
      <4>2. l \in Circuits /\ circuits'[l] # Absent /\ circuits'[l].mode.kind = "Telnet"
        BY DEF RelayCircuits
      <4>3. l # k
        BY <3>4, <3>8, <4>2
      <4>4. circuits'[l] = cs[l] /\ cs[l] # Absent /\ cs[l].mode.kind = "Telnet"
        BY <3>8, <4>2, <4>3
      <4>5. l # f.leg /\ circuits[l] # Absent /\ circuits[l].mode.kind = "Telnet"
        BY <3>3, <3>6, <4>2, <4>4
      <4> QED BY <3>6, <4>2, <4>4, <4>5 DEF RelayCircuits
    <3>12. NoNewRelay
      BY <3>10, <3>11 DEF NoNewRelay
    <3> QED BY <1>3, <3>12, RelaySame
  <2>2. CASE \E i \in FreeSlots :
                /\ f.target \in Stations
                /\ peers' = [WithRole(peers, f.leg, Bridge(f.target, TRUE))
                                EXCEPT ![i] = PeerState(f.target, Bridge(f.leg, FALSE))]
                /\ circuits' = WithMode(circuits, f.leg, Bridge(f.target, TRUE))
    <3>1. PICK i \in FreeSlots :
                /\ f.target \in Stations
                /\ peers' = [WithRole(peers, f.leg, Bridge(f.target, TRUE))
                                EXCEPT ![i] = PeerState(f.target, Bridge(f.leg, FALSE))]
                /\ circuits' = WithMode(circuits, f.leg, Bridge(f.target, TRUE))
      BY <2>2
    <3>2. i \in Slots /\ peers[i] = Absent
      BY DEF FreeSlots
    <3>3. PICK role \in Roles : role = Bridge(f.target, TRUE) /\ role.kind # "Telnet"
      <4>1. Bridge(f.target, TRUE) \in Roles /\ Bridge(f.target, TRUE).kind # "Telnet"
        BY <3>1 DEF Bridge, Roles
      <4> QED BY <4>1
    <3>4. PICK there : there = PeerState(f.target, Bridge(f.leg, FALSE))
                       /\ there.role.kind # "Telnet"
      <4>1. PeerState(f.target, Bridge(f.leg, FALSE)).role.kind # "Telnet"
        BY DEF Bridge, PeerState
      <4> QED BY <4>1
    <3>5. PICK ps : ps = WithRole(peers, f.leg, role)
      OBVIOUS
    <3>6. \A j \in Slots :
                  /\ ps[j] = Absent <=> peers[j] = Absent
                  /\ peers[j] # Absent =>
                        /\ ps[j].peer = peers[j].peer
                        /\ ps[j].role = IF peers[j].peer = f.leg THEN role ELSE peers[j].role
      BY <1>2, <3>5, RoleGiven
    <3>7. DOMAIN ps = Slots
      BY <3>5 DEF WithRole
    <3>8. peers' = [ps EXCEPT ![i] = there]
      BY <3>1, <3>3, <3>4, <3>5
    <3>9. peers'[i] = there /\ \A j \in Slots \ {i} : peers'[j] = ps[j]
      BY <3>2, <3>7, <3>8
    <3>10. \A j \in RelaySlots' : j \in RelaySlots /\ peers'[j].peer = peers[j].peer
      BY <3>3, <3>4, <3>6, <3>9 DEF RelaySlots
    <3>11. \A l \in Circuits :
                /\ circuits'[l] = Absent <=> circuits[l] = Absent
                /\ circuits[l] # Absent =>
                      /\ circuits'[l].far = circuits[l].far /\ circuits'[l].phase = circuits[l].phase
                      /\ circuits'[l].mode = IF l = f.leg THEN role ELSE circuits[l].mode
      <4>1. circuits' = WithMode(circuits, f.leg, role)
        BY <3>1, <3>3
      <4> QED BY <1>2, <4>1, ModeGiven
    <3>12. \A l \in RelayCircuits' : /\ l \in RelayCircuits /\ circuits'[l].far = circuits[l].far
                                     /\ circuits'[l].phase = circuits[l].phase
      BY <3>3, <3>11 DEF RelayCircuits
    <3>13. NoNewRelay
      BY <3>10, <3>12 DEF NoNewRelay
    <3> QED BY <1>3, <3>13, RelaySame
  <2>3. CASE peers' = peers /\ circuits' = circuits
    <3>1. NoNewRelay
      BY <2>3 DEF NoNewRelay, RelaySlots, RelayCircuits
    <3> QED BY <1>3, <3>1, RelaySame
  <2> QED BY <1>2, <1>4, <2>1, <2>2, <2>3, Connected
<1>5. CASE DoBridgeEnded(f.leg)
  <2>1. PICK role \in Roles : role.kind # "Telnet" /\ peers' = WithRole(peers, f.leg, role)
    <3>1. \/ peers' = WithRole(peers, f.leg, Plain("Console"))
          \/ peers' = WithRole(peers, f.leg, Plain("None"))
      BY <1>5 DEF DoBridgeEnded
    <3>2. /\ Plain("Console") \in Roles /\ Plain("None") \in Roles
          /\ Plain("Console").kind # "Telnet" /\ Plain("None").kind # "Telnet"
      BY DEF Plain, Roles
    <3> QED BY <3>1, <3>2
  <2>2. \A i \in Slots :
                  /\ peers'[i] = Absent <=> peers[i] = Absent
                  /\ peers[i] # Absent =>
                        /\ peers'[i].peer = peers[i].peer
                        /\ peers'[i].role = IF peers[i].peer = f.leg THEN role ELSE peers[i].role
    BY <1>2, <2>1, RoleGiven
  <2>3. \A i \in RelaySlots' : i \in RelaySlots /\ peers'[i].peer = peers[i].peer
    BY <2>1, <2>2 DEF RelaySlots
  <2>4. \A k \in Circuits :
           \/ circuits'[k] = circuits[k]
           \/ circuits[k] # Absent /\ circuits'[k] = [circuits[k] EXCEPT !.mode = Plain("Console")]
           \/ circuits[k] # Absent /\ circuits'[k] = [circuits[k] EXCEPT !.phase = "Closing"]
    BY <1>5 DEF DoBridgeEnded
  <2>5. \A k \in Circuits : circuits[k] # Absent =>
           /\ circuits[k] \in CircuitStates
           /\ [circuits[k] EXCEPT !.mode = Plain("Console")].mode.kind = "Console"
           /\ [circuits[k] EXCEPT !.phase = "Closing"].mode = circuits[k].mode
           /\ [circuits[k] EXCEPT !.phase = "Closing"].phase = "Closing"
           /\ [circuits[k] EXCEPT !.phase = "Closing"].far = circuits[k].far
    BY <1>2 DEF TypeOK, CircuitStates, Plain
  <2>6. \A k \in RelayCircuits' :
          /\ k \in RelayCircuits /\ circuits'[k].far = circuits[k].far
          /\ circuits[k].phase = "Closing" => circuits'[k].phase = "Closing"
    <3> SUFFICES ASSUME NEW k \in RelayCircuits'
                 PROVE  /\ k \in RelayCircuits /\ circuits'[k].far = circuits[k].far
                        /\ circuits[k].phase = "Closing" => circuits'[k].phase = "Closing"
      OBVIOUS
    <3>1. k \in Circuits /\ circuits'[k] # Absent /\ circuits'[k].mode.kind = "Telnet"
      BY DEF RelayCircuits
    <3>2. CASE circuits'[k] = circuits[k]
      BY <3>1, <3>2 DEF RelayCircuits
    <3>3. CASE circuits[k] # Absent /\ circuits'[k] = [circuits[k] EXCEPT !.mode = Plain("Console")]
      BY <2>5, <3>1, <3>3
    <3>4. CASE circuits[k] # Absent /\ circuits'[k] = [circuits[k] EXCEPT !.phase = "Closing"]
      BY <2>5, <3>1, <3>4 DEF RelayCircuits
    <3> QED BY <2>4, <3>1, <3>2, <3>3, <3>4
  <2>7. NoNewRelay
    BY <2>3, <2>6 DEF NoNewRelay
  <2> QED BY <1>3, <2>7, RelaySame
<1>6. CASE UNCHANGED links
  <2>1. NoNewRelay
    BY <1>6 DEF NoNewRelay, RelaySlots, RelayCircuits, links
  <2> QED BY <1>3, <2>1, RelaySame
<1> QED BY <1>1, <1>4, <1>5, <1>6 DEF ApplyFollowUp

\* What wakes the node starts no relay.
LEMMA ReceiveRelayed ==
    ASSUME Inv, Relayed, NEW s \in Stations, NEW f \in Frames, Receive(s, f)
    PROVE  Relayed'
<1>1. UNCHANGED <<request, hangup, user, status, overlapped, circuits>>
  BY DEF Receive, relay, history
<1>2. CASE peers' = peers
  <2>1. NoNewRelay
    BY <1>1, <1>2 DEF NoNewRelay, RelaySlots, RelayCircuits
  <2> QED BY <1>1, <2>1, RelaySame
<1>3. CASE \E i \in FreeSlots : peers' = [peers EXCEPT ![i] = PeerState(s, Plain("None"))]
  <2>1. PICK i \in FreeSlots : peers' = [peers EXCEPT ![i] = PeerState(s, Plain("None"))]
    BY <1>3
  <2>2. PICK there : there = PeerState(s, Plain("None")) /\ there.role.kind = "None"
    <3>1. PeerState(s, Plain("None")).role.kind = "None"
      BY DEF PeerState, Plain
    <3> QED BY <3>1
  <2>3. peers'[i] = there /\ \A j \in Slots \ {i} : peers'[j] = peers[j]
    BY <2>1, <2>2 DEF FreeSlots, Inv, TypeOK
  <2>4. NoNewRelay
    BY <1>1, <2>2, <2>3 DEF NoNewRelay, RelaySlots, RelayCircuits
  <2> QED BY <1>1, <2>4, RelaySame
<1> QED BY <1>2, <1>3 DEF Receive

LEMMA DialInterlinkRelayed ==
    ASSUME Inv, Relayed, NEW s \in Stations, DialInterlink(s)
    PROVE  Relayed'
<1>1. UNCHANGED <<request, hangup, user, status, overlapped, circuits>>
  BY DEF DialInterlink, relay, history
<1>2. PICK i \in FreeSlots : peers' = [peers EXCEPT ![i] = PeerState(s, Plain("Interlink"))]
  BY DEF DialInterlink, DialFrom
<1>3. PICK there : there = PeerState(s, Plain("Interlink")) /\ there.role.kind = "Interlink"
  <2>1. PeerState(s, Plain("Interlink")).role.kind = "Interlink"
    BY DEF PeerState, Plain
  <2> QED BY <2>1
<1>4. peers'[i] = there /\ \A j \in Slots \ {i} : peers'[j] = peers[j]
  BY <1>2, <1>3 DEF FreeSlots, Inv, TypeOK
<1>5. NoNewRelay
  BY <1>1, <1>3, <1>4 DEF NoNewRelay, RelaySlots, RelayCircuits
<1> QED BY <1>1, <1>5, RelaySame

LEMMA GiveUpRelayed ==
    ASSUME Relayed, NEW s \in Stations, GiveUp(s)
    PROVE  Relayed'
<1>1. UNCHANGED <<request, hangup, user, status, overlapped, circuits, peers>>
  BY DEF GiveUp, relay, links, history
<1>2. NoNewRelay
  BY <1>1 DEF NoNewRelay, RelaySlots, RelayCircuits
<1> QED BY <1>1, <1>2, RelaySame

LEMMA CircuitRelayed ==
    ASSUME Inv, Relayed,
           CircuitIn \/ \E k \in Circuits : CircuitUp(k) \/ \E l \in Typed : CircuitData(k, l)
    PROVE  Relayed'
<1>1. /\ UNCHANGED <<request, hangup, user, overlapped, peers>>
      /\ status' = status \/ status' # "Ended"
  BY DEF CircuitIn, CircuitUp, CircuitData, relay, history
<1>2. circuits \in [Circuits -> CircuitStates \cup {Absent}]
  BY DEF Inv, TypeOK
<1>3. \A l \in Circuits : circuits[l] # Absent =>
         /\ [circuits[l] EXCEPT !.phase = "Up"].far = circuits[l].far
         /\ [circuits[l] EXCEPT !.phase = "Up"].mode = circuits[l].mode
         /\ [circuits[l] EXCEPT !.phase = "Closing"].far = circuits[l].far
         /\ [circuits[l] EXCEPT !.phase = "Closing"].mode = circuits[l].mode
         /\ [circuits[l] EXCEPT !.phase = "Closing"].phase = "Closing"
  BY <1>2 DEF CircuitStates
<1>4. CASE CircuitIn
  <2>1. PICK k \in FreeCircuits :
           circuits' = [circuits EXCEPT ![k] = [far |-> Absent, mode |-> Plain("Console"), phase |-> "Up"]]
    BY <1>4 DEF CircuitIn
  <2>2. PICK there : /\ there = [far |-> Absent, mode |-> Plain("Console"), phase |-> "Up"]
                     /\ there.mode.kind # "Telnet"
    <3>1. [far |-> Absent, mode |-> Plain("Console"), phase |-> "Up"].mode.kind # "Telnet"
      BY DEF Plain
    <3> QED BY <3>1
  <2>3. circuits'[k] = there /\ \A l \in Circuits \ {k} : circuits'[l] = circuits[l]
    BY <1>2, <2>1, <2>2 DEF FreeCircuits
  <2>4. NoNewRelay
    BY <1>1, <2>2, <2>3 DEF NoNewRelay, RelaySlots, RelayCircuits
  <2> QED BY <1>1, <2>4, RelaySame
<1>5. CASE \E k \in Circuits : CircuitUp(k)
  <2>1. PICK k \in Circuits : /\ circuits[k] # Absent /\ circuits[k].phase = "Connecting"
                              /\ circuits' = [circuits EXCEPT ![k].phase = "Up"]
    BY <1>5 DEF CircuitUp, CircuitIs
  <2>2. /\ circuits'[k] = [circuits[k] EXCEPT !.phase = "Up"]
        /\ \A l \in Circuits \ {k} : circuits'[l] = circuits[l]
    BY <1>2, <2>1
  <2>3. \A l \in RelayCircuits' :
          /\ l \in RelayCircuits /\ circuits'[l].far = circuits[l].far
          /\ circuits[l].phase = "Closing" => circuits'[l].phase = "Closing"
    <3>1. /\ circuits'[k].far = circuits[k].far /\ circuits'[k].mode = circuits[k].mode
          /\ circuits[k].phase # "Closing"
      BY <1>3, <2>1, <2>2
    <3> QED BY <2>1, <2>2, <3>1 DEF RelayCircuits
  <2>4. NoNewRelay
    BY <1>1, <2>3 DEF NoNewRelay, RelaySlots
  <2> QED BY <1>1, <2>4, RelaySame
<1>6. CASE \E k \in Circuits, l \in Typed : CircuitData(k, l)
  <2>1. PICK k \in Circuits : /\ circuits[k] # Absent
                              /\ \/ circuits' = circuits
                                 \/ circuits' = [circuits EXCEPT ![k].phase = "Closing"]
    BY <1>6 DEF CircuitData, CircuitIs
  <2>2. /\ circuits'[k] = circuits[k] \/ circuits'[k] = [circuits[k] EXCEPT !.phase = "Closing"]
        /\ \A l \in Circuits \ {k} : circuits'[l] = circuits[l]
    BY <1>2, <2>1
  <2>3. \A l \in RelayCircuits' :
          /\ l \in RelayCircuits /\ circuits'[l].far = circuits[l].far
          /\ circuits[l].phase = "Closing" => circuits'[l].phase = "Closing"
    <3>1. /\ circuits'[k].far = circuits[k].far /\ circuits'[k].mode = circuits[k].mode
          /\ circuits[k].phase = "Closing" => circuits'[k].phase = "Closing"
      BY <1>3, <2>1, <2>2
    <3> QED BY <2>1, <2>2, <3>1 DEF RelayCircuits
  <2>4. NoNewRelay
    BY <1>1, <2>3 DEF NoNewRelay, RelaySlots
  <2> QED BY <1>1, <2>4, RelaySame
<1> QED BY <1>4, <1>5, <1>6

LEMMA CircuitClosedRelayed ==
    ASSUME Inv, Relayed, NEW k \in Circuits, CircuitClosed(k)
    PROVE  Relayed'
<1>1. /\ UNCHANGED <<request, hangup, user, overlapped, peers>>
      /\ circuits[k] # Absent /\ circuits' = [circuits EXCEPT ![k] = Absent]
      /\ status' = IF circuits[k].mode.kind = "Telnet" THEN "Ended" ELSE status
  BY DEF CircuitClosed, history
<1>2. circuits'[k] = Absent /\ \A l \in Circuits \ {k} : circuits'[l] = circuits[l]
  BY <1>1 DEF Inv, TypeOK
<1>3. NoNewRelay
  BY <1>1, <1>2 DEF NoNewRelay, RelaySlots, RelayCircuits
<1>4. CASE circuits[k].mode.kind = "Telnet"
  <2>1. k \in RelayCircuits /\ k \notin RelayCircuits' /\ RelayCircuits' \subseteq RelayCircuits
    BY <1>1, <1>2, <1>3, <1>4 DEF RelayCircuits, NoNewRelay
  <2>2. RelayCircuits' = {} /\ RelaySlots = {} /\ RelaySlots' = {}
    BY <1>1, <2>1 DEF Relayed, OnlyRelay, RelaySlots
  <2>3. NoRelay' /\ RelayActive
    BY <2>1, <2>2 DEF NoRelay, OpenRelays, RelayActive
  <2>4. ~overlapped => request = Absent
    BY <2>3 DEF Relayed, Attending
  <2> QED BY <1>1, <1>3, <2>3, <2>4, RelaySame
<1>5. CASE circuits[k].mode.kind # "Telnet"
  BY <1>1, <1>3, <1>5, RelaySame
<1> QED BY <1>4, <1>5

\* The telnet task.  A user who finds no relay under way begins afresh.
LEMMA TelnetRelayed ==
    ASSUME Relayed, UserLeaves \/ ReadStatus \/ \E t \in TelnetTargets : Begin(t)
    PROVE  Relayed'
<1>1. UNCHANGED <<peers, circuits>>
  BY DEF UserLeaves, ReadStatus, Begin, links
<1>2. /\ RelaySlots' = RelaySlots /\ RelayCircuits' = RelayCircuits /\ RelayTargets' = RelayTargets
      /\ OpenRelays' = OpenRelays
  BY <1>1 DEF RelaySlots, RelayCircuits, RelayTargets, OpenRelays
<1>3. OnlyRelay'
  BY <1>2 DEF Relayed, OnlyRelay
<1>4. (NoRelay' <=> NoRelay) /\ (RelayActive' <=> RelayActive)
  BY <1>2 DEF NoRelay, RelayActive
<1>5. CASE UserLeaves
  <2>1. hangup' /\ user' = Absent /\ request' = request /\ status' = status
        /\ overlapped' = overlapped
    BY <1>5 DEF UserLeaves, history
  <2>2. ~overlapped => Attending'
    BY <1>4, <2>1 DEF Relayed, Attending
  <2> QED BY <1>3, <2>1, <2>2 DEF Relayed
<1>6. CASE ReadStatus
  <2>1. /\ user # Absent /\ status' = Absent /\ request' = request /\ hangup' = hangup
        /\ user' = IF status = "Ended" THEN Absent ELSE user
        /\ overlapped' = overlapped
    BY <1>6 DEF ReadStatus, history
  <2>2. status' # "Ended"
    BY <2>1, AbsentAssumption
  <2>3. ~overlapped => Attending'
    BY <1>2, <1>4, <2>1, <2>2 DEF Relayed, Attending
  <2> QED BY <1>3, <2>1, <2>3 DEF Relayed
<1>7. CASE \E t \in TelnetTargets : Begin(t)
  <2>1. PICK t \in TelnetTargets : Begin(t)
    BY <1>7
  <2>2. SUFFICES ASSUME ~overlapped' PROVE Attending'
    BY <1>3 DEF Relayed
  <2>3. ~RelayActive /\ NoRelay /\ request = Absent
    BY <2>1, <2>2 DEF Begin, RelayActive, NoRelay, OpenRelays
  <2>4. RelayTargets' = {}
    BY <1>2, <2>3 DEF NoRelay, RelayTargets, OpenRelays
  <2>5. request' = t /\ user' = t /\ ~hangup' /\ status' = Absent
    BY <2>1, <2>3 DEF Begin
  <2>6. ~RelayActive' /\ NoRelay'
    BY <1>4, <2>3
  <2> QED BY <2>4, <2>5, <2>6, AbsentAssumption DEF Attending
<1> QED BY <1>5, <1>6, <1>7

LEMMA StartRelayRelayed ==
    ASSUME Inv, Relayed, StartRelay
    PROVE  Relayed'
<1>1. /\ request # Absent /\ request' = Absent /\ hangup' = hangup /\ user' = user /\ ~RelayActive
      /\ overlapped' = overlapped
  BY DEF StartRelay, history
<1>2. RelaySlots = {} /\ RelayCircuits = {}
  BY <1>1 DEF RelayActive
<1>3. ~overlapped => /\ status # "Ended" /\ (user # Absent => request = user /\ ~hangup)
                     /\ (user = Absent => hangup)
  BY <1>1 DEF Relayed, Attending
<1>4. CASE \E k \in FreeCircuits :
              /\ request \in Routed /\ peers' = peers /\ status' = status
              /\ circuits' = OpenCircuit(k, request, Plain("Telnet"), circuits)
  <2>1. PICK k \in FreeCircuits :
              /\ request \in Routed /\ peers' = peers /\ status' = status
              /\ circuits' = OpenCircuit(k, request, Plain("Telnet"), circuits)
    BY <1>4
  <2>2. k \in Circuits /\ Plain("Telnet") \in Roles
    BY DEF FreeCircuits, Plain, Roles
  <2>3. PICK t \in Routed, mode \in Roles : t = request /\ mode = Plain("Telnet")
    BY <2>1, <2>2
  <2>4. /\ circuits'[k].far = request
        /\ \A l \in Circuits \ {k} : circuits'[l] = circuits[l]
    <3>1. circuits' = OpenCircuit(k, t, mode, circuits)
      BY <2>1, <2>3
    <3>2. circuits \in [Circuits -> CircuitStates \cup {Absent}]
      BY DEF Inv, TypeOK
    <3>3. circuits'[k].far = t
      BY <2>2, <3>1, <3>2, CircuitOpened
    <3>4. \A l \in Circuits \ {k} : circuits'[l] = circuits[l]
      BY <2>2, <3>1, <3>2, CircuitOpened
    <3> QED BY <2>3, <3>3, <3>4
  <2>5. RelaySlots' = {} /\ RelayCircuits' \subseteq {k}
    BY <1>2, <2>1, <2>4 DEF RelaySlots, RelayCircuits
  <2>6. RelayTargets' \subseteq {request}
    BY <2>4, <2>5 DEF RelayTargets
  <2>7. OnlyRelay'
    BY <2>5 DEF OnlyRelay
  <2>8. ~overlapped => Attending'
    BY <1>1, <1>3, <2>1, <2>6 DEF Attending
  <2> QED BY <1>1, <2>7, <2>8 DEF Relayed
<1>5. CASE /\ CanDial(request) /\ circuits' = circuits /\ status' = status
           /\ \E i \in FreeSlots : DialFrom(i, request, Plain("Telnet"), peers)
  <2>1. PICK i \in FreeSlots : peers' = [peers EXCEPT ![i] = PeerState(request, Plain("Telnet"))]
    BY <1>5 DEF DialFrom
  <2>2. PICK there : there = PeerState(request, Plain("Telnet")) /\ there.peer = request
    <3>1. PeerState(request, Plain("Telnet")).peer = request
      BY DEF PeerState
    <3> QED BY <3>1
  <2>3. peers'[i] = there /\ \A j \in Slots \ {i} : peers'[j] = peers[j]
    BY <2>1, <2>2 DEF FreeSlots, Inv, TypeOK
  <2>4. RelaySlots' \subseteq {i} /\ RelayCircuits' = {}
    BY <1>2, <1>5, <2>3 DEF RelaySlots, RelayCircuits
  <2>5. RelayTargets' \subseteq {request}
    BY <2>2, <2>3, <2>4 DEF RelayTargets
  <2>6. OnlyRelay'
    BY <2>4 DEF OnlyRelay
  <2>7. ~overlapped => Attending'
    BY <1>1, <1>3, <1>5, <2>5 DEF Attending
  <2> QED BY <1>1, <2>6, <2>7 DEF Relayed
<1>6. CASE peers' = peers /\ circuits' = circuits /\ status' = "Ended"
  <2>1. RelaySlots' = {} /\ RelayCircuits' = {}
    BY <1>2, <1>6 DEF RelaySlots, RelayCircuits
  <2>2. RelayTargets' = {} /\ NoRelay' /\ OnlyRelay' /\ ~RelayActive'
    BY <2>1 DEF RelayTargets, NoRelay, OpenRelays, OnlyRelay, RelayActive
  <2>3. ~overlapped => Attending'
    BY <1>1, <1>3, <2>2 DEF Attending
  <2> QED BY <1>1, <2>2, <2>3 DEF Relayed
<1> QED BY <1>4, <1>5, <1>6 DEF StartRelay, ByCircuit

LEMMA RelayHangupRelayed ==
    ASSUME Inv, Relayed, RelayHangup
    PROVE  Relayed'
<1>1. /\ RelayActive /\ hangup /\ ~hangup' /\ UNCHANGED <<request, status, user, overlapped>>
  BY DEF RelayHangup, history
<1>2. ~overlapped => request = Absent /\ user = Absent
  BY <1>1 DEF Relayed, Attending
<1>3. CASE /\ RelayCircuits # {} /\ peers' = peers
           /\ circuits' = [k \in Circuits |-> IF k \in RelayCircuits
                             THEN [circuits[k] EXCEPT !.phase = "Closing"] ELSE circuits[k]]
  <2>1. \A k \in RelayCircuits : /\ circuits'[k] = [circuits[k] EXCEPT !.phase = "Closing"]
                                 /\ circuits[k] \in CircuitStates
    BY <1>3 DEF RelayCircuits, Inv, TypeOK
  <2>2. \A k \in RelayCircuits : circuits'[k].phase = "Closing" /\ circuits'[k].far = circuits[k].far
    BY <2>1 DEF CircuitStates
  <2>3. \A k \in Circuits : k \notin RelayCircuits => circuits'[k] = circuits[k]
    BY <1>3
  <2>4. RelayCircuits' \subseteq RelayCircuits
    BY <2>3 DEF RelayCircuits
  <2>5. RelaySlots = {} /\ RelaySlots' = {}
    BY <1>3 DEF Relayed, OnlyRelay, RelaySlots
  <2>6. NoNewRelay
    BY <2>2, <2>4, <2>5 DEF NoNewRelay
  <2>7. NoRelay'
    BY <2>2, <2>4, <2>5 DEF NoRelay, OpenRelays
  <2>8. OnlyRelay'
    BY <2>6, FewerRelays DEF Relayed
  <2>9. ~overlapped => Attending'
    BY <1>1, <1>2, <2>7 DEF Attending
  <2> QED BY <1>1, <2>8, <2>9 DEF Relayed
<1>4. CASE /\ RelayCircuits = {} /\ circuits' = circuits
           /\ peers' = [i \in Slots |-> IF i \in RelaySlots
                            THEN [peers[i] EXCEPT !.role = Plain("None")] ELSE peers[i]]
  <2>1. \A i \in RelaySlots : /\ peers'[i] = [peers[i] EXCEPT !.role = Plain("None")]
                              /\ peers[i] \in PeerStates
    <3>1. \A i \in RelaySlots : i \in Slots /\ peers[i] \in PeerStates
      BY DEF RelaySlots, Inv, TypeOK
    <3> QED BY <1>4, <3>1
  <2>2. \A i \in RelaySlots : peers'[i].role.kind = "None"
    <3>1. PICK none : none = Plain("None") /\ none.kind = "None"
      <4>1. Plain("None").kind = "None"
        BY DEF Plain
      <4> QED BY <4>1
    <3>2. \A i \in RelaySlots : peers'[i] = [peers[i] EXCEPT !.role = none]
      BY <2>1, <3>1
    <3> QED BY <2>1, <3>1, <3>2 DEF PeerStates
  <2>3. \A i \in Slots : i \notin RelaySlots => peers'[i] = peers[i]
    BY <1>4
  <2>4. RelaySlots' = {} /\ RelayCircuits' = {}
    BY <1>4, <2>2, <2>3 DEF RelaySlots, RelayCircuits
  <2>5. NoRelay' /\ OnlyRelay'
    BY <2>4 DEF NoRelay, OpenRelays, OnlyRelay
  <2>6. ~overlapped => Attending'
    BY <1>1, <1>2, <2>5 DEF Attending
  <2> QED BY <1>1, <2>5, <2>6 DEF Relayed
<1> QED BY <1>3, <1>4 DEF RelayHangup

\* The telnet user is attended: a relay is under way for the user who is there and
\* goes to that user's target, whatever is typed or sent and however long a circuit
\* takes to close, unless the user came while the relay of the one before was still
\* under way.  That one may be taken for ended with the other's circuit, and its
\* request then starts a relay nobody attends.
THEOREM RelayIsAttended == Spec => []RelayAttended
<1>1. Relayed => RelayAttended
  <2> SUFFICES ASSUME Relayed, ~overlapped, ~hangup PROVE RelayTargets \subseteq {user}
    BY DEF RelayAttended, RelayIsTheUsers
  <2>1. CASE user = Absent
    <3>1. NoRelay
      BY <2>1 DEF Relayed, Attending
    <3> QED BY <3>1 DEF NoRelay, OpenRelays, RelayTargets
  <2>2. CASE user # Absent
    BY <2>2 DEF Relayed, Attending
  <2> QED BY <2>1, <2>2
<1>2. Inv /\ Relayed /\ [Next]_vars => Relayed'
  <2> SUFFICES ASSUME Inv, Relayed, [Next]_vars PROVE Relayed'
    OBVIOUS
  <2>1. CASE UNCHANGED vars
    <3>1. NoNewRelay /\ UNCHANGED <<request, hangup, user, status, overlapped>>
      BY <2>1 DEF vars, links, relay, history, NoNewRelay, RelaySlots, RelayCircuits
    <3> QED BY <3>1, RelaySame
  <2> QED BY <2>1, PostOneRelayed, ApplyFollowUpRelayed, ReceiveRelayed, DialInterlinkRelayed,
             GiveUpRelayed, CircuitRelayed, CircuitClosedRelayed, TelnetRelayed,
             StartRelayRelayed, RelayHangupRelayed
          DEF Next, NodeStep
<1>3. Spec => []Inv
  BY Invariant
<1> QED BY <1>1, <1>2, <1>3, InitRelayed, PTL DEF Spec

-------------------------------------------------------------------------------
(***************************************************************************)
(* Cross-connects.                                                         *)
(***************************************************************************)
\* Leg x has role r.
Has(x, r) ==
    \/ \E i \in Occupied : peers[i].peer = x /\ peers[i].role = r
    \/ x \in Circuits /\ circuits[x] # Absent /\ circuits[x].mode = r

Asked(x, y) == Has(x, Bridge(y, TRUE))
Serves(x, y) == Has(x, Bridge(y, FALSE))
Linked(x, y) == Asked(x, y) \/ Serves(x, y)

Closing(x) == x \in Circuits /\ CircuitIs(x, "Closing")
Orphan(x) == pending # <<>> /\ pending[1].kind = "BridgeEnded" /\ pending[1].leg = x

\* A leg is named by none but the leg it names itself, in the other part.
Mutual ==
    \A x, y, z \in Legs :
        /\ Asked(x, y) => ~Asked(y, z) /\ (Serves(y, z) => z = x)
        /\ Serves(x, y) => ~Serves(y, z) /\ (Asked(y, z) => z = x)

\* The leg one names names it, but for a circuit on its way out and for a leg that
\* is about to hear of the other's end.
Matched ==
    \A x, y \in Legs :
        /\ Asked(x, y) => Serves(y, x) \/ Closing(x) \/ Orphan(x)
        /\ Serves(x, y) => Asked(y, x) \/ Closing(x) \/ Orphan(x)

\* None but a circuit on its way out names a leg that is about to hear of the
\* other's end.
Orphaned == \A x, y \in Legs : Orphan(y) /\ Linked(x, y) => Closing(x)

Bonds == Mutual /\ Matched /\ Orphaned

LEMMA BridgeFacts ==
    ASSUME NEW y \in Legs
    PROVE  /\ Bridge(y, TRUE) \in Roles /\ Bridge(y, FALSE) \in Roles
           /\ Bridge(y, TRUE).kind = "Bridge" /\ Bridge(y, FALSE).kind = "Bridge"
           /\ \A z : Bridge(y, TRUE) # Bridge(z, FALSE)
           /\ \A z : Bridge(y, TRUE) = Bridge(z, TRUE) => y = z
           /\ \A z : Bridge(y, FALSE) = Bridge(z, FALSE) => y = z
BY DEF Bridge, Roles, Legs

LEMMA BridgeRoles ==
    ASSUME NEW r \in Roles, r.kind = "Bridge"
    PROVE  \E y \in Legs : y = r.other /\ (r = Bridge(y, TRUE) \/ r = Bridge(y, FALSE))
<1>1. r = [kind |-> "Bridge", other |-> r.other, initiator |-> r.initiator]
  BY DEF Roles
<1>2. r.initiator = TRUE \/ r.initiator = FALSE
  BY DEF Roles
<1>3. r.other \in Legs
  BY DEF Roles, Legs
<1> QED BY <1>1, <1>2, <1>3 DEF Bridge

\* A leg has one role.
LEMMA OneRole ==
    ASSUME Inv, NEW x \in Legs, NEW r, NEW q, Has(x, r), Has(x, q)
    PROVE  r = q
<1>1. \A i \in Occupied : peers[i].peer \in Stations
  BY DEF Inv, TypeOK, Occupied, PeerStates
<1>2. \A i, j \in Occupied : peers[i].peer = peers[j].peer => i = j
  BY DEF Inv, OnePeerPerSlot
<1> QED BY <1>1, <1>2, LinksAssumption DEF Has

LEMMA Unlinked ==
    ASSUME Inv, NEW x \in Legs, NEW r, Has(x, r), r.kind # "Bridge"
    PROVE  \A y \in Legs : ~Linked(x, y)
BY OneRole, BridgeFacts DEF Linked, Asked, Serves

\* The links stay as they are.
LEMMA Steady ==
    ASSUME Bonds, \A x : ~Orphan(x), \A x : ~Orphan(x)',
           \A x, y \in Legs : /\ Asked(x, y)' <=> Asked(x, y)
                              /\ Serves(x, y)' <=> Serves(x, y)
                              /\ Linked(x, y) /\ Closing(x) => Closing(x)'
    PROVE  Bonds'
<1>1. Mutual'
  BY DEF Bonds, Mutual
<1>2. Matched'
  BY DEF Bonds, Matched, Linked
<1>3. Orphaned'
  BY DEF Orphaned
<1> QED BY <1>1, <1>2, <1>3 DEF Bonds

\* Leg s has come to its end.
LEMMA CutOff ==
    ASSUME Bonds, \A x : ~Orphan(x),
           NEW s \in Legs, NEW o \in Legs, Linked(s, o), Orphan(o)',
           \A y \in Legs : ~Asked(s, y)' /\ ~Serves(s, y)',
           \A x \in Legs \ {s}, y \in Legs : /\ Asked(x, y)' <=> Asked(x, y)
                                             /\ Serves(x, y)' <=> Serves(x, y)
                                             /\ Closing(x) => Closing(x)'
    PROVE  Bonds'
<1>1. Mutual'
  BY DEF Bonds, Mutual
<1>2. Matched'
  <2> SUFFICES ASSUME NEW x \in Legs, NEW y \in Legs
               PROVE  /\ Asked(x, y)' => Serves(y, x)' \/ Closing(x)' \/ Orphan(x)'
                      /\ Serves(x, y)' => Asked(y, x)' \/ Closing(x)' \/ Orphan(x)'
    BY DEF Matched
  <2>1. CASE x = s
    BY <2>1
  <2>2. CASE x # s /\ y # s
    BY <2>2 DEF Bonds, Matched
  <2>3. CASE x # s /\ y = s
    <3>1. Linked(x, s) => x = o \/ Closing(x)
      BY DEF Bonds, Matched, Mutual, Linked
    <3> QED BY <2>3, <3>1 DEF Linked
  <2> QED BY <2>1, <2>2, <2>3
<1>3. Orphaned'
  <2> SUFFICES ASSUME NEW x \in Legs, NEW y \in Legs, Orphan(y)', Linked(x, y)'
               PROVE  Closing(x)'
    BY DEF Orphaned
  <2>1. y = o /\ x # s /\ Linked(x, o)
    BY DEF Orphan, Linked
  <2>2. Closing(x)
    BY <2>1 DEF Bonds, Matched, Mutual, Linked
  <2> QED BY <2>1, <2>2
<1> QED BY <1>1, <1>2, <1>3 DEF Bonds

\* Leg o has heard of the other's end: it is on its own, or on its way out.
LEMMA LetGo ==
    ASSUME Bonds, NEW o \in Legs, Orphan(o), \A x : ~Orphan(x)',
           \/ \A y \in Legs : ~Asked(o, y)' /\ ~Serves(o, y)'
           \/ /\ Closing(o)'
              /\ \A y \in Legs : (Asked(o, y)' => Asked(o, y)) /\ (Serves(o, y)' => Serves(o, y)),
           \A x \in Legs \ {o}, y \in Legs : /\ Asked(x, y)' <=> Asked(x, y)
                                             /\ Serves(x, y)' <=> Serves(x, y)
                                             /\ Closing(x) => Closing(x)'
    PROVE  Bonds'
<1>1. Mutual'
  <2>1. \A x, y \in Legs : (Asked(x, y)' => Asked(x, y)) /\ (Serves(x, y)' => Serves(x, y))
    OBVIOUS
  <2> QED BY <2>1 DEF Bonds, Mutual
<1>2. Matched'
  <2> SUFFICES ASSUME NEW x \in Legs, NEW y \in Legs
               PROVE  /\ Asked(x, y)' => Serves(y, x)' \/ Closing(x)' \/ Orphan(x)'
                      /\ Serves(x, y)' => Asked(y, x)' \/ Closing(x)' \/ Orphan(x)'
    BY DEF Matched
  <2>1. CASE x = o
    BY <2>1
  <2>2. CASE x # o /\ y # o
    <3>1. ~Orphan(x)
      BY <2>2 DEF Orphan
    <3> QED BY <2>2, <3>1 DEF Bonds, Matched
  <2>3. CASE x # o /\ y = o
    <3>1. Linked(x, o) => Closing(x)
      BY DEF Bonds, Orphaned
    <3> QED BY <2>3, <3>1 DEF Linked
  <2> QED BY <2>1, <2>2, <2>3
<1>3. Orphaned'
  BY DEF Orphaned
<1> QED BY <1>1, <1>2, <1>3 DEF Bonds

\* Leg x, which was on its own, is connected to leg y, which is new.
LEMMA Joined ==
    ASSUME Bonds, \A u : ~Orphan(u), \A u : ~Orphan(u)',
           NEW x \in Legs, NEW y \in Legs, x # y,
           \A v \in Legs : ~Linked(x, v) /\ ~Linked(y, v),
           \A u \in Legs : ~Linked(u, x) /\ ~Linked(u, y),
           \A u \in Legs \ {x, y} : Closing(u) => Closing(u)',
           \A v \in Legs : /\ Asked(x, v)' <=> v = y
                           /\ ~Serves(x, v)' /\ ~Asked(y, v)'
                           /\ Serves(y, v)' <=> v = x,
           \A u \in Legs \ {x, y}, v \in Legs : /\ Asked(u, v)' <=> Asked(u, v)
                                                /\ Serves(u, v)' <=> Serves(u, v)
    PROVE  Bonds'
<1>1. \A u \in Legs : ~Linked(u, x) /\ ~Linked(u, y)
  OBVIOUS
<1>2. Mutual'
  <2> SUFFICES ASSUME NEW u \in Legs, NEW v \in Legs, NEW w \in Legs
               PROVE  /\ Asked(u, v)' => ~Asked(v, w)' /\ (Serves(v, w)' => w = u)
                      /\ Serves(u, v)' => ~Serves(v, w)' /\ (Asked(v, w)' => w = u)
    BY DEF Mutual
  <2>1. CASE u = x
    BY <2>1
  <2>2. CASE u = y
    BY <2>2
  <2>3. CASE u \notin {x, y}
    <3>1. (Asked(u, v)' => Asked(u, v)) /\ (Serves(u, v)' => Serves(u, v))
      BY <2>3
    <3>2. Linked(u, v) => v \notin {x, y}
      BY <1>1
    <3>3. v \notin {x, y} => (Asked(v, w)' => Asked(v, w)) /\ (Serves(v, w)' => Serves(v, w))
      OBVIOUS
    <3> QED BY <3>1, <3>2, <3>3 DEF Bonds, Mutual, Linked
  <2> QED BY <2>1, <2>2, <2>3
<1>3. Matched'
  <2> SUFFICES ASSUME NEW u \in Legs, NEW v \in Legs
               PROVE  /\ Asked(u, v)' => Serves(v, u)' \/ Closing(u)'
                      /\ Serves(u, v)' => Asked(v, u)' \/ Closing(u)'
    BY DEF Matched
  <2>1. CASE u \in {x, y}
    BY <2>1
  <2>2. CASE u \notin {x, y}
    <3>1. Linked(u, v) => v \notin {x, y} /\ ~Orphan(u)
      BY <1>1
    <3> QED BY <2>2, <3>1 DEF Bonds, Matched, Linked
  <2> QED BY <2>1, <2>2
<1>4. Orphaned'
  BY DEF Orphaned
<1> QED BY <1>2, <1>3, <1>4 DEF Bonds

\* One slot changes.
LEMMA SlotChanged ==
    ASSUME Inv, circuits' = circuits, NEW i \in Occupied, NEW s, s = peers[i].peer,
           \A j \in Slots \ {i} : peers'[j] = peers[j],
           peers'[i] # Absent => peers'[i].peer = s
    PROVE  /\ s \in Legs
           /\ \A x \in Legs \ {s} : \A r : Has(x, r)' <=> Has(x, r)
           /\ \A r : Has(s, r)' <=> peers'[i] # Absent /\ peers'[i].role = r
           /\ \A r : Has(s, r) <=> peers[i].role = r
           /\ \A x : Closing(x)' <=> Closing(x)
<1>1. /\ i \in Slots /\ peers[i] # Absent /\ s \in Stations /\ s \notin Circuits
      /\ \A j \in Occupied : peers[j].peer = s => j = i
  BY LinksAssumption DEF Inv, TypeOK, Occupied, PeerStates, OnePeerPerSlot
<1>2. /\ \A j \in Slots \ {i} : j \in Occupied' <=> j \in Occupied
      /\ i \in Occupied' <=> peers'[i] # Absent
      /\ Occupied \subseteq Slots /\ Occupied' \subseteq Slots
  BY <1>1 DEF Occupied
<1>3. \A x \in Legs \ {s} : \A r : Has(x, r)' <=> Has(x, r)
  BY <1>1, <1>2 DEF Has
<1>4. \A r : Has(s, r)' <=> peers'[i] # Absent /\ peers'[i].role = r
  BY <1>1, <1>2 DEF Has
<1>5. \A r : Has(s, r) <=> peers[i].role = r
  BY <1>1 DEF Has
<1>6. \A x : Closing(x)' <=> Closing(x)
  BY DEF Closing, CircuitIs
<1> QED BY <1>1, <1>3, <1>4, <1>5, <1>6 DEF Legs

\* The tables stay as they are.
LEMMA NothingChanged ==
    ASSUME UNCHANGED <<peers, circuits>>
    PROVE  /\ \A x : \A r : Has(x, r)' <=> Has(x, r)
           /\ \A x : Closing(x)' <=> Closing(x)
BY DEF Has, Occupied, Closing, CircuitIs

-------------------------------------------------------------------------------
\* A bridge without a session is being dialled.
Awaiting ==
    \A i \in Occupied : sess[peers[i].peer] = Absent /\ peers[i].role.kind = "Bridge" =>
        Harmless /\ \E n \in 1..Len(queue) : FirstFor(i, n) /\ queue[n].ev.kind = "Connect"

\* A leg that is to connect onward is there, and so is its session.
Asking ==
    \A n \in 1..Len(pending), x \in Legs : pending[n].kind = "StartBridge" /\ pending[n].leg = x =>
        /\ \E r : Has(x, r)
        /\ \A i \in Occupied : peers[i].peer = x => sess[x] # Absent

Paired == (~muddled => Bonds) /\ Awaiting /\ Asking

LEMMA InitPaired == Init => Paired
<1> SUFFICES ASSUME Init PROVE Paired
  OBVIOUS
<1>1. Occupied = {} /\ \A k \in Circuits : circuits[k] = Absent
  BY DEF Init, Occupied
<1>2. \A x, y : ~Asked(x, y) /\ ~Serves(x, y) /\ ~Linked(x, y)
  BY <1>1 DEF Has, Asked, Serves, Linked
<1>3. Bonds
  BY <1>2 DEF Bonds, Mutual, Matched, Orphaned
<1>4. Awaiting
  BY <1>1 DEF Awaiting
<1>5. Len(pending) = 0
  BY DEF Init
<1>6. Asking
  BY <1>5 DEF Asking
<1> QED BY <1>3, <1>4, <1>6 DEF Paired

\* The first follow-up.  The end of a bridge is the only one.
LEMMA FirstWork ==
    ASSUME Inv, pending # <<>>, pending' = Tail(pending)
    PROVE  /\ Head(pending) = pending[1] /\ 1 \in 1..Len(pending)
           /\ \A n \in 1..Len(pending') : n + 1 \in 1..Len(pending) /\ pending'[n] = pending[n + 1]
           /\ pending[1].kind = "BridgeEnded" => queue = <<>> /\ pending' = <<>>
           /\ pending[1].kind # "BridgeEnded" =>
                 Harmless /\ \A n \in 1..Len(pending) : pending[n].kind # "BridgeEnded"
           /\ \A x : ~Orphan(x)'
<1>1. /\ pending \in Seq(Range(pending)) /\ pending' \in Seq(Range(pending'))
      /\ Len(pending) \in Nat \ {0} /\ Head(pending) = pending[1]
      /\ Len(pending') = Len(pending) - 1
      /\ \A n \in 1..Len(pending') : pending'[n] = pending[n + 1]
  BY TailFacts, TailIsSeq DEF Inv, TypeOK
<1>2. \A n \in 1..Len(pending') : n + 1 \in 1..Len(pending)
  BY <1>1
<1>3. \/ Harmless /\ \A n \in 1..Len(pending) : pending[n].kind # "BridgeEnded"
      \/ queue = <<>> /\ Len(pending) = 1
  BY DEF Inv, Calm
<1>4. queue = <<>> => Harmless
  BY DEF Harmless
<1>5. Len(pending) = 1 => pending' = <<>> /\ \A n \in 1..Len(pending) : n = 1
  BY <1>1
<1>6. 1 \in 1..Len(pending)
  BY <1>1
<1>7. pending' # <<>> => 1 \in 1..Len(pending')
  BY <1>1
<1>8. \A x : ~Orphan(x)'
  <2>1. pending' # <<>> => pending'[1].kind # "BridgeEnded"
    BY <1>1, <1>2, <1>3, <1>5, <1>7
  <2> QED BY <2>1 DEF Orphan
<1> QED BY <1>1, <1>2, <1>3, <1>4, <1>5, <1>6, <1>8

\* With an empty queue, no bridge is without a session.
LEMMA IdleAwaits ==
    ASSUME Awaiting, queue = <<>>
    PROVE  \A i \in Occupied : sess[peers[i].peer] = Absent => peers[i].role.kind # "Bridge"
<1>1. Len(queue) = 0
  OBVIOUS
<1> QED BY <1>1 DEF Awaiting

\* A step that makes no bridge while none is without a session.
LEMMA NoneAwaits ==
    ASSUME Awaiting, queue = <<>>, sess' = sess,
           \A i \in Occupied' : peers'[i].role.kind = "Bridge" =>
              i \in Occupied /\ peers'[i].peer = peers[i].peer /\ peers[i].role.kind = "Bridge"
    PROVE  Awaiting'
BY IdleAwaits DEF Awaiting

\* A step that puts something at the end of the queue.
LEMMA AwaitingKept ==
    ASSUME Inv, Awaiting, sess' = sess, Harmless => Harmless',
           queue' \in Seq(Posts), Len(queue) <= Len(queue'),
           \A n \in 1..Len(queue) : queue'[n] = queue[n],
           \A i \in Occupied' : sess[peers'[i].peer] = Absent /\ peers'[i].role.kind = "Bridge" =>
              \/ i \in Occupied /\ peers'[i].peer = peers[i].peer /\ peers[i].role.kind = "Bridge"
              \/ /\ Harmless'
                 /\ \E n \in 1..Len(queue') : FirstFor(i, n)' /\ queue'[n].ev.kind = "Connect"
    PROVE  Awaiting'
<1> SUFFICES ASSUME NEW i \in Occupied, sess[peers[i].peer] = Absent, peers[i].role.kind = "Bridge"
             PROVE  /\ Harmless'
                    /\ \E n \in 1..Len(queue') : FirstFor(i, n)' /\ queue'[n].ev.kind = "Connect"
  BY DEF Awaiting
<1>1. Len(queue) \in Nat /\ Len(queue') \in Nat
  BY DEF Inv, TypeOK
<1>2. Harmless'
  BY DEF Awaiting
<1>3. PICK n \in 1..Len(queue) : FirstFor(i, n) /\ queue[n].ev.kind = "Connect"
  BY DEF Awaiting
<1>4. n \in 1..Len(queue') /\ \A m \in 1..n : queue'[m] = queue[m]
  BY <1>1
<1>5. FirstFor(i, n)' /\ queue'[n].ev.kind = "Connect"
  BY <1>3, <1>4 DEF FirstFor
<1> QED BY <1>2, <1>4, <1>5

\* Those that are still to connect onward stay where they are.
LEMMA AskingKept ==
    ASSUME Inv, Asking, sess' = sess,
           \A n \in 1..Len(pending') : n + 1 \in 1..Len(pending) /\ pending'[n] = pending[n + 1],
           \A x \in Legs : (\E r : Has(x, r)) => \E r : Has(x, r)',
           \A i \in Occupied' : \/ i \in Occupied /\ peers'[i].peer = peers[i].peer
                                \/ peers'[i].peer \in Stations /\ SlotsOf(peers'[i].peer) = {}
    PROVE  Asking'
<1> SUFFICES ASSUME NEW n \in 1..Len(pending'), NEW x \in Legs,
                    pending'[n].kind = "StartBridge", pending'[n].leg = x
             PROVE  /\ \E r : Has(x, r)'
                    /\ \A i \in Occupied' : peers'[i].peer = x => sess[x] # Absent
  BY DEF Asking
<1>1. /\ \E r : Has(x, r)
      /\ \A i \in Occupied : peers[i].peer = x => sess[x] # Absent
  BY DEF Asking
<1>2. \E r : Has(x, r)'
  BY <1>1
<1>3. x \in Stations => SlotsOf(x) # {}
  <2>1. x \in Stations => x \notin Circuits
    BY LinksAssumption
  <2> QED BY <1>1, <2>1 DEF Has, SlotsOf, Occupied
<1>4. \A i \in Occupied' : peers'[i].peer = x => sess[x] # Absent
  BY <1>1, <1>3
<1> QED BY <1>2, <1>4

\* A session raises its end, and has the user's lines only while it is connected.
LEMMA SdlSignals ==
    ASSUME NEW st \in SessionStates, NEW ev, NEW o \in Sdl(st, ev)
    PROVE  /\ o.next = "Disconnected" => o.sig = "Closed"
           /\ o.sig = "Text" => o.next = "Connected"
BY DEF Sdl, To, Stay, Reset, SessionStates

LEMMA SdlSilent ==
    ASSUME NEW ev, NEW o \in Sdl("Disconnected", ev)
    PROVE  o.sig # "Text"
BY DEF Sdl, To, Stay

LEMMA PostOnePaired ==
    ASSUME Inv, Paired, PostOne
    PROVE  Paired'
<1>0. PICK i, ev, p : i = Head(queue).slot /\ ev = Head(queue).ev /\ p = peers[i]
  OBVIOUS
<1>1. /\ queue # <<>> /\ queue \in Seq(Posts) /\ queue' = Tail(queue) /\ queue' \in Seq(Posts)
      /\ Head(queue) = queue[1] /\ queue[1] \in Posts /\ Len(queue) \in Nat \ {0}
      /\ Len(queue') = Len(queue) - 1
      /\ \A n \in 1..Len(queue') : queue'[n] = queue[n + 1]
      /\ pending = <<>> /\ circuits' = circuits
  <2>1. queue # <<>> /\ queue \in Seq(Posts)
    BY DEF PostOne, Inv, TypeOK
  <2>2. /\ queue' = Tail(queue) /\ pending = <<>> /\ circuits' = circuits
    BY DEF PostOne, links
  <2> QED BY <2>1, <2>2, TailFacts
<1>2. i \in Slots /\ ev \in Events /\ Len(ev.lines) \in Nat
  BY <1>0, <1>1 DEF Posts, Events
<1>3. ~Harmless => queue' = <<>>
  <2>1. ~Harmless => Len(queue) <= 1
    BY <1>1 DEF Inv, Calm
  <2> QED BY <1>1, <2>1
<1>4. Len(<<>>) = 0
  OBVIOUS
<1>5. \A x : ~Orphan(x)
  BY <1>1 DEF Orphan
<1>6. CASE p = Absent
  <2>1. UNCHANGED <<peers, sess, pending, muddled>> /\ i \notin Occupied
    BY <1>0, <1>6 DEF PostOne, links, history, Occupied
  <2>2. ~Harmless
    BY <1>0, <1>1, <2>1 DEF Harmless
  <2>3. Awaiting'
    BY <2>1, <2>2 DEF Paired, Awaiting, Occupied
  <2>4. Asking'
    BY <1>1, <1>4, <2>1 DEF Asking
  <2>5. ~muddled' => Bonds'
    <3>1. /\ \A x : \A r : Has(x, r)' <=> Has(x, r)
          /\ \A x : Closing(x)' <=> Closing(x)
      BY <1>1, <2>1, NothingChanged
    <3>2. \A x : ~Orphan(x)'
      BY <1>1, <2>1 DEF Orphan
    <3>3. \A x, y \in Legs : (Asked(x, y)' <=> Asked(x, y)) /\ (Serves(x, y)' <=> Serves(x, y))
      BY <3>1 DEF Asked, Serves, Bridge
    <3> QED BY <1>5, <2>1, <3>1, <3>2, <3>3, Steady DEF Paired
  <2> QED BY <2>3, <2>4, <2>5 DEF Paired
<1>7. CASE p # Absent
  <2>1. /\ p \in PeerStates /\ p.peer \in Stations /\ p.role \in Roles /\ i \in Occupied
        /\ peers \in [Slots -> PeerStates \cup {Absent}]
        /\ sess \in [Stations -> SessionStates \cup {Absent}]
    BY <1>0, <1>2, <1>7 DEF Inv, TypeOK, PeerStates, Occupied
  <2>2. PICK o \in Sdl(State(p.peer), ev.kind), st \in SessionStates \cup {Absent},
             reaped \in BOOLEAN :
           /\ sess' = [sess EXCEPT ![p.peer] = st]
           /\ peers' = [peers EXCEPT ![i] = IF reaped THEN Absent
                           ELSE [p EXCEPT !.role = RoleAfter(p.peer, p.role, o.sig)]]
           /\ pending' = FollowUps(p.peer, p.role, o.sig, ev.lines)
           /\ reaped => st = Absent /\ o.next = "Disconnected"
           /\ Harmless => o.sig = "none" /\ ~reaped
           /\ st = Absent /\ ~reaped =>
                 sess[p.peer] = Absent /\ o.next = "Disconnected" /\ o.sig = "none"
           /\ muddled' = (muddled \/ (o.sig = "Indication" /\ p.role.kind = "Bridge"))
    BY <1>0, <1>7, Handled
  <2>3. PICK s \in Stations : s = p.peer
    BY <2>1
  <2>4. PICK was \in Roles : was = p.role
    BY <2>1
  <2>5. PICK now : now = RoleAfter(s, was, o.sig)
    OBVIOUS
  <2>6. PICK after : after = [p EXCEPT !.role = now]
    OBVIOUS
  <2>7. after.peer = s /\ after.role = now /\ now \in Roles /\ after # Absent
    <3>1. now \in Roles
      BY <2>5, RoleAfterType
    <3>2. after \in PeerStates /\ after.peer = s /\ after.role = now
      BY <2>1, <2>3, <2>6, <3>1 DEF PeerStates
    <3> QED BY <3>1, <3>2, AbsentAssumption
  <2>8. /\ peers'[i] = IF reaped THEN Absent ELSE after
        /\ \A j \in Slots \ {i} : peers'[j] = peers[j]
        /\ sess'[s] = st /\ \A z \in Stations \ {s} : sess'[z] = sess[z]
    BY <1>2, <2>1, <2>2, <2>3, <2>4, <2>5, <2>6
  <2>9. /\ s \in Legs
        /\ \A x \in Legs \ {s} : \A r : Has(x, r)' <=> Has(x, r)
        /\ \A r : Has(s, r)' <=> ~reaped /\ now = r
        /\ \A r : Has(s, r) <=> was = r
        /\ \A x : Closing(x)' <=> Closing(x)
    <3>1. /\ peers'[i] # Absent => peers'[i].peer = s
          /\ \A r : peers'[i] # Absent /\ peers'[i].role = r <=> ~reaped /\ now = r
      BY <2>7, <2>8
    <3>2. i \in Occupied /\ s = peers[i].peer /\ circuits' = circuits /\ was = peers[i].role
      BY <1>0, <1>1, <2>1, <2>3, <2>4
    <3>3. \A j \in Slots \ {i} : peers'[j] = peers[j]
      BY <2>8
    <3>4. PICK j \in Occupied : j = i
      BY <3>2
    <3>5. /\ s = peers[j].peer /\ was = peers[j].role
          /\ peers'[j] # Absent => peers'[j].peer = s
          /\ \A k \in Slots \ {j} : peers'[k] = peers[k]
      BY <3>1, <3>2, <3>3, <3>4
    <3>6. /\ s \in Legs
          /\ \A x \in Legs \ {s} : \A r : Has(x, r)' <=> Has(x, r)
          /\ \A r : Has(s, r)' <=> peers'[j] # Absent /\ peers'[j].role = r
          /\ \A r : Has(s, r) <=> peers[j].role = r
          /\ \A x : Closing(x)' <=> Closing(x)
      BY <3>2, <3>4, <3>5, SlotChanged
    <3> QED BY <3>1, <3>2, <3>4, <3>6
  <2>10. now.kind = "Bridge" => now = was
    BY <2>5 DEF RoleAfter, Plain
  <2>11. Awaiting'
    <3> SUFFICES ASSUME NEW j \in Occupied', sess'[peers'[j].peer] = Absent,
                        peers'[j].role.kind = "Bridge"
                 PROVE  /\ Harmless'
                        /\ \E n \in 1..Len(queue') : FirstFor(j, n)' /\ queue'[n].ev.kind = "Connect"
      BY DEF Awaiting
    <3>1. j \in Slots /\ peers'[j] # Absent
      BY DEF Occupied
    <3>2. j # i
      <4> SUFFICES ASSUME j = i PROVE FALSE
        OBVIOUS
      <4>1. ~reaped /\ peers'[i].peer = s /\ peers'[i].role = now
        BY <2>7, <2>8, <3>1
      <4>2. sess[s] = Absent /\ o.next = "Disconnected" /\ was.kind = "Bridge"
        BY <2>2, <2>3, <2>8, <2>10, <4>1
      <4>3. PICK n \in 1..Len(queue) : FirstFor(i, n) /\ queue[n].ev.kind = "Connect"
        BY <1>0, <2>1, <2>3, <2>4, <4>2 DEF Paired, Awaiting
      <4>4. n = 1
        BY <1>0, <1>1, <4>3 DEF FirstFor
      <4>5. ev.kind = "Connect"
        BY <1>0, <1>1, <4>3, <4>4
      <4>6. o \in Sdl("Disconnected", "Connect")
        BY <2>2, <2>3, <4>2, <4>5 DEF State
      <4> QED BY <4>2, <4>6, SdlHarmless
    <3>3. peers'[j] = peers[j] /\ j \in Occupied /\ peers[j].peer \in Stations
      BY <2>1, <2>8, <3>1, <3>2 DEF Occupied, PeerStates
    <3>4. peers[j].peer # s
      BY <1>0, <2>1, <2>3, <3>2, <3>3 DEF Inv, OnePeerPerSlot
    <3>5. sess[peers[j].peer] = Absent /\ peers[j].role.kind = "Bridge"
      BY <2>8, <3>3, <3>4
    <3>6. Harmless
      BY <3>3, <3>5 DEF Paired, Awaiting
    <3>7. PICK n \in 1..Len(queue) : FirstFor(j, n) /\ queue[n].ev.kind = "Connect"
      BY <3>3, <3>5 DEF Paired, Awaiting
    <3>8. n - 1 \in 1..Len(queue') /\ FirstFor(j, n - 1)' /\ queue'[n - 1] = queue[n]
      BY <1>0, <1>1, <3>2, <3>7, Shifted
    <3>9. Harmless'
      <4>1. \A l \in Occupied : l \in Occupied'
        BY <2>2, <2>7, <2>8, <3>6 DEF Occupied
      <4>2. \A m \in 1..Len(queue') : m + 1 \in 1..Len(queue) /\ queue'[m] = queue[m + 1]
        BY <1>1
      <4> QED BY <3>6, <4>1, <4>2 DEF Harmless
    <3> QED BY <3>7, <3>8, <3>9
  <2>12. was.kind = "Bridge" /\ ~Harmless => sess[s] \in SessionStates /\ State(s) = sess[s]
    BY <1>0, <2>1, <2>3, <2>4 DEF Paired, Awaiting, State
  <2>13. was.kind = "Bridge" /\ reaped => o.sig = "Closed"
    <3> SUFFICES ASSUME was.kind = "Bridge", reaped PROVE o.sig = "Closed"
      OBVIOUS
    <3>1. PICK t \in SessionStates : t = State(s)
      BY <2>2, <2>12
    <3>2. o \in Sdl(t, ev.kind)
      BY <2>2, <2>3, <3>1
    <3> QED BY <2>2, <3>2, SdlSignals
  <2>14. pending' = FollowUps(s, was, o.sig, ev.lines)
    BY <2>2, <2>3, <2>4
  <2>15. PICK lines : lines = ev.lines
    OBVIOUS
  <2>16. CASE o.sig = "Text" /\ was.kind = "Console"
    <3>1. pending' = Connects(s, lines)
      BY <2>14, <2>15, <2>16 DEF FollowUps
    <3>2. /\ Connects(s, lines) \in Seq(Range(Connects(s, lines)))
          /\ \A n \in 1..Len(Connects(s, lines)) : /\ Connects(s, lines)[n].kind = "StartBridge"
                                                   /\ Connects(s, lines)[n].leg = s
      BY <1>2, <2>15, ConnectsType
    <3>3. \A n \in 1..Len(pending') : pending'[n].kind = "StartBridge" /\ pending'[n].leg = s
      BY <3>1, <3>2
    <3>4. PICK t \in SessionStates : t = State(s)
      <4>1. State(s) # "Disconnected"
        BY <2>2, <2>3, <2>16, SdlSilent
      <4> QED BY <2>1, <2>3, <4>1 DEF State
    <3>5. o.next = "Connected"
      <4>1. o \in Sdl(t, ev.kind)
        BY <2>2, <2>3, <3>4
      <4> QED BY <2>16, <4>1, SdlSignals
    <3>6. ~reaped /\ st # Absent /\ now = was
      BY <2>2, <2>5, <2>16, <3>5 DEF RoleAfter
    <3>7. Asking'
      <4>1. Has(s, was)'
        BY <2>9, <3>6
      <4> QED BY <2>8, <3>3, <3>6, <4>1 DEF Asking
    <3>8. \A x : ~Orphan(x)'
      <4>1. pending' # <<>> => 1 \in 1..Len(pending')
        BY <3>1, <3>2
      <4> QED BY <3>3, <4>1 DEF Orphan
    <3>9. ~muddled' => Bonds'
      <4>1. \A x, y \in Legs : (Asked(x, y)' <=> Asked(x, y)) /\ (Serves(x, y)' <=> Serves(x, y))
        <5>1. \A r : Has(s, r)' <=> Has(s, r)
          BY <2>9, <3>6
        <5> QED BY <2>9, <5>1 DEF Asked, Serves, Bridge
      <4> QED BY <1>5, <2>2, <2>9, <3>8, <4>1, Steady DEF Paired
    <3> QED BY <2>11, <3>7, <3>9 DEF Paired
  <2>17. CASE o.sig = "Closed" /\ was.kind = "Bridge"
    <3>1. PICK y \in Legs : y = was.other /\ (was = Bridge(y, TRUE) \/ was = Bridge(y, FALSE))
      BY <2>17, BridgeRoles
    <3>2. PICK e : e = BridgeEnded(y)
      OBVIOUS
    <3>3. pending' = <<e>> /\ e.kind = "BridgeEnded" /\ e.leg = y
      BY <2>14, <2>17, <3>1, <3>2 DEF FollowUps, Ended, BridgeEnded
    <3>4. Len(pending') = 1 /\ pending' # <<>> /\ pending'[1] = e
      BY <3>3
    <3>5. Orphan(y)'
      BY <3>3, <3>4 DEF Orphan
    <3>6. Asking'
      BY <3>3, <3>4 DEF Asking
    <3>7. now.kind = "None"
      BY <2>5, <2>17 DEF RoleAfter, Plain
    <3>8. \A z \in Legs : ~Asked(s, z)' /\ ~Serves(s, z)'
      <4>1. \A z \in Legs : now # Bridge(z, TRUE) /\ now # Bridge(z, FALSE)
        BY <3>7, BridgeFacts
      <4> QED BY <2>9, <4>1 DEF Asked, Serves, Bridge
    <3>9. Linked(s, y)
      BY <2>9, <3>1 DEF Linked, Asked, Serves
    <3>10. \A x \in Legs \ {s}, z \in Legs : /\ Asked(x, z)' <=> Asked(x, z)
                                             /\ Serves(x, z)' <=> Serves(x, z)
                                             /\ Closing(x) => Closing(x)'
      BY <2>9 DEF Asked, Serves, Bridge
    <3>11. ~muddled' => Bonds'
      BY <1>5, <2>2, <2>9, <3>5, <3>8, <3>9, <3>10, CutOff DEF Paired
    <3> QED BY <2>11, <3>6, <3>11 DEF Paired
  <2>18. CASE ~(o.sig = "Closed" /\ was.kind = "Bridge") /\ ~(o.sig = "Text" /\ was.kind = "Console")
    <3>1. pending' = <<>> \/ (Len(pending') = 1 /\ pending'[1].kind = "Forward")
      <4>1. CASE o.sig = "Text" /\ was.kind = "Bridge"
        <5>1. PICK e : e = Forward(was.other) /\ e.kind = "Forward"
          <6>1. Forward(was.other).kind = "Forward"
            BY DEF Forward
          <6> QED BY <6>1
        <5>2. pending' = <<e>>
          BY <2>14, <4>1, <5>1 DEF FollowUps
        <5> QED BY <5>1, <5>2
      <4>2. CASE ~(o.sig = "Text" /\ was.kind = "Bridge")
        BY <2>14, <2>18, <4>2 DEF FollowUps, Ended
      <4> QED BY <4>1, <4>2
    <3>2. Asking'
      BY <1>4, <3>1 DEF Asking
    <3>3. \A x : ~Orphan(x)'
      BY <3>1 DEF Orphan
    <3>4. ~muddled' => Bonds'
      <4> SUFFICES ASSUME ~muddled' PROVE Bonds'
        OBVIOUS
      <4>1. \A y \in Legs : /\ Asked(s, y)' <=> Asked(s, y)
                            /\ Serves(s, y)' <=> Serves(s, y)
        <5>1. CASE was.kind = "Bridge"
          <6>1. now = was /\ ~reaped
            BY <2>2, <2>4, <2>5, <2>13, <2>18, <5>1 DEF RoleAfter
          <6> QED BY <2>9, <6>1 DEF Asked, Serves, Bridge
        <5>2. CASE was.kind # "Bridge"
          <6>1. now.kind # "Bridge"
            BY <2>10, <5>2
          <6>2. \A y \in Legs : /\ now # Bridge(y, TRUE) /\ now # Bridge(y, FALSE)
                                /\ was # Bridge(y, TRUE) /\ was # Bridge(y, FALSE)
            BY <5>2, <6>1, BridgeFacts
          <6> QED BY <2>9, <6>2 DEF Asked, Serves, Bridge
        <5> QED BY <5>1, <5>2
      <4>2. \A x \in Legs \ {s}, y \in Legs : (Asked(x, y)' <=> Asked(x, y)) /\ (Serves(x, y)' <=> Serves(x, y))
        BY <2>9 DEF Asked, Serves, Bridge
      <4>3. \A x, y \in Legs : (Asked(x, y)' <=> Asked(x, y)) /\ (Serves(x, y)' <=> Serves(x, y))
        BY <4>1, <4>2
      <4> QED BY <1>5, <2>2, <2>9, <3>3, <4>3, Steady DEF Paired
    <3> QED BY <2>11, <3>2, <3>4 DEF Paired
  <2> QED BY <2>16, <2>17, <2>18
<1> QED BY <1>6, <1>7

\* A leg is connected onward by a circuit, or by a dial.
LEMMA HasByCircuit ==
    ASSUME Inv, NEW x \in Legs, NEW role, NEW k \in Circuits, NEW there,
           circuits[k] = Absent, \E r : Has(x, r),
           \A i \in Slots :
              /\ peers'[i] = Absent <=> peers[i] = Absent
              /\ peers[i] # Absent =>
                    /\ peers'[i].peer = peers[i].peer
                    /\ peers'[i].role = IF peers[i].peer = x THEN role ELSE peers[i].role,
           circuits'[k] # Absent, circuits'[k].mode = there,
           \A l \in Circuits \ {k} :
              /\ circuits'[l] = Absent <=> circuits[l] = Absent
              /\ circuits[l] # Absent =>
                    circuits'[l].mode = IF l = x THEN role ELSE circuits[l].mode
    PROVE  /\ x # k /\ \A r : ~Has(k, r)
           /\ \A u \in Legs \ {x, k} : \A r : Has(u, r)' <=> Has(u, r)
           /\ \A r : Has(x, r)' <=> r = role
           /\ \A r : Has(k, r)' <=> r = there
<1>1. \A i \in Occupied : peers[i].peer \in Stations /\ peers[i].peer # k
  BY LinksAssumption DEF Inv, TypeOK, Occupied, PeerStates
<1>2. /\ Occupied' = Occupied /\ Occupied \subseteq Slots
      /\ \A i \in Occupied : /\ peers'[i].peer = peers[i].peer
                             /\ peers'[i].role = IF peers[i].peer = x THEN role ELSE peers[i].role
  BY DEF Occupied
<1>3. x # k /\ \A r : ~Has(k, r)
  BY <1>1 DEF Has
<1>4. \A u \in Legs \ {x, k} : \A r : Has(u, r)' <=> Has(u, r)
  BY <1>2 DEF Has
<1>5. \A r : Has(x, r)' <=> r = role
  BY <1>2, <1>3 DEF Has
<1>6. \A r : Has(k, r)' <=> r = there
  BY <1>1, <1>2 DEF Has
<1> QED BY <1>3, <1>4, <1>5, <1>6

LEMMA HasByDial ==
    ASSUME Inv, NEW x \in Legs, NEW role, NEW t \in Stations, NEW i \in Slots, NEW there,
           peers[i] = Absent, SlotsOf(t) = {}, \E r : Has(x, r),
           peers'[i] # Absent, peers'[i].peer = t, peers'[i].role = there,
           \A j \in Slots \ {i} :
              /\ peers'[j] = Absent <=> peers[j] = Absent
              /\ peers[j] # Absent =>
                    /\ peers'[j].peer = peers[j].peer
                    /\ peers'[j].role = IF peers[j].peer = x THEN role ELSE peers[j].role,
           \A l \in Circuits :
              /\ circuits'[l] = Absent <=> circuits[l] = Absent
              /\ circuits[l] # Absent =>
                    circuits'[l].mode = IF l = x THEN role ELSE circuits[l].mode
    PROVE  /\ x # t /\ \A r : ~Has(t, r)
           /\ \A u \in Legs \ {x, t} : \A r : Has(u, r)' <=> Has(u, r)
           /\ \A r : Has(x, r)' <=> r = role
           /\ \A r : Has(t, r)' <=> r = there
<1>1. t \notin Circuits /\ \A j \in Occupied : peers[j].peer # t
  BY LinksAssumption DEF SlotsOf, Occupied
<1>2. /\ Occupied' = Occupied \cup {i} /\ Occupied \subseteq Slots /\ i \notin Occupied
      /\ \A j \in Occupied : /\ peers'[j].peer = peers[j].peer
                             /\ peers'[j].role = IF peers[j].peer = x THEN role ELSE peers[j].role
  BY DEF Occupied
<1>3. x # t /\ \A r : ~Has(t, r)
  BY <1>1 DEF Has
<1>4. \A u \in Legs \ {x, t} : \A r : Has(u, r)' <=> Has(u, r)
  BY <1>2 DEF Has
<1>5. \A r : Has(x, r)' <=> r = role
  BY <1>2, <1>3 DEF Has
<1>6. \A r : Has(t, r)' <=> r = there
  BY <1>1, <1>2 DEF Has
<1> QED BY <1>3, <1>4, <1>5, <1>6

\* An onward connect joins two legs that were on their own.
LEMMA JoinedByRoles ==
    ASSUME Bonds, \A u : ~Orphan(u), \A u : ~Orphan(u)',
           NEW x \in Legs, NEW y \in Legs, x # y, \A r : ~Has(y, r),
           \A u \in Legs : ~Linked(u, x) /\ ~Linked(u, y) /\ ~Linked(x, u),
           \A u \in Legs \ {x, y} : Closing(u) => Closing(u)',
           \A r : Has(x, r)' <=> r = Bridge(y, TRUE),
           \A r : Has(y, r)' <=> r = Bridge(x, FALSE),
           \A u \in Legs \ {x, y} : \A r : Has(u, r)' <=> Has(u, r)
    PROVE  Bonds'
<1>1. \A v \in Legs : ~Linked(x, v) /\ ~Linked(y, v)
  BY DEF Linked, Asked, Serves
<1>2. \A v \in Legs : /\ Asked(x, v)' <=> v = y
                      /\ ~Serves(x, v)' /\ ~Asked(y, v)'
                      /\ Serves(y, v)' <=> v = x
  <2> SUFFICES ASSUME NEW v \in Legs
               PROVE  /\ Asked(x, v)' <=> v = y
                      /\ ~Serves(x, v)' /\ ~Asked(y, v)'
                      /\ Serves(y, v)' <=> v = x
    OBVIOUS
  <2>1. /\ Asked(x, v)' <=> Bridge(v, TRUE) = Bridge(y, TRUE)
        /\ Serves(x, v)' <=> Bridge(v, FALSE) = Bridge(y, TRUE)
        /\ Asked(y, v)' <=> Bridge(v, TRUE) = Bridge(x, FALSE)
        /\ Serves(y, v)' <=> Bridge(v, FALSE) = Bridge(x, FALSE)
    BY DEF Asked, Serves, Bridge
  <2> QED BY <2>1, BridgeFacts
<1>3. \A u \in Legs \ {x, y}, v \in Legs : /\ Asked(u, v)' <=> Asked(u, v)
                                           /\ Serves(u, v)' <=> Serves(u, v)
  BY DEF Asked, Serves, Bridge
<1> QED BY <1>1, <1>2, <1>3, Joined

\* Who is named is crossed, and so is who names.
LEMMA LinkedIsCrossed ==
    ASSUME NEW x \in Legs, NEW y \in Legs, Linked(x, y)
    PROVE  y \in Named /\ Crossed(x) /\ Crossed(y)
<1>1. PICK r : Has(x, r) /\ r.other = y /\ r.kind = "Bridge"
  BY DEF Linked, Asked, Serves, Bridge
<1>2. r.other \in Named
  BY <1>1 DEF Has, Named, Occupied
<1>3. r \in RoleOf(x)
  BY <1>1 DEF Has, RoleOf, SlotsOf, Occupied
<1> QED BY <1>1, <1>2, <1>3 DEF Crossed

\* The legs are paired before a step that leaves them unmuddled.
LEMMA Sorted ==
    ASSUME Inv, Paired, \A u : ~Orphan(u),
           muddled => \A leg \in Stations \cup Circuits : ~Crossed(leg)
    PROVE  Bonds
<1>1. CASE ~muddled
  BY <1>1 DEF Paired
<1>2. CASE muddled
  <2>1. \A x, y \in Legs : Linked(x, y) => x \in Stations \cup Circuits
    BY DEF Linked, Asked, Serves, Has, Inv, TypeOK, PeerStates, Occupied
  <2>2. \A x, y \in Legs : ~Asked(x, y) /\ ~Serves(x, y) /\ ~Linked(x, y)
    BY <1>2, <2>1, LinkedIsCrossed DEF Linked
  <2> QED BY <2>2 DEF Bonds, Mutual, Matched, Orphaned
<1> QED BY <1>1, <1>2

\* A leg is told, and nothing else.
LEMMA ToldPaired ==
    ASSUME Inv, Inv', Paired, pending # <<>>, pending' = Tail(pending),
           pending[1].kind # "BridgeEnded", UNCHANGED <<peers, sess, circuits, muddled>>,
           NEW leg, queue' = Tell(leg)
    PROVE  Paired'
<1>1. /\ \A n \in 1..Len(pending') : n + 1 \in 1..Len(pending) /\ pending'[n] = pending[n + 1]
      /\ \A x : ~Orphan(x)'
      /\ \A n \in 1..Len(pending) : pending[n].kind # "BridgeEnded"
  BY FirstWork
<1>2. \A x : ~Orphan(x)
  BY DEF Orphan
<1>3. /\ \A x : \A r : Has(x, r)' <=> Has(x, r)
      /\ \A x : Closing(x)' <=> Closing(x)
  BY NothingChanged
<1>4. Occupied' = Occupied
  BY DEF Occupied
<1>5. /\ queue' \in Seq(Posts) /\ Len(queue) <= Len(queue')
      /\ \A n \in 1..Len(queue) : queue'[n] = queue[n]
      /\ Harmless => Harmless'
  BY <1>4, TellFacts
<1>6. Awaiting'
  BY <1>4, <1>5, AwaitingKept DEF Paired
<1>7. Asking'
  BY <1>1, <1>3, <1>4, AskingKept DEF Paired
<1>8. ~muddled' => Bonds'
  <2>1. \A x, y \in Legs : (Asked(x, y)' <=> Asked(x, y)) /\ (Serves(x, y)' <=> Serves(x, y))
    BY <1>3 DEF Asked, Serves, Bridge
  <2> QED BY <1>1, <1>2, <1>3, <2>1, Steady DEF Paired
<1> QED BY <1>6, <1>7, <1>8 DEF Paired

LEMMA ForwardPaired ==
    ASSUME Inv, Inv', Paired, ApplyFollowUp, pending[1].kind = "Forward"
    PROVE  Paired'
<1>1. pending # <<>> /\ pending' = Tail(pending)
  BY DEF ApplyFollowUp
<1>2. Head(pending) = pending[1]
  BY <1>1, FirstWork
<1>3. PICK leg : leg = pending[1].leg
  OBVIOUS
<1>4. UNCHANGED <<peers, sess, circuits, muddled>> /\ queue' = Tell(leg)
  BY <1>2, <1>3 DEF ApplyFollowUp, links, history
<1> QED BY <1>1, <1>4, ToldPaired

LEMMA StartBridgePaired ==
    ASSUME Inv, Inv', Paired, ApplyFollowUp, pending[1].kind = "StartBridge"
    PROVE  Paired'
<1>1. pending # <<>> /\ pending' = Tail(pending)
  BY DEF ApplyFollowUp
<1>2. /\ Head(pending) = pending[1] /\ 1 \in 1..Len(pending) /\ Harmless
      /\ \A n \in 1..Len(pending') : n + 1 \in 1..Len(pending) /\ pending'[n] = pending[n + 1]
      /\ \A u : ~Orphan(u)'
  BY <1>1, FirstWork
<1>3. PICK f : f = pending[1]
  OBVIOUS
<1>4. PICK x \in Legs : x = f.leg
  <2>1. pending[1].leg \in Legs
    BY <1>2 DEF Inv, TypeOK
  <2> QED BY <1>3, <2>1
<1>5. DoStartBridge(f)
  BY <1>2, <1>3 DEF ApplyFollowUp
<1>6. \A u : ~Orphan(u)
  BY DEF Orphan
<1>7. (\E r : Has(x, r)) /\ \A i \in Occupied : peers[i].peer = x => sess[x] # Absent
  BY <1>2, <1>3, <1>4 DEF Paired, Asking
<1>8. Harmless' /\ queue' \in Seq(Posts) /\ sess' = sess
  BY <1>2, <1>4, <1>5, StartBridgeStep
<1>9. TypeOK /\ Len(queue) \in Nat /\ queue \in Seq(Posts)
  BY DEF Inv, TypeOK
<1>10. CASE \E k \in FreeCircuits :
                /\ f.target \in Routed /\ queue' = queue
                /\ peers' = WithRole(peers, x, Bridge(k, TRUE))
                /\ circuits' = OpenCircuit(k, f.target, Bridge(x, FALSE),
                                           WithMode(circuits, x, Bridge(k, TRUE)))
                /\ Bridging(Crossed(x))
  <2>1. PICK k \in FreeCircuits :
                /\ f.target \in Routed /\ queue' = queue
                /\ peers' = WithRole(peers, x, Bridge(k, TRUE))
                /\ circuits' = OpenCircuit(k, f.target, Bridge(x, FALSE),
                                           WithMode(circuits, x, Bridge(k, TRUE)))
                /\ Bridging(Crossed(x))
    BY <1>10
  <2>2. k \in Circuits /\ circuits[k] = Absent /\ k \in Legs /\ k \notin Named
    BY DEF FreeCircuits, Legs
  <2>3. PICK role \in Roles, mode \in Roles : role = Bridge(k, TRUE) /\ mode = Bridge(x, FALSE)
    BY <2>2, BridgeFacts
  <2>4. PICK cs : cs = WithMode(circuits, x, role)
    OBVIOUS
  <2>5. /\ cs \in [Circuits -> CircuitStates \cup {Absent}]
        /\ \A l \in Circuits :
              /\ cs[l] = Absent <=> circuits[l] = Absent
              /\ circuits[l] # Absent =>
                    /\ cs[l].phase = circuits[l].phase
                    /\ cs[l].mode = IF l = x THEN role ELSE circuits[l].mode
    BY <1>9, <2>4, ModeGiven
  <2>6. PICK t \in Routed : t = f.target
    BY <2>1
  <2>7. /\ circuits'[k] # Absent /\ circuits'[k].mode = mode
        /\ \A l \in Circuits \ {k} : circuits'[l] = cs[l]
    <3>1. circuits' = OpenCircuit(k, t, mode, cs)
      BY <2>1, <2>3, <2>4, <2>6
    <3> QED BY <2>2, <2>5, <3>1, CircuitOpened
  <2>8. \A i \in Slots :
              /\ peers'[i] = Absent <=> peers[i] = Absent
              /\ peers[i] # Absent =>
                    /\ peers'[i].peer = peers[i].peer
                    /\ peers'[i].role = IF peers[i].peer = x THEN role ELSE peers[i].role
    <3>1. peers' = WithRole(peers, x, role)
      BY <2>1, <2>3
    <3> QED BY <1>9, <3>1, RoleGiven
  <2>9. \A l \in Circuits \ {k} :
              /\ circuits'[l] = Absent <=> circuits[l] = Absent
              /\ circuits[l] # Absent =>
                    /\ circuits'[l].phase = circuits[l].phase
                    /\ circuits'[l].mode = IF l = x THEN role ELSE circuits[l].mode
    BY <2>5, <2>7
  <2>10. /\ x # k /\ \A r : ~Has(k, r)
         /\ \A u \in Legs \ {x, k} : \A r : Has(u, r)' <=> Has(u, r)
         /\ \A r : Has(x, r)' <=> r = role
         /\ \A r : Has(k, r)' <=> r = mode
    BY <1>7, <2>2, <2>7, <2>8, <2>9, HasByCircuit
  <2>11. /\ Occupied' = Occupied /\ Occupied \subseteq Slots
         /\ \A i \in Occupied : /\ peers'[i].peer = peers[i].peer
                                /\ peers[i].peer # x => peers'[i].role = peers[i].role
    BY <2>8 DEF Occupied
  <2>12. Awaiting'
    <3>1. \A i \in Occupied' : sess[peers'[i].peer] = Absent /\ peers'[i].role.kind = "Bridge" =>
              i \in Occupied /\ peers'[i].peer = peers[i].peer /\ peers[i].role.kind = "Bridge"
      BY <1>7, <2>11
    <3>2. queue' = queue
      BY <2>1
    <3>3. Len(queue) <= Len(queue') /\ \A n \in 1..Len(queue) : queue'[n] = queue[n]
      BY <1>9, <3>2
    <3> QED BY <1>8, <3>1, <3>3, AwaitingKept DEF Paired
  <2>13. Asking'
    <3>1. \A u \in Legs : (\E r : Has(u, r)) => \E r : Has(u, r)'
      BY <2>10
    <3> QED BY <1>2, <1>8, <2>11, <3>1, AskingKept DEF Paired
  <2>14. ~muddled' => Bonds'
    <3> SUFFICES ASSUME ~muddled' PROVE Bonds'
      OBVIOUS
    <3>1. ~Crossed(x) /\ (muddled => \A leg \in Stations \cup Circuits : ~Crossed(leg))
      BY <2>1 DEF Bridging
    <3>2. Bonds
      BY <1>6, <3>1, Sorted
    <3>3. \A u \in Legs : ~Linked(u, x) /\ ~Linked(u, k) /\ ~Linked(x, u)
      BY <2>2, <3>1, LinkedIsCrossed
    <3>4. \A u \in Legs \ {x, k} : Closing(u) => Closing(u)'
      BY <2>9 DEF Closing, CircuitIs
    <3> QED BY <1>2, <1>6, <2>2, <2>3, <2>10, <3>2, <3>3, <3>4, JoinedByRoles
  <2> QED BY <2>12, <2>13, <2>14 DEF Paired
<1>11. CASE \E i \in FreeSlots :
                /\ f.target \in Stations /\ SlotsOf(f.target) = {}
                /\ peers' = [WithRole(peers, x, Bridge(f.target, TRUE))
                                EXCEPT ![i] = PeerState(f.target, Bridge(x, FALSE))]
                /\ queue' = Append(queue, Post(i, Ev("Connect")))
                /\ circuits' = WithMode(circuits, x, Bridge(f.target, TRUE))
                /\ Bridging(Crossed(x) \/ Crossed(f.target))
  <2>1. PICK i \in FreeSlots :
                /\ f.target \in Stations /\ SlotsOf(f.target) = {}
                /\ peers' = [WithRole(peers, x, Bridge(f.target, TRUE))
                                EXCEPT ![i] = PeerState(f.target, Bridge(x, FALSE))]
                /\ queue' = Append(queue, Post(i, Ev("Connect")))
                /\ circuits' = WithMode(circuits, x, Bridge(f.target, TRUE))
                /\ Bridging(Crossed(x) \/ Crossed(f.target))
    BY <1>11
  <2>2. i \in Slots /\ peers[i] = Absent /\ i \notin Occupied
    BY DEF FreeSlots, Occupied
  <2>3. PICK t \in Stations : t = f.target /\ t \in Legs
    BY <2>1 DEF Legs
  <2>4. PICK role \in Roles, mode \in Roles : role = Bridge(t, TRUE) /\ mode = Bridge(x, FALSE)
    BY <2>3, BridgeFacts
  <2>5. PICK ps : ps = WithRole(peers, x, role)
    OBVIOUS
  <2>6. \A j \in Slots :
              /\ ps[j] = Absent <=> peers[j] = Absent
              /\ peers[j] # Absent =>
                    /\ ps[j].peer = peers[j].peer
                    /\ ps[j].role = IF peers[j].peer = x THEN role ELSE peers[j].role
    BY <1>9, <2>5, RoleGiven
  <2>7. PICK there : there = PeerState(t, mode) /\ there # Absent /\ there.peer = t /\ there.role = mode
    <3>1. PeerState(t, mode) \in PeerStates /\ PeerState(t, mode).peer = t /\ PeerState(t, mode).role = mode
      BY DEF PeerState, PeerStates
    <3> QED BY <3>1, AbsentAssumption
  <2>8. peers' = [ps EXCEPT ![i] = there] /\ DOMAIN ps = Slots
    BY <2>1, <2>3, <2>4, <2>5, <2>7 DEF WithRole
  <2>9. peers'[i] = there /\ \A j \in Slots \ {i} : peers'[j] = ps[j]
    BY <2>2, <2>8
  <2>10. \A l \in Circuits :
              /\ circuits'[l] = Absent <=> circuits[l] = Absent
              /\ circuits[l] # Absent =>
                    /\ circuits'[l].phase = circuits[l].phase
                    /\ circuits'[l].mode = IF l = x THEN role ELSE circuits[l].mode
    <3>1. circuits' = WithMode(circuits, x, role)
      BY <2>1, <2>3, <2>4
    <3> QED BY <1>9, <3>1, ModeGiven
  <2>11. \A j \in Slots \ {i} :
              /\ peers'[j] = Absent <=> peers[j] = Absent
              /\ peers[j] # Absent =>
                    /\ peers'[j].peer = peers[j].peer
                    /\ peers'[j].role = IF peers[j].peer = x THEN role ELSE peers[j].role
    BY <2>6, <2>9
  <2>12. SlotsOf(t) = {}
    BY <2>1, <2>3
  <2>13. /\ x # t /\ \A r : ~Has(t, r)
         /\ \A u \in Legs \ {x, t} : \A r : Has(u, r)' <=> Has(u, r)
         /\ \A r : Has(x, r)' <=> r = role
         /\ \A r : Has(t, r)' <=> r = mode
    BY <1>7, <2>2, <2>7, <2>9, <2>10, <2>11, <2>12, HasByDial
  <2>14. \A j \in Occupied' : j = i \/ (/\ j \in Occupied /\ peers'[j].peer = peers[j].peer
                                        /\ peers[j].peer # x => peers'[j].role = peers[j].role)
    BY <2>11 DEF Occupied
  <2>15. Awaiting'
    <3>1. PICK e \in Posts : e = Post(i, Ev("Connect")) /\ e.slot = i /\ e.ev.kind = "Connect"
      <4>1. PICK ev \in Events : ev = Ev("Connect") /\ ev.kind = "Connect"
        BY EvType
      <4>2. Post(i, ev) \in Posts /\ Post(i, ev).slot = i /\ Post(i, ev).ev = ev
        BY <2>2 DEF Post, Posts
      <4> QED BY <4>1, <4>2
    <3>2. /\ Len(queue') = Len(queue) + 1 /\ queue'[Len(queue) + 1] = e
          /\ \A n \in 1..Len(queue) : queue'[n] = queue[n]
      BY <1>9, <2>1, <3>1
    <3>3. PICK n \in 1..Len(queue') : n = Len(queue) + 1
      BY <1>9, <3>2
    <3>4. \A m \in 1..(n - 1) : queue'[m].slot # i
      BY <1>2, <1>9, <2>2, <3>2, <3>3 DEF Harmless
    <3>5. FirstFor(i, n)' /\ queue'[n].ev.kind = "Connect"
      BY <3>1, <3>2, <3>3, <3>4 DEF FirstFor
    <3>6. \A j \in Occupied' : sess[peers'[j].peer] = Absent /\ peers'[j].role.kind = "Bridge" =>
              \/ j \in Occupied /\ peers'[j].peer = peers[j].peer /\ peers[j].role.kind = "Bridge"
              \/ \E m \in 1..Len(queue') : FirstFor(j, m)' /\ queue'[m].ev.kind = "Connect"
      BY <1>7, <2>14, <3>5
    <3>7. Len(queue) <= Len(queue')
      BY <1>9, <3>2
    <3> QED BY <1>8, <3>2, <3>6, <3>7, AwaitingKept DEF Paired
  <2>16. Asking'
    <3>1. \A u \in Legs : (\E r : Has(u, r)) => \E r : Has(u, r)'
      BY <2>13
    <3>2. \A j \in Occupied' : \/ j \in Occupied /\ peers'[j].peer = peers[j].peer
                               \/ peers'[j].peer \in Stations /\ SlotsOf(peers'[j].peer) = {}
      BY <2>7, <2>9, <2>12, <2>14
    <3> QED BY <1>2, <1>8, <3>1, <3>2, AskingKept DEF Paired
  <2>17. ~muddled' => Bonds'
    <3> SUFFICES ASSUME ~muddled' PROVE Bonds'
      OBVIOUS
    <3>1. ~Crossed(x) /\ ~Crossed(t) /\ (muddled => \A leg \in Stations \cup Circuits : ~Crossed(leg))
      BY <2>1, <2>3 DEF Bridging
    <3>2. Bonds
      BY <1>6, <3>1, Sorted
    <3>3. \A u \in Legs : ~Linked(u, x) /\ ~Linked(u, t) /\ ~Linked(x, u)
      BY <2>3, <3>1, LinkedIsCrossed
    <3>4. \A u \in Legs \ {x, t} : Closing(u) => Closing(u)'
      BY <2>10 DEF Closing, CircuitIs
    <3> QED BY <1>2, <1>6, <2>3, <2>4, <2>13, <3>2, <3>3, <3>4, JoinedByRoles
  <2> QED BY <2>15, <2>16, <2>17 DEF Paired
<1>12. CASE queue' = Tell(x) /\ peers' = peers /\ circuits' = circuits /\ UNCHANGED history
  <2>1. UNCHANGED <<peers, sess, circuits, muddled>>
    BY <1>8, <1>12 DEF history
  <2> QED BY <1>1, <1>12, <2>1, ToldPaired
<1>13. f.leg \in Legs
  BY <1>4
<1> QED
  <2>1. \/ \E k \in FreeCircuits :
                /\ f.target \in Routed /\ queue' = queue
                /\ peers' = WithRole(peers, f.leg, Bridge(k, TRUE))
                /\ circuits' = OpenCircuit(k, f.target, Bridge(f.leg, FALSE),
                                           WithMode(circuits, f.leg, Bridge(k, TRUE)))
                /\ Bridging(Crossed(f.leg))
        \/ \E i \in FreeSlots :
                /\ f.target \in Stations /\ SlotsOf(f.target) = {}
                /\ peers' = [WithRole(peers, f.leg, Bridge(f.target, TRUE))
                                EXCEPT ![i] = PeerState(f.target, Bridge(f.leg, FALSE))]
                /\ queue' = Append(queue, Post(i, Ev("Connect")))
                /\ circuits' = WithMode(circuits, f.leg, Bridge(f.target, TRUE))
                /\ Bridging(Crossed(f.leg) \/ Crossed(f.target))
        \/ /\ queue' = Tell(f.leg) /\ peers' = peers /\ circuits' = circuits
           /\ UNCHANGED history
    BY <1>5, <1>13, Connected
  <2> QED BY <1>4, <1>10, <1>11, <1>12, <2>1

LEMMA BridgeEndedPaired ==
    ASSUME Inv, Paired, ApplyFollowUp, pending[1].kind = "BridgeEnded"
    PROVE  Paired'
<1>1. pending # <<>> /\ pending' = Tail(pending)
  BY DEF ApplyFollowUp
<1>2. /\ Head(pending) = pending[1] /\ 1 \in 1..Len(pending)
      /\ queue = <<>> /\ pending' = <<>> /\ \A u : ~Orphan(u)'
  BY <1>1, FirstWork
<1>3. PICK x \in Legs : x = pending[1].leg
  BY <1>2 DEF Inv, TypeOK
<1>4. DoBridgeEnded(x)
  BY <1>2, <1>3 DEF ApplyFollowUp
<1>5. TypeOK /\ Orphan(x) /\ sess' = sess /\ muddled' = muddled
  BY <1>1, <1>3, <1>4 DEF Inv, Orphan, DoBridgeEnded, history
<1>6. PICK role \in Roles : role.kind # "Bridge" /\ peers' = WithRole(peers, x, role)
  <2>1. \/ peers' = WithRole(peers, x, Plain("Console"))
        \/ peers' = WithRole(peers, x, Plain("None"))
    BY <1>4 DEF DoBridgeEnded
  <2>2. /\ Plain("Console") \in Roles /\ Plain("None") \in Roles
        /\ Plain("Console").kind # "Bridge" /\ Plain("None").kind # "Bridge"
    BY DEF Plain, Roles
  <2> QED BY <2>1, <2>2
<1>7. \A i \in Slots :
            /\ peers'[i] = Absent <=> peers[i] = Absent
            /\ peers[i] # Absent =>
                  /\ peers'[i].peer = peers[i].peer
                  /\ peers'[i].role = IF peers[i].peer = x THEN role ELSE peers[i].role
  BY <1>5, <1>6, RoleGiven
<1>8. /\ \A k \in Circuits \ {x} : circuits'[k] = circuits[k]
      /\ x \in Circuits =>
            \/ circuits[x] = Absent /\ circuits'[x] = Absent
            \/ circuits[x] # Absent /\ circuits'[x] = [circuits[x] EXCEPT !.mode = Plain("Console")]
            \/ circuits[x] # Absent /\ circuits'[x] = [circuits[x] EXCEPT !.phase = "Closing"]
  BY <1>4 DEF DoBridgeEnded
<1>9. x \in Circuits /\ circuits[x] # Absent =>
         /\ [circuits[x] EXCEPT !.mode = Plain("Console")].mode.kind = "Console"
         /\ [circuits[x] EXCEPT !.phase = "Closing"].mode = circuits[x].mode
         /\ [circuits[x] EXCEPT !.phase = "Closing"].phase = "Closing"
         /\ [circuits[x] EXCEPT !.phase = "Closing"] # Absent
  <2>1. x \in Circuits /\ circuits[x] # Absent =>
           /\ circuits[x] \in CircuitStates /\ [circuits[x] EXCEPT !.phase = "Closing"] \in CircuitStates
    BY <1>5 DEF TypeOK, CircuitStates
  <2>2. PICK console : console = Plain("Console") /\ console.kind = "Console"
    <3>1. Plain("Console").kind = "Console"
      BY DEF Plain
    <3> QED BY <3>1
  <2> QED BY <2>1, <2>2, AbsentAssumption DEF CircuitStates
<1>10. /\ Occupied' = Occupied /\ Occupied \subseteq Slots
       /\ \A i \in Occupied : /\ peers'[i].peer = peers[i].peer
                              /\ peers'[i].role = IF peers[i].peer = x THEN role ELSE peers[i].role
                              /\ peers[i].peer \in Stations
  BY <1>5, <1>7 DEF Occupied, TypeOK, PeerStates
<1>11. \A u \in Legs \ {x} : /\ \A r : Has(u, r)' <=> Has(u, r)
                             /\ Closing(u)' <=> Closing(u)
  BY <1>8, <1>10 DEF Has, Closing, CircuitIs
<1>12. \A u \in Legs \ {x}, v \in Legs : /\ Asked(u, v)' <=> Asked(u, v)
                                         /\ Serves(u, v)' <=> Serves(u, v)
                                         /\ Closing(u) => Closing(u)'
  BY <1>11 DEF Asked, Serves, Bridge
<1>13. \/ \A r : Has(x, r)' => r.kind # "Bridge"
       \/ Closing(x)' /\ \A r : Has(x, r)' => Has(x, r)
  <2>1. CASE x \notin Circuits
    <3>1. \A r : Has(x, r)' => r = role
      BY <1>10, <2>1 DEF Has
    <3> QED BY <1>6, <3>1
  <2>2. CASE x \in Circuits
    <3>1. \A i \in Occupied : peers[i].peer # x
      BY <1>10, <2>2, LinksAssumption
    <3>2. \A r : Has(x, r)' <=> circuits'[x] # Absent /\ circuits'[x].mode = r
      BY <1>10, <2>2, <3>1 DEF Has
    <3>3. CASE circuits'[x] = Absent
      BY <3>2, <3>3
    <3>4. CASE circuits[x] # Absent /\ circuits'[x] = [circuits[x] EXCEPT !.mode = Plain("Console")]
      <4>1. circuits'[x].mode.kind = "Console"
        BY <1>9, <2>2, <3>4
      <4> QED BY <3>2, <4>1
    <3>5. CASE circuits[x] # Absent /\ circuits'[x] = [circuits[x] EXCEPT !.phase = "Closing"]
      <4>1. circuits'[x].mode = circuits[x].mode /\ circuits'[x].phase = "Closing" /\ circuits'[x] # Absent
        BY <1>9, <2>2, <3>5
      <4>2. Closing(x)'
        BY <2>2, <4>1 DEF Closing, CircuitIs
      <4>3. \A r : Has(x, r)' => Has(x, r)
        BY <2>2, <3>2, <3>5, <4>1 DEF Has
      <4> QED BY <4>2, <4>3
    <3> QED BY <1>8, <2>2, <3>3, <3>4, <3>5
  <2> QED BY <2>1, <2>2
<1>14. \/ \A y \in Legs : ~Asked(x, y)' /\ ~Serves(x, y)'
       \/ /\ Closing(x)'
          /\ \A y \in Legs : (Asked(x, y)' => Asked(x, y)) /\ (Serves(x, y)' => Serves(x, y))
  <2>1. CASE \A r : Has(x, r)' => r.kind # "Bridge"
    <3>1. \A y \in Legs : ~Asked(x, y)' /\ ~Serves(x, y)'
      BY <2>1, BridgeFacts DEF Asked, Serves, Bridge
    <3> QED BY <3>1
  <2>2. CASE Closing(x)' /\ \A r : Has(x, r)' => Has(x, r)
    BY <2>2 DEF Asked, Serves, Bridge
  <2> QED BY <1>13, <2>1, <2>2
<1>15. ~muddled' => Bonds'
  BY <1>2, <1>5, <1>12, <1>14, LetGo DEF Paired
<1>16. Awaiting'
  BY <1>2, <1>5, <1>6, <1>10, NoneAwaits DEF Paired
<1>17. Asking'
  <2>1. Len(pending') = 0
    BY <1>2
  <2> QED BY <2>1 DEF Asking
<1> QED BY <1>15, <1>16, <1>17 DEF Paired

LEMMA ApplyFollowUpPaired ==
    ASSUME Inv, Inv', Paired, ApplyFollowUp
    PROVE  Paired'
<1>1. pending # <<>> /\ pending' = Tail(pending)
  BY DEF ApplyFollowUp
<1>2. 1 \in 1..Len(pending)
  BY <1>1, FirstWork
<1>3. pending[1].kind \in WorkKinds
  BY <1>2 DEF Inv, TypeOK
<1> QED BY <1>3, ForwardPaired, StartBridgePaired, BridgeEndedPaired DEF WorkKinds

\* A step that makes, changes and ends no bridge.
LEMMA SameBonds ==
    ASSUME \A i \in Slots : LET is(p) == p # Absent /\ p.role.kind = "Bridge"
                            IN  /\ is(peers'[i]) <=> is(peers[i])
                                /\ is(peers[i]) => /\ peers'[i].peer = peers[i].peer
                                                   /\ peers'[i].role = peers[i].role,
           \A k \in Circuits : LET is(c) == c # Absent /\ c.mode.kind = "Bridge"
                               IN  /\ is(circuits'[k]) <=> is(circuits[k])
                                   /\ is(circuits[k]) => circuits'[k].mode = circuits[k].mode
    PROVE  \A x, y \in Legs : (Asked(x, y)' <=> Asked(x, y)) /\ (Serves(x, y)' <=> Serves(x, y))
<1> SUFFICES ASSUME NEW x \in Legs, NEW r, r.kind = "Bridge"
             PROVE  Has(x, r)' <=> Has(x, r)
  BY BridgeFacts DEF Asked, Serves, Bridge
<1>1. (\E i \in Occupied' : peers'[i].peer = x /\ peers'[i].role = r)
      <=> (\E i \in Occupied : peers[i].peer = x /\ peers[i].role = r)
  BY DEF Occupied
<1>2. (x \in Circuits /\ circuits'[x] # Absent /\ circuits'[x].mode = r)
      <=> (x \in Circuits /\ circuits[x] # Absent /\ circuits[x].mode = r)
  OBVIOUS
<1> QED BY <1>1, <1>2 DEF Has

\* The node was waiting, and is woken by something that touches no bridge.
LEMMA WokenStep ==
    ASSUME Inv, Paired, Idle, sess' = sess, pending' = <<>>, muddled' = muddled,
           \A x, y \in Legs : /\ Asked(x, y)' <=> Asked(x, y)
                              /\ Serves(x, y)' <=> Serves(x, y)
                              /\ Linked(x, y) /\ Closing(x) => Closing(x)',
           \A i \in Occupied' : peers'[i].role.kind = "Bridge" =>
              i \in Occupied /\ peers'[i].peer = peers[i].peer /\ peers[i].role.kind = "Bridge"
    PROVE  Paired'
<1>1. \A x : ~Orphan(x) /\ ~Orphan(x)'
  BY DEF Idle, Orphan
<1>2. ~muddled' => Bonds'
  BY <1>1, Steady DEF Paired
<1>3. Awaiting'
  BY NoneAwaits DEF Paired, Idle
<1>4. Asking'
  <2>1. Len(pending') = 0
    OBVIOUS
  <2> QED BY <2>1 DEF Asking
<1> QED BY <1>2, <1>3, <1>4 DEF Paired

LEMMA ReceivePaired ==
    ASSUME Inv, Paired, NEW s \in Stations, NEW f, Receive(s, f)
    PROVE  Paired'
<1>1. Idle /\ sess' = sess /\ circuits' = circuits /\ pending' = <<>> /\ muddled' = muddled
  BY DEF Receive, Idle, history
<1>2. \A x : Closing(x)' <=> Closing(x)
  BY <1>1 DEF Closing, CircuitIs
<1>3. CASE peers' = peers
  <2>1. \A x, y \in Legs : (Asked(x, y)' <=> Asked(x, y)) /\ (Serves(x, y)' <=> Serves(x, y))
    BY <1>1, <1>3, SameBonds
  <2>2. \A i \in Occupied' : i \in Occupied /\ peers'[i] = peers[i]
    BY <1>3 DEF Occupied
  <2> QED BY <1>1, <1>2, <2>1, <2>2, WokenStep
<1>4. CASE \E i \in FreeSlots : peers' = [peers EXCEPT ![i] = PeerState(s, Plain("None"))]
  <2>1. PICK i \in FreeSlots : peers' = [peers EXCEPT ![i] = PeerState(s, Plain("None"))]
    BY <1>4
  <2>2. PICK there : there = PeerState(s, Plain("None")) /\ there.role.kind = "None"
    <3>1. PeerState(s, Plain("None")).role.kind = "None"
      BY DEF PeerState, Plain
    <3> QED BY <3>1
  <2>3. /\ i \in Slots /\ peers[i] = Absent
        /\ peers'[i] = there /\ \A j \in Slots \ {i} : peers'[j] = peers[j]
    BY <2>1, <2>2 DEF FreeSlots, Inv, TypeOK
  <2>4. \A x, y \in Legs : (Asked(x, y)' <=> Asked(x, y)) /\ (Serves(x, y)' <=> Serves(x, y))
    BY <1>1, <2>2, <2>3, SameBonds
  <2>5. \A j \in Occupied' : peers'[j].role.kind = "Bridge" => j \in Occupied /\ peers'[j] = peers[j]
    BY <2>2, <2>3 DEF Occupied
  <2> QED BY <1>1, <1>2, <2>4, <2>5, WokenStep
<1> QED BY <1>3, <1>4 DEF Receive

LEMMA GiveUpPaired ==
    ASSUME Inv, Paired, NEW s \in Stations, GiveUp(s)
    PROVE  Paired'
<1>1. /\ Idle /\ sess' = sess /\ circuits' = circuits /\ pending' = <<>> /\ peers' = peers
      /\ muddled' = muddled
  BY DEF GiveUp, Idle, links, history
<1>2. \A x : Closing(x)' <=> Closing(x)
  BY <1>1 DEF Closing, CircuitIs
<1>3. \A x, y \in Legs : (Asked(x, y)' <=> Asked(x, y)) /\ (Serves(x, y)' <=> Serves(x, y))
  BY <1>1, SameBonds
<1>4. \A i \in Occupied' : i \in Occupied /\ peers'[i] = peers[i]
  BY <1>1 DEF Occupied
<1> QED BY <1>1, <1>2, <1>3, <1>4, WokenStep

\* A dial of the waiting node for itself.
LEMMA DialPaired ==
    ASSUME Inv, Paired, Idle, UNCHANGED <<sess, circuits, muddled>>, pending' = <<>>,
           NEW i \in FreeSlots, NEW t, NEW k \in {"Interlink", "Telnet"},
           DialFrom(i, t, Plain(k), peers)
    PROVE  Paired'
<1>1. PICK there : there = PeerState(t, Plain(k)) /\ there.role.kind = k
  <2>1. PeerState(t, Plain(k)).role.kind = k
    BY DEF PeerState, Plain
  <2> QED BY <2>1
<1>2. peers' = [peers EXCEPT ![i] = there]
  BY <1>1 DEF DialFrom
<1>3. /\ i \in Slots /\ peers[i] = Absent
      /\ peers'[i] = there /\ \A j \in Slots \ {i} : peers'[j] = peers[j]
  BY <1>2 DEF FreeSlots, Inv, TypeOK
<1>4. \A x, y \in Legs : (Asked(x, y)' <=> Asked(x, y)) /\ (Serves(x, y)' <=> Serves(x, y))
  BY <1>1, <1>3, SameBonds
<1>5. \A j \in Occupied' : peers'[j].role.kind = "Bridge" => j \in Occupied /\ peers'[j] = peers[j]
  BY <1>1, <1>3 DEF Occupied
<1>6. \A x : Closing(x)' <=> Closing(x)
  BY DEF Closing, CircuitIs
<1> QED BY <1>4, <1>5, <1>6, WokenStep

LEMMA DialInterlinkPaired ==
    ASSUME Inv, Paired, NEW s \in Stations, DialInterlink(s)
    PROVE  Paired'
<1>1. Idle /\ UNCHANGED <<sess, circuits, muddled>> /\ pending' = <<>>
  BY DEF DialInterlink, Idle, history
<1>2. PICK i \in FreeSlots : DialFrom(i, s, Plain("Interlink"), peers)
  BY DEF DialInterlink
<1> QED BY <1>1, <1>2, DialPaired

\* A circuit changes but for its mode, or comes to be without a bridge.
LEMMA CircuitPaired ==
    ASSUME Inv, Paired, Idle, UNCHANGED <<peers, sess, muddled>>, pending' = <<>>,
           NEW k \in Circuits, ~Closing(k), circuits'[k] # Absent,
           \A l \in Circuits \ {k} : circuits'[l] = circuits[l],
           IF circuits[k] = Absent THEN circuits'[k].mode.kind # "Bridge"
                                   ELSE circuits'[k].mode = circuits[k].mode
    PROVE  Paired'
<1>1. \A x, y \in Legs : (Asked(x, y)' <=> Asked(x, y)) /\ (Serves(x, y)' <=> Serves(x, y))
  BY SameBonds
<1>2. \A x : Closing(x) => Closing(x)'
  BY DEF Closing, CircuitIs
<1>3. \A i \in Occupied' : i \in Occupied /\ peers'[i] = peers[i]
  BY DEF Occupied
<1> QED BY <1>1, <1>2, <1>3, WokenStep

LEMMA CircuitInPaired ==
    ASSUME Inv, Paired, CircuitIn
    PROVE  Paired'
<1>1. Idle /\ UNCHANGED <<peers, sess, muddled>> /\ pending' = <<>>
  BY DEF CircuitIn, Idle, work, history
<1>2. PICK there : /\ there = [far |-> Absent, mode |-> Plain("Console"), phase |-> "Up"]
                   /\ there.mode.kind # "Bridge" /\ there # Absent
  <2>1. PICK c \in CircuitStates : c = [far |-> Absent, mode |-> Plain("Console"), phase |-> "Up"]
    BY DEF CircuitStates, Roles, Plain
  <2>2. c.mode.kind # "Bridge"
    BY <2>1 DEF Plain
  <2> QED BY <2>1, <2>2, AbsentAssumption
<1>3. PICK k \in FreeCircuits : circuits' = [circuits EXCEPT ![k] = there]
  BY <1>2 DEF CircuitIn
<1>4. /\ circuits[k] = Absent /\ k \in Circuits /\ ~Closing(k)
      /\ circuits'[k] = there /\ \A l \in Circuits \ {k} : circuits'[l] = circuits[l]
  BY <1>3 DEF FreeCircuits, Inv, TypeOK, Closing, CircuitIs
<1> QED BY <1>1, <1>2, <1>4, CircuitPaired

LEMMA CircuitUpPaired ==
    ASSUME Inv, Paired, NEW k \in Circuits, CircuitUp(k)
    PROVE  Paired'
<1>1. Idle /\ UNCHANGED <<peers, sess, muddled>> /\ pending' = <<>>
  BY DEF CircuitUp, Idle, work, history
<1>2. circuits[k] # Absent /\ circuits' = [circuits EXCEPT ![k].phase = "Up"] /\ ~Closing(k)
  BY DEF CircuitUp, CircuitIs, Closing
<1>3. /\ circuits'[k] # Absent /\ circuits'[k].mode = circuits[k].mode
      /\ \A l \in Circuits \ {k} : circuits'[l] = circuits[l]
  <2>1. circuits[k] \in CircuitStates /\ [circuits[k] EXCEPT !.phase = "Up"] \in CircuitStates
    BY <1>2 DEF Inv, TypeOK, CircuitStates
  <2>2. [circuits[k] EXCEPT !.phase = "Up"].mode = circuits[k].mode
    BY <2>1 DEF CircuitStates
  <2>3. circuits'[k] = [circuits[k] EXCEPT !.phase = "Up"] /\ \A l \in Circuits \ {k} : circuits'[l] = circuits[l]
    BY <1>2 DEF Inv, TypeOK
  <2> QED BY <2>1, <2>2, <2>3, AbsentAssumption
<1> QED BY <1>1, <1>2, <1>3, CircuitPaired

\* One circuit changes.
LEMMA CircuitChanged ==
    ASSUME Inv, peers' = peers, NEW k \in Circuits,
           \A l \in Circuits \ {k} : circuits'[l] = circuits[l]
    PROVE  /\ k \in Legs /\ Occupied' = Occupied /\ \A i \in Occupied : peers[i].peer # k
           /\ \A x \in Legs \ {k} : /\ \A r : Has(x, r)' <=> Has(x, r)
                                    /\ Closing(x)' <=> Closing(x)
           /\ \A r : Has(k, r)' <=> circuits'[k] # Absent /\ circuits'[k].mode = r
           /\ \A r : Has(k, r) <=> circuits[k] # Absent /\ circuits[k].mode = r
<1>1. \A i \in Occupied : peers[i].peer \in Stations /\ peers[i].peer # k
  BY LinksAssumption DEF Inv, TypeOK, Occupied, PeerStates
<1>2. Occupied' = Occupied
  BY DEF Occupied
<1> QED BY <1>1, <1>2 DEF Has, Closing, CircuitIs, Legs

LEMMA CircuitDataPaired ==
    ASSUME Inv, Paired, NEW k \in Circuits, NEW lines \in Typed, CircuitData(k, lines)
    PROVE  Paired'
<1>1. /\ Idle /\ UNCHANGED <<peers, sess, queue, muddled>> /\ queue = <<>>
      /\ circuits[k] # Absent /\ circuits[k] \in CircuitStates /\ circuits[k].mode \in Roles
      /\ ~Closing(k)
  <2>1. Idle /\ UNCHANGED <<peers, sess, queue, muddled>> /\ circuits[k] # Absent /\ ~Closing(k)
    BY DEF CircuitData, CircuitIs, Closing, history
  <2> QED BY <2>1 DEF Inv, TypeOK, CircuitStates, Idle
<1>2. PICK mode \in Roles : mode = circuits[k].mode
  BY <1>1
<1>3. /\ mode.kind \in {"Console", "Bridge"}
      /\ mode.kind = "Console" => pending' = Connects(k, UpToConnect(lines))
      /\ mode.kind = "Bridge" => pending' = <<Forward(mode.other)>>
      /\ circuits' = circuits \/ circuits' = [circuits EXCEPT ![k].phase = "Closing"]
  BY <1>2 DEF CircuitData
<1>4. /\ circuits'[k] # Absent /\ circuits'[k].mode = mode
      /\ \A l \in Circuits \ {k} : circuits'[l] = circuits[l]
  <2>1. CASE circuits' = circuits
    BY <1>1, <1>2, <2>1
  <2>2. CASE circuits' = [circuits EXCEPT ![k].phase = "Closing"]
    <3>1. /\ [circuits[k] EXCEPT !.phase = "Closing"].mode = circuits[k].mode
          /\ [circuits[k] EXCEPT !.phase = "Closing"] \in CircuitStates
      BY <1>1 DEF CircuitStates
    <3>2. circuits'[k] = [circuits[k] EXCEPT !.phase = "Closing"] /\ \A l \in Circuits \ {k} : circuits'[l] = circuits[l]
      BY <2>2 DEF Inv, TypeOK
    <3> QED BY <1>2, <3>1, <3>2, AbsentAssumption
  <2> QED BY <1>3, <2>1, <2>2
<1>5. /\ k \in Legs /\ Occupied' = Occupied /\ \A i \in Occupied : peers[i].peer # k
      /\ Has(k, mode)'
      /\ \A x \in Legs \ {k} : Closing(x)' <=> Closing(x)
  BY <1>1, <1>4, CircuitChanged
<1>6. \A x, y \in Legs : (Asked(x, y)' <=> Asked(x, y)) /\ (Serves(x, y)' <=> Serves(x, y))
  BY <1>1, <1>2, <1>4, SameBonds
<1>7. Awaiting'
  BY <1>1, <1>5, NoneAwaits DEF Paired
<1>8. Asking' /\ \A x : ~Orphan(x)'
  <2>1. CASE mode.kind = "Console"
    <3>1. PICK c : c = Connects(k, UpToConnect(lines))
      OBVIOUS
    <3>2. /\ c \in Seq(Range(c))
          /\ \A n \in 1..Len(c) : c[n].kind = "StartBridge" /\ c[n].leg = k
      BY <3>1, UpToConnectType, ConnectsType
    <3>3. pending' = c
      BY <1>3, <2>1, <3>1
    <3>4. pending' # <<>> => 1 \in 1..Len(pending')
      BY <3>2, <3>3
    <3>5. \A n \in 1..Len(pending') : pending'[n].kind = "StartBridge" /\ pending'[n].leg = k
      BY <3>2, <3>3
    <3>6. Asking'
      BY <1>1, <1>5, <3>5 DEF Asking
    <3> QED BY <3>4, <3>5, <3>6 DEF Orphan
  <2>2. CASE mode.kind = "Bridge"
    <3>1. PICK e : e = Forward(mode.other) /\ e.kind = "Forward"
      <4>1. Forward(mode.other).kind = "Forward"
        BY DEF Forward
      <4> QED BY <4>1
    <3>2. pending' = <<e>>
      BY <1>3, <2>2, <3>1
    <3>3. Len(pending') = 1 /\ pending'[1].kind = "Forward"
      BY <3>1, <3>2
    <3> QED BY <3>3 DEF Asking, Orphan
  <2> QED BY <1>3, <2>1, <2>2
<1>9. ~muddled' => Bonds'
  <2>1. \A x : ~Orphan(x)
    BY <1>1 DEF Idle, Orphan
  <2>2. \A x \in Legs : Closing(x) => Closing(x)'
    BY <1>1, <1>5
  <2> QED BY <1>1, <1>6, <1>8, <2>1, <2>2, Steady DEF Paired
<1> QED BY <1>7, <1>8, <1>9 DEF Paired

LEMMA CircuitClosedPaired ==
    ASSUME Inv, Paired, NEW k \in Circuits, CircuitClosed(k)
    PROVE  Paired'
<1>1. /\ Idle /\ UNCHANGED <<peers, sess, queue, muddled>> /\ queue = <<>>
      /\ circuits[k] # Absent /\ circuits[k] \in CircuitStates /\ circuits[k].mode \in Roles
      /\ circuits'[k] = Absent /\ \A l \in Circuits \ {k} : circuits'[l] = circuits[l]
  <2>1. /\ Idle /\ UNCHANGED <<peers, sess, queue, muddled>> /\ circuits[k] # Absent
        /\ circuits' = [circuits EXCEPT ![k] = Absent]
    BY DEF CircuitClosed, history
  <2> QED BY <2>1 DEF Inv, TypeOK, CircuitStates, Idle
<1>2. PICK mode \in Roles : mode = circuits[k].mode
  BY <1>1
<1>3. pending' = Ended(mode)
  BY <1>2 DEF CircuitClosed
<1>4. /\ k \in Legs /\ Occupied' = Occupied
      /\ \A x \in Legs \ {k} : /\ \A r : Has(x, r)' <=> Has(x, r)
                               /\ Closing(x)' <=> Closing(x)
      /\ \A r : Has(k, r)' <=> circuits'[k] # Absent /\ circuits'[k].mode = r
      /\ \A r : Has(k, r) <=> circuits[k] # Absent /\ circuits[k].mode = r
  BY <1>1, CircuitChanged
<1>5. (\A r : ~Has(k, r)') /\ Has(k, mode)
  BY <1>1, <1>2, <1>4
<1>6. Awaiting'
  BY <1>1, <1>4, NoneAwaits DEF Paired
<1>7. \A x : ~Orphan(x)
  BY <1>1 DEF Idle, Orphan
<1>8. \A x \in Legs \ {k}, y \in Legs : /\ Asked(x, y)' <=> Asked(x, y)
                                        /\ Serves(x, y)' <=> Serves(x, y)
                                        /\ Closing(x) => Closing(x)'
  BY <1>4 DEF Asked, Serves, Bridge
<1>9. \A y \in Legs : ~Asked(k, y)' /\ ~Serves(k, y)'
  BY <1>5 DEF Asked, Serves, Bridge
<1>10. CASE mode.kind = "Bridge"
  <2>1. PICK o \in Legs : o = mode.other /\ (mode = Bridge(o, TRUE) \/ mode = Bridge(o, FALSE))
    BY <1>10, BridgeRoles
  <2>2. PICK e : e = BridgeEnded(o)
    OBVIOUS
  <2>3. pending' = <<e>> /\ e.kind = "BridgeEnded" /\ e.leg = o
    BY <1>3, <1>10, <2>1, <2>2 DEF Ended, BridgeEnded
  <2>4. Len(pending') = 1 /\ pending' # <<>> /\ pending'[1] = e
    BY <2>3
  <2>5. Orphan(o)' /\ Asking'
    BY <2>3, <2>4 DEF Orphan, Asking
  <2>6. Linked(k, o)
    BY <1>5, <2>1 DEF Linked, Asked, Serves
  <2>7. ~muddled' => Bonds'
    BY <1>1, <1>4, <1>7, <1>8, <1>9, <2>5, <2>6, CutOff DEF Paired
  <2> QED BY <1>6, <2>5, <2>7 DEF Paired
<1>11. CASE mode.kind # "Bridge"
  <2>1. pending' = <<>>
    BY <1>3, <1>11 DEF Ended
  <2>2. \A y \in Legs : ~Linked(k, y)
    BY <1>4, <1>5, <1>11, Unlinked
  <2>3. \A x, y \in Legs : /\ Asked(x, y)' <=> Asked(x, y)
                           /\ Serves(x, y)' <=> Serves(x, y)
                           /\ Linked(x, y) /\ Closing(x) => Closing(x)'
    BY <1>8, <1>9, <2>2 DEF Linked
  <2>4. \A i \in Occupied' : i \in Occupied /\ peers'[i] = peers[i]
    BY <1>1, <1>4
  <2> QED BY <1>1, <2>1, <2>3, <2>4, WokenStep
<1> QED BY <1>10, <1>11

LEMMA TablesSame ==
    ASSUME Paired, UNCHANGED <<peers, sess, circuits, queue, pending, muddled>>
    PROVE  Paired'
<1>1. UNCHANGED <<peers, sess, circuits, queue, pending, muddled>>
  OBVIOUS
<1>2. Occupied' = Occupied
  BY <1>1 DEF Occupied
<1>3. \A x : \A r : Has(x, r)' <=> Has(x, r)
  BY <1>1, NothingChanged
<1>4. \A x : (Closing(x)' <=> Closing(x)) /\ (Orphan(x)' <=> Orphan(x))
  <2>1. \A x : Closing(x)' <=> Closing(x)
    BY <1>1, NothingChanged
  <2>2. \A x : Orphan(x)' <=> Orphan(x)
    BY <1>1 DEF Orphan
  <2> QED BY <2>1, <2>2
<1>5. \A x, y \in Legs : /\ Asked(x, y)' <=> Asked(x, y)
                         /\ Serves(x, y)' <=> Serves(x, y)
                         /\ Linked(x, y)' <=> Linked(x, y)
  BY <1>3 DEF Asked, Serves, Linked, Bridge
<1>6. Bonds => Bonds'
  BY <1>4, <1>5 DEF Bonds, Mutual, Matched, Orphaned
<1>7. Harmless' <=> Harmless
  BY <1>1, <1>2 DEF Harmless
<1>8. Awaiting'
  BY <1>1, <1>2, <1>7 DEF Paired, Awaiting, FirstFor
<1>9. Asking'
  BY <1>1, <1>2, <1>3 DEF Paired, Asking
<1> QED BY <1>1, <1>6, <1>8, <1>9 DEF Paired

LEMMA TelnetPaired ==
    ASSUME Paired,
           (\E t \in TelnetTargets : Begin(t)) \/ UserLeaves \/ ReadStatus \/ UNCHANGED vars
    PROVE  Paired'
<1>1. UNCHANGED <<peers, sess, circuits, queue, pending, muddled>>
  BY DEF Begin, UserLeaves, ReadStatus, vars, links, work, history
<1> QED BY <1>1, TablesSame

LEMMA StartRelayPaired ==
    ASSUME Inv, Paired, StartRelay
    PROVE  Paired'
<1>1. Idle /\ sess' = sess /\ pending' = <<>> /\ muddled' = muddled
  BY DEF StartRelay, Idle, history
<1>2. CASE \E k \in FreeCircuits :
              /\ request \in Routed /\ peers' = peers
              /\ circuits' = OpenCircuit(k, request, Plain("Telnet"), circuits)
  <2>1. PICK k \in FreeCircuits :
              /\ request \in Routed /\ peers' = peers
              /\ circuits' = OpenCircuit(k, request, Plain("Telnet"), circuits)
    BY <1>2
  <2>2. k \in Circuits /\ circuits[k] = Absent /\ ~Closing(k)
    BY DEF FreeCircuits, Closing, CircuitIs
  <2>3. PICK t \in Routed, mode \in Roles : t = request /\ mode = Plain("Telnet") /\ mode.kind = "Telnet"
    <3>1. Plain("Telnet") \in Roles /\ Plain("Telnet").kind = "Telnet"
      BY DEF Plain, Roles
    <3> QED BY <2>1, <3>1
  <2>4. /\ circuits'[k] # Absent /\ circuits'[k].mode = mode
        /\ \A l \in Circuits \ {k} : circuits'[l] = circuits[l]
    <3>1. circuits' = OpenCircuit(k, t, mode, circuits)
      BY <2>1, <2>3
    <3>2. circuits \in [Circuits -> CircuitStates \cup {Absent}]
      BY DEF Inv, TypeOK
    <3> QED BY <2>2, <3>1, <3>2, CircuitOpened
  <2> QED BY <1>1, <2>1, <2>2, <2>3, <2>4, CircuitPaired
<1>3. CASE /\ circuits' = circuits
           /\ \E i \in FreeSlots : DialFrom(i, request, Plain("Telnet"), peers)
  <2>1. PICK i \in FreeSlots : DialFrom(i, request, Plain("Telnet"), peers)
    BY <1>3
  <2>2. PICK t : t = request
    OBVIOUS
  <2>3. DialFrom(i, t, Plain("Telnet"), peers)
    BY <2>1, <2>2
  <2> QED BY <1>1, <1>3, <2>3, DialPaired
<1>4. CASE UNCHANGED <<peers, circuits, queue>>
  <2>1. UNCHANGED <<peers, sess, circuits, queue, pending, muddled>>
    BY <1>1, <1>4 DEF Idle
  <2> QED BY <2>1, TablesSame
<1> QED BY <1>2, <1>3, <1>4 DEF StartRelay, ByCircuit

LEMMA RelayHangupPaired ==
    ASSUME Inv, Paired, RelayHangup
    PROVE  Paired'
<1>1. Idle /\ sess' = sess /\ pending' = <<>> /\ muddled' = muddled
  BY DEF RelayHangup, Idle, history
<1>2. CASE /\ peers' = peers
           /\ circuits' = [k \in Circuits |-> IF k \in RelayCircuits
                             THEN [circuits[k] EXCEPT !.phase = "Closing"] ELSE circuits[k]]
  <2>1. \A k \in RelayCircuits : /\ circuits'[k] = [circuits[k] EXCEPT !.phase = "Closing"]
                                 /\ circuits[k] \in CircuitStates /\ circuits[k] # Absent
                                 /\ circuits[k].mode.kind = "Telnet"
    BY <1>2 DEF RelayCircuits, Inv, TypeOK
  <2>2. \A k \in RelayCircuits : /\ circuits'[k].mode = circuits[k].mode /\ circuits'[k] # Absent
                                 /\ circuits'[k].phase = "Closing"
    <3>1. \A k \in RelayCircuits : /\ circuits'[k].mode = circuits[k].mode
                                   /\ circuits'[k].phase = "Closing" /\ circuits'[k] \in CircuitStates
      BY <2>1 DEF CircuitStates
    <3> QED BY <3>1, AbsentAssumption
  <2>3. \A k \in Circuits : k \notin RelayCircuits => circuits'[k] = circuits[k]
    BY <1>2
  <2>4. \A x, y \in Legs : (Asked(x, y)' <=> Asked(x, y)) /\ (Serves(x, y)' <=> Serves(x, y))
    BY <1>2, <2>1, <2>2, <2>3, SameBonds
  <2>5. \A x : Closing(x) => Closing(x)'
    BY <2>2, <2>3 DEF Closing, CircuitIs
  <2>6. \A i \in Occupied' : i \in Occupied /\ peers'[i] = peers[i]
    BY <1>2 DEF Occupied
  <2> QED BY <1>1, <2>4, <2>5, <2>6, WokenStep
<1>3. CASE /\ circuits' = circuits
           /\ peers' = [i \in Slots |-> IF i \in RelaySlots
                            THEN [peers[i] EXCEPT !.role = Plain("None")] ELSE peers[i]]
  <2>1. PICK none : none = Plain("None") /\ none.kind = "None"
    <3>1. Plain("None").kind = "None"
      BY DEF Plain
    <3> QED BY <3>1
  <2>2. \A i \in RelaySlots : /\ peers'[i] = [peers[i] EXCEPT !.role = none]
                              /\ peers[i] \in PeerStates /\ peers[i].role.kind = "Telnet"
    <3>1. \A i \in RelaySlots : i \in Slots /\ peers[i] \in PeerStates /\ peers[i].role.kind = "Telnet"
      BY DEF RelaySlots, Inv, TypeOK
    <3> QED BY <1>3, <2>1, <3>1
  <2>3. \A i \in RelaySlots : peers'[i].role.kind = "None"
    BY <2>1, <2>2 DEF PeerStates
  <2>4. \A i \in Slots : i \notin RelaySlots => peers'[i] = peers[i]
    BY <1>3
  <2>5. \A x, y \in Legs : (Asked(x, y)' <=> Asked(x, y)) /\ (Serves(x, y)' <=> Serves(x, y))
    BY <1>3, <2>2, <2>3, <2>4, SameBonds
  <2>6. \A i \in Occupied' : peers'[i].role.kind = "Bridge" => i \in Occupied /\ peers'[i] = peers[i]
    BY <2>3, <2>4 DEF Occupied
  <2>7. \A x : Closing(x)' <=> Closing(x)
    BY <1>3 DEF Closing, CircuitIs
  <2> QED BY <1>1, <2>5, <2>6, <2>7, WokenStep
<1> QED BY <1>2, <1>3 DEF RelayHangup

LEMMA NextPaired ==
    ASSUME Inv, Inv', Paired, [Next]_vars
    PROVE  Paired'
BY PostOnePaired, ApplyFollowUpPaired, ReceivePaired, GiveUpPaired, DialInterlinkPaired,
   CircuitInPaired, CircuitUpPaired, CircuitDataPaired, CircuitClosedPaired, TelnetPaired,
   StartRelayPaired, RelayHangupPaired
DEF Next, NodeStep

\* The two legs of a cross-connect name each other whenever the node waits, and one
\* of them is the user's, however connects, refusals and ends of either leg follow
\* on each other, and however long a circuit takes to close, until a leg is reset or
\* bridged again while it belongs to a cross-connect.
THEOREM BridgesStayPaired == Spec => []BridgesPaired
<1>1. Inv /\ Paired => BridgesPaired
  <2> SUFFICES ASSUME Inv, Paired, Idle, ~muddled, NEW x \in Stations \cup Circuits,
                      NEW r \in RoleOf(x), r.kind = "Bridge"
               PROVE  \/ Bridge(x, ~r.initiator) \in RoleOf(r.other)
                      \/ x \in Circuits /\ circuits[x].phase = "Closing"
    BY DEF BridgesPaired, LegsPaired
  <2>1. \A u, q : Has(u, q) <=> q \in RoleOf(u)
    BY DEF Has, RoleOf, SlotsOf, Occupied
  <2>2. r \in Roles
    BY DEF RoleOf, SlotsOf, Inv, TypeOK, PeerStates, CircuitStates
  <2>3. PICK y \in Legs : y = r.other /\ (r = Bridge(y, TRUE) \/ r = Bridge(y, FALSE))
    BY <2>2, BridgeRoles
  <2>4. x \in Legs /\ ~Orphan(x)
    BY DEF Legs, Idle, Orphan
  <2>5. CASE r = Bridge(y, TRUE)
    <3>1. r.initiator = TRUE /\ Asked(x, y)
      BY <2>1, <2>5 DEF Bridge, Asked
    <3>2. Serves(y, x) \/ Closing(x)
      BY <2>4, <3>1 DEF Paired, Bonds, Matched
    <3> QED BY <2>1, <2>3, <3>1, <3>2 DEF Serves, Closing, CircuitIs
  <2>6. CASE r = Bridge(y, FALSE)
    <3>1. r.initiator = FALSE /\ Serves(x, y)
      BY <2>1, <2>6 DEF Bridge, Serves
    <3>2. Asked(y, x) \/ Closing(x)
      BY <2>4, <3>1 DEF Paired, Bonds, Matched
    <3> QED BY <2>1, <2>3, <3>1, <3>2 DEF Asked, Closing, CircuitIs
  <2> QED BY <2>3, <2>5, <2>6
<1>2. Inv /\ Inv' /\ Paired /\ [Next]_vars => Paired'
  BY NextPaired
<1>3. Spec => []Inv
  BY Invariant
<1> QED BY <1>1, <1>2, <1>3, InitPaired, PTL DEF Spec

=============================================================================
