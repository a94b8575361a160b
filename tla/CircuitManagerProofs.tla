------------------------- MODULE CircuitManagerProofs -------------------------
(***************************************************************************)
(* What the tables of the circuits promise, proved for every number of     *)
(* nodes, cap and key space, and whatever is lost, delivered twice,        *)
(* refused, hung up or restarted.                                          *)
(*                                                                         *)
(* MintedOnce: a peer's circuit is minted once.  The argument is about the *)
(* entries of a table: a call on a circuit either deregisters its entry or *)
(* leaves one that names the same peer, and a Connect Request mints only   *)
(* where no entry names its circuit.                                       *)
(*                                                                         *)
(* AnswersComeBack: a Connect Request is answered.  The argument is about  *)
(* who knows a key.  As long as none is used again, a datagram, a table    *)
(* entry or a circuit awaiting its host names a key only if the node it    *)
(* belongs to handed it out and told it (Books); and the answer a          *)
(* connecting circuit waits for is on its way, with the peer's host, or    *)
(* due to a request on its way (AnswersDue).                               *)
(***************************************************************************)
EXTENDS CircuitManager, TLAPS, FiniteSetTheorems, SequenceTheorems

\* What the table of every node is: entries with the fields of Managed.
Entry(m) ==
  \E C, R, P, S, W, G :
    m \in [c : C, remote : R, peer : P, serial : S, wrote : W, got : G]

TablesShaped ==
  /\ table = [n \in Nodes |-> table[n]]
  /\ \A n \in Nodes : \A m \in table[n] : Entry(m)

OneEach(T) == \A m1, m2 \in T : m1.peer = m2.peer /\ m1.peer # NoPeer => m1 = m2

Minted == TablesShaped /\ InboundOnce

-----------------------------------------------------------------------------
(***************************************************************************)
(* The entries a call leaves.                                              *)
(***************************************************************************)
LEMMA EntryIntro ==
  ASSUME NEW x, NEW C, NEW R, NEW P, NEW S, NEW W, NEW G,
         x \in [c : C, remote : R, peer : P, serial : S, wrote : W, got : G]
  PROVE  Entry(x)
<1> USE DEF Entry
<1> WITNESS C, R, P, S, W, G
<1> QED OBVIOUS

LEMMA ManagedIsEntry ==
  ASSUME NEW key, NEW remote, NEW peer, NEW serial
  PROVE  /\ Entry(Managed(key, remote, peer, serial))
         /\ Managed(key, remote, peer, serial).peer = peer
<1> DEFINE m == Managed(key, remote, peer, serial)
<1>1. m \in [c : {NewCircuit(key)}, remote : {remote}, peer : {peer},
              serial : {serial}, wrote : {0}, got : {<<>>}]
  BY DEF Managed
<1>2. m.peer = peer
  BY DEF Managed
<1> QED BY <1>1, <1>2, Zenon DEF Entry

LEMMA WroteKeepsPeer ==
  ASSUME NEW m, Entry(m), NEW k
  PROVE  Entry([m EXCEPT !.wrote = k]) /\ [m EXCEPT !.wrote = k].peer = m.peer
<1>1. PICK C, R, P, S, W, G :
         m \in [c : C, remote : R, peer : P, serial : S, wrote : W, got : G]
  BY DEF Entry
<1>2. [m EXCEPT !.wrote = k]
        \in [c : C, remote : R, peer : P, serial : S, wrote : {k}, got : G]
  BY <1>1, Zenon
<1>3. [m EXCEPT !.wrote = k].peer = m.peer
  BY <1>1
<1>4. PICK x : x = [m EXCEPT !.wrote = k]
  OBVIOUS
<1>5. PICK V : V = {k}
  OBVIOUS
<1>6. x \in [c : C, remote : R, peer : P, serial : S, wrote : V, got : G]
  BY <1>2, <1>4, <1>5
<1>7. Entry(x)
  BY <1>6, EntryIntro
<1> QED BY <1>3, <1>4, <1>7

\* A call leaves at most one entry, and that entry names the same peer.
LEMMA CollectedKeepsPeer ==
  ASSUME NEW m, Entry(m), NEW r
  PROVE  /\ \A x \in Collected(m, r) : Entry(x) /\ x.peer = m.peer
         /\ \A x, y \in Collected(m, r) : x = y
<1>1. ASSUME NEW C, NEW G
      PROVE  /\ Entry([m EXCEPT !.c = C, !.got = G])
             /\ [m EXCEPT !.c = C, !.got = G].peer = m.peer
  <2>1. PICK A, R, P, S, W, B :
           m \in [c : A, remote : R, peer : P, serial : S, wrote : W, got : B]
    BY DEF Entry
  <2>2. [m EXCEPT !.c = C, !.got = G]
          \in [c : {C}, remote : R, peer : P, serial : S, wrote : W, got : {G}]
    BY <2>1, Zenon
  <2>3. [m EXCEPT !.c = C, !.got = G].peer = m.peer
    BY <2>1
  <2>4. PICK x : x = [m EXCEPT !.c = C, !.got = G]
    OBVIOUS
  <2>5. PICK U, V : U = {C} /\ V = {G}
    OBVIOUS
  <2>6. x \in [c : U, remote : R, peer : P, serial : S, wrote : W, got : V]
    BY <2>2, <2>4, <2>5
  <2>7. Entry(x)
    BY <2>6, EntryIntro
  <2> QED BY <2>3, <2>4, <2>7
<1> DEFINE closed == \E i \in DOMAIN r.ev : r.ev[i].type = "Closed"
<1>2. CASE closed
  BY <1>2 DEF Collected
<1>3. CASE ~closed
  <2>1. Collected(m, r) = {[m EXCEPT !.c = r.c, !.got = m.got \o Handed(r.ev)]}
    BY <1>3 DEF Collected
  <2>2. PICK G : G = m.got \o Handed(r.ev)
    OBVIOUS
  <2>3. PICK x : x = [m EXCEPT !.c = r.c, !.got = G]
    OBVIOUS
  <2>4. Collected(m, r) = {x}
    BY <2>1, <2>2, <2>3, Zenon
  <2>5. Entry(x) /\ x.peer = m.peer
    BY <1>1, <2>3, Zenon
  <2> QED BY <2>4, <2>5
<1> QED BY <1>2, <1>3

\* The entry m is replaced by what a call on it left.
LEMMA ReplacedOneEach ==
  ASSUME NEW T, OneEach(T), NEW m \in T, NEW S,
         \A x \in S : x.peer = m.peer, \A x, y \in S : x = y
  PROVE  OneEach((T \ {m}) \cup S)
  BY DEF OneEach

\* An entry is added that names a peer nobody in the table names, or none.
LEMMA AddedOneEach ==
  ASSUME NEW T, OneEach(T), NEW S, NEW peer,
         \A x \in S : x.peer = peer, \A x, y \in S : x = y,
         peer = NoPeer \/ \A m \in T : m.peer # peer
  PROVE  OneEach(T \cup S)
  BY DEF OneEach

\* A step that changes the table of one node, and leaves it in order.
LEMMA OneTableChanges ==
  ASSUME Minted, NEW n \in Nodes, NEW T,
         table' = [table EXCEPT ![n] = T],
         \A x \in T : Entry(x), OneEach(T)
  PROVE  Minted'
<1>1. table = [k \in Nodes |-> table[k]]
  BY DEF Minted, TablesShaped
<1>2. table' = [k \in Nodes |-> IF k = n THEN T ELSE table[k]]
  BY <1>1
<1>3. table' = [k \in Nodes |-> table'[k]]
  BY <1>2
<1>4. \A k \in Nodes : table'[k] = IF k = n THEN T ELSE table[k]
  BY <1>2
<1>5. TablesShaped'
  BY <1>3, <1>4 DEF Minted, TablesShaped
<1>6. InboundOnce'
  BY <1>4 DEF Minted, InboundOnce, OneEach
<1> QED BY <1>5, <1>6 DEF Minted

LEMMA TableInOrder ==
  ASSUME Minted, NEW n \in Nodes
  PROVE  OneEach(table[n]) /\ \A m \in table[n] : Entry(m)
  BY DEF Minted, TablesShaped, InboundOnce, OneEach

\* Every call on a circuit of the table.
LEMMA DriveMinted ==
  ASSUME Minted, NEW n \in Nodes, NEW m \in table[n], NEW r, NEW before,
         Drive(n, m, r, before)
  PROVE  Minted'
<1> DEFINE T == (table[n] \ {m}) \cup Collected(m, r)
<1>1. table' = [table EXCEPT ![n] = T]
  BY DEF Drive
<1>2. OneEach(table[n]) /\ \A x \in table[n] : Entry(x)
  BY TableInOrder
<1>3. /\ \A x \in Collected(m, r) : Entry(x) /\ x.peer = m.peer
      /\ \A x, y \in Collected(m, r) : x = y
  BY <1>2, CollectedKeepsPeer
<1>4. OneEach(T) /\ \A x \in T : Entry(x)
  BY <1>2, <1>3, ReplacedOneEach
<1> HIDE DEF T
<1> QED BY <1>1, <1>4, OneTableChanges

LEMMA SameTableMinted == ASSUME Minted, table' = table PROVE Minted'
  BY DEF Minted, TablesShaped, InboundOnce

-----------------------------------------------------------------------------
(***************************************************************************)
(* The actions.                                                            *)
(***************************************************************************)
LEMMA OpenMinted ==
  ASSUME Minted, NEW n \in Nodes, NEW remote, Open(n, remote)
  PROVE  Minted'
<1>1. PICK m, r : /\ m = Managed(AllocatedKey(n), remote, NoPeer, minted[n] + 1)
                  /\ r = Connect(m.c)
                  /\ table' = [table EXCEPT ![n] = @ \cup Collected(m, r)]
  BY DEF Open
<1>2. Entry(m) /\ m.peer = NoPeer
  BY <1>1, ManagedIsEntry
<1>3. /\ \A x \in Collected(m, r) : Entry(x) /\ x.peer = NoPeer
      /\ \A x, y \in Collected(m, r) : x = y
  BY <1>2, CollectedKeepsPeer
<1>4. OneEach(table[n]) /\ \A x \in table[n] : Entry(x)
  BY TableInOrder
<1> DEFINE T == table[n] \cup Collected(m, r)
<1>5. OneEach(T) /\ \A x \in T : Entry(x)
  BY <1>3, <1>4, AddedOneEach
<1>6. table' = [table EXCEPT ![n] = T]
  BY <1>1
<1> HIDE DEF T
<1> QED BY <1>5, <1>6, OneTableChanges

LEMMA WriteMinted ==
  ASSUME Minted, NEW n \in Nodes, NEW m \in table[n], Write(n, m)
  PROVE  Minted'
<1>1. PICK w, r : /\ w = [m EXCEPT !.wrote = @ + 1]
                  /\ table' = [table EXCEPT ![n] = (@ \ {m}) \cup Collected(w, r)]
  BY DEF Write
<1>2. OneEach(table[n]) /\ \A x \in table[n] : Entry(x)
  BY TableInOrder
<1>3. Entry(w) /\ w.peer = m.peer
  <2>1. PICK k : w = [m EXCEPT !.wrote = k]
    BY <1>1
  <2> QED BY <2>1, <1>2, WroteKeepsPeer
<1>4. /\ \A x \in Collected(w, r) : Entry(x) /\ x.peer = m.peer
      /\ \A x, y \in Collected(w, r) : x = y
  BY <1>3, CollectedKeepsPeer
<1> DEFINE T == (table[n] \ {m}) \cup Collected(w, r)
<1>5. OneEach(T) /\ \A x \in T : Entry(x)
  BY <1>2, <1>4, ReplacedOneEach
<1>6. table' = [table EXCEPT ![n] = T]
  BY <1>1
<1> HIDE DEF T
<1> QED BY <1>5, <1>6, OneTableChanges

LEMMA RefuseMinted ==
  ASSUME Minted, NEW n \in Nodes, NEW inc, Refuse(n, inc)
  PROVE  Minted'
<1>1. PICK refused : table' = [table EXCEPT ![n] = @ \ refused]
  BY DEF Refuse
<1> DEFINE T == table[n] \ refused
<1>2. OneEach(T) /\ \A x \in T : Entry(x)
  BY TableInOrder DEF OneEach
<1>3. table' = [table EXCEPT ![n] = T]
  BY <1>1
<1> HIDE DEF T
<1> QED BY <1>2, <1>3, OneTableChanges

\* A Connect Request mints only for a circuit nobody in the table names.
LEMMA MintMinted ==
  ASSUME Minted, NEW n \in Nodes, NEW origin, NEW d, NEW before,
         \A m \in table[n] : m.peer # <<origin, d.from>>,
         MintInbound(n, origin, d, before)
  PROVE  Minted'
<1>1. CASE CanAllocate(n)
  <2>1. PICK e : /\ e = Managed(AllocatedKey(n), origin, <<origin, d.from>>,
                                minted[n] + 1)
                 /\ table' = [table EXCEPT ![n] = @ \cup {e}]
    BY <1>1 DEF MintInbound
  <2>2. Entry(e) /\ e.peer = <<origin, d.from>>
    BY <2>1, ManagedIsEntry
  <2> DEFINE T == table[n] \cup {e}
  <2>3. OneEach(table[n]) /\ \A x \in table[n] : Entry(x)
    BY TableInOrder
  <2>4. OneEach(T)
    BY <2>2, <2>3 DEF OneEach
  <2>5. table' = [table EXCEPT ![n] = T] /\ \A x \in T : Entry(x)
    BY <2>1, <2>2, <2>3
  <2> HIDE DEF T
  <2> QED BY <2>4, <2>5, OneTableChanges
<1>2. CASE ~CanAllocate(n)
  BY <1>2, SameTableMinted DEF MintInbound
<1> QED BY <1>1, <1>2

LEMMA ReceiveMinted ==
  ASSUME Minted, NEW n \in Nodes, NEW origin, NEW before,
         Receive(n, origin, before)
  PROVE  Minted'
<1>1. PICK d : /\ d.op = "ConnectRequest" => OnConnectPacket(n, origin, d, before)
               /\ d.op # "ConnectRequest" => OnCircuitPacket(n, origin, d, before)
  BY DEF Receive
<1>2. CASE d.op = "ConnectRequest"
  <2>1. CASE \E m \in table[n] : m.peer = <<origin, d.from>>
    <3>1. PICK m \in table[n] : Drive(n, m, OnPacket(m.c, d), before)
      BY <1>1, <1>2, <2>1 DEF OnConnectPacket
    <3> QED BY <3>1, DriveMinted
  <2>2. CASE ~ \E m \in table[n] : m.peer = <<origin, d.from>>
    <3>1. MintInbound(n, origin, d, before)
      BY <1>1, <1>2, <2>2 DEF OnConnectPacket
    <3> QED BY <2>2, <3>1, MintMinted
  <2> QED BY <2>1, <2>2
<1>3. CASE d.op # "ConnectRequest"
  <2>1. \/ \E m \in table[n] : Drive(n, m, OnPacket(m.c, d), before)
        \/ table' = table
    BY <1>1, <1>3 DEF OnCircuitPacket
  <2> QED BY <2>1, DriveMinted, SameTableMinted
<1> QED BY <1>2, <1>3

LEMMA AcceptMinted ==
  ASSUME Minted, NEW n \in Nodes, NEW inc, Accept(n, inc)
  PROVE  Minted'
<1>1. \/ \E m \in table[n] : Drive(n, m, AcceptInbound(m.c, inc.peer, inc.window), net)
      \/ table' = table
  BY DEF Accept
<1> QED BY <1>1, DriveMinted, SameTableMinted

LEMMA RestartMinted ==
  ASSUME Minted, NEW n \in Nodes, Restart(n)
  PROVE  Minted'
<1>1. table' = [table EXCEPT ![n] = {}]
  BY DEF Restart
<1> QED BY <1>1, OneTableChanges DEF OneEach

LEMMA NextMinted == Minted /\ [Next]_vars => Minted'
<1> SUFFICES ASSUME Minted, [Next]_vars PROVE Minted'
  OBVIOUS
<1>1. ASSUME NEW n \in Nodes, NEW other \in Nodes \ {n},
             Open(n, other) \/ Deliver(n, other) \/ Duplicate(n, other) \/ Lose(n, other)
      PROVE  Minted'
  <2>1. CASE Open(n, other)
    BY <2>1, OpenMinted
  <2>2. CASE Deliver(n, other)
    BY <2>2, ReceiveMinted DEF Deliver
  <2>3. CASE Duplicate(n, other)
    BY <2>3, ReceiveMinted DEF Duplicate
  <2>4. CASE Lose(n, other)
    BY <2>4, SameTableMinted DEF Lose
  <2> QED BY <1>1, <2>1, <2>2, <2>3, <2>4
<1>2. ASSUME NEW n \in Nodes, NEW m \in table[n],
             Write(n, m) \/ Hangup(n, m) \/ Tick1(n, m)
      PROVE  Minted'
  <2>1. CASE Write(n, m)
    BY <2>1, WriteMinted
  <2>2. CASE Hangup(n, m)
    BY <2>2, DriveMinted DEF Hangup
  <2>3. CASE Tick1(n, m)
    BY <2>3, DriveMinted DEF Tick1
  <2> QED BY <1>2, <2>1, <2>2, <2>3
<1>3. ASSUME NEW n \in Nodes, NEW inc \in incoming[n], Accept(n, inc) \/ Refuse(n, inc)
      PROVE  Minted'
  BY <1>3, AcceptMinted, RefuseMinted
<1>4. ASSUME NEW n \in Nodes, Restart(n) PROVE Minted'
  BY <1>4, RestartMinted
<1>5. CASE UNCHANGED vars
  BY <1>5, SameTableMinted DEF vars
<1> QED BY <1>1, <1>2, <1>3, <1>4, <1>5 DEF Next

-----------------------------------------------------------------------------
\* A retransmitted or duplicated Connect Request never mints a second circuit
\* for the same circuit of the peer while the first one lives (on_packet).
THEOREM MintedOnce == Spec => []InboundOnce
<1>1. Init => Minted
  BY DEF Init, Minted, TablesShaped, InboundOnce
<1>2. Minted => InboundOnce
  BY DEF Minted
<1> QED BY <1>1, <1>2, NextMinted, PTL DEF Spec

-----------------------------------------------------------------------------
(***************************************************************************)
(* Circuits, as far as the calls on them tell states apart.                *)
(***************************************************************************)
\* What a circuit is, as far as its calls tell states apart.
CircuitRecord(st, lo, re, wi, vs, va, vr, q, un, ra, pc, lc, pe, ca, cr) ==
  [state |-> st, local |-> lo, remote |-> re, window |-> wi, vs |-> vs,
   va |-> va, vr |-> vr, sendQueue |-> q, unacked |-> un, reassembly |-> ra,
   peerChoked |-> pc, localChoked |-> lc, pending |-> pe,
   controlArmed |-> ca, controlRetries |-> cr]

IsRecord(c) ==
  \E st, lo, re, wi, vs, va, vr, q, un, ra, pc, lc, pe, ca, cr :
    c = CircuitRecord(st, lo, re, wi, vs, va, vr, q, un, ra, pc, lc, pe, ca, cr)

IsSequence(s) == \E S : s \in Seq(S)

Sane(c) ==
  /\ IsRecord(c)
  /\ c.state \in States /\ c.window \in Nat /\ IsFiniteSet(c.unacked)
  /\ IsSequence(c.sendQueue)

\* d is the circuit c but for its streams.
Alike(c, d) ==
  /\ Sane(d)
  /\ d.local = c.local /\ d.remote = c.remote /\ d.state = c.state

Closing(ev) == \E i \in DOMAIN ev : ev[i].type = "Closed"

\* What circuit c sends in a call, but for Connect Acknowledges.
Spoken(c, d) ==
  \/ d.op \in {"Information", "InformationAcknowledge", "DisconnectAcknowledge"}
  \/ /\ d.op = "DisconnectRequest" /\ d.key = c.remote
     /\ c.state \in {"Connected", "Disconnecting"}
  \/ /\ d.op = "ConnectRequest" /\ d.from = c.local /\ d.window \in Nat
     /\ c.state = "Connecting"

Speaks(c, out) == IsSequence(out) /\ \A i \in DOMAIN out : Spoken(c, out[i])

\* A call on circuit c that returned r and did not move it to another peer.
Call(c, r) ==
  /\ Sane(r.c) /\ r.c.local = c.local /\ r.c.remote = c.remote
  /\ Speaks(c, r.out) /\ IsSequence(r.ev)
  /\ \/ r.c.state = c.state
     \/ c.state = "Connected" /\ r.c.state = "Disconnecting"
     \/ r.c.state = "Disconnected" /\ Closing(r.ev)

LEMMA ClampIs == ASSUME NEW w \in Int PROVE Clamp(w) \in Nat
<1>1. Horizon \in Nat /\ Horizon >= 2
  BY CircuitAssumption DEF Horizon
<1> QED BY <1>1 DEF Clamp, Least, MaxWindow

LEMMA SequenceIs == ASSUME NEW S, NEW s \in Seq(S) PROVE IsSequence(s)
  BY Zenon DEF IsSequence

LEMMA NothingIs == IsSequence(<<>>)
<1>1. <<>> \in Seq({})
  OBVIOUS
<1> QED BY <1>1, SequenceIs

LEMMA OneIs == ASSUME NEW x PROVE IsSequence(<<x>>)
<1>1. <<x>> \in Seq({x})
  OBVIOUS
<1> QED BY <1>1, SequenceIs

\* u is s followed by t.
Joined(s, t, u) ==
  /\ IsSequence(u)
  /\ Len(s) \in Nat /\ DOMAIN s = 1 .. Len(s)
  /\ \A i \in DOMAIN s : i \in DOMAIN u /\ u[i] = s[i]
  /\ \A i \in DOMAIN t : Len(s) + i \in DOMAIN u /\ u[Len(s) + i] = t[i]
  /\ \A i \in DOMAIN u : \/ i \in DOMAIN s /\ u[i] = s[i]
                         \/ \E j \in DOMAIN t : i = Len(s) + j /\ u[i] = t[j]

LEMMA ConcatIs ==
  ASSUME NEW s, NEW t, IsSequence(s), IsSequence(t), NEW u, u = s \o t
  PROVE  Joined(s, t, u)
<1>1. PICK A, B : s \in Seq(A) /\ t \in Seq(B)
  BY DEF IsSequence
<1>2. PICK C : C = A \cup B
  OBVIOUS
<1>3. s \in Seq(C) /\ t \in Seq(C)
  BY <1>1, <1>2
<1>4. u \in Seq(C)
  BY <1>3
<1>5. IsSequence(u)
  BY <1>4, SequenceIs
<1>6. /\ Len(s) \in Nat /\ Len(t) \in Nat /\ DOMAIN s = 1 .. Len(s) /\ DOMAIN t = 1 .. Len(t)
      /\ DOMAIN u = 1 .. Len(s) + Len(t)
  BY <1>3, <1>4
<1>7. \A i \in 1 .. Len(s) + Len(t) :
        u[i] = IF i <= Len(s) THEN s[i] ELSE t[i - Len(s)]
  BY <1>3, ConcatProperties
<1>8. \A i \in DOMAIN s : i \in DOMAIN u /\ u[i] = s[i]
  BY <1>6, <1>7
<1>9. ASSUME NEW i \in DOMAIN t
      PROVE  Len(s) + i \in DOMAIN u /\ u[Len(s) + i] = t[i]
  <2>1. PICK k : k = Len(s) + i
    OBVIOUS
  <2>2. k \in 1 .. Len(s) + Len(t) /\ ~ (k <= Len(s)) /\ k - Len(s) = i
    BY <1>6, <2>1
  <2> QED BY <1>6, <1>7, <2>1, <2>2
<1>10. ASSUME NEW i \in DOMAIN u
       PROVE  \/ i \in DOMAIN s /\ u[i] = s[i]
              \/ \E j \in DOMAIN t : i = Len(s) + j /\ u[i] = t[j]
  <2>1. CASE i <= Len(s)
    BY <1>6, <1>7, <2>1
  <2>2. CASE ~ (i <= Len(s))
    <3>1. PICK j : j = i - Len(s)
      OBVIOUS
    <3>2. j \in DOMAIN t /\ i = Len(s) + j /\ u[i] = t[j]
      BY <1>6, <1>7, <2>2, <3>1
    <3> QED BY <3>2
  <2> QED BY <2>1, <2>2
<1> QED BY <1>5, <1>6, <1>8, <1>9, <1>10 DEF Joined

LEMMA RecordFields ==
  ASSUME NEW st, NEW lo, NEW re, NEW wi, NEW vs, NEW va, NEW vr, NEW q, NEW un,
         NEW ra, NEW pc, NEW lc, NEW pe, NEW ca, NEW cr, NEW c,
         c = CircuitRecord(st, lo, re, wi, vs, va, vr, q, un, ra, pc, lc, pe, ca, cr)
  PROVE  /\ c.state = st /\ c.local = lo /\ c.remote = re /\ c.window = wi
         /\ c.sendQueue = q /\ c.unacked = un /\ c.controlArmed = ca
         /\ st \in States /\ wi \in Nat /\ IsFiniteSet(un) /\ IsSequence(q) => Sane(c)
<1>1. /\ c.state = st /\ c.local = lo /\ c.remote = re /\ c.window = wi
      /\ c.sendQueue = q /\ c.unacked = un /\ c.controlArmed = ca
  BY DEF CircuitRecord
<1>2. IsRecord(c)
  BY Zenon DEF IsRecord
<1> QED BY <1>1, <1>2 DEF Sane

\* The circuit left by whatever a call changes in it.
LEMMA Altered ==
  ASSUME NEW c, Sane(c), NEW vs, NEW q, IsSequence(q), NEW un, IsFiniteSet(un),
         NEW va, NEW vr, NEW ra, NEW pc, NEW lc, NEW pe, NEW cr
  PROVE  /\ Alike(c, [c EXCEPT !.vs = vs, !.sendQueue = q, !.unacked = un])
         /\ Alike(c, [c EXCEPT !.va = va, !.unacked = un])
         /\ Alike(c, [c EXCEPT !.unacked = un])
         /\ Alike(c, [c EXCEPT !.sendQueue = q])
         /\ Alike(c, [c EXCEPT !.peerChoked = pc])
         /\ Alike(c, [c EXCEPT !.localChoked = lc])
         /\ Alike(c, [c EXCEPT !.vr = vr])
         /\ Alike(c, [c EXCEPT !.reassembly = ra])
         /\ Alike(c, [c EXCEPT !.reassembly = ra, !.pending = pe])
         /\ Alike(c, [c EXCEPT !.controlRetries = cr])
<1>1. PICK st, lo, re, wi, vs1, va1, vr1, q1, un1, ra1, pc1, lc1, pe1, ca, cr1 :
         c = CircuitRecord(st, lo, re, wi, vs1, va1, vr1, q1, un1, ra1, pc1, lc1,
                           pe1, ca, cr1)
  BY DEF Sane, IsRecord
<1>2. /\ c.state = st /\ c.local = lo /\ c.remote = re
      /\ st \in States /\ wi \in Nat /\ IsFiniteSet(un1) /\ IsSequence(q1)
  BY <1>1, RecordFields DEF Sane
<1>3. Alike(c, [c EXCEPT !.vs = vs, !.sendQueue = q, !.unacked = un])
  <2>1. PICK d : d = [c EXCEPT !.vs = vs, !.sendQueue = q, !.unacked = un]
    OBVIOUS
  <2>2. d = CircuitRecord(st, lo, re, wi, vs, va1, vr1, q, un, ra1, pc1, lc1, pe1, ca, cr1)
    BY <1>1, <2>1 DEF CircuitRecord
  <2> QED BY <1>2, <2>1, <2>2, RecordFields DEF Alike
<1>4. Alike(c, [c EXCEPT !.va = va, !.unacked = un])
  <2>1. PICK d : d = [c EXCEPT !.va = va, !.unacked = un]
    OBVIOUS
  <2>2. d = CircuitRecord(st, lo, re, wi, vs1, va, vr1, q1, un, ra1, pc1, lc1, pe1, ca, cr1)
    BY <1>1, <2>1 DEF CircuitRecord
  <2> QED BY <1>2, <2>1, <2>2, RecordFields DEF Alike
<1>5. Alike(c, [c EXCEPT !.unacked = un])
  <2>1. PICK d : d = [c EXCEPT !.unacked = un]
    OBVIOUS
  <2>2. d = CircuitRecord(st, lo, re, wi, vs1, va1, vr1, q1, un, ra1, pc1, lc1, pe1, ca, cr1)
    BY <1>1, <2>1 DEF CircuitRecord
  <2> QED BY <1>2, <2>1, <2>2, RecordFields DEF Alike
<1>6. Alike(c, [c EXCEPT !.sendQueue = q])
  <2>1. PICK d : d = [c EXCEPT !.sendQueue = q]
    OBVIOUS
  <2>2. d = CircuitRecord(st, lo, re, wi, vs1, va1, vr1, q, un1, ra1, pc1, lc1, pe1, ca, cr1)
    BY <1>1, <2>1 DEF CircuitRecord
  <2> QED BY <1>2, <2>1, <2>2, RecordFields DEF Alike
<1>7. Alike(c, [c EXCEPT !.peerChoked = pc])
  <2>1. PICK d : d = [c EXCEPT !.peerChoked = pc]
    OBVIOUS
  <2>2. d = CircuitRecord(st, lo, re, wi, vs1, va1, vr1, q1, un1, ra1, pc, lc1, pe1, ca, cr1)
    BY <1>1, <2>1 DEF CircuitRecord
  <2> QED BY <1>2, <2>1, <2>2, RecordFields DEF Alike
<1>8. Alike(c, [c EXCEPT !.localChoked = lc])
  <2>1. PICK d : d = [c EXCEPT !.localChoked = lc]
    OBVIOUS
  <2>2. d = CircuitRecord(st, lo, re, wi, vs1, va1, vr1, q1, un1, ra1, pc1, lc, pe1, ca, cr1)
    BY <1>1, <2>1 DEF CircuitRecord
  <2> QED BY <1>2, <2>1, <2>2, RecordFields DEF Alike
<1>9. Alike(c, [c EXCEPT !.vr = vr])
  <2>1. PICK d : d = [c EXCEPT !.vr = vr]
    OBVIOUS
  <2>2. d = CircuitRecord(st, lo, re, wi, vs1, va1, vr, q1, un1, ra1, pc1, lc1, pe1, ca, cr1)
    BY <1>1, <2>1 DEF CircuitRecord
  <2> QED BY <1>2, <2>1, <2>2, RecordFields DEF Alike
<1>10. Alike(c, [c EXCEPT !.reassembly = ra])
  <2>1. PICK d : d = [c EXCEPT !.reassembly = ra]
    OBVIOUS
  <2>2. d = CircuitRecord(st, lo, re, wi, vs1, va1, vr1, q1, un1, ra, pc1, lc1, pe1, ca, cr1)
    BY <1>1, <2>1 DEF CircuitRecord
  <2> QED BY <1>2, <2>1, <2>2, RecordFields DEF Alike
<1>11. Alike(c, [c EXCEPT !.reassembly = ra, !.pending = pe])
  <2>1. PICK d : d = [c EXCEPT !.reassembly = ra, !.pending = pe]
    OBVIOUS
  <2>2. d = CircuitRecord(st, lo, re, wi, vs1, va1, vr1, q1, un1, ra, pc1, lc1, pe, ca, cr1)
    BY <1>1, <2>1 DEF CircuitRecord
  <2> QED BY <1>2, <2>1, <2>2, RecordFields DEF Alike
<1>12. Alike(c, [c EXCEPT !.controlRetries = cr])
  <2>1. PICK d : d = [c EXCEPT !.controlRetries = cr]
    OBVIOUS
  <2>2. d = CircuitRecord(st, lo, re, wi, vs1, va1, vr1, q1, un1, ra1, pc1, lc1, pe1, ca, cr)
    BY <1>1, <2>1 DEF CircuitRecord
  <2> QED BY <1>2, <2>1, <2>2, RecordFields DEF Alike
<1> QED BY <1>3, <1>4, <1>5, <1>6, <1>7, <1>8, <1>9, <1>10, <1>11, <1>12

\* The circuits left by the changes of state.
LEMMA ClosedCircuit ==
  ASSUME NEW c, Sane(c), NEW d,
         d = [c EXCEPT !.state = "Disconnected", !.controlArmed = FALSE,
                       !.unacked = {}, !.sendQueue = <<>>, !.reassembly = <<>>]
  PROVE  Sane(d) /\ d.state = "Disconnected" /\ d.local = c.local /\ d.remote = c.remote
<1>1. PICK st1, lo, re1, wi1, vs1, va1, vr1, q1, un1, ra1, pc1, lc1, pe1, ca1, cr1 :
         c = CircuitRecord(st1, lo, re1, wi1, vs1, va1, vr1, q1, un1, ra1, pc1, lc1,
                           pe1, ca1, cr1)
  BY DEF Sane, IsRecord
<1>2. /\ c.state = st1 /\ c.local = lo /\ c.remote = re1
      /\ st1 \in States /\ wi1 \in Nat /\ IsFiniteSet(un1) /\ IsSequence(q1)
  BY <1>1, RecordFields DEF Sane
<1> PICK no : no = FALSE
  OBVIOUS
<1>3. d = CircuitRecord("Disconnected", lo, re1, wi1, vs1, va1, vr1, <<>>, {}, <<>>, pc1, lc1,
                          pe1, no, cr1)
  BY <1>1 DEF CircuitRecord
<1>4. IsFiniteSet({}) /\ IsSequence(<<>>)
  BY FS_EmptySet, NothingIs
<1> QED BY <1>2, <1>3, <1>4, RecordFields DEF States

LEMMA ConnectingCircuit ==
  ASSUME NEW c, Sane(c), NEW d,
         d = [c EXCEPT !.state = "Connecting", !.controlRetries = 0, !.controlArmed = TRUE]
  PROVE  Sane(d) /\ d.state = "Connecting" /\ d.local = c.local /\ d.remote = c.remote
<1>1. PICK st1, lo, re1, wi1, vs1, va1, vr1, q1, un1, ra1, pc1, lc1, pe1, ca1, cr1 :
         c = CircuitRecord(st1, lo, re1, wi1, vs1, va1, vr1, q1, un1, ra1, pc1, lc1,
                           pe1, ca1, cr1)
  BY DEF Sane, IsRecord
<1>2. /\ c.state = st1 /\ c.local = lo /\ c.remote = re1
      /\ st1 \in States /\ wi1 \in Nat /\ IsFiniteSet(un1) /\ IsSequence(q1)
  BY <1>1, RecordFields DEF Sane
<1>3. PICK yes, zero : yes = TRUE /\ zero = 0
  OBVIOUS
<1>4. d = CircuitRecord("Connecting", lo, re1, wi1, vs1, va1, vr1, q1, un1, ra1, pc1, lc1,
                          pe1, yes, zero)
  BY <1>1, <1>3 DEF CircuitRecord
<1> QED BY <1>2, <1>4, RecordFields DEF States

LEMMA DisconnectingCircuit ==
  ASSUME NEW c, Sane(c), NEW d,
         d = [c EXCEPT !.state = "Disconnecting", !.controlRetries = 0, !.controlArmed = TRUE]
  PROVE  Sane(d) /\ d.state = "Disconnecting" /\ d.local = c.local /\ d.remote = c.remote
<1>1. PICK st1, lo, re1, wi1, vs1, va1, vr1, q1, un1, ra1, pc1, lc1, pe1, ca1, cr1 :
         c = CircuitRecord(st1, lo, re1, wi1, vs1, va1, vr1, q1, un1, ra1, pc1, lc1,
                           pe1, ca1, cr1)
  BY DEF Sane, IsRecord
<1>2. /\ c.state = st1 /\ c.local = lo /\ c.remote = re1
      /\ st1 \in States /\ wi1 \in Nat /\ IsFiniteSet(un1) /\ IsSequence(q1)
  BY <1>1, RecordFields DEF Sane
<1>3. PICK yes, zero : yes = TRUE /\ zero = 0
  OBVIOUS
<1>4. d = CircuitRecord("Disconnecting", lo, re1, wi1, vs1, va1, vr1, q1, un1, ra1, pc1, lc1,
                          pe1, yes, zero)
  BY <1>1, <1>3 DEF CircuitRecord
<1> QED BY <1>2, <1>4, RecordFields DEF States

Became(c, d, state, remote) ==
  Sane(d) /\ d.state = state /\ d.local = c.local /\ d.remote = remote

LEMMA HeardCircuit ==
  ASSUME NEW c, Sane(c), NEW re
  PROVE  Became(c, [c EXCEPT !.remote = re, !.controlArmed = FALSE],
                c.state, re)
<1> PICK d : d = [c EXCEPT !.remote = re, !.controlArmed = FALSE]
  OBVIOUS
<1>1. PICK st1, lo, re1, wi1, vs1, va1, vr1, q1, un1, ra1, pc1, lc1, pe1, ca1, cr1 :
         c = CircuitRecord(st1, lo, re1, wi1, vs1, va1, vr1, q1, un1, ra1, pc1, lc1,
                           pe1, ca1, cr1)
  BY DEF Sane, IsRecord
<1>2. /\ c.state = st1 /\ c.local = lo /\ c.remote = re1
      /\ st1 \in States /\ wi1 \in Nat /\ IsFiniteSet(un1) /\ IsSequence(q1)
  BY <1>1, RecordFields DEF Sane
<1> PICK no : no = FALSE
  OBVIOUS
<1>3. d = CircuitRecord(st1, lo, re, wi1, vs1, va1, vr1, q1, un1, ra1, pc1, lc1,
                          pe1, no, cr1)
  BY <1>1 DEF CircuitRecord
<1> QED BY <1>2, <1>3, RecordFields DEF States, Became

LEMMA UpCircuit ==
  ASSUME NEW c, Sane(c), NEW wi \in Nat
  PROVE  Became(c, [c EXCEPT !.state = "Connected", !.window = wi],
                "Connected", c.remote)
<1> PICK d : d = [c EXCEPT !.state = "Connected", !.window = wi]
  OBVIOUS
<1>1. PICK st1, lo, re1, wi1, vs1, va1, vr1, q1, un1, ra1, pc1, lc1, pe1, ca1, cr1 :
         c = CircuitRecord(st1, lo, re1, wi1, vs1, va1, vr1, q1, un1, ra1, pc1, lc1,
                           pe1, ca1, cr1)
  BY DEF Sane, IsRecord
<1>2. /\ c.state = st1 /\ c.local = lo /\ c.remote = re1
      /\ st1 \in States /\ wi1 \in Nat /\ IsFiniteSet(un1) /\ IsSequence(q1)
  BY <1>1, RecordFields DEF Sane
<1>3. d = CircuitRecord("Connected", lo, re1, wi, vs1, va1, vr1, q1, un1, ra1, pc1, lc1,
                          pe1, ca1, cr1)
  BY <1>1 DEF CircuitRecord
<1> QED BY <1>2, <1>3, RecordFields DEF States, Became

LEMMA AcceptedCircuit ==
  ASSUME NEW c, Sane(c), NEW re, NEW wi \in Nat
  PROVE  Became(c, [c EXCEPT !.remote = re, !.state = "Connected", !.window = wi],
                "Connected", re)
<1> PICK d : d = [c EXCEPT !.remote = re, !.state = "Connected", !.window = wi]
  OBVIOUS
<1>1. PICK st1, lo, re1, wi1, vs1, va1, vr1, q1, un1, ra1, pc1, lc1, pe1, ca1, cr1 :
         c = CircuitRecord(st1, lo, re1, wi1, vs1, va1, vr1, q1, un1, ra1, pc1, lc1,
                           pe1, ca1, cr1)
  BY DEF Sane, IsRecord
<1>2. /\ c.state = st1 /\ c.local = lo /\ c.remote = re1
      /\ st1 \in States /\ wi1 \in Nat /\ IsFiniteSet(un1) /\ IsSequence(q1)
  BY <1>1, RecordFields DEF Sane
<1>3. d = CircuitRecord("Connected", lo, re, wi, vs1, va1, vr1, q1, un1, ra1, pc1, lc1,
                          pe1, ca1, cr1)
  BY <1>1 DEF CircuitRecord
<1> QED BY <1>2, <1>3, RecordFields DEF States, Became

-----------------------------------------------------------------------------
(***************************************************************************)
(* Calls that leave a circuit with its peer.                               *)
(***************************************************************************)
LEMMA QuietCall ==
  ASSUME NEW c, Sane(c)
  PROVE  Call(c, Quiet(c))
<1>1. PICK r : r = Quiet(c)
  OBVIOUS
<1>2. r.c = c /\ r.out = <<>> /\ r.ev = <<>>
  BY <1>1 DEF Quiet, Result
<1>3. Speaks(c, <<>>)
  BY NothingIs DEF Speaks
<1> QED BY <1>1, <1>2, <1>3, NothingIs DEF Call

LEMMA ClosingConcat ==
  ASSUME NEW s, NEW t, IsSequence(s), IsSequence(t), NEW u, u = s \o t
  PROVE  IsSequence(u) /\ (Closing(s) \/ Closing(t) => Closing(u))
<1>1. /\ IsSequence(u)
      /\ \A i \in DOMAIN s : i \in DOMAIN u /\ u[i] = s[i]
      /\ \A i \in DOMAIN t : Len(s) + i \in DOMAIN u /\ u[Len(s) + i] = t[i]
  <2>1. Joined(s, t, u)
    BY ConcatIs
  <2> QED BY <2>1 DEF Joined
<1>2. ASSUME Closing(s) PROVE Closing(u)
  BY <1>1, <1>2 DEF Closing
<1>3. ASSUME Closing(t) PROVE Closing(u)
  <2>1. PICK i \in DOMAIN t : t[i].type = "Closed"
    BY <1>3 DEF Closing
  <2>2. PICK k : k = Len(s) + i
    OBVIOUS
  <2>3. k \in DOMAIN u /\ u[k].type = "Closed"
    BY <1>1, <2>1, <2>2
  <2> QED BY <2>3 DEF Closing
<1> QED BY <1>1, <1>2, <1>3

\* What a circuit says once a call is half done it could say before it.
LEMMA ThenCall ==
  ASSUME NEW c, NEW r, NEW s, Call(c, r), Call(r.c, s)
  PROVE  Call(c, Then(r, s))
<1>1. PICK t : t = Then(r, s)
  OBVIOUS
<1>2. t.c = s.c /\ t.out = r.out \o s.out /\ t.ev = r.ev \o s.ev
  BY <1>1 DEF Then, Result
<1>3. PICK o1, o2, o, e1, e2, e :
         /\ o1 = r.out /\ o2 = s.out /\ o = t.out
         /\ e1 = r.ev /\ e2 = s.ev /\ e = t.ev
  OBVIOUS
<1>4. /\ IsSequence(o1) /\ IsSequence(o2) /\ o = o1 \o o2
      /\ IsSequence(e1) /\ IsSequence(e2) /\ e = e1 \o e2
  BY <1>2, <1>3 DEF Call, Speaks
<1>5. Speaks(c, o)
  <2>1. ASSUME NEW d, Spoken(r.c, d) PROVE Spoken(c, d)
    BY <2>1 DEF Spoken, Call
  <2>2. (\A i \in DOMAIN o1 : Spoken(c, o1[i])) /\ \A i \in DOMAIN o2 : Spoken(c, o2[i])
    BY <1>3, <2>1 DEF Call, Speaks
  <2>3. Joined(o1, o2, o)
    BY <1>4, ConcatIs
  <2>4. \A i \in DOMAIN o : Spoken(c, o[i])
    BY <2>2, <2>3 DEF Joined
  <2> QED BY <2>3, <2>4 DEF Speaks, Joined
<1>6. IsSequence(e) /\ (Closing(e1) \/ Closing(e2) => Closing(e))
  BY <1>4, ClosingConcat
<1>7. \/ t.c.state = c.state
      \/ c.state = "Connected" /\ t.c.state = "Disconnecting"
      \/ t.c.state = "Disconnected" /\ Closing(t.ev)
  BY <1>2, <1>3, <1>6 DEF Call
<1>8. Sane(t.c) /\ t.c.local = c.local /\ t.c.remote = c.remote
  BY <1>2 DEF Call
<1> QED BY <1>1, <1>3, <1>5, <1>6, <1>7, <1>8 DEF Call

\* A call on a circuit whose streams have been brought up to date first.
LEMMA AlikeCall ==
  ASSUME NEW c, NEW d, Alike(c, d), NEW r, Call(d, r)
  PROVE  Call(c, r)
<1>1. d.local = c.local /\ d.remote = c.remote /\ d.state = c.state
  BY DEF Alike
<1>2. \A x : Spoken(d, x) => Spoken(c, x)
  BY <1>1 DEF Spoken
<1> QED BY <1>1, <1>2 DEF Call, Speaks

\* A circuit whose streams changed, and that said s of it.
LEMMA SaidCall ==
  ASSUME NEW c, NEW d, Alike(c, d), NEW out, Speaks(c, out), NEW ev, IsSequence(ev)
  PROVE  Call(c, Result(d, out, ev))
<1>1. PICK r : r = Result(d, out, ev)
  OBVIOUS
<1>2. r.c = d /\ r.out = out /\ r.ev = ev
  BY <1>1 DEF Result
<1> QED BY <1>1, <1>2 DEF Call, Alike

LEMMA SaysNothing == ASSUME NEW c PROVE Speaks(c, <<>>)
  BY NothingIs DEF Speaks

LEMMA SaysOne ==
  ASSUME NEW c, NEW d, Spoken(c, d)
  PROVE  Speaks(c, <<d>>)
<1>1. IsSequence(<<d>>)
  BY OneIs
<1>2. \A i \in DOMAIN <<d>> : <<d>>[i] = d
  OBVIOUS
<1> QED BY <1>1, <1>2 DEF Speaks

LEMMA SaysInformation ==
  ASSUME NEW c, NEW n \in Nat, NEW out, out = [i \in 1 .. n |-> out[i]],
         \A i \in 1 .. n : out[i].op = "Information"
  PROVE  Speaks(c, out)
<1>1. out \in Seq({out[i] : i \in 1 .. n}) /\ DOMAIN out = 1 .. n
  OBVIOUS
<1> QED BY <1>1, SequenceIs DEF Speaks, Spoken

LEMMA ImageFinite ==
  ASSUME NEW S, IsFiniteSet(S), NEW f, f = [x \in S |-> f[x]]
  PROVE  IsFiniteSet({f[x] : x \in S})
<1>1. f \in Surjection(S, {f[x] : x \in S})
  BY DEF Surjection
<1> QED BY <1>1, FS_Surjection

LEMMA AlikeSelf == ASSUME NEW c, Sane(c) PROVE Alike(c, c)
  BY DEF Alike

LEMMA AlikeTrans ==
  ASSUME NEW c, NEW d, NEW e, Alike(c, d), Alike(d, e)
  PROVE  Alike(c, e)
  BY DEF Alike

-----------------------------------------------------------------------------
LEMMA CloseCall ==
  ASSUME NEW c, Sane(c), NEW reason
  PROVE  /\ Call(c, Close(c, reason))
         /\ Close(c, reason).c.state = "Disconnected"
<1>1. CASE c.state = "Disconnected"
  <2>1. Close(c, reason) = Quiet(c)
    BY <1>1 DEF Close
  <2>2. Quiet(c).c = c
    BY DEF Quiet, Result
  <2> QED BY <1>1, <2>1, <2>2, QuietCall
<1>2. CASE c.state # "Disconnected"
  <2>1. PICK r, d : /\ r = Close(c, reason)
                    /\ d = [c EXCEPT !.state = "Disconnected", !.controlArmed = FALSE,
                                     !.unacked = {}, !.sendQueue = <<>>, !.reassembly = <<>>]
    OBVIOUS
  <2>2. r.c = d /\ r.out = <<>> /\ r.ev = <<[type |-> "Closed", reason |-> reason]>>
    BY <1>2, <2>1 DEF Close, Result
  <2>3. Sane(d) /\ d.state = "Disconnected" /\ d.local = c.local /\ d.remote = c.remote
    BY <2>1, ClosedCircuit
  <2>4. Closing(r.ev) /\ IsSequence(r.ev)
    BY <2>2, OneIs DEF Closing
  <2> QED BY <2>1, <2>2, <2>3, <2>4, SaysNothing DEF Call
<1> QED BY <1>1, <1>2

LEMMA PumpCall ==
  ASSUME NEW c, Sane(c)
  PROVE  Call(c, Pump(c)) /\ Alike(c, Pump(c).c) /\ Pump(c).ev = <<>>
<1>1. PICK n : n = Room(c)
  OBVIOUS
<1>2. PICK S : c.sendQueue \in Seq(S)
  BY DEF Sane, IsSequence
<1>3. n \in 0 .. Len(c.sendQueue)
  <2>1. Cardinality(c.unacked) \in Nat /\ c.window \in Nat /\ Len(c.sendQueue) \in Nat
    BY <1>2, FS_CardinalityType DEF Sane
  <2> QED BY <1>1, <2>1 DEF Room, Least
<1>4. PICK q, un, vs, d : /\ q = SubSeq(c.sendQueue, n + 1, Len(c.sendQueue))
                          /\ un = c.unacked \cup {InFlight(c, i) : i \in 1 .. n}
                          /\ vs = c.vs + n
                          /\ d = [c EXCEPT !.vs = vs, !.sendQueue = q, !.unacked = un]
  OBVIOUS
<1>5. IsSequence(q)
  <2>1. q \in Seq(S)
    BY <1>2, <1>3, <1>4
  <2> QED BY <2>1, SequenceIs
<1>6. IsFiniteSet(un)
  <2>1. n \in Nat
    BY <1>2, <1>3
  <2>2. IsFiniteSet(1 .. n)
    BY <2>1, FS_Interval
  <2>3. PICK f : f = [i \in 1 .. n |-> InFlight(c, i)]
    OBVIOUS
  <2>4. {InFlight(c, i) : i \in 1 .. n} = {f[i] : i \in 1 .. n}
    BY <2>3
  <2>5. f = [i \in 1 .. n |-> f[i]]
    BY <2>3
  <2>6. IsFiniteSet({f[i] : i \in 1 .. n})
    BY <2>2, <2>5, ImageFinite
  <2> QED BY <1>4, <2>4, <2>6, FS_Union DEF Sane
<1>7. Alike(c, d)
  BY <1>4, <1>5, <1>6, Altered
<1>8. Pump(c) = Result(d, [i \in 1 .. n |-> Information(c, InFlight(c, i))], <<>>)
  BY <1>1, <1>4 DEF Pump
<1>9. Speaks(c, [i \in 1 .. n |-> Information(c, InFlight(c, i))])
  <2>1. n \in Nat
    BY <1>2, <1>3
  <2>2. PICK out : out = [i \in 1 .. n |-> Information(c, InFlight(c, i))]
    OBVIOUS
  <2>3. out = [i \in 1 .. n |-> out[i]] /\ \A i \in 1 .. n : out[i].op = "Information"
    BY <2>2 DEF Information
  <2> QED BY <2>1, <2>2, <2>3, SaysInformation
<1>10. Pump(c).c = d /\ Pump(c).ev = <<>>
  BY <1>8 DEF Result
<1> QED BY <1>7, <1>8, <1>9, <1>10, SaidCall, NothingIs

-----------------------------------------------------------------------------
(***************************************************************************)
(* The calls of NetRomCircuit, one by one.                                 *)
(***************************************************************************)
LEMMA AbsorbAlike ==
  ASSUME NEW c, Sane(c), NEW expected
  PROVE  Alike(c, AbsorbAck(c, expected))
<1>1. PICK un : un = {u \in c.unacked : ~SeqAcked(Wire(u.pos), expected)}
  OBVIOUS
<1>2. IsFiniteSet(un)
  BY <1>1, FS_Subset DEF Sane
<1>3. AbsorbAck(c, expected) = [c EXCEPT !.va = expected, !.unacked = un]
  BY <1>1 DEF AbsorbAck
<1>4. Alike(c, [c EXCEPT !.va = expected, !.unacked = un])
  BY <1>2, NothingIs, Altered
<1> QED BY <1>3, <1>4

LEMMA ChokeAlike ==
  ASSUME NEW c, Sane(c), NEW choke
  PROVE  Alike(c, ApplyPeerChoke(c, choke)) /\ Alike(c, MaybeAssertChoke(c))
<1>1. IsFiniteSet(c.unacked)
  BY DEF Sane
<1>2. PICK yes : yes = TRUE
  OBVIOUS
<1>3. Alike(c, [c EXCEPT !.peerChoked = choke]) /\ Alike(c, [c EXCEPT !.localChoked = yes])
  BY <1>1, NothingIs, Altered
<1>4. Alike(c, c)
  BY AlikeSelf
<1> QED BY <1>2, <1>3, <1>4 DEF ApplyPeerChoke, MaybeAssertChoke

LEMMA RetriedFinite ==
  ASSUME NEW S, IsFiniteSet(S)
  PROVE  IsFiniteSet(Retried(S))
<1>1. PICK f : f = [u \in S |-> [u EXCEPT !.retries = @ + 1]]
  OBVIOUS
<1>2. Retried(S) = {f[u] : u \in S} /\ f = [u \in S |-> f[u]]
  BY <1>1 DEF Retried
<1>3. IsFiniteSet({f[u] : u \in S})
  BY <1>2, ImageFinite
<1> QED BY <1>2, <1>3

LEMMA ResendSpeaks ==
  ASSUME NEW c, NEW b, NEW S, IsFiniteSet(S)
  PROVE  Speaks(c, Resend(b, S))
<1>1. PICK n, out : n = Cardinality(S) /\ out = Resend(b, S)
  OBVIOUS
<1>2. n \in Nat
  BY <1>1, FS_CardinalityType
<1>3. out = [i \in 1 .. n |-> Information(b, OldestFirst(S)[i])]
  BY <1>1 DEF Resend
<1>4. out = [i \in 1 .. n |-> out[i]] /\ \A i \in 1 .. n : out[i].op = "Information"
  BY <1>3 DEF Information
<1> QED BY <1>1, <1>2, <1>4, SaysInformation

LEMMA RetransmitCall ==
  ASSUME NEW c, Sane(c), NEW seq
  PROVE  Call(c, RetransmitFrom(c, seq))
<1>1. PICK range, un, d :
         /\ range = {u \in c.unacked : \/ Wire(u.pos) = seq
                                       \/ Mod256After(Wire(u.pos), seq)}
         /\ un = (c.unacked \ range) \cup Retried(range)
         /\ d = [c EXCEPT !.unacked = un]
  OBVIOUS
<1>2. IsFiniteSet(range) /\ IsFiniteSet(c.unacked \ range)
  BY <1>1, FS_Subset DEF Sane
<1>3. IsFiniteSet(un)
  BY <1>1, <1>2, RetriedFinite, FS_Union
<1>4. Alike(c, d)
  BY <1>1, <1>3, NothingIs, Altered
<1>5. Speaks(c, Resend(c, range))
  BY <1>2, ResendSpeaks
<1>6. Call(c, Result(d, Resend(c, range), <<>>)) /\ Call(c, Close(c, "Timeout"))
  BY <1>4, <1>5, SaidCall, NothingIs, CloseCall
<1>7. \/ RetransmitFrom(c, seq) = Result(d, Resend(c, range), <<>>)
      \/ RetransmitFrom(c, seq) = Close(c, "Timeout")
  BY <1>1 DEF RetransmitFrom
<1> QED BY <1>6, <1>7

LEMMA TickInformationCall ==
  ASSUME NEW c, Sane(c)
  PROVE  Call(c, TickInformation(c))
<1>1. PICK un, d : un = Retried(c.unacked) /\ d = [c EXCEPT !.unacked = un]
  OBVIOUS
<1>2. IsFiniteSet(un)
  BY <1>1, RetriedFinite DEF Sane
<1>3. Alike(c, d)
  BY <1>1, <1>2, NothingIs, Altered
<1>4. Speaks(c, Resend(c, c.unacked))
  BY ResendSpeaks DEF Sane
<1>5. Call(c, Result(d, Resend(c, c.unacked), <<>>)) /\ Call(c, Close(c, "Timeout"))
  BY <1>3, <1>4, SaidCall, NothingIs, CloseCall
<1>6. \/ TickInformation(c) = Result(d, Resend(c, c.unacked), <<>>)
      \/ TickInformation(c) = Close(c, "Timeout")
  BY <1>1 DEF TickInformation
<1> QED BY <1>5, <1>6

LEMMA TickControlCall ==
  ASSUME NEW c, Sane(c)
  PROVE  Call(c, TickControl(c))
<1>1. PICK k, d : k = c.controlRetries + 1 /\ d = [c EXCEPT !.controlRetries = k]
  OBVIOUS
<1>2. Alike(c, d)
  <2>1. IsFiniteSet(c.unacked)
    BY DEF Sane
  <2> QED BY <1>1, <2>1, NothingIs, Altered
<1>3. PICK out : out = CASE c.state = "Connecting" -> <<ConnectRequest(c)>>
                         [] c.state = "Disconnecting" -> <<DisconnectRequest(c)>>
                         [] OTHER -> <<>>
  OBVIOUS
<1>4. TickControl(c) = Result(d, out, <<>>)
  BY <1>1, <1>3 DEF TickControl
<1>5. Speaks(c, out)
  <2>1. CASE c.state = "Connecting"
    <3>1. Clamp(WindowSize) \in Nat
      BY CircuitAssumption, ClampIs
    <3>2. out = <<ConnectRequest(c)>> /\ Spoken(c, ConnectRequest(c))
      BY <1>3, <2>1, <3>1 DEF Spoken, ConnectRequest
    <3> QED BY <3>2, SaysOne
  <2>2. CASE c.state = "Disconnecting"
    <3>1. out = <<DisconnectRequest(c)>> /\ Spoken(c, DisconnectRequest(c))
      BY <1>3, <2>2 DEF Spoken, DisconnectRequest
    <3> QED BY <3>1, SaysOne
  <2>3. CASE c.state # "Connecting" /\ c.state # "Disconnecting"
    BY <1>3, <2>3, SaysNothing
  <2> QED BY <2>1, <2>2, <2>3
<1> QED BY <1>2, <1>4, <1>5, SaidCall, NothingIs

LEMMA TickCall ==
  ASSUME NEW c, Sane(c)
  PROVE  Call(c, Tick(c, TRUE, TRUE))
<1>1. PICK r : r = IF c.controlArmed THEN TickControl(c) ELSE Quiet(c)
  OBVIOUS
<1>2. Call(c, r)
  BY <1>1, TickControlCall, QuietCall
<1>3. Call(c, Then(r, TickInformation(r.c)))
  <2>1. Call(r.c, TickInformation(r.c))
    BY <1>2, TickInformationCall DEF Call
  <2> QED BY <1>2, <2>1, ThenCall
<1>4. \/ Tick(c, TRUE, TRUE) = Close(c, "Timeout")
      \/ Tick(c, TRUE, TRUE) = r
      \/ Tick(c, TRUE, TRUE) = Then(r, TickInformation(r.c))
  BY <1>1 DEF Tick
<1> QED BY <1>2, <1>3, <1>4, CloseCall

LEMMA DisconnectCall ==
  ASSUME NEW c, Sane(c)
  PROVE  Call(c, Disconnect(c))
<1>1. CASE c.state = "Connected"
  <2>1. PICK d, r : /\ r = Disconnect(c)
                    /\ d = [c EXCEPT !.state = "Disconnecting", !.controlRetries = 0,
                                     !.controlArmed = TRUE]
    OBVIOUS
  <2>2. /\ Sane(d) /\ d.state = "Disconnecting"
        /\ d.local = c.local /\ d.remote = c.remote
    BY <2>1, DisconnectingCircuit
  <2>3. r.c = d /\ r.out = <<DisconnectRequest(c)>> /\ r.ev = <<>>
    BY <1>1, <2>1 DEF Disconnect, Result
  <2>4. Spoken(c, DisconnectRequest(c))
    BY <1>1 DEF Spoken, DisconnectRequest
  <2> QED BY <1>1, <2>1, <2>2, <2>3, <2>4, SaysOne, NothingIs DEF Call
<1>2. CASE c.state # "Connected"
  <2>1. Disconnect(c) = Quiet(c) \/ Disconnect(c) = Close(c, "Normal")
    BY <1>2 DEF Disconnect, Sane, States
  <2> QED BY <2>1, QuietCall, CloseCall
<1> QED BY <1>1, <1>2

LEMMA SendCall ==
  ASSUME NEW c, Sane(c), NEW x
  PROVE  Call(c, Send(c, <<x>>))
<1>1. PICK count, f, q, d :
         /\ count = (Len(<<x>>) + FragmentSize - 1) \div FragmentSize
         /\ f = Fragments(<<x>>) /\ q = c.sendQueue \o f
         /\ d = [c EXCEPT !.sendQueue = q]
  OBVIOUS
<1>2. count \in Nat
  <2>1. Len(<<x>>) = 1 /\ FragmentSize \in Nat /\ FragmentSize > 0
    BY CircuitAssumption
  <2>2. count = FragmentSize \div FragmentSize
    BY <1>1, <2>1
  <2> QED BY <2>1, <2>2
<1>3. IsSequence(f)
  <2>1. f = [i \in 1 .. count |-> f[i]]
    BY <1>1 DEF Fragments
  <2>2. f \in Seq({f[i] : i \in 1 .. count})
    BY <1>2, <2>1
  <2> QED BY <2>2, SequenceIs
<1>4. IsSequence(q)
  <2>1. Joined(c.sendQueue, f, q)
    BY <1>1, <1>3, ConcatIs DEF Sane
  <2> QED BY <2>1 DEF Joined
<1>5. Alike(c, d)
  <2>1. IsFiniteSet(c.unacked)
    BY DEF Sane
  <2> QED BY <1>1, <1>4, <2>1, Altered
<1>6. Call(c, Pump(d))
  BY <1>5, PumpCall, AlikeCall DEF Alike
<1>7. Send(c, <<x>>) = Quiet(c) \/ Send(c, <<x>>) = Pump(d)
  BY <1>1 DEF Send
<1> QED BY <1>6, <1>7, QuietCall

-----------------------------------------------------------------------------
LEMMA TakeInCall ==
  ASSUME NEW c, Sane(c), NEW m
  PROVE  Call(c, TakeInSequence(c, m))
<1>1. PICK vr, whole, nothing, pend :
         /\ vr = c.vr + 1 /\ whole = c.reassembly \o m.bytes /\ nothing = <<>>
         /\ pend = IF ChokeThreshold > 0 THEN c.pending + 1 ELSE c.pending
  OBVIOUS
<1>2. PICK stepped : stepped = [c EXCEPT !.vr = vr]
  OBVIOUS
<1>3. PICK held, dropped, cleared :
         /\ held = [stepped EXCEPT !.reassembly = whole]
         /\ dropped = [stepped EXCEPT !.reassembly = nothing]
         /\ cleared = [stepped EXCEPT !.reassembly = nothing,
                                      !.pending = IF ChokeThreshold > 0 THEN @ + 1 ELSE @]
  OBVIOUS
<1>4. Alike(c, stepped)
  <2>1. IsFiniteSet(c.unacked)
    BY DEF Sane
  <2> QED BY <1>2, <2>1, NothingIs, Altered
<1>5. Alike(c, held) /\ Alike(c, dropped) /\ Alike(c, cleared)
  <2>1. Sane(stepped) /\ IsFiniteSet(stepped.unacked)
    BY <1>4 DEF Alike, Sane
  <2>2. Alike(stepped, held) /\ Alike(stepped, dropped)
    BY <1>3, <2>1, NothingIs, Altered
  <2>3. PICK pe : pe = IF ChokeThreshold > 0 THEN stepped.pending + 1 ELSE stepped.pending
    OBVIOUS
  <2>4. cleared = [stepped EXCEPT !.reassembly = nothing, !.pending = pe]
    BY <1>3, <2>3
  <2>5. Alike(stepped, cleared)
    BY <2>1, <2>4, NothingIs, Altered
  <2> QED BY <1>4, <2>2, <2>5, AlikeTrans
<1>6. PICK delivered : delivered = MaybeAssertChoke(cleared)
  OBVIOUS
<1>7. Alike(c, delivered)
  <2>1. Alike(cleared, MaybeAssertChoke(cleared))
    BY <1>5, ChokeAlike DEF Alike
  <2> QED BY <1>5, <1>6, <2>1, AlikeTrans
<1>8. Call(c, Disconnect(dropped))
  BY <1>5, DisconnectCall, AlikeCall DEF Alike
<1>9. ASSUME NEW after, Alike(c, after), NEW ev, IsSequence(ev)
      PROVE  Call(c, Then(Result(after, <<InformationAcknowledge(after, FALSE)>>, ev),
                          Pump(after)))
  <2>1. PICK r : r = Result(after, <<InformationAcknowledge(after, FALSE)>>, ev)
    OBVIOUS
  <2>2. Spoken(c, InformationAcknowledge(after, FALSE))
    BY DEF Spoken, InformationAcknowledge
  <2>3. Call(c, r) /\ r.c = after
    BY <1>9, <2>1, <2>2, SaysOne, SaidCall DEF Result
  <2>4. Call(after, Pump(after))
    BY <1>9, PumpCall DEF Alike
  <2> QED BY <2>1, <2>3, <2>4, ThenCall
<1>10. PICK complete, data : /\ complete = (~m.more /\ whole # <<>>)
                             /\ data = <<[type |-> "DataReceived", data |-> whole]>>
  OBVIOUS
<1>11. IsSequence(data)
  BY <1>10, OneIs
<1>12. \/ TakeInSequence(c, m) = Disconnect(dropped)
       \/ TakeInSequence(c, m)
            = Then(Result(delivered, <<InformationAcknowledge(delivered, FALSE)>>, data),
                   Pump(delivered))
       \/ TakeInSequence(c, m)
            = Then(Result(held, <<InformationAcknowledge(held, FALSE)>>, <<>>), Pump(held))
  BY <1>1, <1>2, <1>3, <1>6, <1>10 DEF TakeInSequence
<1> QED BY <1>5, <1>7, <1>8, <1>9, <1>11, <1>12, NothingIs

LEMMA OnInformationCall ==
  ASSUME NEW c, Sane(c), NEW m
  PROVE  Call(c, OnInformation(c, m))
<1>1. PICK absorbed, heard, gap :
         /\ absorbed = AbsorbAck(c, m.rx)
         /\ heard = ApplyPeerChoke(absorbed, m.choke)
         /\ gap = Mod256After(m.tx, Wire(c.vr))
  OBVIOUS
<1>2. Alike(c, heard)
  <2>1. Alike(c, absorbed)
    BY <1>1, AbsorbAlike
  <2>2. Alike(absorbed, heard)
    BY <1>1, <2>1, ChokeAlike DEF Alike
  <2> QED BY <2>1, <2>2, AlikeTrans
<1>3. Call(c, TakeInSequence(heard, m))
  BY <1>2, TakeInCall, AlikeCall DEF Alike
<1>4. Call(c, Then(Result(heard, <<InformationAcknowledge(heard, gap)>>, <<>>), Pump(heard)))
  <2>1. PICK r : r = Result(heard, <<InformationAcknowledge(heard, gap)>>, <<>>)
    OBVIOUS
  <2>2. Spoken(c, InformationAcknowledge(heard, gap))
    BY DEF Spoken, InformationAcknowledge
  <2>3. Call(c, r) /\ r.c = heard
    BY <1>2, <2>1, <2>2, SaysOne, SaidCall, NothingIs DEF Result
  <2>4. Call(heard, Pump(heard))
    BY <1>2, PumpCall DEF Alike
  <2> QED BY <2>1, <2>3, <2>4, ThenCall
<1>5. \/ OnInformation(c, m) = Quiet(c)
      \/ OnInformation(c, m) = TakeInSequence(heard, m)
      \/ OnInformation(c, m)
           = Then(Result(heard, <<InformationAcknowledge(heard, gap)>>, <<>>), Pump(heard))
  BY <1>1 DEF OnInformation
<1> QED BY <1>3, <1>4, <1>5, QuietCall

LEMMA OnInformationAcknowledgeCall ==
  ASSUME NEW c, Sane(c), NEW m
  PROVE  Call(c, OnInformationAcknowledge(c, m))
<1>1. PICK choked, heard, r :
         /\ choked = ApplyPeerChoke(c, m.choke)
         /\ heard = AbsorbAck(choked, m.rx)
         /\ r = IF m.nak THEN RetransmitFrom(heard, m.rx) ELSE Quiet(heard)
  OBVIOUS
<1>2. Alike(c, heard)
  <2>1. Alike(c, choked)
    BY <1>1, ChokeAlike
  <2>2. Alike(choked, heard)
    BY <1>1, <2>1, AbsorbAlike DEF Alike
  <2> QED BY <2>1, <2>2, AlikeTrans
<1>3. Call(c, r)
  <2>1. Call(heard, r)
    BY <1>1, <1>2, RetransmitCall, QuietCall DEF Alike
  <2> QED BY <1>2, <2>1, AlikeCall
<1>4. Call(c, Then(r, Pump(r.c)))
  <2>1. Call(r.c, Pump(r.c))
    BY <1>3, PumpCall DEF Call
  <2> QED BY <1>3, <2>1, ThenCall
<1>5. OnInformationAcknowledge(c, m) = Quiet(c)
      \/ OnInformationAcknowledge(c, m) = Then(r, Pump(r.c))
  BY <1>1 DEF OnInformationAcknowledge
<1> QED BY <1>4, <1>5, QuietCall

LEMMA OnDisconnectRequestCall ==
  ASSUME NEW c, Sane(c)
  PROVE  Call(c, OnDisconnectRequest(c)) /\ OnDisconnectRequest(c).c.state = "Disconnected"
<1>1. PICK r, s : /\ r = Result(c, <<DisconnectAcknowledge(c)>>, <<>>)
                  /\ s = Close(c, "Normal")
  OBVIOUS
<1>2. OnDisconnectRequest(c) = Then(r, s)
  BY <1>1 DEF OnDisconnectRequest
<1>3. Call(c, r) /\ r.c = c
  <2>1. Spoken(c, DisconnectAcknowledge(c))
    BY DEF Spoken, DisconnectAcknowledge
  <2> QED BY <1>1, <2>1, AlikeSelf, SaysOne, SaidCall, NothingIs DEF Result
<1>4. Call(c, s) /\ s.c.state = "Disconnected"
  BY <1>1, CloseCall
<1>5. Call(c, Then(r, s))
  BY <1>3, <1>4, ThenCall
<1>6. Then(r, s).c = s.c
  BY DEF Then, Result
<1> QED BY <1>2, <1>4, <1>5, <1>6

\* Every datagram but a Connect Request and the answer to one.
LEMMA PacketCall ==
  ASSUME NEW c, Sane(c), NEW m,
         m.op \in {"ConnectAcknowledge", "DisconnectRequest", "DisconnectAcknowledge",
                   "Information", "InformationAcknowledge"},
         m.op = "ConnectAcknowledge" => c.state # "Connecting"
  PROVE  Call(c, OnPacket(c, m))
<1>2. CASE m.op = "ConnectAcknowledge"
  <2>1. OnPacket(c, m) = Quiet(c)
    BY <1>2 DEF OnPacket, OnConnectAcknowledge
  <2> QED BY <2>1, QuietCall
<1>3. CASE m.op = "DisconnectRequest"
  BY <1>3, OnDisconnectRequestCall DEF OnPacket
<1>4. CASE m.op = "DisconnectAcknowledge"
  <2>1. OnPacket(c, m) = Quiet(c) \/ OnPacket(c, m) = Close(c, "Normal")
    BY <1>4 DEF OnPacket, OnDisconnectAcknowledge
  <2> QED BY <2>1, QuietCall, CloseCall
<1>5. CASE m.op = "Information"
  BY <1>5, OnInformationCall DEF OnPacket
<1>6. CASE m.op = "InformationAcknowledge"
  BY <1>6, OnInformationAcknowledgeCall DEF OnPacket
<1> QED BY <1>2, <1>3, <1>4, <1>5, <1>6

\* The answer.  The circuit learns its peer's key, or is closed.
LEMMA AnswerCall ==
  ASSUME NEW c, Sane(c), NEW m, m.op = "ConnectAcknowledge", c.state = "Connecting",
         NEW r, r = OnPacket(c, m)
  PROVE  /\ Sane(r.c) /\ r.c.local = c.local /\ r.c.remote = m.from
         /\ IsSequence(r.ev) /\ IsSequence(r.out)
         /\ \A i \in DOMAIN r.out : r.out[i].op = "Information"
         /\ \/ ~m.choke /\ r.c.state = "Connected"
            \/ r.c.state = "Disconnected" /\ Closing(r.ev)
<1>1. PICK heard, from : /\ heard = [c EXCEPT !.remote = m.from, !.controlArmed = FALSE]
                         /\ from = m.from
  OBVIOUS
<1>2. /\ Sane(heard) /\ heard.state = "Connecting" /\ heard.local = c.local
      /\ heard.remote = m.from
  <2>1. heard = [c EXCEPT !.remote = from, !.controlArmed = FALSE]
    BY <1>1
  <2>2. Became(c, heard, c.state, from)
    BY <2>1, HeardCircuit
  <2> QED BY <1>1, <2>2 DEF Became
<1>3. CASE m.choke
  <2>1. r = Close(heard, "Refused")
    BY <1>1, <1>3 DEF OnPacket, OnConnectAcknowledge
  <2>2. r.out = <<>>
    BY <1>2, <2>1 DEF Close, Result
  <2> QED BY <1>2, <2>1, <2>2, CloseCall, NothingIs DEF Call
<1>4. CASE ~m.choke
  <2>1. PICK wi : wi = IF m.window \in 1 .. MaxWindow
                       THEN Least(heard.window, m.window) ELSE heard.window
    OBVIOUS
  <2>2. PICK up : up = [heard EXCEPT !.state = "Connected", !.window = wi]
    OBVIOUS
  <2>3. wi \in Nat
    BY <1>2, <2>1 DEF Least, Sane
  <2>4. Sane(up) /\ up.state = "Connected" /\ up.local = c.local /\ up.remote = m.from
    <3>1. Became(heard, up, "Connected", heard.remote)
      BY <1>2, <2>2, <2>3, UpCircuit
    <3> QED BY <1>2, <3>1 DEF Became
  <2>5. PICK s, ev : s = Pump(up) /\ ev = <<[type |-> "Connected"]>>
    OBVIOUS
  <2>6. r = Then(Result(up, <<>>, ev), s)
    BY <1>1, <1>4, <2>1, <2>2, <2>5 DEF OnPacket, OnConnectAcknowledge
  <2>7. r.c = s.c /\ r.out = <<>> \o s.out /\ r.ev = ev \o s.ev
    BY <2>6 DEF Then, Result
  <2>8. Alike(up, s.c) /\ s.ev = <<>> /\ Call(up, s)
    BY <2>4, <2>5, PumpCall
  <2>9. IsSequence(s.out) /\ \A i \in DOMAIN s.out : s.out[i].op = "Information"
    <3>1. \A i \in DOMAIN s.out : s.out[i].op = "Information"
      BY <2>5 DEF Pump, Result, Information
    <3> QED BY <2>8, <3>1 DEF Call, Speaks
  <2>10. r.out = s.out
    <3>1. PICK S : s.out \in Seq(S)
      BY <2>9 DEF IsSequence
    <3> QED BY <2>7, <3>1
  <2>11. IsSequence(r.ev)
    <3>1. PICK e1, e2, e : e1 = ev /\ e2 = s.ev /\ e = e1 \o e2
      OBVIOUS
    <3>2. IsSequence(e1) /\ IsSequence(e2)
      BY <2>5, <2>8, <3>1, OneIs, NothingIs
    <3>3. Joined(e1, e2, e)
      BY <3>1, <3>2, ConcatIs
    <3> QED BY <2>7, <3>1, <3>3 DEF Joined
  <2> QED BY <1>4, <2>4, <2>7, <2>8, <2>9, <2>10, <2>11 DEF Alike
<1> QED BY <1>3, <1>4

-----------------------------------------------------------------------------
(***************************************************************************)
(* Who knows a key, and where an answer is.                                *)
(***************************************************************************)
\* Datagrams lost and restarts have not happened, and no key is used again.
Fresh == spent.loss = 0 /\ spent.restarts = 0 /\ KeysFresh

\* Key k of node x is of a circuit to node y, if the circuit is still there.
Owned(x, y, k) ==
  /\ k \in 0 .. minted[x] - 1
  /\ \A m \in table[x] : Key(m) = k => m.remote = y

\* Key k of node x has been told to somebody: it is not of a circuit that
\* awaits its host's decision.
Told(x, k) ==
  /\ k \in 0 .. minted[x] - 1
  /\ \A m \in table[x] : Key(m) = k => m.c.state # "Disconnected"

Opcodes ==
  {"ConnectRequest", "ConnectAcknowledge", "DisconnectRequest",
   "DisconnectAcknowledge", "Information", "InformationAcknowledge"}

\* Datagram d on its way from node x to node y.
DatagramSound(x, y, d) ==
  /\ d.op \in Opcodes
  /\ d.op = "ConnectRequest" =>
       Owned(x, y, d.from) /\ Told(x, d.from) /\ d.window \in Nat
  /\ d.op = "ConnectAcknowledge" =>
       Owned(y, x, d.key) /\ (~d.choke => Told(x, d.from))
  /\ d.op = "DisconnectRequest" => Told(y, d.key)

\* Circuit m of node n.
EntrySound(n, m) ==
  /\ Sane(m.c)
  /\ Key(m) \in 0 .. minted[n] - 1
  /\ m.remote \in Nodes \ {n}
  /\ m.peer # NoPeer =>
       /\ m.c.state # "Connecting"
       /\ \E k : /\ m.peer = <<m.remote, k>>
                 /\ Owned(m.remote, n, k) /\ Told(m.remote, k)
                 /\ m.c.state # "Disconnected" => m.c.remote = k
  /\ m.c.state = "Disconnected" =>
       /\ m.peer # NoPeer /\ m.c.controlArmed = FALSE
       /\ \E inc \in incoming[n] : inc.key = Key(m)
  /\ m.c.state \in {"Connected", "Disconnecting"} => Told(m.remote, m.c.remote)

\* Circuit inc that awaits the decision of the host of node n.
IncomingSound(n, inc) ==
  /\ inc.key \in 0 .. minted[n] - 1 /\ inc.window \in Nat
  /\ \A m \in table[n] : Key(m) = inc.key =>
       m.c.state = "Disconnected" /\ m.peer = <<m.remote, inc.peer>>
  /\ \A other \in incoming[n] : other.key = inc.key => other = inc

OneKey(T) == \A m1, m2 \in T : Key(m1) = Key(m2) => m1 = m2

Transit(x, y) == ToSet(net[<<x, y>>])

\* The books of the nodes: keys are handed out once, in order, and only those
\* who were told a key use it.
Books ==
  /\ nextKey = [n \in Nodes |-> minted[n] % KeySpace]
  /\ incoming = [n \in Nodes |-> incoming[n]]
  /\ net = [od \in Nodes \X Nodes |-> net[od]]
  /\ \A n \in Nodes : OneKey(table[n])
  /\ \A n \in Nodes : \A m \in table[n] : EntrySound(n, m)
  /\ \A n \in Nodes : \A inc \in incoming[n] : IncomingSound(n, inc)
  /\ \A x, y \in Nodes : IsSequence(net[<<x, y>>])
  /\ \A x, y \in Nodes : \A d \in Transit(x, y) : DatagramSound(x, y, d)

\* Where the answer to the Connect Request of circuit `key' of node n to node o
\* is: on its way, up to the host, or due to the request on its way.
Replied(n, key, o) ==
  \E d \in Transit(o, n) :
    d.op \in {"ConnectAcknowledge", "DisconnectRequest"} /\ d.key = key

Undecided(n, key, o) ==
  \E p \in table[o] : p.peer = <<n, key>> /\ p.c.state = "Disconnected"

Asking(n, key, o) ==
  /\ \E d \in Transit(n, o) : d.op = "ConnectRequest" /\ d.from = key
  /\ \A p \in table[o] : p.peer # <<n, key>>

AnswerDue(n, key, o) == Replied(n, key, o) \/ Undecided(n, key, o) \/ Asking(n, key, o)

AnswersDue ==
  \A n \in Nodes : \A m \in table[n] :
    m.c.state = "Connecting" => AnswerDue(n, Key(m), m.remote)

\* How the bounds and the counts of circuits are kept.
Counted ==
  /\ minted \in [Nodes -> Nat]
  /\ spent.loss \in Nat /\ spent.restarts \in Nat
  /\ \E o, h, r, l, d, e, s :
       spent = [opens |-> o, hangups |-> h, refusals |-> r, loss |-> l,
                duplicates |-> d, expiries |-> e, restarts |-> s]

Ledger == Minted /\ Counted /\ (Fresh => Books /\ AnswersDue)

-----------------------------------------------------------------------------
\* The table of node n becomes T, of circuits it had and one it mints.
Grown(n, T) ==
  \A x \in T :
    \/ \E m \in table[n] : /\ Key(x) = Key(m) /\ x.remote = m.remote
                           /\ x.c.state = "Disconnected" => m.c.state = "Disconnected"
    \/ Key(x) = minted[n]

\* Node n, which minted a circuit or not, ends with the table T.
TableStep(n, T) ==
  /\ table' = [table EXCEPT ![n] = T]
  /\ minted' = minted \/ minted' = [minted EXCEPT ![n] = @ + 1]
  /\ Grown(n, T)

LEMMA TableStepIs ==
  ASSUME Minted, Counted, NEW n \in Nodes, NEW T, TableStep(n, T)
  PROVE  /\ \A k \in Nodes : table'[k] = IF k = n THEN T ELSE table[k]
         /\ \A k \in Nodes : minted[k] \in Nat /\ minted'[k] \in Nat /\ minted[k] <= minted'[k]
<1>1. table = [k \in Nodes |-> table[k]] /\ minted \in [Nodes -> Nat]
  BY DEF Minted, TablesShaped, Counted
<1>2. \A k \in Nodes : table'[k] = IF k = n THEN T ELSE table[k]
  BY <1>1 DEF TableStep
<1>3. \A k \in Nodes : minted[k] \in Nat
  BY <1>1
<1>4. \A k \in Nodes : minted'[k] = minted[k] \/ minted'[k] = minted[k] + 1
  BY <1>1 DEF TableStep
<1> QED BY <1>2, <1>3, <1>4

\* Whom a key is of, and that it was told, stays true.
LEMMA StaysOwned ==
  ASSUME Minted, Counted, NEW n \in Nodes, NEW T, TableStep(n, T),
         NEW x \in Nodes, NEW y, NEW k
  PROVE  (Owned(x, y, k) => Owned(x, y, k)') /\ (Told(x, k) => Told(x, k)')
<1>1. /\ table'[x] = IF x = n THEN T ELSE table[x]
      /\ minted[x] \in Nat /\ minted'[x] \in Nat /\ minted[x] <= minted'[x]
  BY TableStepIs
<1>2. k \in 0 .. minted[x] - 1 => k \in 0 .. minted'[x] - 1 /\ k # minted[x]
  BY <1>1
<1>3. CASE x # n
  BY <1>1, <1>2, <1>3 DEF Owned, Told
<1>4. CASE x = n
  <2>1. \A z \in T : Key(z) # minted[n] =>
          \E m \in table[n] : /\ Key(z) = Key(m) /\ z.remote = m.remote
                              /\ z.c.state = "Disconnected" => m.c.state = "Disconnected"
    BY DEF TableStep, Grown
  <2>2. ASSUME Owned(x, y, k) PROVE Owned(x, y, k)'
    <3>1. \A z \in T : Key(z) = k => z.remote = y
      BY <1>2, <1>4, <2>1, <2>2 DEF Owned
    <3> QED BY <1>1, <1>2, <1>4, <2>2, <3>1 DEF Owned, Key
  <2>3. ASSUME Told(x, k) PROVE Told(x, k)'
    <3>1. \A z \in T : Key(z) = k => z.c.state # "Disconnected"
      BY <1>2, <1>4, <2>1, <2>3 DEF Told
    <3> QED BY <1>1, <1>2, <1>4, <2>3, <3>1 DEF Told, Key
  <2> QED BY <2>2, <2>3
<1> QED BY <1>3, <1>4

\* A datagram that was in order stays so.
LEMMA StaysSound ==
  ASSUME Minted, Counted, NEW n \in Nodes, NEW T, TableStep(n, T),
         NEW x \in Nodes, NEW y \in Nodes, NEW d, DatagramSound(x, y, d)
  PROVE  DatagramSound(x, y, d)'
<1>1. \A k : (Owned(x, y, k) => Owned(x, y, k)') /\ (Told(x, k) => Told(x, k)')
  BY StaysOwned
<1>2. \A k : (Owned(y, x, k) => Owned(y, x, k)') /\ (Told(y, k) => Told(y, k)')
  BY StaysOwned
<1> QED BY <1>1, <1>2 DEF DatagramSound

\* So does a circuit of another node.
LEMMA StaysEntry ==
  ASSUME Minted, Counted, NEW n \in Nodes, NEW T, TableStep(n, T),
         NEW k \in Nodes, NEW m, EntrySound(k, m),
         \A inc \in incoming[k] : inc.key = Key(m) => inc \in incoming'[k]
  PROVE  EntrySound(k, m)'
<1>1. minted[k] \in Nat /\ minted'[k] \in Nat /\ minted[k] <= minted'[k]
  BY TableStepIs
<1>2. m.remote \in Nodes
  BY DEF EntrySound
<1>3. \A y, j : (Owned(m.remote, y, j) => Owned(m.remote, y, j)')
                /\ (Told(m.remote, j) => Told(m.remote, j)')
  BY <1>2, StaysOwned
<1>4. Key(m) \in 0 .. minted'[k] - 1
  BY <1>1 DEF EntrySound
<1>5. m.peer # NoPeer => \E j : /\ m.peer = <<m.remote, j>>
                                /\ Owned(m.remote, k, j)' /\ Told(m.remote, j)'
                                /\ m.c.state # "Disconnected" => m.c.remote = j
  BY <1>3 DEF EntrySound
<1>6. m.c.state = "Disconnected" => \E inc \in incoming'[k] : inc.key = Key(m)
  BY DEF EntrySound
<1>7. m.c.state \in {"Connected", "Disconnecting"} => Told(m.remote, m.c.remote)'
  BY <1>3 DEF EntrySound
<1> QED BY <1>4, <1>5, <1>6, <1>7 DEF EntrySound, Key

\* The datagrams node n puts on the way to node `to' are O, and those it took
\* off the way from node `origin' are in G.
NetStep(n, to, O, origin, G) ==
  /\ net' = [od \in Nodes \X Nodes |-> net'[od]]
  /\ \A x, y \in Nodes :
       /\ IsSequence(net'[<<x, y>>])
       /\ \A d \in Transit(x, y)' : d \in Transit(x, y) \/ (x = n /\ y = to /\ d \in O)
       /\ \A d \in Transit(x, y) : d \in Transit(x, y)' \/ (x = origin /\ y = n /\ d \in G)
  /\ \A d \in O : d \in Transit(n, to)'

\* The books after a step of node n.
LEMMA BooksStep ==
  ASSUME Minted, Counted, Books, NEW n \in Nodes, NEW T, TableStep(n, T), OneKey(T),
         \A x \in T : EntrySound(n, x)',
         NEW I, incoming' = [incoming EXCEPT ![n] = I],
         \A inc \in I : IncomingSound(n, inc)',
         nextKey' = [k \in Nodes |-> minted'[k] % KeySpace],
         NEW to \in Nodes, NEW O, NEW origin, NEW G, NetStep(n, to, O, origin, G),
         \A d \in O : DatagramSound(n, to, d)'
  PROVE  Books'
<1>1. \A k \in Nodes : table'[k] = IF k = n THEN T ELSE table[k]
  BY TableStepIs
<1>2. /\ incoming' = [k \in Nodes |-> incoming'[k]]
      /\ \A k \in Nodes : incoming'[k] = IF k = n THEN I ELSE incoming[k]
  <2>1. incoming = [k \in Nodes |-> incoming[k]]
    BY DEF Books
  <2>2. incoming' = [k \in Nodes |-> IF k = n THEN I ELSE incoming[k]]
    BY <2>1
  <2> QED BY <2>2
<1>3. \A k \in Nodes : OneKey(table'[k])
  BY <1>1 DEF Books
<1>4. ASSUME NEW k \in Nodes, NEW m \in table'[k] PROVE EntrySound(k, m)'
  <2>1. CASE k = n
    BY <1>1, <2>1
  <2>2. CASE k # n
    <3>1. m \in table[k] /\ incoming'[k] = incoming[k]
      BY <1>1, <1>2, <2>2
    <3>2. EntrySound(k, m)
      BY <3>1 DEF Books
    <3> QED BY <3>1, <3>2, StaysEntry
  <2> QED BY <2>1, <2>2
<1>5. ASSUME NEW k \in Nodes, NEW inc \in incoming'[k] PROVE IncomingSound(k, inc)'
  <2>1. CASE k = n
    BY <1>2, <2>1
  <2>2. CASE k # n
    <3>1. /\ incoming'[k] = incoming[k] /\ table'[k] = table[k] /\ inc \in incoming[k]
          /\ minted[k] \in Nat /\ minted'[k] \in Nat /\ minted[k] <= minted'[k]
      BY <1>1, <1>2, <2>2, TableStepIs
    <3>2. IncomingSound(k, inc)
      BY <3>1 DEF Books
    <3> QED BY <3>1, <3>2 DEF IncomingSound, Key
  <2> QED BY <2>1, <2>2
<1>6. ASSUME NEW x \in Nodes, NEW y \in Nodes, NEW d \in Transit(x, y)'
      PROVE  DatagramSound(x, y, d)'
  <2>1. d \in Transit(x, y) \/ (x = n /\ y = to /\ d \in O)
    BY DEF NetStep
  <2>2. CASE d \in Transit(x, y)
    <3>1. DatagramSound(x, y, d)
      BY <2>2 DEF Books
    <3> QED BY <3>1, StaysSound
  <2> QED BY <2>1, <2>2
<1>7. net' = [od \in Nodes \X Nodes |-> net'[od]] /\ \A x, y \in Nodes : IsSequence(net'[<<x, y>>])
  BY DEF NetStep
<1> QED BY <1>2, <1>3, <1>4, <1>5, <1>6, <1>7 DEF Books

\* The circuits T that node n is left with when it took G off the way: what is
\* connecting was so before or is answered for, the decisions due and the
\* replies it took are not forgotten, and it mints only what awaits a decision.
Attends(n, T, origin, G) ==
  /\ \A x \in T : x.c.state = "Connecting" =>
       \/ AnswerDue(n, Key(x), x.remote)'
       \/ \E m \in table[n] : /\ Key(m) = Key(x) /\ m.remote = x.remote
                              /\ m.c.state = "Connecting"
  /\ \A p \in table[n] : p.c.state = "Disconnected" =>
       \/ \E x \in T : x.peer = p.peer /\ x.c.state = "Disconnected"
       \/ \A k, key : p.peer = <<k, key>> => Replied(k, key, n)'
  /\ \A x \in T : \/ x.peer = NoPeer \/ x.c.state = "Disconnected"
                  \/ \E m \in table[n] : m.peer = x.peer
  /\ \A d \in G : d.op = "ConnectRequest" =>
       \/ \E p \in table[n] : p.peer = <<origin, d.from>>
       \/ \E x \in T : x.peer = <<origin, d.from>> /\ x.c.state = "Disconnected"
       \/ Replied(origin, d.from, n)'
  /\ \A d \in G : \A x \in T :
       d.op \in {"ConnectAcknowledge", "DisconnectRequest"} /\ d.key = Key(x) =>
         x.c.state # "Connecting"

\* The answers due after a step of node n.
LEMMA AnswersStep ==
  ASSUME Minted, Counted, Books, AnswersDue,
         NEW n \in Nodes, NEW T, TableStep(n, T),
         NEW to \in Nodes, NEW O, NEW origin \in Nodes, NEW G,
         NetStep(n, to, O, origin, G),
         Attends(n, T, origin, G)
  PROVE  AnswersDue'
<1>1. \A k \in Nodes : table'[k] = IF k = n THEN T ELSE table[k]
  BY TableStepIs
<1> USE DEF Attends
<1> SUFFICES ASSUME NEW k \in Nodes, NEW x \in table'[k], x.c.state = "Connecting"
             PROVE  AnswerDue(k, Key(x), x.remote)'
  BY DEF AnswersDue, Key
<1>2. PICK key, o : key = Key(x) /\ o = x.remote
  OBVIOUS
<1>3. CASE AnswerDue(k, key, o)'
  BY <1>2, <1>3
<1>4. CASE ~ AnswerDue(k, key, o)'
  <2>1. PICK m \in table[k] : Key(m) = key /\ m.remote = o /\ m.c.state = "Connecting"
    <3>1. CASE k = n
      BY <1>1, <1>2, <1>4, <3>1
    <3>2. CASE k # n
      BY <1>1, <1>2, <3>2
    <3> QED BY <3>1, <3>2
  <2>2. AnswerDue(k, key, o) /\ o \in Nodes
    BY <2>1 DEF AnswersDue, Books, EntrySound
  <2>3. CASE Replied(k, key, o)
    <3>1. PICK d \in Transit(o, k) :
            d.op \in {"ConnectAcknowledge", "DisconnectRequest"} /\ d.key = key
      BY <2>3 DEF Replied
    <3>2. d \in Transit(o, k)' \/ (k = n /\ d \in G)
      BY <2>2 DEF NetStep
    <3>3. CASE d \in Transit(o, k)'
      <4>1. Replied(k, key, o)'
        BY <3>1, <3>3 DEF Replied
      <4> QED BY <1>2, <4>1 DEF AnswerDue
    <3>4. CASE k = n /\ d \in G
      BY <1>1, <1>2, <3>1, <3>4
    <3> QED BY <3>2, <3>3, <3>4
  <2>4. CASE Undecided(k, key, o)
    <3>1. PICK p \in table[o] : p.peer = <<k, key>> /\ p.c.state = "Disconnected"
      BY <2>4 DEF Undecided
    <3>2. \/ \E z \in table'[o] : z.peer = p.peer /\ z.c.state = "Disconnected"
          \/ Replied(k, key, o)'
      <4>1. CASE o = n
        BY <1>1, <2>2, <3>1, <4>1
      <4>2. CASE o # n
        BY <1>1, <2>2, <3>1, <4>2
      <4> QED BY <4>1, <4>2
    <3>3. Undecided(k, key, o)' \/ Replied(k, key, o)'
      BY <3>1, <3>2 DEF Undecided
    <3> QED BY <1>2, <3>3 DEF AnswerDue
  <2>5. CASE Asking(k, key, o)
    <3>1. PICK d \in Transit(k, o) : d.op = "ConnectRequest" /\ d.from = key
      BY <2>5 DEF Asking
    <3>2. \A p \in table[o] : p.peer # <<k, key>>
      BY <2>5 DEF Asking
    <3>3. CASE \E z \in table'[o] : z.peer = <<k, key>>
      <4>1. PICK z \in table'[o] : z.peer = <<k, key>>
        BY <3>3
      <4>2. o = n /\ z \in T
        BY <1>1, <2>2, <3>2, <4>1
      <4>3. z.peer # NoPeer
        BY <4>1 DEF NoPeer
      <4>4. z.c.state = "Disconnected"
        BY <3>2, <4>1, <4>2, <4>3
      <4>5. Undecided(k, key, o)'
        BY <4>1, <4>4 DEF Undecided
      <4> QED BY <1>2, <4>5 DEF AnswerDue
    <3>4. CASE ~ \E z \in table'[o] : z.peer = <<k, key>>
      <4>1. d \in Transit(k, o)' \/ (k = origin /\ o = n /\ d \in G)
        BY <2>2 DEF NetStep
      <4>2. CASE d \in Transit(k, o)'
        <5>1. Asking(k, key, o)'
          BY <3>1, <3>4, <4>2 DEF Asking
        <5> QED BY <1>2, <5>1 DEF AnswerDue
      <4>3. CASE k = origin /\ o = n /\ d \in G
        <5>1. \/ \E z \in T : z.peer = <<k, key>> /\ z.c.state = "Disconnected"
              \/ Replied(k, key, n)'
          BY <3>1, <3>2, <4>3
        <5>2. Replied(k, key, o)'
          BY <1>1, <3>4, <4>3, <5>1
        <5> QED BY <1>2, <5>2 DEF AnswerDue
      <4> QED BY <4>1, <4>2, <4>3
    <3> QED BY <3>3, <3>4
  <2> QED BY <2>2, <2>3, <2>4, <2>5 DEF AnswerDue
<1> QED BY <1>3, <1>4

-----------------------------------------------------------------------------
(***************************************************************************)
(* The network before and after a step, and calls on a circuit.            *)
(***************************************************************************)
LEMMA ConcatSet ==
  ASSUME NEW s, NEW t, IsSequence(s), IsSequence(t), NEW u, u = s \o t
  PROVE  IsSequence(u) /\ ToSet(u) = ToSet(s) \cup ToSet(t)
<1>1. Joined(s, t, u)
  BY ConcatIs
<1>2. ASSUME NEW d, d \in ToSet(u) PROVE d \in ToSet(s) \/ d \in ToSet(t)
  <2>1. PICK i \in DOMAIN u : d = u[i]
    BY <1>2 DEF ToSet
  <2>2. \/ i \in DOMAIN s /\ u[i] = s[i]
        \/ \E j \in DOMAIN t : i = Len(s) + j /\ u[i] = t[j]
    BY <1>1 DEF Joined
  <2> QED BY <2>1, <2>2 DEF ToSet
<1>3. ASSUME NEW d, d \in ToSet(s) PROVE d \in ToSet(u)
  <2>1. PICK i \in DOMAIN s : d = s[i]
    BY <1>3 DEF ToSet
  <2>2. i \in DOMAIN u /\ u[i] = s[i]
    BY <1>1 DEF Joined
  <2> QED BY <2>1, <2>2 DEF ToSet
<1>4. ASSUME NEW d, d \in ToSet(t) PROVE d \in ToSet(u)
  <2>1. PICK i \in DOMAIN t : d = t[i]
    BY <1>4 DEF ToSet
  <2>2. PICK k : k = Len(s) + i
    OBVIOUS
  <2>3. k \in DOMAIN u /\ u[k] = t[i]
    BY <1>1, <2>2 DEF Joined
  <2> QED BY <2>1, <2>3 DEF ToSet
<1> QED BY <1>1, <1>2, <1>3, <1>4 DEF Joined

LEMMA TailSet ==
  ASSUME NEW s, IsSequence(s), s # <<>>
  PROVE  /\ IsSequence(Tail(s)) /\ Head(s) \in ToSet(s)
         /\ \A d \in ToSet(Tail(s)) : d \in ToSet(s)
         /\ \A d \in ToSet(s) : d \in ToSet(Tail(s)) \/ d = Head(s)
<1>1. PICK S : s \in Seq(S)
  BY DEF IsSequence
<1>2. PICK t : t = Tail(s)
  OBVIOUS
<1>3. /\ t \in Seq(S) /\ Len(s) \in Nat /\ Len(s) >= 1 /\ Len(t) = Len(s) - 1
      /\ DOMAIN s = 1 .. Len(s) /\ DOMAIN t = 1 .. Len(t) /\ Head(s) = s[1]
      /\ \A i \in 1 .. Len(t) : t[i] = s[i + 1]
  BY <1>1, <1>2
<1>4. Head(s) \in ToSet(s)
  BY <1>3 DEF ToSet
<1>5. ASSUME NEW d \in ToSet(t) PROVE d \in ToSet(s)
  <2>1. PICK i \in 1 .. Len(t) : d = t[i]
    BY <1>3 DEF ToSet
  <2>2. PICK k : k = i + 1
    OBVIOUS
  <2>3. k \in 1 .. Len(s) /\ d = s[k]
    BY <1>3, <2>1, <2>2
  <2> QED BY <1>3, <2>3 DEF ToSet
<1>6. ASSUME NEW d \in ToSet(s), d # Head(s) PROVE d \in ToSet(t)
  <2>1. PICK i \in 1 .. Len(s) : d = s[i]
    BY <1>3 DEF ToSet
  <2>2. PICK k : k = i - 1
    OBVIOUS
  <2>3. k \in 1 .. Len(t) /\ k + 1 = i
    BY <1>3, <1>6, <2>1, <2>2
  <2>4. d = t[k]
    BY <1>3, <2>1, <2>3
  <2> QED BY <1>3, <2>3, <2>4 DEF ToSet
<1> QED BY <1>2, <1>3, <1>4, <1>5, <1>6, SequenceIs

\* The network without some of the datagrams from `origin' to n, all in G.
Without(before, origin, n, G) ==
  /\ before = [od \in Nodes \X Nodes |-> before[od]]
  /\ \A x, y \in Nodes :
       /\ IsSequence(before[<<x, y>>])
       /\ \A d \in ToSet(before[<<x, y>>]) : d \in Transit(x, y)
       /\ \A d \in Transit(x, y) :
            d \in ToSet(before[<<x, y>>]) \/ (x = origin /\ y = n /\ d \in G)

LEMMA WithoutNone ==
  ASSUME Books, NEW origin, NEW n, NEW G
  PROVE  Without(net, origin, n, G)
  BY DEF Books, Without, Transit

LEMMA WithoutHead ==
  ASSUME Books, NEW origin \in Nodes, NEW n \in Nodes, net[<<origin, n>>] # <<>>,
         NEW before, before = [net EXCEPT ![<<origin, n>>] = Tail(@)]
  PROVE  Without(before, origin, n, {Head(net[<<origin, n>>])})
<1>1. net = [od \in Nodes \X Nodes |-> net[od]]
  BY DEF Books
<1>2. PICK s, t : s = net[<<origin, n>>] /\ t = Tail(s)
  OBVIOUS
<1>3. before = [od \in Nodes \X Nodes |-> IF od = <<origin, n>> THEN t ELSE net[od]]
  BY <1>1, <1>2
<1>4. /\ IsSequence(t)
      /\ \A d \in ToSet(t) : d \in ToSet(s)
      /\ \A d \in ToSet(s) : d \in ToSet(t) \/ d = Head(s)
  BY <1>2, TailSet DEF Books
<1>5. before = [od \in Nodes \X Nodes |-> before[od]]
  BY <1>3
<1> SUFFICES ASSUME NEW x \in Nodes, NEW y \in Nodes
             PROVE  /\ IsSequence(before[<<x, y>>])
                    /\ \A d \in ToSet(before[<<x, y>>]) : d \in Transit(x, y)
                    /\ \A d \in Transit(x, y) :
                         \/ d \in ToSet(before[<<x, y>>])
                         \/ (x = origin /\ y = n /\ d \in {Head(net[<<origin, n>>])})
  BY <1>5 DEF Without
<1>6. CASE x = origin /\ y = n
  <2>1. before[<<x, y>>] = t /\ Transit(x, y) = ToSet(s)
    BY <1>2, <1>3, <1>6 DEF Transit
  <2> QED BY <1>2, <1>4, <1>6, <2>1
<1>7. CASE ~ (x = origin /\ y = n)
  <2>1. before[<<x, y>>] = net[<<x, y>>] /\ Transit(x, y) = ToSet(net[<<x, y>>])
    BY <1>3, <1>7 DEF Transit
  <2> QED BY <2>1 DEF Books
<1> QED BY <1>6, <1>7

\* Node n sends `out' to the node `to'.
LEMMA SentStep ==
  ASSUME NEW n \in Nodes, NEW to \in Nodes, NEW origin, NEW G, NEW before,
         Without(before, origin, n, G), NEW out, IsSequence(out),
         net' = Sent(before, n, to, out)
  PROVE  NetStep(n, to, ToSet(out), origin, G)
<1>1. before = [od \in Nodes \X Nodes |-> before[od]]
  BY DEF Without
<1>2. PICK s, t : s = before[<<n, to>>] /\ t = s \o out
  OBVIOUS
<1>3. net' = [od \in Nodes \X Nodes |-> IF od = <<n, to>> THEN t ELSE before[od]]
  BY <1>1, <1>2 DEF Sent
<1>4. net' = [od \in Nodes \X Nodes |-> net'[od]]
  BY <1>3
<1>5. IsSequence(t) /\ ToSet(t) = ToSet(s) \cup ToSet(out)
  <2>1. IsSequence(s)
    BY <1>2 DEF Without
  <2> QED BY <1>2, <2>1, ConcatSet
<1>6. ASSUME NEW x \in Nodes, NEW y \in Nodes
      PROVE  /\ IsSequence(net'[<<x, y>>])
             /\ \A d \in Transit(x, y)' :
                  d \in Transit(x, y) \/ (x = n /\ y = to /\ d \in ToSet(out))
             /\ \A d \in Transit(x, y) :
                  d \in Transit(x, y)' \/ (x = origin /\ y = n /\ d \in G)
  <2>1. /\ IsSequence(before[<<x, y>>])
        /\ \A d \in ToSet(before[<<x, y>>]) : d \in Transit(x, y)
        /\ \A d \in Transit(x, y) :
             d \in ToSet(before[<<x, y>>]) \/ (x = origin /\ y = n /\ d \in G)
    BY DEF Without
  <2>2. CASE x = n /\ y = to
    <3>1. net'[<<x, y>>] = t /\ Transit(x, y)' = ToSet(t) /\ before[<<x, y>>] = s
      BY <1>2, <1>3, <2>2 DEF Transit
    <3> QED BY <1>5, <2>1, <2>2, <3>1
  <2>3. CASE ~ (x = n /\ y = to)
    <3>1. net'[<<x, y>>] = before[<<x, y>>] /\ Transit(x, y)' = ToSet(before[<<x, y>>])
      BY <1>3, <2>3 DEF Transit
    <3> QED BY <2>1, <3>1
  <2> QED BY <2>2, <2>3
<1>7. \A d \in ToSet(out) : d \in Transit(n, to)'
  <2>1. Transit(n, to)' = ToSet(t)
    BY <1>3 DEF Transit
  <2> QED BY <1>5, <2>1
<1> QED BY <1>4, <1>6, <1>7 DEF NetStep

LEMMA SilentStep ==
  ASSUME NEW n \in Nodes, NEW to \in Nodes, NEW origin, NEW G,
         Without(net', origin, n, G)
  PROVE  NetStep(n, to, {}, origin, G)
<1>1. \A x, y : Transit(x, y)' = ToSet(net'[<<x, y>>])
  BY DEF Transit
<1> QED BY <1>1 DEF Without, NetStep

LEMMA SetOfNothing == ToSet(<<>>) = {}
  BY DEF ToSet

LEMMA SetOfOne == ASSUME NEW d PROVE ToSet(<<d>>) = {d}
<1>1. DOMAIN <<d>> = {1} /\ <<d>>[1] = d
  OBVIOUS
<1> QED BY <1>1 DEF ToSet

-----------------------------------------------------------------------------
\* What a call leaves of entry m.
LEMMA CollectedIs ==
  ASSUME NEW m, Entry(m), NEW r
  PROVE  /\ \A x \in Collected(m, r) :
              /\ x.c = r.c /\ x.remote = m.remote /\ x.peer = m.peer
              /\ ~Closing(r.ev)
         /\ \A x, y \in Collected(m, r) : x = y
         /\ Closing(r.ev) \/ \E x \in Collected(m, r) : TRUE
<1>1. CASE Closing(r.ev)
  <2>1. Collected(m, r) = {}
    BY <1>1 DEF Collected, Closing
  <2> QED BY <1>1, <2>1
<1>2. CASE ~Closing(r.ev)
  <2>1. Collected(m, r) = {[m EXCEPT !.c = r.c, !.got = @ \o Handed(r.ev)]}
    BY <1>2 DEF Collected, Closing
  <2>2. PICK C, G, x : /\ C = r.c /\ G = m.got \o Handed(r.ev)
                       /\ x = [m EXCEPT !.c = C, !.got = G]
    OBVIOUS
  <2>3. Collected(m, r) = {x}
    BY <2>1, <2>2
  <2>4. PICK A, R, P, S, W, B :
           m \in [c : A, remote : R, peer : P, serial : S, wrote : W, got : B]
    BY DEF Entry
  <2>5. x.c = C /\ x.remote = m.remote /\ x.peer = m.peer
    BY <2>2, <2>4
  <2> QED BY <1>2, <2>2, <2>3, <2>5
<1> QED BY <1>1, <1>2

\* Node n replaces circuit m by S, at most one circuit, and sends `out'.
Replaces(n, m, S, out, before) ==
  /\ table' = [table EXCEPT ![n] = (@ \ {m}) \cup S]
  /\ net' = Sent(before, n, m.remote, out) /\ IsSequence(out)
  /\ \A x, y \in S : x = y
  /\ \A x \in S : /\ Key(x) = Key(m) /\ x.remote = m.remote /\ x.peer = m.peer
                  /\ x.c.state = "Disconnected" => m.c.state = "Disconnected"
                  /\ x.c.state = "Connecting" => m.c.state = "Connecting"
  /\ minted' = minted

LEMMA ReplacesTable ==
  ASSUME Minted, Counted, Books, NEW n \in Nodes, NEW m \in table[n],
         NEW S, NEW out, NEW before, Replaces(n, m, S, out, before),
         NEW T, T = (table[n] \ {m}) \cup S
  PROVE  TableStep(n, T) /\ OneKey(T)
<1>1. table' = [table EXCEPT ![n] = T]
  BY DEF Replaces
<1>2. Grown(n, T)
  BY DEF Replaces, Grown
<1>3. OneKey(table[n])
  BY DEF Books
<1>4. OneKey(T)
  BY <1>3 DEF OneKey, Replaces
<1> QED BY <1>1, <1>2, <1>4 DEF TableStep, Replaces

LEMMA ReplacesStep ==
  ASSUME Minted, Counted, Books, AnswersDue, NEW n \in Nodes, NEW m \in table[n],
         NEW S, NEW out, NEW before, Replaces(n, m, S, out, before),
         UNCHANGED <<incoming, nextKey>>,
         NEW origin \in Nodes, NEW G, Without(before, origin, n, G),
         \A x \in S : EntrySound(n, x)',
         \A d \in ToSet(out) : DatagramSound(n, m.remote, d)',
         m.c.state = "Disconnected" => \E x \in S : x.c.state = "Disconnected",
         \A d \in G : d.op = "ConnectRequest" => m.peer = <<origin, d.from>>,
         \A d \in G : d.op \in {"ConnectAcknowledge", "DisconnectRequest"} =>
           d.key = Key(m) /\ \A x \in S : x.c.state # "Connecting"
  PROVE  Books' /\ AnswersDue'
<1>1. PICK T : T = (table[n] \ {m}) \cup S
  OBVIOUS
<1>2. TableStep(n, T) /\ OneKey(T)
  BY <1>1, ReplacesTable
<1>3. PICK to : to = m.remote
  OBVIOUS
<1>4. to \in Nodes /\ EntrySound(n, m)
  BY <1>3 DEF Books, EntrySound
<1>5. NetStep(n, to, ToSet(out), origin, G)
  BY <1>3, <1>4, SentStep DEF Replaces
<1>6. \A x \in T : EntrySound(n, x)'
  <2>1. ASSUME NEW x \in table[n] PROVE EntrySound(n, x)'
    <3>1. EntrySound(n, x)
      BY DEF Books
    <3> QED BY <1>2, <3>1, StaysEntry
  <2> QED BY <1>1, <2>1
<1>7. incoming' = [incoming EXCEPT ![n] = incoming[n]]
  BY DEF Books
<1>8. \A inc \in incoming[n] : IncomingSound(n, inc)'
  <2> TAKE inc \in incoming[n]
  <2>1. IncomingSound(n, inc)
    BY DEF Books
  <2>2. table'[n] = T /\ minted' = minted
    BY <1>2, TableStepIs DEF Replaces
  <2>3. \A x \in T : Key(x) = inc.key =>
          x.c.state = "Disconnected" /\ x.peer = <<x.remote, inc.peer>>
    <3> TAKE x \in T
    <3> HAVE Key(x) = inc.key
    <3>1. CASE x \in table[n]
      BY <2>1, <3>1 DEF IncomingSound
    <3>2. CASE x \in S
      <4>1. Key(m) = inc.key /\ x.remote = m.remote /\ x.peer = m.peer
        BY <3>2 DEF Replaces
      <4>2. m.c.state = "Disconnected" /\ m.peer = <<m.remote, inc.peer>>
        BY <2>1, <4>1 DEF IncomingSound
      <4>3. \A z \in S : z.c.state = "Disconnected"
        BY <4>2 DEF Replaces
      <4> QED BY <3>2, <4>1, <4>2, <4>3
    <3> QED BY <1>1, <3>1, <3>2
  <2> QED BY <2>1, <2>2, <2>3 DEF IncomingSound, Key
<1>9. nextKey' = [k \in Nodes |-> minted'[k] % KeySpace]
  BY DEF Books, Replaces
<1>10. Books'
  BY <1>2, <1>3, <1>4, <1>5, <1>6, <1>7, <1>8, <1>9, BooksStep
<1>11. AnswersDue'
  <2>1. \A x \in T : x.c.state = "Connecting" =>
          \/ AnswerDue(n, Key(x), x.remote)'
          \/ \E z \in table[n] : /\ Key(z) = Key(x) /\ z.remote = x.remote
                                 /\ z.c.state = "Connecting"
    BY <1>1 DEF Replaces
  <2>2. \A p \in table[n] : p.c.state = "Disconnected" =>
          \/ \E x \in T : x.peer = p.peer /\ x.c.state = "Disconnected"
          \/ \A k, key : p.peer = <<k, key>> => Replied(k, key, n)'
    <3> TAKE p \in table[n]
    <3> HAVE p.c.state = "Disconnected"
    <3>1. CASE p = m
      BY <1>1, <3>1 DEF Replaces
    <3>2. CASE p # m
      BY <1>1, <3>2
    <3> QED BY <3>1, <3>2
  <2>3. \A x \in T : \/ x.peer = NoPeer \/ x.c.state = "Disconnected"
                    \/ \E z \in table[n] : z.peer = x.peer
    BY <1>1 DEF Replaces
  <2>4. \A d \in G : d.op = "ConnectRequest" =>
          \/ \E p \in table[n] : p.peer = <<origin, d.from>>
          \/ \E x \in T : x.peer = <<origin, d.from>> /\ x.c.state = "Disconnected"
          \/ Replied(origin, d.from, n)'
    OBVIOUS
  <2>5. \A d \in G : \A x \in T :
          d.op \in {"ConnectAcknowledge", "DisconnectRequest"} /\ d.key = Key(x) =>
            x.c.state # "Connecting"
    <3> TAKE d \in G
    <3> TAKE x \in T
    <3> HAVE d.op \in {"ConnectAcknowledge", "DisconnectRequest"} /\ d.key = Key(x)
    <3>1. Key(x) = Key(m) /\ \A z \in S : z.c.state # "Connecting"
      OBVIOUS
    <3>2. CASE x \in S
      BY <3>1, <3>2
    <3>3. CASE x \in table[n] /\ x # m
      BY <3>1, <3>3 DEF Books, OneKey
    <3> QED BY <1>1, <3>2, <3>3
  <2>6. Attends(n, T, origin, G)
    BY <2>1, <2>2, <2>3, <2>4, <2>5 DEF Attends
  <2> QED BY <1>2, <1>4, <1>5, <2>6, AnswersStep
<1> QED BY <1>10, <1>11

\* Node n called circuit m, as its user left it in w, and the call returned r:
\* a call that leaves an undecided circuit alone.
Returned(n, m, w, r, before) ==
  /\ Entry(w) /\ w.c = m.c /\ w.remote = m.remote /\ w.peer = m.peer
  /\ Call(m.c, r)
  /\ m.c.state = "Disconnected" => r.c = m.c /\ ~Closing(r.ev)
  /\ table' = [table EXCEPT ![n] = (@ \ {m}) \cup Collected(w, r)]
  /\ net' = Sent(before, n, m.remote, r.out)

\* The datagrams G from `origin' that the call was about.
Served(n, m, r, before, origin, G) ==
  /\ Without(before, origin, n, G)
  /\ \A d \in G : d.op = "ConnectRequest" => m.peer = <<origin, d.from>>
  /\ \A d \in G : d.op \in {"ConnectAcknowledge", "DisconnectRequest"} =>
       d.key = Key(m) /\ (Closing(r.ev) \/ r.c.state # "Connecting")

LEMMA CallStep ==
  ASSUME Minted, Counted, Books, AnswersDue, NEW n \in Nodes, NEW m \in table[n],
         NEW w, NEW r, NEW before, Returned(n, m, w, r, before),
         UNCHANGED <<incoming, nextKey, minted>>,
         NEW origin \in Nodes, NEW G, Served(n, m, r, before, origin, G)
  PROVE  Books' /\ AnswersDue'
<1> USE DEF Returned, Served
<1>1. PICK S : S = Collected(w, r)
  OBVIOUS
<1>2. /\ \A x \in S : /\ x.c = r.c /\ x.remote = m.remote /\ x.peer = m.peer
                      /\ ~Closing(r.ev)
      /\ \A x, y \in S : x = y
      /\ Closing(r.ev) \/ \E x \in S : TRUE
  BY <1>1, CollectedIs
<1>3. Replaces(n, m, S, r.out, before)
  BY <1>1, <1>2 DEF Replaces, Call, Speaks, Key
<1>4. PICK T : T = (table[n] \ {m}) \cup S
  OBVIOUS
<1>5. TableStep(n, T)
  BY <1>3, <1>4, ReplacesTable
<1>6. EntrySound(n, m) /\ m.remote \in Nodes
  BY DEF Books, EntrySound
<1>7. \A y, k : (Owned(m.remote, y, k) => Owned(m.remote, y, k)')
                /\ (Told(m.remote, k) => Told(m.remote, k)')
  BY <1>5, <1>6, StaysOwned
<1>8. ASSUME NEW x \in S PROVE EntrySound(n, x)'
  <2>1. /\ x.c = r.c /\ x.remote = m.remote /\ x.peer = m.peer /\ ~Closing(r.ev)
        /\ incoming' = incoming /\ minted' = minted
    BY <1>2
  <2>2. \/ r.c.state = m.c.state
        \/ m.c.state = "Connected" /\ r.c.state = "Disconnecting"
    BY <2>1 DEF Call
  <2>3. Sane(r.c) /\ r.c.local = m.c.local /\ r.c.remote = m.c.remote
    BY DEF Call
  <2>4. Key(x) = Key(m)
    BY <2>1, <2>3 DEF Key
  <2>5. x.peer # NoPeer =>
          /\ x.c.state # "Connecting"
          /\ \E k : /\ x.peer = <<x.remote, k>>
                    /\ Owned(x.remote, n, k)' /\ Told(x.remote, k)'
                    /\ x.c.state # "Disconnected" => x.c.remote = k
    BY <1>6, <1>7, <2>1, <2>2, <2>3 DEF EntrySound
  <2>6. x.c.state = "Disconnected" =>
          /\ x.peer # NoPeer /\ x.c.controlArmed = FALSE
          /\ \E inc \in incoming'[n] : inc.key = Key(x)
    BY <1>6, <2>1, <2>2, <2>4 DEF EntrySound
  <2>7. x.c.state \in {"Connected", "Disconnecting"} => Told(x.remote, x.c.remote)'
    BY <1>6, <1>7, <2>1, <2>2, <2>3 DEF EntrySound
  <2> QED BY <1>6, <2>1, <2>3, <2>4, <2>5, <2>6, <2>7 DEF EntrySound, Key
<1>9. ASSUME NEW d \in ToSet(r.out) PROVE DatagramSound(n, m.remote, d)'
  <2>1. Spoken(m.c, d)
    BY DEF Call, Speaks, ToSet
  <2>2. CASE d.op \in {"Information", "InformationAcknowledge", "DisconnectAcknowledge"}
    BY <2>2 DEF DatagramSound, Opcodes
  <2>3. CASE /\ d.op = "DisconnectRequest" /\ d.key = m.c.remote
             /\ m.c.state \in {"Connected", "Disconnecting"}
    BY <1>6, <1>7, <2>3 DEF EntrySound, DatagramSound, Opcodes
  <2>4. CASE /\ d.op = "ConnectRequest" /\ d.from = m.c.local /\ d.window \in Nat
             /\ m.c.state = "Connecting"
    <3>1. \A z \in table[n] : Key(z) = Key(m) => z = m
      BY DEF Books, OneKey
    <3>2. Owned(n, m.remote, Key(m)) /\ Told(n, Key(m))
      BY <1>6, <2>4, <3>1 DEF Owned, Told, EntrySound
    <3>3. Owned(n, m.remote, Key(m))' /\ Told(n, Key(m))'
      BY <1>5, <3>2, StaysOwned DEF Key
    <3> QED BY <2>4, <3>3 DEF DatagramSound, Opcodes, Key
  <2> QED BY <2>1, <2>2, <2>3, <2>4 DEF Spoken
<1>10. m.c.state = "Disconnected" => \E x \in S : x.c.state = "Disconnected"
  BY <1>2
<1>11. \A d \in G : d.op \in {"ConnectAcknowledge", "DisconnectRequest"} =>
         d.key = Key(m) /\ \A x \in S : x.c.state # "Connecting"
  BY <1>2
<1> QED BY <1>3, <1>8, <1>9, <1>10, <1>11, ReplacesStep

-----------------------------------------------------------------------------
(***************************************************************************)
(* A datagram arrives for a circuit that is known.                         *)
(***************************************************************************)
LEMMA SmallRemainder ==
  ASSUME NEW k \in Nat, k < KeySpace
  PROVE  k % KeySpace = k
<1>1. KeySpace \in Nat /\ KeySpace > 0
  BY ManagerAssumption
<1> QED BY <1>1

\* Keys are handed out in order.
LEMMA NextKeyIs ==
  ASSUME Counted, Books, NEW n \in Nodes, minted[n] < KeySpace
  PROVE  AllocatedKey(n) = minted[n]
<1>1. KeySpace \in Nat /\ KeySpace > 0 /\ minted[n] \in Nat
  BY ManagerAssumption DEF Counted
<1>2. nextKey[n] = minted[n]
  BY <1>1, SmallRemainder DEF Books
<1>3. Probe(n, 0) = minted[n]
  BY <1>1, <1>2, SmallRemainder DEF Probe
<1>4. minted[n] \notin KeysInUse(n)
  <2>1. \A m \in table[n] : Key(m) \in 0 .. minted[n] - 1
    BY DEF Books, EntrySound
  <2> QED BY <1>1, <2>1 DEF KeysInUse
<1>5. PICK free : free = {i \in 0 .. KeySpace - 1 : Probe(n, i) \notin KeysInUse(n)}
  OBVIOUS
<1>6. 0 \in free /\ \A j \in free : j \in Int /\ 0 <= j
  BY <1>1, <1>3, <1>4, <1>5
<1>7. (CHOOSE i \in free : \A j \in free : i <= j) = 0
  <2>1. \E i \in free : \A j \in free : i <= j
    BY <1>6
  <2>2. PICK i : i = CHOOSE z \in free : \A j \in free : z <= j
    OBVIOUS
  <2>3. i \in free /\ \A j \in free : i <= j
    BY <2>1, <2>2, Zenon
  <2> QED BY <1>6, <2>2, <2>3
<1> QED BY <1>3, <1>5, <1>7 DEF AllocatedKey

\* A call that left the circuit as it is.
LEMMA SameEntry ==
  ASSUME NEW n, NEW m, EntrySound(n, m), NEW x,
         x.c = m.c, x.remote = m.remote, x.peer = m.peer
  PROVE  EntrySound(n, x)
<1>1. Key(x) = Key(m)
  BY DEF Key
<1> QED BY <1>1 DEF EntrySound

\* The keys that circuit m's own are.
LEMMA OwnKey ==
  ASSUME Books, NEW n \in Nodes, NEW m \in table[n]
  PROVE  /\ EntrySound(n, m) /\ \A z \in table[n] : Key(z) = Key(m) => z = m
         /\ Owned(n, m.remote, Key(m))
         /\ m.c.state # "Disconnected" => Told(n, Key(m))
<1>1. EntrySound(n, m) /\ \A z \in table[n] : Key(z) = Key(m) => z = m
  BY DEF Books, OneKey
<1> QED BY <1>1 DEF EntrySound, Owned, Told

\* A Connect Request for a circuit that is known.
LEMMA RepeatStep ==
  ASSUME Minted, Counted, Books, AnswersDue, NEW n \in Nodes, NEW m \in table[n],
         NEW origin \in Nodes, NEW d, d.op = "ConnectRequest",
         m.peer = <<origin, d.from>>, NEW before, Without(before, origin, n, {d}),
         Drive(n, m, OnPacket(m.c, d), before), UNCHANGED <<incoming, nextKey, minted>>
  PROVE  Books' /\ AnswersDue'
<1>1. PICK r, S : r = OnPacket(m.c, d) /\ S = Collected(m, r)
  OBVIOUS
<1>2. /\ r.c = m.c /\ r.ev = <<>>
      /\ \/ r.out = <<>>
         \/ m.c.state = "Connected" /\ r.out = <<ConnectAcknowledge(m.c, FALSE)>>
  BY <1>1 DEF OnPacket, OnConnectRequest, Quiet, Result
<1>3. ~Closing(r.ev)
  BY <1>2 DEF Closing
<1>4. Entry(m)
  BY TableInOrder
<1>5. /\ \A x \in S : x.c = m.c /\ x.remote = m.remote /\ x.peer = m.peer
      /\ \A x, y \in S : x = y
      /\ \E x \in S : TRUE
  BY <1>1, <1>2, <1>3, <1>4, CollectedIs
<1>6. IsSequence(r.out)
  BY <1>2, NothingIs, OneIs
<1>7. Replaces(n, m, S, r.out, before)
  BY <1>1, <1>5, <1>6 DEF Replaces, Drive, Key
<1>8. TableStep(n, (table[n] \ {m}) \cup S)
  BY <1>7, ReplacesTable
<1>9. \A x \in S : EntrySound(n, x)'
  <2> TAKE x \in S
  <2>1. EntrySound(n, x)
    BY <1>5, OwnKey, SameEntry
  <2> QED BY <1>8, <2>1, StaysEntry
<1>10. ASSUME NEW e \in ToSet(r.out) PROVE DatagramSound(n, m.remote, e)'
  <2>1. m.c.state = "Connected" /\ e = ConnectAcknowledge(m.c, FALSE)
    BY <1>2, <1>10, SetOfNothing, SetOfOne
  <2>2. /\ e.op = "ConnectAcknowledge" /\ e.key = m.c.remote /\ e.from = Key(m)
    BY <2>1 DEF ConnectAcknowledge, Key
  <2>3. m.peer # NoPeer
    BY DEF NoPeer
  <2>4. m.remote \in Nodes /\ Owned(m.remote, n, m.c.remote) /\ Told(n, Key(m))
    <3>1. EntrySound(n, m) /\ Told(n, Key(m))
      BY <2>1, OwnKey
    <3> QED BY <2>1, <2>3, <3>1 DEF EntrySound
  <2>5. Owned(m.remote, n, m.c.remote)' /\ Told(n, Key(m))'
    BY <1>8, <2>4, StaysOwned DEF Key
  <2> QED BY <2>2, <2>5 DEF DatagramSound, Opcodes, Key
<1>11. m.c.state = "Disconnected" => \E x \in S : x.c.state = "Disconnected"
  BY <1>5
<1>12. /\ \A e \in {d} : e.op = "ConnectRequest" => m.peer = <<origin, e.from>>
       /\ \A e \in {d} : e.op \in {"ConnectAcknowledge", "DisconnectRequest"} =>
            e.key = Key(m) /\ \A x \in S : x.c.state # "Connecting"
  OBVIOUS
<1> QED BY <1>7, <1>9, <1>10, <1>11, <1>12, ReplacesStep

\* The answer to a Connect Request of this node.
LEMMA AnswerStep ==
  ASSUME Minted, Counted, Books, AnswersDue, NEW n \in Nodes, NEW m \in table[n],
         m.c.state = "Connecting", NEW origin \in Nodes, NEW d \in Transit(origin, n),
         d.op = "ConnectAcknowledge", d.key = Key(m),
         NEW before, Without(before, origin, n, {d}),
         Drive(n, m, OnPacket(m.c, d), before), UNCHANGED <<incoming, nextKey, minted>>
  PROVE  Books' /\ AnswersDue'
<1>1. PICK r, S : r = OnPacket(m.c, d) /\ S = Collected(m, r)
  OBVIOUS
<1>2. Entry(m) /\ EntrySound(n, m) /\ DatagramSound(origin, n, d)
  BY TableInOrder, OwnKey DEF Books
<1>3. /\ Sane(r.c) /\ r.c.local = m.c.local /\ r.c.remote = d.from
      /\ IsSequence(r.ev) /\ IsSequence(r.out)
      /\ \A i \in DOMAIN r.out : r.out[i].op = "Information"
      /\ \/ ~d.choke /\ r.c.state = "Connected"
         \/ r.c.state = "Disconnected" /\ Closing(r.ev)
  <2>1. Sane(m.c)
    BY <1>2 DEF EntrySound
  <2> QED BY <1>1, <2>1, AnswerCall
<1>4. /\ \A x \in S : /\ x.c = r.c /\ x.remote = m.remote /\ x.peer = m.peer
                      /\ ~d.choke /\ r.c.state = "Connected"
      /\ \A x, y \in S : x = y
  BY <1>1, <1>2, <1>3, CollectedIs
<1>5. Replaces(n, m, S, r.out, before)
  BY <1>1, <1>3, <1>4 DEF Replaces, Drive, Key
<1>6. TableStep(n, (table[n] \ {m}) \cup S)
  BY <1>5, ReplacesTable
<1>7. m.remote = origin /\ m.peer = NoPeer
  BY <1>2 DEF DatagramSound, Owned, EntrySound
<1>8. ASSUME NEW x \in S PROVE EntrySound(n, x)'
  <2>1. Told(origin, d.from)'
    <3>1. Told(origin, d.from)
      BY <1>2, <1>4 DEF DatagramSound
    <3> QED BY <1>6, <3>1, StaysOwned
  <2>2. Key(x) = Key(m) /\ x.c.state = "Connected" /\ x.c.remote = d.from
        /\ x.remote = origin /\ x.peer = NoPeer /\ Sane(x.c) /\ minted' = minted
    BY <1>3, <1>4, <1>7 DEF Key
  <2> QED BY <1>2, <1>7, <2>1, <2>2 DEF EntrySound, Key
<1>9. \A e \in ToSet(r.out) : DatagramSound(n, m.remote, e)'
  BY <1>3 DEF ToSet, DatagramSound, Opcodes
<1>10. \A e \in {d} : e.op = "ConnectRequest" => m.peer = <<origin, e.from>>
  OBVIOUS
<1>11. \A e \in {d} : e.op \in {"ConnectAcknowledge", "DisconnectRequest"} =>
         e.key = Key(m) /\ \A x \in S : x.c.state # "Connecting"
  BY <1>4
<1> QED BY <1>5, <1>8, <1>9, <1>10, <1>11, ReplacesStep

\* Any other datagram for a circuit that is known.
LEMMA PacketStep ==
  ASSUME Minted, Counted, Books, AnswersDue, NEW n \in Nodes, NEW m \in table[n],
         NEW origin \in Nodes, NEW d \in Transit(origin, n),
         d.op # "ConnectRequest", d.key = Key(m),
         d.op = "ConnectAcknowledge" => m.c.state # "Connecting",
         NEW before, Without(before, origin, n, {d}),
         Drive(n, m, OnPacket(m.c, d), before), UNCHANGED <<incoming, nextKey, minted>>
  PROVE  Books' /\ AnswersDue'
<1>1. PICK r : r = OnPacket(m.c, d)
  OBVIOUS
<1>2. Entry(m) /\ EntrySound(n, m) /\ DatagramSound(origin, n, d)
  BY TableInOrder, OwnKey DEF Books
<1>3. Call(m.c, r)
  BY <1>1, <1>2, PacketCall DEF EntrySound, DatagramSound, Opcodes
<1>4. m.c.state = "Disconnected" => r.c = m.c /\ ~Closing(r.ev)
  <2> SUFFICES ASSUME m.c.state = "Disconnected" PROVE r.c = m.c /\ ~Closing(r.ev)
    OBVIOUS
  <2>1. d.op # "DisconnectRequest"
    BY <1>2 DEF DatagramSound, Told
  <2>2. r = Quiet(m.c)
    BY <1>1, <1>2, <2>1
    DEF OnPacket, OnConnectAcknowledge, OnDisconnectAcknowledge, OnInformation,
        OnInformationAcknowledge, DatagramSound, Opcodes
  <2> QED BY <2>2 DEF Quiet, Result, Closing
<1>5. d.op \in {"ConnectAcknowledge", "DisconnectRequest"} => r.c.state # "Connecting"
  <2>1. CASE d.op = "ConnectAcknowledge"
    <3>1. r = Quiet(m.c)
      BY <1>1, <2>1 DEF OnPacket, OnConnectAcknowledge
    <3> QED BY <2>1, <3>1 DEF Quiet, Result
  <2>2. CASE d.op = "DisconnectRequest"
    <3>1. r = OnDisconnectRequest(m.c)
      BY <1>1, <2>2 DEF OnPacket
    <3>2. r.c.state = "Disconnected"
      BY <1>2, <3>1, OnDisconnectRequestCall DEF EntrySound
    <3> QED BY <3>2
  <2> QED BY <2>1, <2>2
<1>6. PICK w, out, G : w = m /\ out = r.out /\ G = {d}
  OBVIOUS
<1>7. /\ table' = [table EXCEPT ![n] = (@ \ {m}) \cup Collected(w, r)]
      /\ net' = Sent(before, n, m.remote, r.out)
  BY <1>1, <1>6 DEF Drive
<1>8. Returned(n, m, w, r, before)
  BY <1>2, <1>3, <1>4, <1>6, <1>7 DEF Returned
<1>9. Served(n, m, r, before, origin, G)
  BY <1>5, <1>6 DEF Served
<1> QED BY <1>8, <1>9, CallStep

-----------------------------------------------------------------------------
(***************************************************************************)
(* A Connect Request that mints or is refused, and strays.                 *)
(***************************************************************************)
LEMMA NewSane ==
  ASSUME NEW key
  PROVE  /\ Sane(NewCircuit(key)) /\ NewCircuit(key).local = key
         /\ NewCircuit(key).state = "Disconnected" /\ NewCircuit(key).controlArmed = FALSE
<1>1. PICK c : c = NewCircuit(key)
  OBVIOUS
<1>2. c = CircuitRecord("Disconnected", key, 0, WindowSize, 0, 0, 0, <<>>, {}, <<>>,
                        FALSE, FALSE, 0, FALSE, 0)
  BY <1>1 DEF NewCircuit, CircuitRecord
<1>3. WindowSize \in Nat /\ IsFiniteSet({}) /\ IsSequence(<<>>)
  BY CircuitAssumption, FS_EmptySet, NothingIs
<1>4. "Disconnected" \in States
  BY DEF States
<1>5. PICK q, un, ra, no : q = <<>> /\ un = {} /\ ra = <<>> /\ no = FALSE
  OBVIOUS
<1>6. c = CircuitRecord("Disconnected", key, 0, WindowSize, 0, 0, 0, q, un, ra, no, no, 0, no, 0)
  BY <1>2, <1>5
<1>7. Sane(c)
  BY <1>3, <1>4, <1>5, <1>6, RecordFields
<1> QED BY <1>1, <1>7 DEF NewCircuit

\* What node n adds to its table is x, circuit `minted[n]' of its history.
Mints(n, x) ==
  /\ table' = [table EXCEPT ![n] = @ \cup {x}]
  /\ minted' = [minted EXCEPT ![n] = @ + 1]
  /\ nextKey' = [nextKey EXCEPT ![n] = (minted[n] + 1) % KeySpace]
  /\ Key(x) = minted[n] /\ Sane(x.c)

LEMMA MintsTable ==
  ASSUME Minted, Counted, Books, NEW n \in Nodes, NEW x, Mints(n, x),
         NEW T, T = table[n] \cup {x}
  PROVE  /\ TableStep(n, T) /\ OneKey(T)
         /\ \A m \in table[n] : Key(m) # minted[n] /\ m # x
         /\ nextKey' = [k \in Nodes |-> minted'[k] % KeySpace]
         /\ minted[n] \in Nat /\ minted'[n] = minted[n] + 1
<1>1. /\ minted[n] \in Nat /\ minted'[n] = minted[n] + 1
      /\ \A k \in Nodes : k # n => minted'[k] = minted[k]
  BY DEF Counted, Mints
<1>2. \A m \in table[n] : Key(m) # minted[n]
  <2> SUFFICES ASSUME NEW m \in table[n] PROVE Key(m) # minted[n]
    OBVIOUS
  <2>1. Key(m) \in 0 .. minted[n] - 1
    BY DEF Books, EntrySound
  <2> QED BY <1>1, <2>1
<1>3. TableStep(n, T)
  BY DEF TableStep, Grown, Mints
<1>4. OneKey(T)
  BY <1>2 DEF OneKey, Books, Mints
<1>5. nextKey' = [k \in Nodes |-> minted'[k] % KeySpace]
  <2>1. nextKey = [k \in Nodes |-> minted[k] % KeySpace]
    BY DEF Books
  <2>2. nextKey' = [k \in Nodes |-> IF k = n THEN (minted[n] + 1) % KeySpace
                                    ELSE minted[k] % KeySpace]
    BY <2>1 DEF Mints
  <2>3. \A k \in Nodes : minted'[k] % KeySpace =
          IF k = n THEN (minted[n] + 1) % KeySpace ELSE minted[k] % KeySpace
    BY <1>1
  <2> QED BY <2>2, <2>3
<1> QED BY <1>1, <1>2, <1>3, <1>4, <1>5 DEF Mints

\* The other circuits of a node that mints one, and what awaits a decision.
LEMMA MintsOthers ==
  ASSUME Minted, Counted, Books, NEW n \in Nodes, NEW x, Mints(n, x),
         NEW T, T = table[n] \cup {x},
         \A inc \in incoming[n] : inc \in incoming'[n]
  PROVE  \A m \in table[n] : EntrySound(n, m)'
<1>1. TableStep(n, T)
  BY MintsTable
<1> TAKE m \in table[n]
<1>2. EntrySound(n, m)
  BY DEF Books
<1> QED BY <1>1, <1>2, StaysEntry

LEMMA RoomLeft ==
  ASSUME Counted, NEW n \in Nodes, minted' = [minted EXCEPT ![n] = @ + 1], KeysFresh'
  PROVE  minted[n] < KeySpace
<1>1. minted'[n] = minted[n] + 1 /\ minted[n] \in Nat
  BY DEF Counted
<1>2. minted'[n] <= KeySpace /\ KeySpace \in Nat
  BY ManagerAssumption DEF KeysFresh
<1> QED BY <1>1, <1>2

-----------------------------------------------------------------------------
\* A Connect Request for a circuit nobody knows, below the cap.
LEMMA MintStep ==
  ASSUME Minted, Counted, Books, AnswersDue, KeysFresh', NEW n \in Nodes,
         NEW origin \in Nodes \ {n}, NEW d \in Transit(origin, n), d.op = "ConnectRequest",
         \A m \in table[n] : m.peer # <<origin, d.from>>,
         NEW before, Without(before, origin, n, {d}),
         MintInbound(n, origin, d, before), CanAllocate(n)
  PROVE  Books' /\ AnswersDue'
<1>1. PICK key, x, inc :
        /\ key = AllocatedKey(n)
        /\ x = Managed(key, origin, <<origin, d.from>>, minted[n] + 1)
        /\ inc = [key |-> key, peer |-> d.from, window |-> d.window]
  OBVIOUS
<1>2. /\ table' = [table EXCEPT ![n] = @ \cup {x}]
      /\ nextKey' = [nextKey EXCEPT ![n] = (key + 1) % KeySpace]
      /\ incoming' = [incoming EXCEPT ![n] = @ \cup {inc}]
      /\ minted' = [minted EXCEPT ![n] = @ + 1]
      /\ net' = before
  BY <1>1 DEF MintInbound
<1>3. key = minted[n]
  BY <1>1, <1>2, RoomLeft, NextKeyIs
<1>4. /\ x.c = NewCircuit(key) /\ x.remote = origin /\ x.peer = <<origin, d.from>>
      /\ x.c.state = "Disconnected" /\ x.c.controlArmed = FALSE
      /\ Sane(x.c) /\ Key(x) = minted[n]
  BY <1>1, <1>3, NewSane DEF Managed, Key
<1>5. Mints(n, x)
  BY <1>2, <1>3, <1>4 DEF Mints
<1>6. PICK T : T = table[n] \cup {x}
  OBVIOUS
<1>7. /\ TableStep(n, T) /\ OneKey(T)
      /\ \A m \in table[n] : Key(m) # minted[n] /\ m # x
      /\ nextKey' = [k \in Nodes |-> minted'[k] % KeySpace]
      /\ minted[n] \in Nat /\ minted'[n] = minted[n] + 1
  BY <1>5, <1>6, MintsTable
<1>8. PICK I : I = incoming[n] \cup {inc}
  OBVIOUS
<1>9. incoming'[n] = I /\ incoming' = [incoming EXCEPT ![n] = I]
  BY <1>2, <1>8 DEF Books
<1>10. DatagramSound(origin, n, d)
  BY DEF Books
<1>11. \A z \in T : EntrySound(n, z)'
  <2>1. \A m \in table[n] : EntrySound(n, m)'
    BY <1>5, <1>6, <1>8, <1>9, MintsOthers
  <2>2. EntrySound(n, x)'
    <3>1. Owned(origin, n, d.from)' /\ Told(origin, d.from)'
      BY <1>7, <1>10, StaysOwned DEF DatagramSound
    <3>2. inc \in incoming'[n] /\ inc.key = Key(x)
      BY <1>1, <1>3, <1>4, <1>8, <1>9
    <3>3. Key(x) \in 0 .. minted'[n] - 1
      BY <1>4, <1>7
    <3>4. x.peer # NoPeer
      BY <1>4 DEF NoPeer
    <3> QED BY <1>4, <3>1, <3>2, <3>3, <3>4 DEF EntrySound, Key
  <2> QED BY <1>6, <2>1, <2>2
<1>12. table'[n] = T
  BY <1>7, TableStepIs
<1>13. \A other \in incoming[n] : other.key \in 0 .. minted[n] - 1
  BY DEF Books, IncomingSound
<1>14. IncomingSound(n, inc)'
  <2>1. inc.key = minted[n] /\ inc.peer = d.from /\ inc.window \in Nat
    BY <1>1, <1>3, <1>10 DEF DatagramSound
  <2>2. \A m \in T : Key(m) = inc.key => m = x
    BY <1>6, <1>7, <2>1
  <2>3. \A other \in I : other.key = inc.key => other = inc
    BY <1>7, <1>8, <1>13, <2>1
  <2> QED BY <1>4, <1>7, <1>9, <1>12, <2>1, <2>2, <2>3 DEF IncomingSound, Key
<1>15. ASSUME NEW old \in incoming[n] PROVE IncomingSound(n, old)'
  <2>1. IncomingSound(n, old) /\ old.key # minted[n] /\ inc.key = minted[n]
    BY <1>1, <1>3, <1>7, <1>13 DEF Books
  <2>2. \A m \in T : Key(m) = old.key => m \in table[n]
    BY <1>4, <1>6, <2>1
  <2>3. old.key \in 0 .. minted'[n] - 1
    BY <1>7, <1>13
  <2> QED BY <1>8, <1>9, <1>12, <2>1, <2>2, <2>3 DEF IncomingSound, Key
<1>16. \A z \in I : IncomingSound(n, z)'
  BY <1>8, <1>14, <1>15
<1>17. PICK G, O : G = {d} /\ O = {}
  OBVIOUS
<1>18. NetStep(n, origin, O, origin, G)
  BY <1>2, <1>17, SilentStep
<1>19. Attends(n, T, origin, G)
  BY <1>4, <1>6, <1>17 DEF Attends
<1>20. \A e \in O : DatagramSound(n, origin, e)'
  BY <1>17
<1>21. Books'
  BY <1>7, <1>9, <1>11, <1>16, <1>18, <1>20, BooksStep
<1> QED BY <1>7, <1>18, <1>19, <1>21, AnswersStep

\* A step that leaves the tables alone.
LEMMA SameTable ==
  ASSUME Minted, NEW n \in Nodes, table' = table, minted' = minted
  PROVE  TableStep(n, table[n])
<1>1. table = [k \in Nodes |-> table[k]]
  BY DEF Minted, TablesShaped
<1>2. table' = [table EXCEPT ![n] = table[n]]
  BY <1>1
<1> QED BY <1>2 DEF TableStep, Grown

LEMMA AnsweredStep ==
  ASSUME Minted, Counted, Books, AnswersDue, NEW n \in Nodes,
         UNCHANGED <<table, incoming, nextKey, minted>>,
         NEW to \in Nodes, NEW O, NEW origin \in Nodes, NEW G,
         NetStep(n, to, O, origin, G),
         \A e \in O : DatagramSound(n, to, e)',
         Attends(n, table[n], origin, G)
  PROVE  Books' /\ AnswersDue'
<1>1. PICK T : T = table[n]
  OBVIOUS
<1>2. TableStep(n, T) /\ OneKey(T) /\ Attends(n, T, origin, G)
  BY <1>1, SameTable DEF Books
<1>3. \A x \in T : EntrySound(n, x)'
  <2> TAKE x \in T
  <2>1. EntrySound(n, x)
    BY <1>1 DEF Books
  <2> QED BY <1>2, <2>1, StaysEntry
<1>4. PICK I : I = incoming[n]
  OBVIOUS
<1>5. incoming' = [incoming EXCEPT ![n] = I]
  BY <1>4 DEF Books
<1>6. \A inc \in I : IncomingSound(n, inc)'
  BY <1>4 DEF Books, IncomingSound, Key
<1>7. nextKey' = [k \in Nodes |-> minted'[k] % KeySpace]
  BY DEF Books
<1>8. Books'
  BY <1>2, <1>3, <1>5, <1>6, <1>7, BooksStep
<1> QED BY <1>2, <1>8, AnswersStep

\* A Connect Request at the cap.
LEMMA ChokeStep ==
  ASSUME Minted, Counted, Books, AnswersDue, NEW n \in Nodes,
         NEW origin \in Nodes \ {n}, NEW d \in Transit(origin, n), d.op = "ConnectRequest",
         NEW before, Without(before, origin, n, {d}),
         MintInbound(n, origin, d, before), ~CanAllocate(n)
  PROVE  Books' /\ AnswersDue'
<1>1. PICK e, out, G, O :
        /\ e = [op |-> "ConnectAcknowledge", key |-> d.from, from |-> 0,
                choke |-> TRUE, window |-> 0]
        /\ out = <<e>> /\ G = {d} /\ O = ToSet(out)
  OBVIOUS
<1>2. net' = Sent(before, n, origin, out) /\ UNCHANGED <<table, nextKey, incoming, minted>>
  BY <1>1 DEF MintInbound
<1>3. NetStep(n, origin, O, origin, G)
  BY <1>1, <1>2, OneIs, SentStep
<1>4. O = {e}
  BY <1>1, SetOfOne
<1>5. TableStep(n, table[n])
  BY <1>2, SameTable
<1>6. \A z \in O : DatagramSound(n, origin, z)'
  <2>1. Owned(origin, n, d.from)
    BY DEF Books, DatagramSound
  <2>2. Owned(origin, n, d.from)'
    BY <1>5, <2>1, StaysOwned
  <2>3. e.op = "ConnectAcknowledge" /\ e.key = d.from /\ e.choke
    BY <1>1
  <2>4. DatagramSound(n, origin, e)'
    BY <2>2, <2>3 DEF DatagramSound, Opcodes
  <2> QED BY <1>4, <2>4
<1>7. Replied(origin, d.from, n)'
  <2>1. e \in Transit(n, origin)'
    BY <1>3, <1>4 DEF NetStep
  <2> QED BY <1>1, <2>1 DEF Replied
<1>8. Attends(n, table[n], origin, G)
  <2>1. \A z \in G : z = d
    BY <1>1
  <2> QED BY <1>7, <2>1 DEF Attends
<1> QED BY <1>2, <1>3, <1>6, <1>8, AnsweredStep

\* A datagram for a circuit nobody knows.
LEMMA StrayStep ==
  ASSUME Minted, Counted, Books, AnswersDue, NEW n \in Nodes,
         NEW origin \in Nodes, NEW d, d.op # "ConnectRequest",
         \A m \in table[n] : Key(m) # d.key,
         NEW before, Without(before, origin, n, {d}),
         UNCHANGED <<table, nextKey, incoming, minted>>,
         \/ net' = before
         \/ net' = Sent(before, n, origin, <<[op |-> "DisconnectAcknowledge", key |-> d.key]>>)
  PROVE  Books' /\ AnswersDue'
<1>1. PICK e, out, G :
        e = [op |-> "DisconnectAcknowledge", key |-> d.key] /\ out = <<e>> /\ G = {d}
  OBVIOUS
<1>2. Attends(n, table[n], origin, G)
  BY <1>1 DEF Attends
<1>3. CASE net' = before
  <2>1. PICK O : O = {}
    OBVIOUS
  <2>2. NetStep(n, origin, O, origin, G)
    BY <1>1, <1>3, <2>1, SilentStep
  <2> QED BY <1>2, <2>1, <2>2, AnsweredStep
<1>4. CASE net' = Sent(before, n, origin, out)
  <2>1. PICK O : O = ToSet(out)
    OBVIOUS
  <2>2. NetStep(n, origin, O, origin, G)
    BY <1>1, <1>4, <2>1, OneIs, SentStep
  <2>3. \A z \in O : DatagramSound(n, origin, z)'
    BY <1>1, <2>1, SetOfOne DEF DatagramSound, Opcodes
  <2> QED BY <1>2, <2>2, <2>3, AnsweredStep
<1> QED BY <1>1, <1>3, <1>4

-----------------------------------------------------------------------------
(***************************************************************************)
(* What arrives, and what users and timers call.                           *)
(***************************************************************************)
LEMMA HeadArrives ==
  ASSUME NEW s, IsSequence(s), s # <<>>
  PROVE  Head(s) \in ToSet(s)
<1>1. PICK S : s \in Seq(S)
  BY DEF IsSequence
<1>2. 1 \in DOMAIN s /\ Head(s) = s[1]
  BY <1>1
<1> QED BY <1>2 DEF ToSet

LEMMA ReceiveStep ==
  ASSUME Minted, Counted, Books, AnswersDue, KeysFresh', NEW n \in Nodes,
         NEW origin \in Nodes \ {n}, net[<<origin, n>>] # <<>>,
         NEW before, Without(before, origin, n, {Head(net[<<origin, n>>])}),
         Receive(n, origin, before)
  PROVE  Books' /\ AnswersDue'
<1>1. PICK d : d = Head(net[<<origin, n>>])
  OBVIOUS
<1>2. d \in Transit(origin, n)
  BY <1>1, HeadArrives DEF Books, Transit
<1>3. Without(before, origin, n, {d})
  BY <1>1
<1>4. CASE d.op = "ConnectRequest"
  <2>1. OnConnectPacket(n, origin, d, before)
    BY <1>1, <1>4 DEF Receive
  <2>2. CASE \E m \in table[n] : m.peer = <<origin, d.from>>
    <3>1. PICK m \in table[n] : /\ m.peer = <<origin, d.from>>
                                /\ Drive(n, m, OnPacket(m.c, d), before)
      BY <2>1, <2>2 DEF OnConnectPacket
    <3>2. UNCHANGED <<incoming, nextKey, minted>>
      BY <2>1, <2>2 DEF OnConnectPacket
    <3> QED BY <1>3, <1>4, <3>1, <3>2, RepeatStep
  <2>3. CASE ~ \E m \in table[n] : m.peer = <<origin, d.from>>
    <3>1. MintInbound(n, origin, d, before)
      BY <2>1, <2>3 DEF OnConnectPacket
    <3>2. CASE CanAllocate(n)
      BY <1>2, <1>3, <1>4, <2>3, <3>1, <3>2, MintStep
    <3>3. CASE ~CanAllocate(n)
      BY <1>2, <1>3, <1>4, <3>1, <3>3, ChokeStep
    <3> QED BY <3>2, <3>3
  <2> QED BY <2>2, <2>3
<1>5. CASE d.op # "ConnectRequest"
  <2>1. OnCircuitPacket(n, origin, d, before)
    BY <1>1, <1>5 DEF Receive
  <2>2. UNCHANGED <<incoming, nextKey, minted>>
    BY <2>1 DEF OnCircuitPacket
  <2>3. CASE \E m \in table[n] : Key(m) = d.key
    <3>1. PICK m \in table[n] : Key(m) = d.key /\ Drive(n, m, OnPacket(m.c, d), before)
      BY <2>1, <2>3 DEF OnCircuitPacket
    <3>2. CASE d.op = "ConnectAcknowledge" /\ m.c.state = "Connecting"
      BY <1>2, <1>3, <2>2, <3>1, <3>2, AnswerStep
    <3>3. CASE ~(d.op = "ConnectAcknowledge" /\ m.c.state = "Connecting")
      BY <1>2, <1>3, <1>5, <2>2, <3>1, <3>3, PacketStep
    <3> QED BY <3>2, <3>3
  <2>4. CASE ~ \E m \in table[n] : Key(m) = d.key
    <3>1. /\ table' = table
          /\ \/ net' = before
             \/ net' = Sent(before, n, origin,
                            <<[op |-> "DisconnectAcknowledge", key |-> d.key]>>)
      BY <2>1, <2>4 DEF OnCircuitPacket
    <3> QED BY <1>3, <1>5, <2>2, <2>4, <3>1, StrayStep
  <2> QED BY <2>3, <2>4
<1> QED BY <1>4, <1>5

-----------------------------------------------------------------------------
\* A call that no datagram caused.
LEMMA OwnStep ==
  ASSUME Minted, Counted, Books, AnswersDue, NEW n \in Nodes, NEW m \in table[n],
         NEW w, NEW r, Returned(n, m, w, r, net), UNCHANGED <<incoming, nextKey, minted>>
  PROVE  Books' /\ AnswersDue'
<1>1. PICK G, origin, before : G = {} /\ origin = n /\ before = net
  OBVIOUS
<1>2. Without(before, origin, n, G)
  BY <1>1, WithoutNone
<1>3. Served(n, m, r, before, origin, G)
  BY <1>1, <1>2 DEF Served
<1>4. Returned(n, m, w, r, before) /\ origin \in Nodes
  BY <1>1
<1> QED BY <1>3, <1>4, CallStep

LEMMA WriteStep ==
  ASSUME Minted, Counted, Books, AnswersDue, NEW n \in Nodes, NEW m \in table[n],
         Write(n, m)
  PROVE  Books' /\ AnswersDue'
<1>1. PICK k : k = m.wrote + 1
  OBVIOUS
<1>2. PICK w : w = [m EXCEPT !.wrote = k]
  OBVIOUS
<1>3. PICK x : x = [node |-> n, serial |-> m.serial, place |-> k]
  OBVIOUS
<1>4. PICK r : r = Send(m.c, <<x>>)
  OBVIOUS
<1>5. /\ m.c.state = "Connected"
      /\ table' = [table EXCEPT ![n] = (@ \ {m}) \cup Collected(w, r)]
      /\ net' = Sent(net, n, m.remote, r.out)
      /\ UNCHANGED <<incoming, nextKey, minted>>
  BY <1>1, <1>2, <1>3, <1>4 DEF Write, Frame
<1>6. Entry(m) /\ Sane(m.c)
  BY TableInOrder DEF Books, EntrySound
<1>7. Entry(w)
  BY <1>2, <1>6, WroteKeepsPeer
<1>8. w.c = m.c /\ w.remote = m.remote /\ w.peer = m.peer
  <2>1. PICK C, R, P, S, W, B :
           m \in [c : C, remote : R, peer : P, serial : S, wrote : W, got : B]
    BY <1>6 DEF Entry
  <2> QED BY <1>2, <2>1
<1>9. Call(m.c, r)
  BY <1>4, <1>6, SendCall
<1>10. Returned(n, m, w, r, net)
  BY <1>5, <1>7, <1>8, <1>9 DEF Returned
<1> QED BY <1>5, <1>10, OwnStep

LEMMA DriveStep ==
  ASSUME Minted, Counted, Books, AnswersDue, NEW n \in Nodes, NEW m \in table[n],
         NEW r, Call(m.c, r), m.c.state # "Disconnected",
         Drive(n, m, r, net), UNCHANGED <<incoming, nextKey, minted>>
  PROVE  Books' /\ AnswersDue'
<1>1. Entry(m)
  BY TableInOrder
<1>2. Returned(n, m, m, r, net)
  BY <1>1 DEF Returned, Drive
<1> QED BY <1>2, OwnStep

LEMMA HangupStep ==
  ASSUME Minted, Counted, Books, AnswersDue, NEW n \in Nodes, NEW m \in table[n],
         Hangup(n, m)
  PROVE  Books' /\ AnswersDue'
<1>1. PICK r : r = Disconnect(m.c)
  OBVIOUS
<1>2. Call(m.c, r)
  BY <1>1, DisconnectCall DEF Books, EntrySound
<1>3. /\ Drive(n, m, r, net) /\ UNCHANGED <<incoming, nextKey, minted>>
      /\ m.c.state # "Disconnected"
  BY <1>1 DEF Hangup
<1> QED BY <1>2, <1>3, DriveStep

LEMMA TickStep ==
  ASSUME Minted, Counted, Books, AnswersDue, NEW n \in Nodes, NEW m \in table[n],
         Tick1(n, m)
  PROVE  Books' /\ AnswersDue'
<1>1. PICK r : r = Tick(m.c, TRUE, TRUE)
  OBVIOUS
<1>2. Call(m.c, r)
  BY <1>1, TickCall DEF Books, EntrySound
<1>3. Drive(n, m, r, net) /\ UNCHANGED <<incoming, nextKey, minted>>
  BY <1>1 DEF Tick1
<1>4. m.c.state # "Disconnected"
  <2> SUFFICES ASSUME m.c.state = "Disconnected" PROVE FALSE
    OBVIOUS
  <2>1. m.c.controlArmed = FALSE
    BY DEF Books, EntrySound
  <2> QED BY <2>1 DEF Tick1
<1> QED BY <1>2, <1>3, <1>4, DriveStep

-----------------------------------------------------------------------------
\* What connect leaves of the circuit it opens, and sends.
LEMMA ConnectCall ==
  ASSUME NEW key, NEW r, r = Connect(NewCircuit(key))
  PROVE  /\ Sane(r.c) /\ r.c.state = "Connecting" /\ r.c.local = key
         /\ r.out = <<ConnectRequest(NewCircuit(key))>> /\ r.ev = <<>>
<1>1. PICK c, d :
        /\ c = NewCircuit(key)
        /\ d = [c EXCEPT !.state = "Connecting", !.controlRetries = 0, !.controlArmed = TRUE]
  OBVIOUS
<1>2. Sane(c) /\ c.local = key /\ c.state = "Disconnected"
  BY <1>1, NewSane
<1>3. r = Result(d, <<ConnectRequest(c)>>, <<>>)
  BY <1>1, <1>2 DEF Connect
<1>4. Sane(d) /\ d.state = "Connecting" /\ d.local = c.local
  BY <1>1, <1>2, ConnectingCircuit
<1>5. r.c = d /\ r.out = <<ConnectRequest(c)>> /\ r.ev = <<>>
  BY <1>3 DEF Result
<1> QED BY <1>1, <1>2, <1>4, <1>5

\* The circuit that Open adds and what it sends.
LEMMA OpenedIs ==
  ASSUME Minted, Counted, Books, KeysFresh', NEW n \in Nodes, NEW remote, Open(n, remote)
  PROVE  \E x, e : /\ Mints(n, x) /\ x.c.state = "Connecting"
                   /\ x.remote = remote /\ x.peer = NoPeer
                   /\ net' = Sent(net, n, remote, <<e>>) /\ e.op = "ConnectRequest"
                   /\ e.from = minted[n] /\ e.window \in Nat
<1>1. PICK key, m, r : /\ key = AllocatedKey(n)
                       /\ m = Managed(key, remote, NoPeer, minted[n] + 1)
                       /\ r = Connect(NewCircuit(key))
  OBVIOUS
<1>2. /\ table' = [table EXCEPT ![n] = @ \cup Collected(m, r)]
      /\ nextKey' = [nextKey EXCEPT ![n] = (key + 1) % KeySpace]
      /\ net' = Sent(net, n, remote, r.out)
      /\ minted' = [minted EXCEPT ![n] = @ + 1]
  BY <1>1 DEF Open, Managed
<1>3. key = minted[n]
  BY <1>1, <1>2, RoomLeft, NextKeyIs
<1>4. Entry(m) /\ m.remote = remote /\ m.peer = NoPeer
  BY <1>1, ManagedIsEntry DEF Managed
<1>5. /\ Sane(r.c) /\ r.c.state = "Connecting" /\ r.c.local = key
      /\ r.out = <<ConnectRequest(NewCircuit(key))>> /\ r.ev = <<>>
  BY <1>1, ConnectCall
<1>6. ~Closing(r.ev)
  BY <1>5 DEF Closing
<1>7. PICK x \in Collected(m, r) : Collected(m, r) = {x}
  BY <1>4, <1>6, CollectedIs
<1>8. x.c = r.c /\ x.remote = remote /\ x.peer = NoPeer
  BY <1>4, <1>7, CollectedIs
<1>9. Mints(n, x)
  BY <1>2, <1>3, <1>5, <1>7, <1>8 DEF Mints, Key
<1>10. PICK e : e = ConnectRequest(NewCircuit(key))
  OBVIOUS
<1>11. e.op = "ConnectRequest" /\ e.from = minted[n] /\ e.window \in Nat
  <2>1. PICK c, window : c = NewCircuit(key) /\ window = Clamp(WindowSize)
    OBVIOUS
  <2>2. c.local = key /\ window \in Nat
    <3>1. c.local = key
      BY <2>1, NewSane
    <3>2. WindowSize \in Int
      BY CircuitAssumption
    <3>3. Clamp(WindowSize) \in Nat
      BY <3>2, ClampIs
    <3> QED BY <2>1, <3>1, <3>3
  <2>3. e = ConnectRequest(c)
    BY <1>10, <2>1, Zenon
  <2>4. e.op = "ConnectRequest" /\ e.from = c.local /\ e.window = window
    BY <2>1, <2>3 DEF ConnectRequest
  <2> QED BY <1>3, <2>2, <2>4
<1>12. net' = Sent(net, n, remote, <<e>>)
  BY <1>2, <1>5, <1>10
<1> QED BY <1>5, <1>8, <1>9, <1>11, <1>12

LEMMA OpenStep ==
  ASSUME Minted, Counted, Books, AnswersDue, KeysFresh', NEW n \in Nodes,
         NEW remote \in Nodes \ {n}, Open(n, remote)
  PROVE  Books' /\ AnswersDue'
<1>1. PICK x, e : /\ Mints(n, x) /\ x.c.state = "Connecting"
                  /\ x.remote = remote /\ x.peer = NoPeer
                  /\ net' = Sent(net, n, remote, <<e>>) /\ e.op = "ConnectRequest"
                  /\ e.from = minted[n] /\ e.window \in Nat
  BY OpenedIs
<1>2. incoming' = incoming
  BY DEF Open
<1>3. PICK T : T = table[n] \cup {x}
  OBVIOUS
<1>4. /\ TableStep(n, T) /\ OneKey(T)
      /\ \A m \in table[n] : Key(m) # minted[n] /\ m # x
      /\ nextKey' = [k \in Nodes |-> minted'[k] % KeySpace]
      /\ minted[n] \in Nat /\ minted'[n] = minted[n] + 1
  BY <1>1, <1>3, MintsTable
<1>5. \A k \in Nodes : table'[k] = IF k = n THEN T ELSE table[k]
  BY <1>4, TableStepIs
<1>6. Key(x) = minted[n] /\ Sane(x.c) /\ Key(x) \in 0 .. minted'[n] - 1
  BY <1>1, <1>4 DEF Mints
<1>7. \A z \in T : EntrySound(n, z)'
  <2>1. \A m \in table[n] : EntrySound(n, m)'
    BY <1>1, <1>2, <1>3, MintsOthers
  <2>2. EntrySound(n, x)'
    BY <1>1, <1>6 DEF EntrySound, Key
  <2> QED BY <1>3, <2>1, <2>2
<1>8. PICK I, G, out, O : I = incoming[n] /\ G = {} /\ out = <<e>> /\ O = ToSet(out)
  OBVIOUS
<1>9. incoming' = [incoming EXCEPT ![n] = I]
  BY <1>2, <1>8 DEF Books
<1>10. ASSUME NEW old \in I PROVE IncomingSound(n, old)'
  <2>1. IncomingSound(n, old)
    BY <1>8 DEF Books
  <2>2. old.key # minted[n] /\ old.key \in 0 .. minted'[n] - 1
    BY <1>4, <2>1 DEF IncomingSound
  <2>3. \A m \in T : Key(m) = old.key => m \in table[n]
    BY <1>3, <1>6, <2>2
  <2> QED BY <1>2, <1>5, <2>1, <2>2, <2>3 DEF IncomingSound, Key
<1>11. O = {e}
  BY <1>8, SetOfOne
<1>12. NetStep(n, remote, O, n, G)
  <2>1. Without(net, n, n, G)
    BY WithoutNone
  <2> QED BY <1>1, <1>8, <2>1, OneIs, SentStep
<1>13. \A z \in O : DatagramSound(n, remote, z)'
  <2>1. \A m \in T : Key(m) = minted[n] => m = x
    BY <1>3, <1>4
  <2>2. PICK key : key = minted[n]
    OBVIOUS
  <2>3. Owned(n, remote, key)' /\ Told(n, key)'
    BY <1>1, <1>5, <1>6, <2>1, <2>2 DEF Owned, Told, Key
  <2>4. DatagramSound(n, remote, e)'
    BY <1>1, <2>2, <2>3 DEF DatagramSound, Opcodes
  <2> QED BY <1>11, <2>4
<1>14. Attends(n, T, n, G)
  <2>1. AnswerDue(n, Key(x), x.remote)'
    <3>1. e \in Transit(n, remote)'
      BY <1>11, <1>12 DEF NetStep
    <3>2. ASSUME NEW p \in table[remote] PROVE p.peer # <<n, minted[n]>>
      <4> SUFFICES ASSUME p.peer = <<n, minted[n]>> PROVE FALSE
        OBVIOUS
      <4>1. p.peer # NoPeer
        BY DEF NoPeer
      <4>2. EntrySound(remote, p)
        BY DEF Books
      <4>3. PICK k : p.peer = <<p.remote, k>> /\ Owned(p.remote, remote, k)
        BY <4>1, <4>2 DEF EntrySound
      <4>4. p.remote = n /\ k = minted[n]
        BY <4>3
      <4>5. minted[n] \in 0 .. minted[n] - 1
        BY <4>3, <4>4 DEF Owned
      <4> QED BY <1>4, <4>5
    <3>3. \A p \in table'[remote] : p.peer # <<n, minted[n]>>
      BY <1>5, <3>2
    <3>4. \E d \in Transit(n, remote)' : d.op = "ConnectRequest" /\ d.from = minted[n]
      BY <1>1, <3>1
    <3>5. PICK key : key = minted[n]
      OBVIOUS
    <3>6. Asking(n, key, remote)'
      BY <3>3, <3>4, <3>5 DEF Asking
    <3> QED BY <1>1, <1>6, <3>5, <3>6 DEF AnswerDue, Key
  <2> QED BY <1>1, <1>3, <1>8, <2>1 DEF Attends
<1>15. Books'
  BY <1>4, <1>7, <1>9, <1>10, <1>12, <1>13, BooksStep
<1> QED BY <1>4, <1>12, <1>14, <1>15, AnswersStep

-----------------------------------------------------------------------------
(***************************************************************************)
(* The host decides.                                                       *)
(***************************************************************************)
\* What accept leaves of a circuit and sends.
Accepted(c, peer, r) ==
  /\ Sane(r.c) /\ r.c.state = "Connected" /\ r.c.local = c.local
  /\ r.c.remote = peer /\ ~Closing(r.ev)
  /\ r.out = <<ConnectAcknowledge(r.c, FALSE)>>

LEMMA AcceptCall ==
  ASSUME NEW c, Sane(c), NEW peer, NEW proposed \in Nat
  PROVE  Accepted(c, peer, AcceptInbound(c, peer, proposed))
<1>1. PICK wanted, w : /\ wanted = IF proposed = 0 THEN WindowSize ELSE proposed
                       /\ w = Clamp(Least(wanted, WindowSize))
  OBVIOUS
<1>2. PICK up, x, r : /\ up = [c EXCEPT !.remote = peer, !.state = "Connected", !.window = w]
                      /\ x = [type |-> "Connected"]
                      /\ r = AcceptInbound(c, peer, proposed)
  OBVIOUS
<1>3. r = Result(up, <<ConnectAcknowledge(up, FALSE)>>, <<x>>)
  BY <1>1, <1>2 DEF AcceptInbound
<1>4. r.c = up /\ r.out = <<ConnectAcknowledge(up, FALSE)>> /\ r.ev = <<x>>
  BY <1>3 DEF Result
<1>5. w \in Nat
  <2>1. Least(wanted, WindowSize) \in Int
    BY <1>1, CircuitAssumption DEF Least
  <2> QED BY <1>1, <2>1, ClampIs
<1>6. Became(c, up, "Connected", peer)
  BY <1>2, <1>5, AcceptedCircuit
<1>7. ~Closing(r.ev)
  <2>1. x.type = "Connected"
    BY <1>2
  <2> QED BY <1>4, <2>1 DEF Closing
<1>8. Accepted(c, peer, r)
  BY <1>4, <1>6, <1>7 DEF Became, Accepted
<1> QED BY <1>2, <1>8

\* What refuse sends.
LEMMA RefuseCall ==
  ASSUME NEW c, Sane(c), NEW peer
  PROVE  \E e : /\ RefuseInbound(c, peer).out = <<e>>
                /\ e.op = "ConnectAcknowledge" /\ e.key = peer /\ e.choke
<1>1. PICK d : d = [c EXCEPT !.remote = peer, !.state = "Disconnected"]
  OBVIOUS
<1>2. PICK st1, lo, re1, wi1, vs1, va1, vr1, q1, un1, ra1, pc1, lc1, pe1, ca1, cr1 :
         c = CircuitRecord(st1, lo, re1, wi1, vs1, va1, vr1, q1, un1, ra1, pc1, lc1,
                           pe1, ca1, cr1)
  BY DEF Sane, IsRecord
<1>3. d = CircuitRecord("Disconnected", lo, peer, wi1, vs1, va1, vr1, q1, un1, ra1, pc1, lc1,
                        pe1, ca1, cr1)
  BY <1>1, <1>2 DEF CircuitRecord
<1>4. d.remote = peer
  BY <1>3, RecordFields
<1>5. PICK e : e = ConnectAcknowledge(d, TRUE)
  OBVIOUS
<1>6. RefuseInbound(c, peer).out = <<e>>
  BY <1>1, <1>5 DEF RefuseInbound, Result
<1>7. e.op = "ConnectAcknowledge" /\ e.key = peer /\ e.choke
  BY <1>4, <1>5 DEF ConnectAcknowledge
<1> QED BY <1>6, <1>7

-----------------------------------------------------------------------------
\* The decision on inc leaves node n the table T: the circuits it had, and in
\* the place of inc's one that is in order.
Decides(n, inc, T) ==
  /\ TableStep(n, T) /\ OneKey(T)
  /\ \A x \in T : \/ x \in table[n] /\ Key(x) # inc.key
                  \/ Key(x) = inc.key /\ EntrySound(n, x)'
  /\ incoming' = [incoming EXCEPT ![n] = @ \ {inc}]
  /\ nextKey' = nextKey /\ minted' = minted

LEMMA DecidedStep ==
  ASSUME Minted, Counted, Books, AnswersDue, NEW n \in Nodes, NEW inc \in incoming[n],
         NEW T, Decides(n, inc, T),
         NEW to \in Nodes, NEW O, NEW G, NetStep(n, to, O, n, G),
         \A e \in O : DatagramSound(n, to, e)',
         Attends(n, T, n, G)
  PROVE  Books' /\ AnswersDue'
<1> USE DEF Decides
<1>1. PICK I : I = incoming[n] \ {inc}
  OBVIOUS
<1>2. incoming' = [incoming EXCEPT ![n] = I] /\ incoming'[n] = I
  BY <1>1 DEF Books
<1>3. table'[n] = T
  BY TableStepIs
<1>4. \A z \in T : EntrySound(n, z)'
  <2> TAKE z \in T
  <2>1. CASE z \in table[n] /\ Key(z) # inc.key
    <3>1. EntrySound(n, z)
      BY <2>1 DEF Books
    <3>2. \A other \in incoming[n] : other.key = Key(z) => other \in incoming'[n]
      BY <1>1, <1>2, <2>1
    <3> QED BY <3>1, <3>2, StaysEntry
  <2> QED BY <2>1
<1>5. ASSUME NEW other \in I PROVE IncomingSound(n, other)'
  <2>1. IncomingSound(n, other) /\ other \in incoming[n] /\ other # inc
    BY <1>1 DEF Books
  <2>2. other.key # inc.key
    BY <2>1 DEF IncomingSound
  <2>3. \A m \in T : Key(m) = other.key => m \in table[n]
    BY <2>2
  <2> QED BY <1>1, <1>2, <1>3, <2>1, <2>3 DEF IncomingSound, Key
<1>6. nextKey' = [k \in Nodes |-> minted'[k] % KeySpace]
  BY DEF Books
<1>7. Books'
  BY <1>2, <1>4, <1>5, <1>6, BooksStep
<1> QED BY <1>7, AnswersStep

\* A decision on a circuit that is no longer there.
LEMMA NobodyStep ==
  ASSUME Minted, Counted, Books, AnswersDue, NEW n \in Nodes, NEW inc \in incoming[n],
         \A m \in table[n] : Key(m) # inc.key,
         table' = table, net' = net, incoming' = [incoming EXCEPT ![n] = @ \ {inc}],
         nextKey' = nextKey, minted' = minted
  PROVE  Books' /\ AnswersDue'
<1>1. PICK T, O, G : T = table[n] /\ O = {} /\ G = {}
  OBVIOUS
<1>2. Decides(n, inc, T)
  BY <1>1, SameTable DEF Decides, Books
<1>3. NetStep(n, n, O, n, G)
  <2>1. Without(net', n, n, G)
    <3>1. Without(net, n, n, G)
      BY WithoutNone
    <3> QED BY <3>1
  <2> QED BY <1>1, <2>1, SilentStep
<1>4. Attends(n, T, n, G)
  BY <1>1 DEF Attends
<1>5. \A e \in O : DatagramSound(n, n, e)'
  BY <1>1
<1> QED BY <1>2, <1>3, <1>4, <1>5, DecidedStep

-----------------------------------------------------------------------------
LEMMA AcceptKnownStep ==
  ASSUME Minted, Counted, Books, AnswersDue, NEW n \in Nodes, NEW inc \in incoming[n],
         NEW m \in table[n], Key(m) = inc.key,
         Drive(n, m, AcceptInbound(m.c, inc.peer, inc.window), net),
         incoming' = [incoming EXCEPT ![n] = @ \ {inc}],
         nextKey' = nextKey, minted' = minted
  PROVE  Books' /\ AnswersDue'
<1>1. PICK r, S : r = AcceptInbound(m.c, inc.peer, inc.window) /\ S = Collected(m, r)
  OBVIOUS
<1>2. Entry(m) /\ EntrySound(n, m) /\ IncomingSound(n, inc)
  BY TableInOrder DEF Books
<1>3. m.c.state = "Disconnected" /\ m.peer = <<m.remote, inc.peer>> /\ inc.window \in Nat
  BY <1>2 DEF IncomingSound
<1>4. /\ Sane(r.c) /\ r.c.state = "Connected" /\ r.c.local = m.c.local
      /\ r.c.remote = inc.peer /\ ~Closing(r.ev)
      /\ r.out = <<ConnectAcknowledge(r.c, FALSE)>>
  <2>1. Sane(m.c)
    BY <1>2 DEF EntrySound
  <2>2. PICK w \in Nat : w = inc.window
    BY <1>3
  <2>3. Accepted(m.c, inc.peer, r)
    BY <1>1, <2>1, <2>2, AcceptCall
  <2> QED BY <2>3 DEF Accepted
<1>5. /\ \A x \in S : x.c = r.c /\ x.remote = m.remote /\ x.peer = m.peer
      /\ \A x, y \in S : x = y
      /\ \E x \in S : TRUE
  BY <1>1, <1>2, <1>4, CollectedIs
<1>6. Replaces(n, m, S, r.out, net)
  BY <1>1, <1>4, <1>5, OneIs DEF Replaces, Drive, Key
<1>7. PICK T, to, O, G : T = (table[n] \ {m}) \cup S /\ to = m.remote /\ O = ToSet(r.out)
                         /\ G = {}
  OBVIOUS
<1>8. TableStep(n, T) /\ OneKey(T) /\ table'[n] = T
  <2>1. TableStep(n, T) /\ OneKey(T)
    BY <1>6, <1>7, ReplacesTable
  <2> QED BY <2>1, TableStepIs
<1>9. to \in Nodes /\ to = m.remote
  BY <1>2, <1>7 DEF EntrySound
<1>10. Owned(to, n, inc.peer)' /\ Told(to, inc.peer)'
  <2>1. PICK key : key = inc.peer
    OBVIOUS
  <2>2. m.peer # NoPeer
    BY <1>3 DEF NoPeer
  <2>3. Owned(to, n, key) /\ Told(to, key)
    BY <1>2, <1>3, <1>9, <2>1, <2>2 DEF EntrySound
  <2> QED BY <1>8, <1>9, <2>1, <2>3, StaysOwned
<1>11. ASSUME NEW x \in S PROVE Key(x) = inc.key /\ EntrySound(n, x)'
  <2>1. /\ Key(x) = Key(m) /\ x.c.state = "Connected" /\ x.c.remote = inc.peer
        /\ x.remote = to /\ x.peer = <<to, inc.peer>> /\ Sane(x.c)
    BY <1>3, <1>4, <1>5, <1>9 DEF Key
  <2>2. Key(m) \in 0 .. minted'[n] - 1 /\ to \in Nodes \ {n}
    BY <1>2, <1>9 DEF EntrySound
  <2>3. \E k : /\ x.peer = <<x.remote, k>>
               /\ Owned(x.remote, n, k)' /\ Told(x.remote, k)'
               /\ x.c.state # "Disconnected" => x.c.remote = k
    BY <1>10, <2>1
  <2>4. Told(x.remote, x.c.remote)'
    BY <1>10, <2>1
  <2> QED BY <2>1, <2>2, <2>3, <2>4 DEF EntrySound, Key
<1>12. Decides(n, inc, T)
  <2>1. \A x \in T : \/ x \in table[n] /\ Key(x) # inc.key
                     \/ Key(x) = inc.key /\ EntrySound(n, x)'
    <3> TAKE x \in T
    <3>1. CASE x \in S
      BY <1>11, <3>1
    <3>2. CASE x \in table[n] /\ x # m
      BY <3>2 DEF Books, OneKey
    <3> QED BY <1>7, <3>1, <3>2
  <2> QED BY <1>8, <2>1 DEF Decides
<1>13. NetStep(n, to, O, n, G)
  <2>1. Without(net, n, n, G)
    BY WithoutNone
  <2> QED BY <1>6, <1>7, <1>9, <2>1, SentStep DEF Replaces
<1>14. PICK e : e = ConnectAcknowledge(r.c, FALSE)
  OBVIOUS
<1>15. O = {e} /\ e.op = "ConnectAcknowledge" /\ e.key = inc.peer /\ e.from = Key(m)
  <2>1. O = {e}
    BY <1>4, <1>7, <1>14, SetOfOne
  <2>2. e.op = "ConnectAcknowledge" /\ e.key = r.c.remote /\ e.from = r.c.local
    BY <1>14 DEF ConnectAcknowledge
  <2> QED BY <1>4, <2>1, <2>2 DEF Key
<1>16. \A z \in O : DatagramSound(n, to, z)'
  <2>1. PICK key : key = Key(m)
    OBVIOUS
  <2>2. key \in 0 .. minted'[n] - 1
    BY <1>2, <2>1 DEF EntrySound
  <2>3. \A z \in T : Key(z) = key => z.c.state # "Disconnected"
    <3> TAKE z \in T
    <3>1. CASE z \in S
      BY <1>4, <1>5, <3>1
    <3>2. CASE z \in table[n] /\ z # m
      BY <2>1, <3>2 DEF Books, OneKey
    <3> QED BY <1>7, <3>1, <3>2
  <2>4. Told(n, key)'
    BY <1>8, <2>2, <2>3 DEF Told, Key
  <2>5. DatagramSound(n, to, e)'
    BY <1>10, <1>15, <2>1, <2>4 DEF DatagramSound, Opcodes
  <2> QED BY <1>15, <2>5
<1>17. Replied(to, inc.peer, n)'
  <2>1. e \in Transit(n, to)'
    BY <1>13, <1>15 DEF NetStep
  <2> QED BY <1>15, <2>1 DEF Replied
<1>18. Attends(n, T, n, G)
  <2>1. \A x \in T : x.c.state = "Connecting" =>
          \E z \in table[n] : /\ Key(z) = Key(x) /\ z.remote = x.remote
                              /\ z.c.state = "Connecting"
    BY <1>4, <1>5, <1>7
  <2>2. \A p \in table[n] : p.c.state = "Disconnected" =>
          \/ \E x \in T : x.peer = p.peer /\ x.c.state = "Disconnected"
          \/ \A k, key : p.peer = <<k, key>> => Replied(k, key, n)'
    <3> TAKE p \in table[n]
    <3>1. CASE p = m
      <4> SUFFICES ASSUME NEW k, NEW key, p.peer = <<k, key>> PROVE Replied(k, key, n)'
        OBVIOUS
      <4>1. k = to /\ key = inc.peer
        BY <1>3, <1>9, <3>1
      <4> QED BY <1>17, <4>1
    <3>2. CASE p # m
      BY <1>7, <3>2
    <3> QED BY <3>1, <3>2
  <2>3. \A x \in T : \E z \in table[n] : z.peer = x.peer
    BY <1>5, <1>7
  <2> QED BY <1>7, <2>1, <2>2, <2>3 DEF Attends
<1> QED BY <1>9, <1>12, <1>13, <1>16, <1>18, DecidedStep

LEMMA AcceptStep ==
  ASSUME Minted, Counted, Books, AnswersDue, NEW n \in Nodes, NEW inc \in incoming[n],
         Accept(n, inc)
  PROVE  Books' /\ AnswersDue'
<1>1. /\ incoming' = [incoming EXCEPT ![n] = @ \ {inc}]
      /\ nextKey' = nextKey /\ minted' = minted
  BY DEF Accept
<1>2. CASE \E m \in table[n] : Key(m) = inc.key
  <2>1. PICK m \in table[n] : /\ Key(m) = inc.key
                              /\ Drive(n, m, AcceptInbound(m.c, inc.peer, inc.window), net)
    BY <1>2 DEF Accept
  <2> QED BY <1>1, <2>1, AcceptKnownStep
<1>3. CASE ~ \E m \in table[n] : Key(m) = inc.key
  <2>1. table' = table /\ net' = net
    BY <1>3 DEF Accept
  <2> QED BY <1>1, <1>3, <2>1, NobodyStep
<1> QED BY <1>2, <1>3

-----------------------------------------------------------------------------
LEMMA RefuseKnownStep ==
  ASSUME Minted, Counted, Books, AnswersDue, NEW n \in Nodes, NEW inc \in incoming[n],
         NEW m \in table[n], Key(m) = inc.key, NEW e,
         e.op = "ConnectAcknowledge", e.key = inc.peer, e.choke,
         table' = [table EXCEPT ![n] = @ \ {m}],
         net' = Sent(net, n, m.remote, <<e>>),
         incoming' = [incoming EXCEPT ![n] = @ \ {inc}],
         nextKey' = nextKey, minted' = minted
  PROVE  Books' /\ AnswersDue'
<1>1. PICK T, to, out, O, G :
        T = table[n] \ {m} /\ to = m.remote /\ out = <<e>> /\ O = ToSet(out) /\ G = {}
  OBVIOUS
<1>2. EntrySound(n, m) /\ IncomingSound(n, inc)
  BY DEF Books
<1>3. m.c.state = "Disconnected" /\ m.peer = <<to, inc.peer>>
  BY <1>1, <1>2 DEF IncomingSound
<1>4. TableStep(n, T) /\ OneKey(T)
  <2>1. table' = [table EXCEPT ![n] = T]
    BY <1>1
  <2> QED BY <1>1, <2>1 DEF TableStep, Grown, OneKey, Books
<1>5. to \in Nodes /\ to = m.remote
  BY <1>1, <1>2 DEF EntrySound
<1>6. Owned(to, n, inc.peer)'
  <2>1. PICK key : key = inc.peer
    OBVIOUS
  <2>2. m.peer # NoPeer
    BY <1>3 DEF NoPeer
  <2>3. Owned(to, n, key)
    BY <1>2, <1>3, <1>5, <2>1, <2>2 DEF EntrySound
  <2> QED BY <1>4, <1>5, <2>1, <2>3, StaysOwned
<1>7. Decides(n, inc, T)
  <2>1. \A x \in T : x \in table[n] /\ Key(x) # inc.key
    BY <1>1 DEF Books, OneKey
  <2> QED BY <1>4, <2>1 DEF Decides
<1>8. NetStep(n, to, O, n, G)
  <2>1. Without(net, n, n, G)
    BY WithoutNone
  <2>2. IsSequence(out)
    BY <1>1, OneIs
  <2> QED BY <1>1, <1>5, <2>1, <2>2, SentStep
<1>9. O = {e}
  BY <1>1, SetOfOne
<1>10. \A z \in O : DatagramSound(n, to, z)'
  <2>1. DatagramSound(n, to, e)'
    BY <1>6 DEF DatagramSound, Opcodes
  <2> QED BY <1>9, <2>1
<1>11. Replied(to, inc.peer, n)'
  <2>1. e \in Transit(n, to)'
    BY <1>8, <1>9 DEF NetStep
  <2> QED BY <2>1 DEF Replied
<1>12. Attends(n, T, n, G)
  <2>1. \A p \in table[n] : p.c.state = "Disconnected" =>
          \/ \E x \in T : x.peer = p.peer /\ x.c.state = "Disconnected"
          \/ \A k, key : p.peer = <<k, key>> => Replied(k, key, n)'
    <3> TAKE p \in table[n]
    <3>1. CASE p = m
      <4> SUFFICES ASSUME NEW k, NEW key, p.peer = <<k, key>> PROVE Replied(k, key, n)'
        OBVIOUS
      <4>1. k = to /\ key = inc.peer
        BY <1>3, <3>1
      <4> QED BY <1>11, <4>1
    <3>2. CASE p # m
      BY <1>1, <3>2
    <3> QED BY <3>1, <3>2
  <2> QED BY <1>1, <2>1 DEF Attends
<1> QED BY <1>5, <1>7, <1>8, <1>10, <1>12, DecidedStep

LEMMA RefuseStep ==
  ASSUME Minted, Counted, Books, AnswersDue, NEW n \in Nodes, NEW inc \in incoming[n],
         Refuse(n, inc)
  PROVE  Books' /\ AnswersDue'
<1>1. PICK refused : refused = {m \in table[n] : Key(m) = inc.key}
  OBVIOUS
<1>2. /\ net' = [od \in DOMAIN net |->
                   IF \E m \in refused : od = <<n, m.remote>>
                   THEN net[od] \o RefuseInbound((CHOOSE m \in refused : TRUE).c, inc.peer).out
                   ELSE net[od]]
      /\ table' = [table EXCEPT ![n] = @ \ refused]
      /\ incoming' = [incoming EXCEPT ![n] = @ \ {inc}]
      /\ nextKey' = nextKey /\ minted' = minted
  BY <1>1 DEF Refuse
<1>3. net = [od \in Nodes \X Nodes |-> net[od]] /\ DOMAIN net = Nodes \X Nodes
  BY DEF Books
<1>4. CASE refused = {}
  <2>1. net' = net
    BY <1>2, <1>3, <1>4
  <2>2. table' = table
    <3>1. table = [k \in Nodes |-> table[k]]
      BY DEF Minted, TablesShaped
    <3> QED BY <1>2, <1>4, <3>1
  <2> QED BY <1>1, <1>2, <1>4, <2>1, <2>2, NobodyStep
<1>5. CASE refused # {}
  <2>1. PICK m \in table[n] : Key(m) = inc.key /\ refused = {m}
    BY <1>1, <1>5 DEF Books, OneKey
  <2>2. (CHOOSE z \in refused : TRUE) = m
    BY <2>1
  <2>3. Sane(m.c) /\ m.remote \in Nodes
    BY DEF Books, EntrySound
  <2>4. PICK e : /\ RefuseInbound(m.c, inc.peer).out = <<e>>
                 /\ e.op = "ConnectAcknowledge" /\ e.key = inc.peer /\ e.choke
    BY <2>3, RefuseCall
  <2>5. net' = [od \in Nodes \X Nodes |->
                  IF od = <<n, m.remote>> THEN net[od] \o <<e>> ELSE net[od]]
    BY <1>2, <1>3, <2>1, <2>2, <2>4
  <2>6. net' = Sent(net, n, m.remote, <<e>>)
    BY <1>3, <2>3, <2>5 DEF Sent
  <2>7. table' = [table EXCEPT ![n] = @ \ {m}]
    BY <1>2, <2>1
  <2>8. /\ incoming' = [incoming EXCEPT ![n] = @ \ {inc}]
        /\ nextKey' = nextKey /\ minted' = minted
    BY <1>2
  <2> QED BY <2>1, <2>4, <2>6, <2>7, <2>8, RefuseKnownStep
<1> QED BY <1>4, <1>5

-----------------------------------------------------------------------------
(***************************************************************************)
(* Every step.                                                             *)
(***************************************************************************)
Spending(o, h, r, l, d, e, s) ==
  [opens |-> o, hangups |-> h, refusals |-> r, loss |-> l,
   duplicates |-> d, expiries |-> e, restarts |-> s]

\* A step mints at most one circuit, and spends of the bounds.
MintsOne == minted' = minted \/ \E n \in Nodes : minted' = [minted EXCEPT ![n] = @ + 1]

Spends ==
  /\ MintsOne
  /\ \E o, h, r, l, d, e, s :
       /\ spent' = Spending(o, h, r, l, d, e, s)
       /\ l \in {spent.loss, spent.loss + 1} /\ s \in {spent.restarts, spent.restarts + 1}

LEMMA SpendsIs ==
  ASSUME NEW o, NEW h, NEW r, NEW l, NEW d, NEW e, NEW s,
         spent' = Spending(o, h, r, l, d, e, s),
         l \in {spent.loss, spent.loss + 1}, s \in {spent.restarts, spent.restarts + 1},
         MintsOne
  PROVE  Spends
  BY Zenon DEF Spends

LEMMA SpendsCounted ==
  ASSUME Counted, Spends
  PROVE  Counted' /\ (Fresh' => Fresh /\ spent'.loss = spent.loss
                                /\ spent'.restarts = spent.restarts)
<1>1. PICK o, h, r, l, d, e, s :
        /\ spent' = Spending(o, h, r, l, d, e, s)
        /\ l \in {spent.loss, spent.loss + 1} /\ s \in {spent.restarts, spent.restarts + 1}
  BY DEF Spends
<1>2. spent'.loss = l /\ spent'.restarts = s
  BY <1>1 DEF Spending
<1>3. /\ spent.loss \in Nat /\ spent.restarts \in Nat
      /\ minted \in [Nodes -> Nat]
  BY DEF Counted
<1>4. /\ minted' \in [Nodes -> Nat]
      /\ \A n \in Nodes : minted[n] <= minted'[n]
  BY <1>3 DEF Spends, MintsOne
<1>5. Counted'
  <2>1. l \in Nat /\ s \in Nat
    BY <1>1, <1>3
  <2>2. \E a, b, c, x, y, z, w :
          spent' = [opens |-> a, hangups |-> b, refusals |-> c, loss |-> x,
                    duplicates |-> y, expiries |-> z, restarts |-> w]
    BY <1>1, Zenon DEF Spending
  <2> QED BY <1>2, <1>4, <2>1, <2>2 DEF Counted
<1>6. ASSUME Fresh' PROVE Fresh /\ l = spent.loss /\ s = spent.restarts
  <2>1. l = 0 /\ s = 0 /\ KeysFresh'
    BY <1>2, <1>6 DEF Fresh
  <2>2. spent.loss = 0 /\ spent.restarts = 0 /\ l = spent.loss /\ s = spent.restarts
    BY <1>1, <1>3, <2>1
  <2>3. \A n \in Nodes : minted[n] <= KeySpace
    <3> TAKE n \in Nodes
    <3>1. /\ minted'[n] <= KeySpace /\ minted[n] <= minted'[n] /\ KeySpace \in Nat
          /\ minted[n] \in Nat /\ minted'[n] \in Nat
      BY <1>3, <1>4, <2>1, ManagerAssumption DEF KeysFresh
    <3> QED BY <3>1
  <2> QED BY <2>2, <2>3 DEF Fresh, KeysFresh
<1> QED BY <1>2, <1>5, <1>6

LEMMA NextSpends ==
  ASSUME Counted, [Next]_vars
  PROVE  Spends
<1>1. PICK o, h, r, l, d, e, s :
        /\ spent = Spending(o, h, r, l, d, e, s) /\ l = spent.loss /\ s = spent.restarts
  BY DEF Counted, Spending
<1>2. l \in {spent.loss, spent.loss + 1} /\ s \in {spent.restarts, spent.restarts + 1}
  BY <1>1
<1>3. ASSUME NEW n \in Nodes, NEW other \in Nodes,
             Open(n, other) \/ Deliver(n, other) \/ Duplicate(n, other) \/ Lose(n, other)
      PROVE  Spends
  <2>1. CASE Open(n, other)
    <3>1. PICK v : v = [o EXCEPT ![n] = @ + 1]
      OBVIOUS
    <3>2. spent' = Spending(v, h, r, l, d, e, s)
      BY <1>1, <2>1, <3>1 DEF Open, Spending
    <3>3. MintsOne
      BY <2>1 DEF Open, MintsOne
    <3> QED BY <1>1, <1>2, SpendsIs, <3>2, <3>3
  <2>2. ASSUME NEW before, Receive(n, other, before) PROVE MintsOne
    BY <2>2 DEF Receive, OnConnectPacket, OnCircuitPacket, MintInbound, MintsOne
  <2>3. CASE Deliver(n, other)
    <3>1. MintsOne
      BY <2>2, <2>3 DEF Deliver
    <3>2. spent' = Spending(o, h, r, l, d, e, s)
      BY <1>1, <2>3 DEF Deliver
    <3> QED BY <1>1, <1>2, SpendsIs, <3>1, <3>2
  <2>4. CASE Duplicate(n, other)
    <3>1. PICK v : v = d + 1
      OBVIOUS
    <3>2. spent' = Spending(o, h, r, l, v, e, s)
      BY <1>1, <2>4, <3>1 DEF Duplicate, Spending
    <3>3. MintsOne
      BY <2>2, <2>4 DEF Duplicate
    <3> QED BY <1>1, <1>2, SpendsIs, <3>2, <3>3
  <2>5. CASE Lose(n, other)
    <3>1. PICK v : v = l + 1
      OBVIOUS
    <3>2. spent' = Spending(o, h, r, v, d, e, s)
      BY <1>1, <2>5, <3>1 DEF Lose, Spending
    <3>3. MintsOne
      BY <2>5 DEF Lose, MintsOne
    <3> QED BY <1>1, <1>2, SpendsIs, <3>1, <3>2, <3>3
  <2> QED BY <1>3, <2>1, <2>3, <2>4, <2>5
<1>4. ASSUME NEW n \in Nodes, NEW m \in table[n], Write(n, m) \/ Hangup(n, m) \/ Tick1(n, m)
      PROVE  Spends
  <2>1. CASE Write(n, m)
    BY <1>1, <1>2, SpendsIs, <2>1 DEF Write, MintsOne
  <2>2. CASE Hangup(n, m)
    <3>1. PICK v : v = h + 1
      OBVIOUS
    <3>2. spent' = Spending(o, v, r, l, d, e, s)
      BY <1>1, <2>2, <3>1 DEF Hangup, Spending
    <3>3. MintsOne
      BY <2>2 DEF Hangup, MintsOne
    <3> QED BY <1>1, <1>2, SpendsIs, <3>2, <3>3
  <2>3. CASE Tick1(n, m)
    <3>1. PICK v : v = e + 1
      OBVIOUS
    <3>2. spent' = Spending(o, h, r, l, d, v, s)
      BY <1>1, <2>3, <3>1 DEF Tick1, Spending
    <3>3. MintsOne
      BY <2>3 DEF Tick1, MintsOne
    <3> QED BY <1>1, <1>2, SpendsIs, <3>2, <3>3
  <2> QED BY <1>4, <2>1, <2>2, <2>3
<1>5. ASSUME NEW n \in Nodes, NEW inc, Accept(n, inc) \/ Refuse(n, inc)
      PROVE  Spends
  <2>1. CASE Accept(n, inc)
    BY <1>1, <1>2, SpendsIs, <2>1 DEF Accept, MintsOne
  <2>2. CASE Refuse(n, inc)
    <3>1. PICK v : v = r + 1
      OBVIOUS
    <3>2. spent' = Spending(o, h, v, l, d, e, s)
      BY <1>1, <2>2, <3>1 DEF Refuse, Spending
    <3>3. MintsOne
      BY <2>2 DEF Refuse, MintsOne
    <3> QED BY <1>1, <1>2, SpendsIs, <3>2, <3>3
  <2> QED BY <1>5, <2>1, <2>2
<1>6. ASSUME NEW n \in Nodes, Restart(n) PROVE Spends
  <2>1. PICK v : v = s + 1
    OBVIOUS
  <2>2. spent' = Spending(o, h, r, l, d, e, v)
    BY <1>1, <1>6, <2>1 DEF Restart, Spending
  <2>3. MintsOne
    BY <1>6 DEF Restart, MintsOne
  <2> QED BY <1>1, <1>2, SpendsIs, <2>1, <2>2, <2>3
<1>7. CASE UNCHANGED vars
  BY <1>1, <1>2, SpendsIs, <1>7 DEF vars, MintsOne
<1> QED BY <1>3, <1>4, <1>5, <1>6, <1>7 DEF Next

-----------------------------------------------------------------------------
LEMMA StutterStep ==
  ASSUME Books, AnswersDue, UNCHANGED vars
  PROVE  Books' /\ AnswersDue'
<1>1. table' = table /\ net' = net /\ incoming' = incoming /\ minted' = minted
      /\ nextKey' = nextKey
  BY DEF vars
<1>2. ASSUME NEW n, NEW m, EntrySound(n, m) PROVE EntrySound(n, m)'
  BY <1>1, <1>2 DEF EntrySound, Owned, Told, Key
<1>3. ASSUME NEW x, NEW y, NEW d, DatagramSound(x, y, d) PROVE DatagramSound(x, y, d)'
  BY <1>1, <1>3 DEF DatagramSound, Owned, Told, Key
<1>4. ASSUME NEW n, NEW inc, IncomingSound(n, inc) PROVE IncomingSound(n, inc)'
  BY <1>1, <1>4 DEF IncomingSound, Key
<1>5. Books'
  BY <1>1, <1>2, <1>3, <1>4 DEF Books, Transit
<1>6. ASSUME NEW n, NEW key, NEW o, AnswerDue(n, key, o) PROVE AnswerDue(n, key, o)'
  BY <1>1, <1>6 DEF AnswerDue, Replied, Undecided, Asking, Transit
<1>7. AnswersDue'
  BY <1>1, <1>6 DEF AnswersDue, Key
<1> QED BY <1>5, <1>7

LEMMA NextLedger == Ledger /\ [Next]_vars => Ledger'
<1> SUFFICES ASSUME Ledger, [Next]_vars PROVE Ledger'
  OBVIOUS
<1>1. Minted /\ Counted
  BY DEF Ledger
<1>2. Minted'
  BY <1>1, NextMinted
<1>3. Counted' /\ (Fresh' => Fresh /\ spent'.loss = spent.loss
                             /\ spent'.restarts = spent.restarts)
  BY <1>1, NextSpends, SpendsCounted
<1> SUFFICES ASSUME Fresh' PROVE Books' /\ AnswersDue'
  BY <1>2, <1>3 DEF Ledger
<1>4. Books /\ AnswersDue
  BY <1>3 DEF Ledger
<1>5. spent'.loss = spent.loss /\ spent'.restarts = spent.restarts /\ KeysFresh'
      /\ spent.loss \in Nat /\ spent.restarts \in Nat
  BY <1>1, <1>3 DEF Fresh, Counted
<1>6. ASSUME NEW n \in Nodes, NEW other \in Nodes \ {n},
             Open(n, other) \/ Deliver(n, other) \/ Duplicate(n, other) \/ Lose(n, other)
      PROVE  Books' /\ AnswersDue'
  <2>1. CASE Open(n, other)
    BY <1>1, <1>4, <1>5, <2>1, OpenStep
  <2>2. CASE Deliver(n, other)
    <3>1. PICK before : before = [net EXCEPT ![<<other, n>>] = Tail(@)]
      OBVIOUS
    <3>2. net[<<other, n>>] # <<>> /\ Receive(n, other, before)
      BY <2>2, <3>1 DEF Deliver
    <3>3. Without(before, other, n, {Head(net[<<other, n>>])})
      BY <1>4, <3>1, <3>2, WithoutHead
    <3> QED BY <1>1, <1>4, <1>5, <3>2, <3>3, ReceiveStep
  <2>3. CASE Duplicate(n, other)
    <3>1. net[<<other, n>>] # <<>> /\ Receive(n, other, net)
      BY <2>3 DEF Duplicate
    <3>2. Without(net, other, n, {Head(net[<<other, n>>])})
      BY <1>4, WithoutNone
    <3>3. PICK before : before = net
      OBVIOUS
    <3>4. Without(before, other, n, {Head(net[<<other, n>>])}) /\ Receive(n, other, before)
      BY <3>1, <3>2, <3>3
    <3> QED BY <1>1, <1>4, <1>5, <3>1, <3>4, ReceiveStep
  <2>4. CASE Lose(n, other)
    <3>1. spent'.loss = spent.loss + 1
      BY <1>1, <2>4 DEF Lose, Counted
    <3> QED BY <1>5, <3>1
  <2> QED BY <1>6, <2>1, <2>2, <2>3, <2>4
<1>7. ASSUME NEW n \in Nodes, NEW m \in table[n], Write(n, m) \/ Hangup(n, m) \/ Tick1(n, m)
      PROVE  Books' /\ AnswersDue'
  <2>1. CASE Write(n, m)
    BY <1>1, <1>4, <2>1, WriteStep
  <2>2. CASE Hangup(n, m)
    BY <1>1, <1>4, <2>2, HangupStep
  <2>3. CASE Tick1(n, m)
    BY <1>1, <1>4, <2>3, TickStep
  <2> QED BY <1>7, <2>1, <2>2, <2>3
<1>8. ASSUME NEW n \in Nodes, NEW inc \in incoming[n], Accept(n, inc) \/ Refuse(n, inc)
      PROVE  Books' /\ AnswersDue'
  <2>1. CASE Accept(n, inc)
    BY <1>1, <1>4, <2>1, AcceptStep
  <2>2. CASE Refuse(n, inc)
    BY <1>1, <1>4, <2>2, RefuseStep
  <2> QED BY <1>8, <2>1, <2>2
<1>9. ASSUME NEW n \in Nodes, Restart(n) PROVE Books' /\ AnswersDue'
  <2>1. spent'.restarts = spent.restarts + 1
    BY <1>1, <1>9 DEF Restart, Counted
  <2> QED BY <1>5, <2>1
<1>10. CASE UNCHANGED vars
  BY <1>4, <1>10, StutterStep
<1> QED BY <1>6, <1>7, <1>8, <1>9, <1>10 DEF Next

LEMMA InitLedger == Init => Ledger
<1> SUFFICES ASSUME Init PROVE Ledger
  OBVIOUS
<1>1. Minted
  BY DEF Init, Minted, TablesShaped, InboundOnce
<1>2. PICK o, zero : o = [n \in Nodes |-> 0] /\ zero = 0
  OBVIOUS
<1>3. spent = Spending(o, zero, zero, zero, zero, zero, zero)
  BY <1>2 DEF Init, Spending
<1>4. spent.loss = 0 /\ spent.restarts = 0
  BY <1>2, <1>3 DEF Spending
<1>5. Counted
  <2>1. \E a, b, c, x, y, z, w :
          spent = [opens |-> a, hangups |-> b, refusals |-> c, loss |-> x,
                   duplicates |-> y, expiries |-> z, restarts |-> w]
    BY <1>3, Zenon DEF Spending
  <2>2. minted \in [Nodes -> Nat]
    BY DEF Init
  <2>3. spent.loss \in Nat /\ spent.restarts \in Nat
    BY <1>4
  <2> QED BY <2>1, <2>2, <2>3, Zenon DEF Counted
<1>6. 0 % KeySpace = 0
  BY ManagerAssumption
<1>7. Books
  <2>1. nextKey = [n \in Nodes |-> minted[n] % KeySpace]
    BY <1>6 DEF Init
  <2>2. \A x, y \in Nodes : net[<<x, y>>] = <<>> /\ Transit(x, y) = {}
    BY SetOfNothing DEF Init, Transit
  <2>3. incoming = [n \in Nodes |-> incoming[n]] /\ net = [od \in Nodes \X Nodes |-> net[od]]
    BY DEF Init
  <2>4. \A n \in Nodes : table[n] = {} /\ incoming[n] = {}
    BY DEF Init
  <2>5. \A x, y \in Nodes : IsSequence(net[<<x, y>>])
    BY <2>2, NothingIs
  <2>6. /\ \A x, y \in Nodes : \A d \in Transit(x, y) : DatagramSound(x, y, d)
        /\ \A n \in Nodes : OneKey(table[n])
        /\ \A n \in Nodes : \A m \in table[n] : EntrySound(n, m)
        /\ \A n \in Nodes : \A inc \in incoming[n] : IncomingSound(n, inc)
    BY <2>2, <2>4 DEF OneKey
  <2> QED BY <2>1, <2>3, <2>5, <2>6 DEF Books
<1>8. AnswersDue
  BY DEF Init, AnswersDue
<1> QED BY <1>1, <1>5, <1>7, <1>8 DEF Ledger

\* Until the keys come round, every Connect Request is answered: when every
\* datagram has arrived and every host has decided, no circuit is still waiting
\* for its answer, unless a datagram was lost or a node restarted (open_circuit,
\* on_packet, accept and refuse).
THEOREM AnswersComeBack == Spec => []OpenAnswered
<1>1. Ledger => OpenAnswered
  <2> SUFFICES ASSUME Ledger,
                      \A od \in Nodes \X Nodes : net[od] = <<>>,
                      \A n \in Nodes : incoming[n] = {},
                      Fresh,
                      NEW n \in Nodes, NEW m \in table[n], m.c.state = "Connecting"
               PROVE  FALSE
    BY DEF OpenAnswered, OpenAnsweredAfterReuse, Fresh
  <2>1. Books /\ AnswersDue
    BY DEF Ledger
  <2>2. PICK key, o : key = Key(m) /\ o = m.remote
    OBVIOUS
  <2>3. o \in Nodes
    BY <2>1, <2>2 DEF Books, EntrySound
  <2>4. Transit(o, n) = {} /\ Transit(n, o) = {}
    BY <2>3, SetOfNothing DEF Transit
  <2>5. ~Replied(n, key, o) /\ ~Asking(n, key, o)
    BY <2>4 DEF Replied, Asking
  <2>6. ~Undecided(n, key, o)
    BY <2>1, <2>3 DEF Books, EntrySound, Undecided
  <2>7. AnswerDue(n, key, o)
    BY <2>1, <2>2 DEF AnswersDue
  <2> QED BY <2>5, <2>6, <2>7 DEF AnswerDue
<1> QED BY <1>1, InitLedger, NextLedger, PTL DEF Spec

=============================================================================
