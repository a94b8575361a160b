--------------------------- MODULE CircuitEndProofs ---------------------------
(***************************************************************************)
(* The safety invariants of CircuitEnd, proved for every sequence space,   *)
(* window, retry budget, fragment size, choke threshold and reassembly     *)
(* ceiling, and for every set of datagrams and writes.                     *)
(*                                                                         *)
(* Every handler is a function of the circuit, so the argument is about    *)
(* circuits rather than about steps: Sound(c) is the conjunction of the    *)
(* invariants, and each handler is shown to return a sound circuit when it *)
(* is given one.  Several handlers pass through circuits that hold queued  *)
(* fragments back although the window is open; Core(c) is what remains of  *)
(* Sound(c) there, and the pump restores the rest.                         *)
(***************************************************************************)
EXTENDS CircuitEnd, TLAPS, FiniteSetTheorems, SequenceTheorems

WindowOK(c) == IsFiniteSet(c.unacked) /\ Cardinality(c.unacked) <= c.window

FlightOK(c) ==
  \A u, v \in c.unacked : /\ u.pos < c.vs
                          /\ u.pos = v.pos => u = v
                          /\ u.pos < v.pos => v.retries <= u.retries

BudgetOK(c) ==
  /\ c.controlRetries <= MaxRetries
  /\ \A u \in c.unacked : u.retries <= MaxRetries

TimerOK(c) == c.controlArmed <=> c.state \in {"Connecting", "Disconnecting"}

IdleOK(c) ==
  c.state \in {"Disconnected", "Connecting"}
    => c.unacked = {} /\ c.sendQueue = <<>> /\ c.reassembly = <<>>

ChokeOK(c) == c.localChoked <=> ChokeThreshold > 0 /\ c.pending >= ChokeThreshold

BufferOK(c) == Len(c.reassembly) <= MaxReassembly

Core(c) ==
  /\ c \in Circuits
  /\ WindowOK(c) /\ FlightOK(c) /\ BudgetOK(c) /\ TimerOK(c)
  /\ IdleOK(c) /\ ChokeOK(c) /\ BufferOK(c)

Pumped(c) ==
  c.state = "Connected" /\ c.sendQueue # <<>>
    => c.peerChoked \/ Cardinality(c.unacked) >= c.window

Sound(c) == Core(c) /\ Pumped(c)

-----------------------------------------------------------------------------
(***************************************************************************)
(* Sequence arithmetic.                                                    *)
(***************************************************************************)
LEMMA HorizonType == Horizon \in Nat /\ Horizon >= 2 /\ SeqSpace = 2 * Horizon
  BY CircuitAssumption DEF Horizon

\* A clamped window is a window.
LEMMA ClampType == ASSUME NEW w \in Nat PROVE Clamp(w) \in Nat
  BY HorizonType DEF Clamp, Least, MaxWindow

LEMMA WireType == ASSUME NEW n \in Int PROVE Wire(n) \in SeqNo
  BY CircuitAssumption DEF Wire, SeqNo

\* The wrapped distance of two sequence numbers.
LEMMA WireDistance ==
  ASSUME NEW a \in SeqNo, NEW b \in SeqNo
  PROVE  Wire(a - b) = IF a >= b THEN a - b ELSE a - b + SeqSpace
<1>1. CASE a >= b
  BY <1>1, CircuitAssumption DEF Wire, SeqNo
<1>2. CASE a < b
  BY <1>2, CircuitAssumption DEF Wire, SeqNo
<1> QED BY <1>1, <1>2 DEF SeqNo

\* What an acknowledgement does not cover lies at or after it: a negative
\* acknowledgement, absorbed first, asks for all that is left in flight.
LEMMA UncoveredIsAtOrAfter ==
  ASSUME NEW seq \in SeqNo, NEW expected \in SeqNo, ~SeqAcked(seq, expected)
  PROVE  seq = expected \/ Mod256After(seq, expected)
<1>1. Wire(expected - seq) \notin 1..Horizon
  BY DEF SeqAcked
<1>2. Wire(expected - seq)
        = IF expected >= seq THEN expected - seq ELSE expected - seq + SeqSpace
  BY WireDistance
<1>3. Wire(seq - expected)
        = IF seq >= expected THEN seq - expected ELSE seq - expected + SeqSpace
  BY WireDistance
<1> QED BY <1>1, <1>2, <1>3, HorizonType DEF Mod256After, SeqNo

-----------------------------------------------------------------------------
(***************************************************************************)
(* Retransmission.                                                         *)
(***************************************************************************)
\* Counting a retransmission changes neither which fragments there are nor how
\* many.
LEMMA RetriedProperties ==
  ASSUME NEW S \in SUBSET Unacked, IsFiniteSet(S),
         \A u, v \in S : u.pos = v.pos => u = v
  PROVE  /\ Retried(S) \in SUBSET Unacked
         /\ IsFiniteSet(Retried(S))
         /\ Cardinality(Retried(S)) = Cardinality(S)
<1> DEFINE again(u) == [u EXCEPT !.retries = @ + 1]
           f == [u \in S |-> again(u)]
<1>1. \A u \in S : again(u) \in Unacked /\ again(u).pos = u.pos
  BY DEF Unacked
<1>2. f \in Surjection(S, Retried(S))
  BY DEF Surjection, Retried
<1>3. f \in Injection(S, Retried(S))
  <2>1. ASSUME NEW u \in S, NEW v \in S, f[u] = f[v] PROVE u = v
    <3>1. again(u).pos = again(v).pos
      BY <2>1
    <3> QED BY <3>1, <1>1
  <2>2. f \in [S -> Retried(S)]
    BY DEF Retried
  <2> QED BY <2>1, <2>2 DEF Injection, IsInjective
<1>4. Retried(S) \in SUBSET Unacked
  BY <1>1 DEF Retried
<1> QED BY <1>2, <1>3, <1>4, FS_Surjection

-----------------------------------------------------------------------------
(***************************************************************************)
(* The window and acknowledgement mechanics.                               *)
(***************************************************************************)
LEMMA NewCircuitSound ==
  ASSUME NEW key \in Keys
  PROVE  Sound(NewCircuit(key))
<1> DEFINE c == NewCircuit(key)
<1>1. c \in Circuits
  BY CircuitAssumption, EndAssumption
  DEF NewCircuit, Circuits, States, SeqNo
<1>2. WindowOK(c)
  BY FS_EmptySet, CircuitAssumption DEF WindowOK, NewCircuit
<1>3. FlightOK(c) /\ BudgetOK(c) /\ TimerOK(c) /\ IdleOK(c) /\ Pumped(c)
  BY CircuitAssumption
  DEF FlightOK, BudgetOK, TimerOK, IdleOK, Pumped, NewCircuit
<1>4. ChokeOK(c) /\ BufferOK(c)
  BY CircuitAssumption DEF ChokeOK, BufferOK, NewCircuit
<1> QED BY <1>1, <1>2, <1>3, <1>4 DEF Sound, Core

LEMMA CloseSound ==
  ASSUME NEW c, Core(c), NEW reason
  PROVE  /\ Sound(Close(c, reason).c)
         /\ Close(c, reason).c.state = "Disconnected"
<1>1. CASE c.state = "Disconnected"
  BY <1>1 DEF Close, Quiet, Result, Sound, Pumped
<1>2. CASE c.state # "Disconnected"
  <2> DEFINE d == Close(c, reason).c
  <2>1. d = [c EXCEPT !.state = "Disconnected", !.controlArmed = FALSE,
                      !.unacked = {}, !.sendQueue = <<>>, !.reassembly = <<>>]
    BY <1>2 DEF Close, Result
  <2>2. c \in Circuits
    BY DEF Core
  <2> HIDE DEF d
  <2>3. d \in Circuits /\ d.state = "Disconnected"
    <3>1. {} \in SUBSET Unacked /\ <<>> \in Seq(Fragment) /\ <<>> \in Seq(Units)
      OBVIOUS
    <3> QED BY <2>1, <2>2, <3>1, Zenon DEF Circuits, States
  <2>4. WindowOK(d) /\ FlightOK(d)
    BY <2>1, <2>2, FS_EmptySet DEF WindowOK, FlightOK, Circuits
  <2>5. BudgetOK(d) /\ TimerOK(d) /\ ChokeOK(d)
    BY <2>1, <2>2 DEF Core, BudgetOK, TimerOK, ChokeOK, Circuits
  <2>6. IdleOK(d) /\ BufferOK(d) /\ Pumped(d)
    BY <2>1, <2>2, CircuitAssumption DEF IdleOK, BufferOK, Pumped, Circuits
  <2> QED BY <2>3, <2>4, <2>5, <2>6 DEF Sound, Core, d
<1> QED BY <1>1, <1>2

LEMMA AbsorbAckCore ==
  ASSUME NEW c, Core(c), NEW expected \in SeqNo
  PROVE  Core(AbsorbAck(c, expected))
<1> DEFINE d == AbsorbAck(c, expected)
<1>1. c \in Circuits
  BY DEF Core
<1>2. d \in Circuits /\ d.unacked \in SUBSET c.unacked
  BY <1>1 DEF AbsorbAck, Circuits
<1>3. /\ d.state = c.state /\ d.window = c.window /\ d.vs = c.vs
      /\ d.sendQueue = c.sendQueue /\ d.reassembly = c.reassembly
      /\ d.controlRetries = c.controlRetries /\ d.controlArmed = c.controlArmed
      /\ d.localChoked = c.localChoked /\ d.pending = c.pending
  BY <1>1 DEF AbsorbAck, Circuits
<1> HIDE DEF d
<1>4. WindowOK(d)
  <2>1. IsFiniteSet(c.unacked) /\ Cardinality(c.unacked) <= c.window
    BY DEF Core, WindowOK
  <2>2. /\ IsFiniteSet(d.unacked)
        /\ Cardinality(d.unacked) <= Cardinality(c.unacked)
    BY <1>2, <2>1, FS_Subset
  <2>3. Cardinality(d.unacked) \in Nat /\ Cardinality(c.unacked) \in Nat
    BY <2>1, <2>2, FS_CardinalityType
  <2> QED BY <1>1, <1>3, <2>1, <2>2, <2>3 DEF WindowOK, Circuits
<1>5. FlightOK(d) /\ BudgetOK(d)
  BY <1>2, <1>3 DEF Core, FlightOK, BudgetOK
<1>6. TimerOK(d) /\ IdleOK(d) /\ ChokeOK(d) /\ BufferOK(d)
  BY <1>2, <1>3 DEF Core, TimerOK, IdleOK, ChokeOK, BufferOK
<1> QED BY <1>2, <1>4, <1>5, <1>6 DEF Core, d

LEMMA ApplyPeerChokeCore ==
  ASSUME NEW c, Core(c), NEW choke \in BOOLEAN
  PROVE  Core(ApplyPeerChoke(c, choke))
<1> DEFINE d == ApplyPeerChoke(c, choke)
<1>1. c \in Circuits
  BY DEF Core
<1>2. /\ d \in Circuits /\ d.unacked = c.unacked
      /\ d.state = c.state /\ d.window = c.window /\ d.vs = c.vs
      /\ d.sendQueue = c.sendQueue /\ d.reassembly = c.reassembly
      /\ d.controlRetries = c.controlRetries /\ d.controlArmed = c.controlArmed
      /\ d.localChoked = c.localChoked /\ d.pending = c.pending
  BY <1>1 DEF ApplyPeerChoke, Circuits
<1> HIDE DEF d
<1>3. WindowOK(d) /\ FlightOK(d) /\ BudgetOK(d)
  BY <1>2 DEF Core, WindowOK, FlightOK, BudgetOK
<1>4. TimerOK(d) /\ IdleOK(d) /\ ChokeOK(d) /\ BufferOK(d)
  BY <1>2 DEF Core, TimerOK, IdleOK, ChokeOK, BufferOK
<1> QED BY <1>2, <1>3, <1>4 DEF Core, d

LEMMA RoomProperties ==
  ASSUME NEW c, Core(c)
  PROVE  /\ Room(c) \in 0 .. Len(c.sendQueue)
         /\ Room(c) + Cardinality(c.unacked) <= c.window
         /\ c.state # "Connected" => Room(c) = 0
         /\ c.state = "Connected" /\ ~c.peerChoked /\ Room(c) < Len(c.sendQueue)
              => Room(c) + Cardinality(c.unacked) >= c.window
<1>1. /\ c.window \in Nat /\ Len(c.sendQueue) \in Nat
      /\ Cardinality(c.unacked) \in Nat /\ Cardinality(c.unacked) <= c.window
  BY FS_CardinalityType DEF Core, WindowOK, Circuits
<1> QED BY <1>1 DEF Room, Least

\* The fragments the pump puts in flight are as many as there was room for, and
\* none of them was in flight before.
LEMMA PumpedFragments ==
  ASSUME NEW c, Core(c), NEW n \in 0 .. Len(c.sendQueue)
  PROVE  LET T == {InFlight(c, i) : i \in 1..n}
         IN  /\ T \in SUBSET Unacked
             /\ IsFiniteSet(c.unacked \cup T)
             /\ Cardinality(c.unacked \cup T) = Cardinality(c.unacked) + n
<1> DEFINE T == {InFlight(c, i) : i \in 1..n}
           f == [i \in 1..n |-> InFlight(c, i)]
<1>1. c \in Circuits /\ n \in Nat
  BY DEF Core, Circuits
<1>2. \A i \in 1..n : InFlight(c, i) \in Unacked /\ InFlight(c, i).pos = c.vs + i - 1
  <2>1. ASSUME NEW i \in 1..n
        PROVE  InFlight(c, i) \in Unacked /\ InFlight(c, i).pos = c.vs + i - 1
    <3>1. c.sendQueue \in Seq(Fragment) /\ i \in 1 .. Len(c.sendQueue)
      BY <1>1 DEF Circuits
    <3>2. c.sendQueue[i] \in Fragment
      BY <3>1, ElementOfSeq
    <3>3. c.vs + i - 1 \in Nat
      BY <1>1 DEF Circuits
    <3> QED BY <3>2, <3>3 DEF InFlight, Unacked, Fragment
  <2> QED BY <2>1
<1>3. T \in SUBSET Unacked
  BY <1>2
<1>4. f \in Surjection(1..n, T)
  BY DEF Surjection
<1>5. f \in Injection(1..n, T)
  <2>1. ASSUME NEW i \in 1..n, NEW j \in 1..n, f[i] = f[j] PROVE i = j
    <3>1. InFlight(c, i).pos = InFlight(c, j).pos
      BY <2>1
    <3> QED BY <3>1, <1>1, <1>2 DEF Circuits
  <2>2. f \in [1..n -> T]
    OBVIOUS
  <2> QED BY <2>1, <2>2 DEF Injection, IsInjective
<1>6. IsFiniteSet(1..n) /\ Cardinality(1..n) = n
  BY <1>1, FS_Interval
<1>7. IsFiniteSet(T) /\ Cardinality(T) = n
  BY <1>4, <1>5, <1>6, FS_Surjection
<1>8. c.unacked \cap T = {}
  <2>1. \A u \in c.unacked : u.pos < c.vs
    BY DEF Core, FlightOK
  <2>2. c.vs \in Int
    BY <1>1 DEF Circuits
  <2>3. \A i \in 1..n : ~(InFlight(c, i).pos < c.vs)
    BY <1>1, <1>2, <2>2
  <2> QED BY <2>1, <2>3
<1>9. IsFiniteSet(c.unacked) /\ Cardinality(c.unacked) \in Nat
  BY FS_CardinalityType DEF Core, WindowOK
<1>10. /\ IsFiniteSet(c.unacked \cup T)
       /\ Cardinality(c.unacked \cup T)
            = Cardinality(c.unacked) + Cardinality(T) - Cardinality(c.unacked \cap T)
  BY <1>7, <1>9, FS_Union
<1>11. Cardinality(c.unacked \cap T) = 0
  BY <1>8, FS_EmptySet
<1> QED BY <1>1, <1>3, <1>7, <1>9, <1>10, <1>11

LEMMA PumpSound ==
  ASSUME NEW c, Core(c)
  PROVE  Sound(Pump(c).c)
<1> DEFINE n == Room(c)
           T == {InFlight(c, i) : i \in 1..n}
           d == Pump(c).c
<1>1. c \in Circuits
  BY DEF Core
<1>2. /\ n \in 0 .. Len(c.sendQueue) /\ n \in Nat
      /\ n + Cardinality(c.unacked) <= c.window
      /\ c.state # "Connected" => n = 0
      /\ c.state = "Connected" /\ ~c.peerChoked /\ n < Len(c.sendQueue)
              => n + Cardinality(c.unacked) >= c.window
  BY <1>1, RoomProperties DEF Circuits
<1>3. /\ T \in SUBSET Unacked
      /\ IsFiniteSet(c.unacked \cup T)
      /\ Cardinality(c.unacked \cup T) = Cardinality(c.unacked) + n
  BY <1>2, PumpedFragments
<1>4. \A u \in T : u.pos \in c.vs .. c.vs + n - 1 /\ u.retries = 0
  BY <1>1, <1>2 DEF InFlight, Circuits
<1>5. \A u, v \in T : u.pos = v.pos => u = v
  BY <1>1, <1>2 DEF InFlight, Circuits
<1>6. d = [c EXCEPT !.vs = c.vs + n,
                    !.sendQueue = SubSeq(c.sendQueue, n + 1, Len(c.sendQueue)),
                    !.unacked = c.unacked \cup T]
  BY DEF Pump, Result
<1>7. /\ SubSeq(c.sendQueue, n + 1, Len(c.sendQueue)) \in Seq(Fragment)
      /\ n = Len(c.sendQueue)
           => SubSeq(c.sendQueue, n + 1, Len(c.sendQueue)) = <<>>
      /\ c.sendQueue = <<>>
           => SubSeq(c.sendQueue, n + 1, Len(c.sendQueue)) = <<>>
  <2>1. c.sendQueue \in Seq(Fragment) /\ Len(c.sendQueue) \in Nat
    BY <1>1 DEF Circuits
  <2>2. \A i \in n + 1 .. Len(c.sendQueue) : c.sendQueue[i] \in Fragment
    BY <2>1, <1>2, ElementOfSeq
  <2>3. SubSeq(c.sendQueue, n + 1, Len(c.sendQueue)) \in Seq(Fragment)
    BY <2>1, <2>2, <1>2, SubSeqProperties
  <2>4. c.sendQueue = <<>> => n = Len(c.sendQueue)
    BY <1>2, EmptySeq
  <2>5. n = Len(c.sendQueue)
           => SubSeq(c.sendQueue, n + 1, Len(c.sendQueue)) = <<>>
    BY <2>1, SubSeqEmpty
  <2> QED BY <2>3, <2>4, <2>5
<1> HIDE DEF n, T, d
<1>8. d \in Circuits
  <2>1. c.vs + n \in Nat /\ c.unacked \cup T \in SUBSET Unacked
    BY <1>1, <1>2, <1>3 DEF Circuits
  <2> QED BY <1>1, <1>6, <1>7, <2>1, Zenon DEF Circuits
<1>9. /\ d.state = c.state /\ d.window = c.window /\ d.vs = c.vs + n
      /\ d.reassembly = c.reassembly /\ d.unacked = c.unacked \cup T
      /\ d.controlRetries = c.controlRetries /\ d.controlArmed = c.controlArmed
      /\ d.localChoked = c.localChoked /\ d.pending = c.pending
      /\ d.peerChoked = c.peerChoked
      /\ d.sendQueue = SubSeq(c.sendQueue, n + 1, Len(c.sendQueue))
  BY <1>1, <1>6 DEF Circuits
<1>10. c.window \in Nat /\ Cardinality(c.unacked) \in Nat
  BY <1>1, FS_CardinalityType DEF Core, WindowOK, Circuits
<1>11. Cardinality(d.unacked) = n + Cardinality(c.unacked)
  BY <1>2, <1>3, <1>9, <1>10
<1>12. WindowOK(d)
  BY <1>2, <1>3, <1>9, <1>11 DEF WindowOK
<1>13. FlightOK(d)
  <2> SUFFICES ASSUME NEW u \in d.unacked, NEW v \in d.unacked
               PROVE  /\ u.pos < d.vs
                      /\ u.pos = v.pos => u = v
                      /\ u.pos < v.pos => v.retries <= u.retries
    BY DEF FlightOK
  <2>1. u \in Unacked /\ v \in Unacked /\ c.vs \in Nat
    BY <1>1, <1>3, <1>9 DEF Circuits
  <2>2. \A w \in c.unacked : w.pos < c.vs
    BY DEF Core, FlightOK
  <2>3. CASE u \in c.unacked /\ v \in c.unacked
    BY <2>1, <2>3, <1>2, <1>9 DEF Core, FlightOK, Unacked
  <2>4. CASE u \in c.unacked /\ v \in T
    BY <2>1, <2>2, <2>4, <1>2, <1>4, <1>9 DEF Unacked
  <2>5. CASE u \in T /\ v \in c.unacked
    BY <2>1, <2>2, <2>5, <1>2, <1>4, <1>9 DEF Unacked
  <2>6. CASE u \in T /\ v \in T
    BY <2>1, <2>6, <1>2, <1>4, <1>5, <1>9 DEF Unacked
  <2> QED BY <2>3, <2>4, <2>5, <2>6, <1>9
<1>14. BudgetOK(d)
  BY <1>4, <1>9, CircuitAssumption DEF Core, BudgetOK
<1>15. IdleOK(d)
  <2> SUFFICES ASSUME d.state \in {"Disconnected", "Connecting"}
               PROVE  d.unacked = {} /\ d.sendQueue = <<>> /\ d.reassembly = <<>>
    BY DEF IdleOK
  <2>1. n = 0 /\ c.unacked = {} /\ c.sendQueue = <<>> /\ c.reassembly = <<>>
    BY <1>2, <1>9 DEF Core, IdleOK
  <2>2. T = {}
    BY <2>1 DEF T
  <2> QED BY <2>1, <2>2, <1>7, <1>9
<1>16. TimerOK(d) /\ ChokeOK(d) /\ BufferOK(d)
  BY <1>9 DEF Core, TimerOK, ChokeOK, BufferOK
<1>17. Pumped(d)
  BY <1>2, <1>7, <1>9, <1>11 DEF Pumped
<1> QED BY <1>8, <1>12, <1>13, <1>14, <1>15, <1>16, <1>17 DEF Sound, Core, d

\* Every fragment in flight retransmitted once more.
LEMMA AllRetriedCore ==
  ASSUME NEW c, Core(c),
         \A u \in c.unacked : u.retries < MaxRetries
  PROVE  /\ Core([c EXCEPT !.unacked = Retried(@)])
         /\ Pumped(c) => Pumped([c EXCEPT !.unacked = Retried(@)])
<1> DEFINE d == [c EXCEPT !.unacked = Retried(@)]
<1>1. c \in Circuits /\ c.unacked \in SUBSET Unacked
  BY DEF Core, Circuits
<1>2. /\ Retried(c.unacked) \in SUBSET Unacked
      /\ IsFiniteSet(Retried(c.unacked))
      /\ Cardinality(Retried(c.unacked)) = Cardinality(c.unacked)
  BY <1>1, RetriedProperties DEF Core, WindowOK, FlightOK
<1>3. \A v \in Retried(c.unacked) :
        \E u \in c.unacked : v.pos = u.pos /\ v.retries = u.retries + 1
                             /\ v = [u EXCEPT !.retries = @ + 1]
  BY <1>1 DEF Retried, Unacked
<1>4. d \in Circuits
  BY <1>1, <1>2, Zenon DEF Circuits
<1>5. /\ d.state = c.state /\ d.window = c.window /\ d.vs = c.vs
      /\ d.sendQueue = c.sendQueue /\ d.reassembly = c.reassembly
      /\ d.controlRetries = c.controlRetries /\ d.controlArmed = c.controlArmed
      /\ d.localChoked = c.localChoked /\ d.pending = c.pending
      /\ d.peerChoked = c.peerChoked /\ d.unacked = Retried(c.unacked)
  BY <1>1 DEF Circuits
<1> HIDE DEF d
<1>6. WindowOK(d)
  BY <1>2, <1>5 DEF Core, WindowOK
<1>7. FlightOK(d)
  <2> SUFFICES ASSUME NEW x \in d.unacked, NEW y \in d.unacked
               PROVE  /\ x.pos < d.vs
                      /\ x.pos = y.pos => x = y
                      /\ x.pos < y.pos => y.retries <= x.retries
    BY DEF FlightOK
  <2>1. PICK u \in c.unacked : x.pos = u.pos /\ x.retries = u.retries + 1
                               /\ x = [u EXCEPT !.retries = @ + 1]
    BY <1>3, <1>5
  <2>2. PICK v \in c.unacked : y.pos = v.pos /\ y.retries = v.retries + 1
                               /\ y = [v EXCEPT !.retries = @ + 1]
    BY <1>3, <1>5
  <2>3. u \in Unacked /\ v \in Unacked
    BY <1>1
  <2>4. /\ u.pos < c.vs
        /\ u.pos = v.pos => u = v
        /\ u.pos < v.pos => v.retries <= u.retries
    BY DEF Core, FlightOK
  <2>5. u = v => x = y
    BY <2>1, <2>2
  <2> QED BY <2>1, <2>2, <2>3, <2>4, <2>5, <1>5 DEF Unacked
<1>8. BudgetOK(d)
  BY <1>1, <1>3, <1>5, CircuitAssumption DEF Core, BudgetOK, Unacked
<1>9. IdleOK(d)
  BY <1>5 DEF Core, IdleOK, Retried
<1>10. TimerOK(d) /\ ChokeOK(d) /\ BufferOK(d)
  BY <1>5 DEF Core, TimerOK, ChokeOK, BufferOK
<1>11. Pumped(c) => Pumped(d)
  BY <1>2, <1>5 DEF Pumped
<1> QED BY <1>4, <1>6, <1>7, <1>8, <1>9, <1>10, <1>11 DEF Core, d

\* A negative acknowledgement that was absorbed first.
LEMMA RetransmitFromCore ==
  ASSUME NEW c, Core(c), NEW seq \in SeqNo,
         \A u \in c.unacked : ~SeqAcked(Wire(u.pos), seq)
  PROVE  Core(RetransmitFrom(c, seq).c)
<1> DEFINE range == {u \in c.unacked : \/ Wire(u.pos) = seq
                                       \/ Mod256After(Wire(u.pos), seq)}
<1>1. c.unacked \in SUBSET Unacked
  BY DEF Core, Circuits
<1>2. range = c.unacked
  <2>1. ASSUME NEW u \in c.unacked
        PROVE  Wire(u.pos) = seq \/ Mod256After(Wire(u.pos), seq)
    <3>1. Wire(u.pos) \in SeqNo
      BY <1>1, WireType DEF Unacked
    <3> QED BY <3>1, UncoveredIsAtOrAfter
  <2> QED BY <2>1
<1>3. CASE \E u \in range : u.retries >= MaxRetries
  <2>1. RetransmitFrom(c, seq) = Close(c, "Timeout")
    BY <1>3 DEF RetransmitFrom
  <2> QED BY <2>1, CloseSound DEF Sound
<1>4. CASE ~ \E u \in range : u.retries >= MaxRetries
  <2>1. RetransmitFrom(c, seq).c
          = [c EXCEPT !.unacked = (@ \ range) \cup Retried(range)]
    BY <1>4, Zenon DEF RetransmitFrom, Result
  <2>2. (c.unacked \ range) \cup Retried(range) = Retried(c.unacked)
    BY <1>2 DEF Retried
  <2>3. RetransmitFrom(c, seq).c = [c EXCEPT !.unacked = Retried(@)]
    BY <2>1, <2>2
  <2>4. \A u \in c.unacked : u.retries < MaxRetries
    BY <1>1, <1>2, <1>4, CircuitAssumption DEF Unacked
  <2> QED BY <2>3, <2>4, AllRetriedCore
<1> QED BY <1>3, <1>4

-----------------------------------------------------------------------------
(***************************************************************************)
(* The timers.                                                             *)
(***************************************************************************)
LEMMA OldestProperties ==
  ASSUME NEW S \in SUBSET Unacked, S # {}
  PROVE  Oldest(S) \in S /\ \A v \in S : Oldest(S).pos <= v.pos
<1> DEFINE P == {u.pos : u \in S}
<1>1. P \subseteq Nat /\ P # {}
  BY DEF Unacked
<1>2. PICK p \in P : \A q \in P : ~ (<<q, p>> \in OpToRel(<, Nat))
  BY <1>1, NatLessThanWellFounded, WFMin
<1>3. \A q \in P : p <= q
  <2>1. ASSUME NEW q \in P, q < p PROVE FALSE
    <3>1. p \in Nat /\ q \in Nat
      BY <1>1
    <3>2. <<q, p>> \in OpToRel(<, Nat)
      BY <2>1, <3>1 DEF OpToRel
    <3> QED BY <1>2, <3>2
  <2> QED BY <1>1, <2>1
<1>4. \E u \in S : \A v \in S : u.pos <= v.pos
  BY <1>3
<1> QED BY <1>4 DEF Oldest

\* tick checks the budget of the oldest fragment and retransmits them all.
LEMMA TickInformationSound ==
  ASSUME NEW c, Sound(c), c.unacked # {}
  PROVE  Sound(TickInformation(c).c)
<1>1. Core(c) /\ c.unacked \in SUBSET Unacked
  BY DEF Sound, Core, Circuits
<1>2. CASE Oldest(c.unacked).retries >= MaxRetries
  BY <1>1, <1>2, CloseSound DEF TickInformation
<1>3. CASE ~ (Oldest(c.unacked).retries >= MaxRetries)
  <2> DEFINE o == Oldest(c.unacked)
  <2>1. o \in c.unacked /\ \A v \in c.unacked : o.pos <= v.pos
    BY <1>1, OldestProperties
  <2>2. \A v \in c.unacked : v.retries < MaxRetries
    <3> SUFFICES ASSUME NEW v \in c.unacked PROVE v.retries < MaxRetries
      OBVIOUS
    <3>1. o \in Unacked /\ v \in Unacked
      BY <1>1, <2>1
    <3>2. (o.pos = v.pos => o = v) /\ (o.pos < v.pos => v.retries <= o.retries)
      BY <1>1, <2>1 DEF Core, FlightOK
    <3>3. v.retries <= o.retries
      BY <2>1, <3>1, <3>2 DEF Unacked
    <3> QED BY <1>3, <3>1, <3>3, CircuitAssumption DEF Unacked
  <2>3. TickInformation(c).c = [c EXCEPT !.unacked = Retried(@)]
    BY <1>3 DEF TickInformation, Result
  <2> QED BY <1>1, <2>2, <2>3, AllRetriedCore DEF Sound
<1> QED BY <1>2, <1>3

LEMMA TickControlSound ==
  ASSUME NEW c, Sound(c), c.controlRetries < MaxRetries
  PROVE  Sound(TickControl(c).c)
<1> DEFINE d == TickControl(c).c
<1>1. c \in Circuits
  BY DEF Sound, Core
<1>2. d = [c EXCEPT !.controlRetries = @ + 1]
  BY DEF TickControl, Result
<1>3. /\ d \in Circuits /\ d.unacked = c.unacked
      /\ d.state = c.state /\ d.window = c.window /\ d.vs = c.vs
      /\ d.sendQueue = c.sendQueue /\ d.reassembly = c.reassembly
      /\ d.controlRetries = c.controlRetries + 1
      /\ d.controlArmed = c.controlArmed /\ d.peerChoked = c.peerChoked
      /\ d.localChoked = c.localChoked /\ d.pending = c.pending
  BY <1>1, <1>2 DEF Circuits
<1> HIDE DEF d
<1>4. BudgetOK(d)
  BY <1>1, <1>3, CircuitAssumption DEF Sound, Core, BudgetOK, Circuits
<1>5. WindowOK(d) /\ FlightOK(d) /\ Pumped(d)
  BY <1>3 DEF Sound, Core, WindowOK, FlightOK, Pumped
<1>6. TimerOK(d) /\ IdleOK(d) /\ ChokeOK(d) /\ BufferOK(d)
  BY <1>3 DEF Sound, Core, TimerOK, IdleOK, ChokeOK, BufferOK
<1> QED BY <1>3, <1>4, <1>5, <1>6 DEF Sound, Core, d

LEMMA TickSound ==
  ASSUME NEW c, Sound(c), NEW controlDue \in BOOLEAN, NEW informationDue \in BOOLEAN
  PROVE  Sound(Tick(c, controlDue, informationDue).c)
<1> DEFINE r == IF c.controlArmed /\ controlDue THEN TickControl(c) ELSE Quiet(c)
<1>1. Core(c) /\ c \in Circuits
  BY DEF Sound, Core
<1>2. CASE c.controlArmed /\ controlDue /\ c.controlRetries >= MaxRetries
  BY <1>1, <1>2, CloseSound DEF Tick
<1>3. CASE ~ (c.controlArmed /\ controlDue /\ c.controlRetries >= MaxRetries)
  <2>1. Sound(r.c)
    <3>1. CASE c.controlArmed /\ controlDue
      BY <1>1, <1>3, <3>1, TickControlSound, CircuitAssumption DEF Circuits
    <3>2. CASE ~ (c.controlArmed /\ controlDue)
      BY <3>2 DEF Quiet, Result
    <3> QED BY <3>1, <3>2
  <2>2. Tick(c, controlDue, informationDue)
          = IF r.c.state = "Connected" /\ r.c.unacked # {} /\ informationDue
            THEN Then(r, TickInformation(r.c))
            ELSE r
    BY <1>3, Zenon DEF Tick
  <2> HIDE DEF r
  <2>3. Tick(c, controlDue, informationDue).c
          = IF r.c.state = "Connected" /\ r.c.unacked # {} /\ informationDue
            THEN TickInformation(r.c).c
            ELSE r.c
    BY <2>2 DEF Then, Result
  <2> QED BY <2>1, <2>3, TickInformationSound
<1> QED BY <1>2, <1>3

-----------------------------------------------------------------------------
(***************************************************************************)
(* The calls of the owner.                                                 *)
(***************************************************************************)
LEMMA DrainedSound ==
  ASSUME NEW c, Sound(c)
  PROVE  Sound(OnDeliveryDrained(c).c)
<1> DEFINE less == IF c.pending > 0 THEN c.pending - 1 ELSE c.pending
           release == c.localChoked /\ less < ChokeThreshold
           d == OnDeliveryDrained(c).c
<1>1. c \in Circuits /\ less \in Nat /\ less <= c.pending
  BY DEF Sound, Core, Circuits
<1>2. d = [c EXCEPT !.pending = less,
                    !.localChoked = IF release THEN FALSE ELSE @]
  BY <1>1 DEF OnDeliveryDrained, Quiet, Result, Circuits
<1> HIDE DEF d
<1>3. /\ d \in Circuits /\ d.unacked = c.unacked
      /\ d.state = c.state /\ d.window = c.window /\ d.vs = c.vs
      /\ d.sendQueue = c.sendQueue /\ d.reassembly = c.reassembly
      /\ d.controlRetries = c.controlRetries
      /\ d.controlArmed = c.controlArmed /\ d.peerChoked = c.peerChoked
      /\ d.pending = less
      /\ d.localChoked = (IF release THEN FALSE ELSE c.localChoked)
  BY <1>1, <1>2 DEF Circuits
<1>4. ChokeOK(d)
  <2>1. c.localChoked <=> ChokeThreshold > 0 /\ c.pending >= ChokeThreshold
    BY DEF Sound, Core, ChokeOK
  <2>2. c.pending \in Nat /\ ChokeThreshold \in Nat
    BY <1>1, CircuitAssumption DEF Circuits
  <2> HIDE DEF less
  <2>3. CASE release
    BY <2>2, <2>3, <1>1, <1>3 DEF ChokeOK
  <2>4. CASE ~release /\ c.localChoked
    BY <2>1, <2>2, <2>4, <1>1, <1>3 DEF ChokeOK
  <2>5. CASE ~release /\ ~c.localChoked
    <3>1. ~ (ChokeThreshold > 0 /\ less >= ChokeThreshold)
      BY <2>1, <2>2, <2>5, <1>1
    <3> QED BY <2>5, <3>1, <1>3 DEF ChokeOK
  <2> QED BY <2>3, <2>4, <2>5
<1>5. WindowOK(d) /\ FlightOK(d) /\ Pumped(d)
  BY <1>3 DEF Sound, Core, WindowOK, FlightOK, Pumped
<1>6. TimerOK(d) /\ IdleOK(d) /\ BudgetOK(d) /\ BufferOK(d)
  BY <1>3 DEF Sound, Core, TimerOK, IdleOK, BudgetOK, BufferOK
<1> QED BY <1>3, <1>4, <1>5, <1>6 DEF Sound, Core, d

\* The circuit moves to another state of its life and keeps the data it holds.
LEMMA StateChange ==
  ASSUME NEW c, Core(c), NEW d \in Circuits,
         d.unacked = c.unacked, d.vs = c.vs, d.sendQueue = c.sendQueue,
         d.reassembly = c.reassembly, d.localChoked = c.localChoked,
         d.pending = c.pending,
         Cardinality(d.unacked) <= d.window, d.controlRetries <= MaxRetries,
         TimerOK(d), IdleOK(d)
  PROVE  /\ Core(d)
         /\ d.state # "Connected" \/ d.sendQueue = <<>> => Sound(d)
<1>1. WindowOK(d) /\ FlightOK(d) /\ BudgetOK(d)
  BY DEF Core, WindowOK, FlightOK, BudgetOK
<1>2. ChokeOK(d) /\ BufferOK(d)
  BY DEF Core, ChokeOK, BufferOK
<1>3. d.state # "Connected" \/ d.sendQueue = <<>> => Pumped(d)
  BY DEF Pumped
<1> QED BY <1>1, <1>2, <1>3 DEF Core, Sound

LEMMA ConnectSound ==
  ASSUME NEW c, Sound(c)
  PROVE  Sound(Connect(c).c)
<1>1. CASE c.state # "Disconnected"
  BY <1>1 DEF Connect, Quiet, Result
<1>2. CASE c.state = "Disconnected"
  <2> DEFINE d == Connect(c).c
  <2>1. Core(c) /\ c \in Circuits
    BY DEF Sound, Core
  <2>2. c.unacked = {} /\ c.sendQueue = <<>> /\ c.reassembly = <<>>
    BY <1>2, <2>1 DEF Core, IdleOK
  <2>3. d = [c EXCEPT !.state = "Connecting", !.controlRetries = 0,
                      !.controlArmed = TRUE]
    BY <1>2 DEF Connect, Result
  <2> HIDE DEF d
  <2>4. /\ d \in Circuits /\ d.state = "Connecting" /\ d.controlArmed = TRUE
        /\ d.unacked = c.unacked /\ d.vs = c.vs /\ d.sendQueue = c.sendQueue
        /\ d.reassembly = c.reassembly /\ d.localChoked = c.localChoked
        /\ d.pending = c.pending /\ d.window = c.window /\ d.controlRetries = 0
    BY <2>1, <2>3 DEF Circuits, States
  <2>5. TimerOK(d) /\ IdleOK(d)
    BY <2>2, <2>4 DEF TimerOK, IdleOK
  <2>6. Cardinality(d.unacked) <= d.window /\ d.controlRetries <= MaxRetries
    BY <2>1, <2>4, CircuitAssumption DEF Core, WindowOK
  <2>7. Sound(d)
    BY <2>1, <2>4, <2>5, <2>6, StateChange
  <2> QED BY <2>7 DEF d
<1> QED BY <1>1, <1>2

\* A circuit need not have been pumped to be disconnected: an overflowing
\* reassembly buffer disconnects in the middle of a handler.
LEMMA DisconnectConnectedSound ==
  ASSUME NEW c, Core(c), c.state = "Connected"
  PROVE  Sound(Disconnect(c).c)
<1> DEFINE d == Disconnect(c).c
<1>1. c \in Circuits
  BY DEF Core
<1>2. d = [c EXCEPT !.state = "Disconnecting", !.controlRetries = 0,
                    !.controlArmed = TRUE]
  BY DEF Disconnect, Result
<1> HIDE DEF d
<1>3. /\ d \in Circuits /\ d.state = "Disconnecting" /\ d.controlArmed = TRUE
      /\ d.unacked = c.unacked /\ d.vs = c.vs /\ d.sendQueue = c.sendQueue
      /\ d.reassembly = c.reassembly /\ d.localChoked = c.localChoked
      /\ d.pending = c.pending /\ d.window = c.window /\ d.controlRetries = 0
  BY <1>1, <1>2 DEF Circuits, States
<1>4. TimerOK(d) /\ IdleOK(d)
  BY <1>3 DEF TimerOK, IdleOK
<1>5. Cardinality(d.unacked) <= d.window /\ d.controlRetries <= MaxRetries
  BY <1>3, CircuitAssumption DEF Core, WindowOK
<1>6. Sound(d)
  BY <1>3, <1>4, <1>5, StateChange
<1> QED BY <1>6 DEF d

LEMMA DisconnectSound ==
  ASSUME NEW c, Sound(c)
  PROVE  Sound(Disconnect(c).c)
<1>1. Core(c) /\ c \in Circuits
  BY DEF Sound, Core
<1>2. CASE c.state \in {"Disconnected", "Disconnecting"}
  BY <1>2 DEF Disconnect, Quiet, Result
<1>3. CASE c.state = "Connecting"
  BY <1>1, <1>3, CloseSound DEF Disconnect
<1>4. CASE c.state = "Connected"
  BY <1>1, <1>4, DisconnectConnectedSound
<1> QED BY <1>1, <1>2, <1>3, <1>4 DEF Circuits, States

LEMMA AcceptInboundSound ==
  ASSUME NEW c, Sound(c), c.state = "Disconnected",
         NEW peer \in Keys, NEW proposed \in Nat
  PROVE  Sound(AcceptInbound(c, peer, proposed).c)
<1> DEFINE wanted == IF proposed = 0 THEN WindowSize ELSE proposed
           window == Clamp(Least(wanted, WindowSize))
           d == AcceptInbound(c, peer, proposed).c
<1>1. Core(c) /\ c \in Circuits
  BY DEF Sound, Core
<1>2. c.unacked = {} /\ c.sendQueue = <<>> /\ c.reassembly = <<>>
  BY <1>1 DEF Core, IdleOK
<1>3. window \in Nat
  BY CircuitAssumption, ClampType DEF Least
<1>4. d = [c EXCEPT !.remote = peer, !.state = "Connected", !.window = window]
  BY DEF AcceptInbound, Result
<1> HIDE DEF d, window
<1>5. /\ d \in Circuits /\ d.state = "Connected" /\ d.window = window
      /\ d.controlArmed = c.controlArmed
      /\ d.unacked = c.unacked /\ d.vs = c.vs /\ d.sendQueue = c.sendQueue
      /\ d.reassembly = c.reassembly /\ d.localChoked = c.localChoked
      /\ d.pending = c.pending /\ d.controlRetries = c.controlRetries
  BY <1>1, <1>3, <1>4 DEF Circuits, States
<1>6. TimerOK(d) /\ IdleOK(d)
  BY <1>1, <1>5 DEF Core, TimerOK, IdleOK
<1>7. Cardinality(d.unacked) <= d.window /\ d.controlRetries <= MaxRetries
  BY <1>1, <1>2, <1>3, <1>5, FS_EmptySet DEF Core, BudgetOK
<1>8. Sound(d)
  BY <1>1, <1>2, <1>5, <1>6, <1>7, StateChange
<1> QED BY <1>8 DEF d

LEMMA RefuseInboundSound ==
  ASSUME NEW c, Sound(c), c.state = "Disconnected", NEW peer \in Keys
  PROVE  Sound(RefuseInbound(c, peer).c)
<1> DEFINE d == RefuseInbound(c, peer).c
<1>1. Core(c) /\ c \in Circuits
  BY DEF Sound, Core
<1>2. d = [c EXCEPT !.remote = peer, !.state = "Disconnected"]
  BY DEF RefuseInbound, Result
<1> HIDE DEF d
<1>3. /\ d \in Circuits /\ d.state = c.state /\ d.window = c.window
      /\ d.controlArmed = c.controlArmed
      /\ d.unacked = c.unacked /\ d.vs = c.vs /\ d.sendQueue = c.sendQueue
      /\ d.reassembly = c.reassembly /\ d.localChoked = c.localChoked
      /\ d.pending = c.pending /\ d.controlRetries = c.controlRetries
  BY <1>1, <1>2 DEF Circuits, States
<1>4. TimerOK(d) /\ IdleOK(d)
  BY <1>1, <1>3 DEF Core, TimerOK, IdleOK
<1>5. Cardinality(d.unacked) <= d.window /\ d.controlRetries <= MaxRetries
  BY <1>1, <1>3 DEF Core, BudgetOK, WindowOK
<1>6. Sound(d)
  BY <1>1, <1>3, <1>4, <1>5, StateChange
<1> QED BY <1>6 DEF d

\* The application's data is cut into fragments of units of user data.
LEMMA FragmentsType ==
  ASSUME NEW data \in Seq(Units)
  PROVE  Fragments(data) \in Seq(Fragment)
<1> DEFINE count == (Len(data) + FragmentSize - 1) \div FragmentSize
           first(i) == (i - 1) * FragmentSize + 1
           last(i) == Least(i * FragmentSize, Len(data))
           fragment(i) == [bytes |-> SubSeq(data, first(i), last(i)),
                           more  |-> i < count]
<1>1. Len(data) \in Nat /\ FragmentSize \in Nat \ {0} /\ count \in Nat
  BY CircuitAssumption
<1>2. ASSUME NEW i \in 1..count
      PROVE  fragment(i) \in Fragment
  <2>1. i \in Nat /\ i - 1 \in Nat
    BY <1>1
  <2>2. first(i) \in Nat /\ first(i) >= 1 /\ last(i) \in Nat /\ last(i) <= Len(data)
    BY <1>1, <2>1 DEF Least
  <2>3. \A j \in first(i) .. last(i) : data[j] \in Units
    BY <1>1, <2>2, ElementOfSeq
  <2>4. SubSeq(data, first(i), last(i)) \in Seq(Units)
    BY <2>2, <2>3, SubSeqProperties
  <2> QED BY <2>4 DEF Fragment
<1>3. Fragments(data) = [i \in 1..count |-> fragment(i)]
  BY DEF Fragments
<1> HIDE DEF count, fragment
<1>4. Fragments(data) \in [1..count -> Fragment]
  BY <1>2, <1>3
<1> QED BY <1>1, <1>4

LEMMA SendSound ==
  ASSUME NEW c, Sound(c), NEW data \in Seq(Units)
  PROVE  Sound(Send(c, data).c)
<1>1. CASE c.state # "Connected" \/ data = <<>>
  BY <1>1 DEF Send, Quiet, Result
<1>2. CASE ~ (c.state # "Connected" \/ data = <<>>)
  <2> DEFINE d == [c EXCEPT !.sendQueue = c.sendQueue \o Fragments(data)]
  <2>1. Core(c) /\ c \in Circuits
    BY DEF Sound, Core
  <2>2. c.sendQueue \o Fragments(data) \in Seq(Fragment)
    BY <2>1, FragmentsType, ConcatProperties DEF Circuits
  <2>3. /\ d \in Circuits /\ d.unacked = c.unacked
        /\ d.state = c.state /\ d.window = c.window /\ d.vs = c.vs
        /\ d.reassembly = c.reassembly
        /\ d.controlRetries = c.controlRetries
        /\ d.controlArmed = c.controlArmed
        /\ d.localChoked = c.localChoked /\ d.pending = c.pending
    BY <2>1, <2>2 DEF Circuits
  <2>4. Send(c, data) = Pump(d)
    BY <1>2 DEF Send
  <2> HIDE DEF d
  <2>5. WindowOK(d) /\ FlightOK(d) /\ BudgetOK(d)
    BY <2>1, <2>3 DEF Core, WindowOK, FlightOK, BudgetOK
  <2>6. TimerOK(d) /\ IdleOK(d) /\ ChokeOK(d) /\ BufferOK(d)
    BY <1>2, <2>1, <2>3 DEF Core, TimerOK, IdleOK, ChokeOK, BufferOK
  <2>7. Core(d)
    BY <2>3, <2>5, <2>6 DEF Core
  <2> QED BY <2>4, <2>7, PumpSound
<1> QED BY <1>1, <1>2

-----------------------------------------------------------------------------
(***************************************************************************)
(* The handlers of on_packet.                                              *)
(***************************************************************************)
LEMMA OnConnectAcknowledgeSound ==
  ASSUME NEW c, Sound(c), NEW m, m.from \in Keys, m.window \in Nat
  PROVE  Sound(OnConnectAcknowledge(c, m).c)
<1> DEFINE heard == [c EXCEPT !.remote = m.from, !.controlArmed = FALSE]
           window == IF m.window \in 1..MaxWindow
                     THEN Least(c.window, m.window) ELSE c.window
           up == [heard EXCEPT !.state = "Connected", !.window = window]
<1>1. Core(c) /\ c \in Circuits
  BY DEF Sound, Core
<1>2. CASE c.state # "Connecting"
  BY <1>2 DEF OnConnectAcknowledge, Quiet, Result
<1>3. CASE c.state = "Connecting"
  <2>1. c.unacked = {} /\ c.sendQueue = <<>> /\ c.reassembly = <<>>
    BY <1>1, <1>3 DEF Core, IdleOK
  <2>2. CASE m.choke
    <3> DEFINE d == OnConnectAcknowledge(c, m).c
    <3>1. d = [heard EXCEPT !.state = "Disconnected", !.controlArmed = FALSE,
                            !.unacked = {}, !.sendQueue = <<>>, !.reassembly = <<>>]
      BY <1>1, <1>3, <2>2 DEF OnConnectAcknowledge, Close, Result, Circuits
    <3> HIDE DEF d
    <3>2. {} \in SUBSET Unacked /\ <<>> \in Seq(Fragment) /\ <<>> \in Seq(Units)
      OBVIOUS
    <3>3. /\ d \in Circuits /\ d.state = "Disconnected" /\ d.controlArmed = FALSE
          /\ d.unacked = c.unacked /\ d.vs = c.vs /\ d.sendQueue = c.sendQueue
          /\ d.reassembly = c.reassembly /\ d.localChoked = c.localChoked
          /\ d.pending = c.pending /\ d.window = c.window
          /\ d.controlRetries = c.controlRetries
      BY <1>1, <2>1, <3>1, <3>2 DEF Circuits, States
    <3>4. TimerOK(d) /\ IdleOK(d)
      BY <2>1, <3>3 DEF TimerOK, IdleOK
    <3>5. Cardinality(d.unacked) <= d.window /\ d.controlRetries <= MaxRetries
      BY <1>1, <3>3 DEF Core, WindowOK, BudgetOK
    <3>6. Sound(d)
      BY <1>1, <3>3, <3>4, <3>5, StateChange
    <3> QED BY <3>6 DEF d
  <2>3. CASE ~m.choke
    <3>1. window \in Nat
      BY <1>1 DEF Least, Circuits
    <3>2. OnConnectAcknowledge(c, m).c = Pump(up).c
      BY <1>1, <1>3, <2>3, Zenon DEF OnConnectAcknowledge, Then, Result
    <3> HIDE DEF window
    <3>3. /\ up \in Circuits /\ up.state = "Connected" /\ up.controlArmed = FALSE
          /\ up.unacked = c.unacked /\ up.vs = c.vs /\ up.sendQueue = c.sendQueue
          /\ up.reassembly = c.reassembly /\ up.localChoked = c.localChoked
          /\ up.pending = c.pending /\ up.window = window
          /\ up.controlRetries = c.controlRetries
      BY <1>1, <3>1 DEF Circuits, States
    <3> HIDE DEF up
    <3>4. TimerOK(up) /\ IdleOK(up)
      BY <3>3 DEF TimerOK, IdleOK
    <3>5. Cardinality(up.unacked) <= up.window /\ up.controlRetries <= MaxRetries
      BY <1>1, <2>1, <3>1, <3>3, FS_EmptySet DEF Core, BudgetOK
    <3>6. Core(up)
      BY <1>1, <3>3, <3>4, <3>5, StateChange
    <3> QED BY <3>2, <3>6, PumpSound
  <2> QED BY <2>2, <2>3
<1> QED BY <1>2, <1>3

LEMMA OnDisconnectRequestSound ==
  ASSUME NEW c, Sound(c)
  PROVE  Sound(OnDisconnectRequest(c).c)
<1>1. Core(c)
  BY DEF Sound
<1>2. OnDisconnectRequest(c).c = Close(c, "Normal").c
  BY DEF OnDisconnectRequest, Then, Result
<1> QED BY <1>1, <1>2, CloseSound

LEMMA OnDisconnectAcknowledgeSound ==
  ASSUME NEW c, Sound(c)
  PROVE  Sound(OnDisconnectAcknowledge(c).c)
<1>1. Core(c)
  BY DEF Sound
<1>2. OnDisconnectAcknowledge(c).c \in {Close(c, "Normal").c, c}
  BY DEF OnDisconnectAcknowledge, Quiet, Result
<1> QED BY <1>1, <1>2, CloseSound

LEMMA OnConnectRequestSound ==
  ASSUME NEW c, Sound(c)
  PROVE  Sound(OnConnectRequest(c).c)
<1>1. OnConnectRequest(c).c = c
  BY DEF OnConnectRequest, Quiet, Result
<1> QED BY <1>1

LEMMA OnInformationAcknowledgeSound ==
  ASSUME NEW c, Sound(c), NEW m, m.rx \in SeqNo, m.nak \in BOOLEAN,
         m.choke \in BOOLEAN
  PROVE  Sound(OnInformationAcknowledge(c, m).c)
<1> DEFINE heard == AbsorbAck(ApplyPeerChoke(c, m.choke), m.rx)
           r == IF m.nak THEN RetransmitFrom(heard, m.rx) ELSE Quiet(heard)
<1>1. CASE c.state # "Connected"
  BY <1>1 DEF OnInformationAcknowledge, Quiet, Result
<1>2. CASE c.state = "Connected"
  <2>1. Core(ApplyPeerChoke(c, m.choke))
    BY ApplyPeerChokeCore DEF Sound
  <2>2. Core(heard)
    BY <2>1, AbsorbAckCore
  <2>3. \A u \in heard.unacked : ~SeqAcked(Wire(u.pos), m.rx)
    <3>1. ApplyPeerChoke(c, m.choke) \in Circuits
      BY <2>1 DEF Core
    <3> QED BY <3>1 DEF AbsorbAck, Circuits
  <2> HIDE DEF heard
  <2>4. Core(r.c)
    BY <2>2, <2>3, RetransmitFromCore DEF Quiet, Result
  <2>5. OnInformationAcknowledge(c, m).c = Pump(r.c).c
    BY <1>2, Zenon DEF OnInformationAcknowledge, Then, Result, heard
  <2> QED BY <2>4, <2>5, PumpSound
<1> QED BY <1>1, <1>2

\* The buffer takes a fragment that fits.
LEMMA ReassemblyCore ==
  ASSUME NEW c, Core(c), c.state = "Connected", NEW whole \in Seq(Units),
         Len(whole) <= MaxReassembly
  PROVE  Core([c EXCEPT !.vr = @ + 1, !.reassembly = whole])
<1> DEFINE d == [c EXCEPT !.vr = @ + 1, !.reassembly = whole]
<1>1. c \in Circuits /\ c.vr + 1 \in Nat
  BY DEF Core, Circuits
<1>2. /\ d \in Circuits /\ d.unacked = c.unacked
      /\ d.state = c.state /\ d.window = c.window /\ d.vs = c.vs
      /\ d.sendQueue = c.sendQueue /\ d.reassembly = whole
      /\ d.controlRetries = c.controlRetries /\ d.controlArmed = c.controlArmed
      /\ d.localChoked = c.localChoked /\ d.pending = c.pending
  BY <1>1, Zenon DEF Circuits
<1> HIDE DEF d
<1>3. WindowOK(d) /\ FlightOK(d) /\ BudgetOK(d)
  BY <1>2 DEF Core, WindowOK, FlightOK, BudgetOK
<1>4. TimerOK(d) /\ IdleOK(d) /\ ChokeOK(d) /\ BufferOK(d)
  BY <1>2 DEF Core, TimerOK, IdleOK, ChokeOK, BufferOK
<1> QED BY <1>2, <1>3, <1>4 DEF Core, d

\* A whole frame is delivered: one more on the consumer's backlog.
LEMMA DeliveredCore ==
  ASSUME NEW c, Core(c), NEW pending \in Nat,
         pending = IF ChokeThreshold > 0 THEN c.pending + 1 ELSE c.pending
  PROVE  Core(MaybeAssertChoke([c EXCEPT !.pending = pending]))
<1> DEFINE d == MaybeAssertChoke([c EXCEPT !.pending = pending])
           full == ChokeThreshold > 0 /\ pending >= ChokeThreshold
<1>1. c \in Circuits
  BY DEF Core
<1>2. d = [c EXCEPT !.pending = pending, !.localChoked = IF full THEN TRUE ELSE @]
  BY <1>1 DEF MaybeAssertChoke, Circuits
<1> HIDE DEF d
<1>3. /\ d \in Circuits /\ d.unacked = c.unacked
      /\ d.state = c.state /\ d.window = c.window /\ d.vs = c.vs
      /\ d.sendQueue = c.sendQueue /\ d.reassembly = c.reassembly
      /\ d.controlRetries = c.controlRetries /\ d.controlArmed = c.controlArmed
      /\ d.pending = pending
      /\ d.localChoked = (IF full THEN TRUE ELSE c.localChoked)
  BY <1>1, <1>2 DEF Circuits
<1>4. ChokeOK(d)
  <2>1. c.localChoked <=> ChokeThreshold > 0 /\ c.pending >= ChokeThreshold
    BY DEF Core, ChokeOK
  <2>2. c.pending \in Nat /\ ChokeThreshold \in Nat
    BY <1>1, CircuitAssumption DEF Circuits
  <2>3. CASE full
    BY <2>3, <1>3 DEF ChokeOK
  <2>4. CASE ~full
    <3>1. ~c.localChoked
      BY <2>1, <2>2, <2>4
    <3> QED BY <2>4, <3>1, <1>3 DEF ChokeOK
  <2> QED BY <2>3, <2>4
<1>5. WindowOK(d) /\ FlightOK(d) /\ BudgetOK(d)
  BY <1>3 DEF Core, WindowOK, FlightOK, BudgetOK
<1>6. TimerOK(d) /\ IdleOK(d) /\ BufferOK(d)
  BY <1>3 DEF Core, TimerOK, IdleOK, BufferOK
<1> QED BY <1>3, <1>4, <1>5, <1>6 DEF Core, d

LEMMA TakeInSequenceSound ==
  ASSUME NEW c, Core(c), c.state = "Connected",
         NEW m, m.bytes \in Seq(Units), m.more \in BOOLEAN
  PROVE  Sound(TakeInSequence(c, m).c)
<1> DEFINE stepped == [c EXCEPT !.vr = @ + 1]
           whole == c.reassembly \o m.bytes
           complete == ~m.more /\ whole # <<>>
           held == [stepped EXCEPT !.reassembly = whole]
           pending == IF ChokeThreshold > 0 THEN c.pending + 1 ELSE c.pending
           emptied == [c EXCEPT !.vr = @ + 1, !.reassembly = <<>>]
           delivered == MaybeAssertChoke(
                          [stepped EXCEPT !.reassembly = <<>>,
                                          !.pending = IF ChokeThreshold > 0
                                                      THEN @ + 1 ELSE @])
           overflow == m.bytes # <<>> /\ Len(whole) > MaxReassembly
           after == IF complete THEN delivered ELSE held
<1>1. c \in Circuits /\ c.reassembly \in Seq(Units)
  BY DEF Core, Circuits
<1>2. whole \in Seq(Units) /\ Len(whole) = Len(c.reassembly) + Len(m.bytes)
  BY <1>1, ConcatProperties
<1>3. Core(emptied) /\ emptied.state = "Connected" /\ emptied.pending = c.pending
  <2>1. <<>> \in Seq(Units) /\ Len(<<>>) <= MaxReassembly
    BY EmptySeq, CircuitAssumption
  <2>2. Core(emptied)
    BY <2>1, ReassemblyCore
  <2> QED BY <2>2, <1>1 DEF Circuits
<1>4. CASE overflow
  <2>1. emptied = [stepped EXCEPT !.reassembly = <<>>]
    OBVIOUS
  <2>2. TakeInSequence(c, m) = Disconnect(emptied)
    BY <1>4, <2>1, Zenon DEF TakeInSequence
  <2> QED BY <1>3, <2>2, DisconnectConnectedSound
<1>5. CASE ~overflow
  <2>1. Core(held)
    <3>1. Len(whole) <= MaxReassembly
      <4>1. CASE m.bytes = <<>>
        <5>1. Len(m.bytes) = 0
          BY <4>1
        <5> QED BY <5>1, <1>1, <1>2 DEF Core, BufferOK
      <4>2. CASE m.bytes # <<>>
        <5>1. ~ (Len(whole) > MaxReassembly)
          BY <1>5, <4>2, Zenon
        <5>2. Len(whole) \in Nat
          BY <1>2, LenProperties, Zenon
        <5> HIDE DEF whole
        <5> QED BY <5>1, <5>2, CircuitAssumption
      <4> QED BY <4>1, <4>2
    <3>2. held = [c EXCEPT !.vr = @ + 1, !.reassembly = whole]
      OBVIOUS
    <3> HIDE DEF whole, held
    <3> QED BY <1>2, <3>1, <3>2, ReassemblyCore
  <2>2. Core(delivered)
    <3>1. pending \in Nat
      BY <1>1 DEF Circuits
    <3>2. pending = IF ChokeThreshold > 0 THEN emptied.pending + 1
                    ELSE emptied.pending
      BY <1>3
    <3>3. delivered = MaybeAssertChoke([emptied EXCEPT !.pending = pending])
      BY <1>1 DEF Circuits
    <3> HIDE DEF emptied, pending, delivered
    <3> QED BY <1>3, <3>1, <3>2, <3>3, DeliveredCore
  <2>3. Core(after)
    BY <2>1, <2>2
  <2>4. TakeInSequence(c, m).c = Pump(after).c
    BY <1>5, Zenon DEF TakeInSequence, Then, Result
  <2> QED BY <2>3, <2>4, PumpSound
<1> QED BY <1>4, <1>5

LEMMA OnInformationSound ==
  ASSUME NEW c, Sound(c), NEW m, m.rx \in SeqNo, m.choke \in BOOLEAN,
         m.bytes \in Seq(Units), m.more \in BOOLEAN
  PROVE  Sound(OnInformation(c, m).c)
<1> DEFINE heard == ApplyPeerChoke(AbsorbAck(c, m.rx), m.choke)
<1>1. Core(heard)
  <2>1. Core(AbsorbAck(c, m.rx))
    BY AbsorbAckCore DEF Sound
  <2> QED BY <2>1, ApplyPeerChokeCore
<1>2. heard.state = c.state
  BY DEF ApplyPeerChoke, AbsorbAck, Sound, Core, Circuits
<1> HIDE DEF heard
<1>3. CASE c.state # "Connected"
  BY <1>3 DEF OnInformation, Quiet, Result
<1>4. CASE c.state = "Connected" /\ m.tx = Wire(c.vr)
  <2>1. OnInformation(c, m) = TakeInSequence(heard, m)
    BY <1>4 DEF OnInformation, heard
  <2> QED BY <1>1, <1>2, <1>4, <2>1, TakeInSequenceSound
<1>5. CASE c.state = "Connected" /\ m.tx # Wire(c.vr)
  <2>1. OnInformation(c, m).c = Pump(heard).c
    BY <1>5 DEF OnInformation, Then, Result, heard
  <2> QED BY <1>1, <2>1, PumpSound
<1> QED BY <1>3, <1>4, <1>5

\* "Tolerant of any opcode": whatever arrives, in whatever state.
LEMMA OnPacketSound ==
  ASSUME NEW c, Sound(c), NEW m \in Datagram
  PROVE  Sound(OnPacket(c, m).c)
<1>1. CASE m \in [op : {"ConnectRequest"}, from : Keys, window : Nat]
  <2>1. OnPacket(c, m) = OnConnectRequest(c)
    BY <1>1 DEF OnPacket
  <2> QED BY <2>1, OnConnectRequestSound
<1>2. CASE m \in [op : {"ConnectAcknowledge"}, key : Keys, from : Keys,
                  choke : BOOLEAN, window : Nat]
  <2>1. OnPacket(c, m) = OnConnectAcknowledge(c, m)
    BY <1>2 DEF OnPacket
  <2> QED BY <1>2, <2>1, OnConnectAcknowledgeSound
<1>3. CASE m \in [op : {"DisconnectRequest", "DisconnectAcknowledge"}, key : Keys]
  <2>1. OnPacket(c, m) \in {OnDisconnectRequest(c), OnDisconnectAcknowledge(c)}
    BY <1>3 DEF OnPacket
  <2> QED BY <2>1, OnDisconnectRequestSound, OnDisconnectAcknowledgeSound
<1>4. CASE m \in [op : {"Information"}, key : Keys, tx : SeqNo, rx : SeqNo,
                  choke : BOOLEAN, more : BOOLEAN, bytes : Seq(Units)]
  <2>1. OnPacket(c, m) = OnInformation(c, m)
    BY <1>4 DEF OnPacket
  <2> QED BY <1>4, <2>1, OnInformationSound
<1>5. CASE m \in [op : {"InformationAcknowledge"}, key : Keys, rx : SeqNo,
                  nak : BOOLEAN, choke : BOOLEAN]
  <2>1. OnPacket(c, m) = OnInformationAcknowledge(c, m)
    BY <1>5 DEF OnPacket
  <2> QED BY <1>5, <2>1, OnInformationAcknowledgeSound
<1> QED BY <1>1, <1>2, <1>3, <1>4, <1>5 DEF Datagram

-----------------------------------------------------------------------------
(***************************************************************************)
(* The invariant of the specification, and what follows from it.           *)
(***************************************************************************)
SoundEnd == Sound(circuit)

LEMMA InitSound == Init => SoundEnd
  BY NewCircuitSound DEF Init, SoundEnd

LEMMA NextSound == SoundEnd /\ [Next]_circuit => SoundEnd'
<1> SUFFICES ASSUME Sound(circuit), [Next]_circuit PROVE Sound(circuit')
  BY DEF SoundEnd
<1>1. CASE ConnectCall
  BY <1>1, ConnectSound DEF ConnectCall
<1>2. CASE SendCall
  <2>1. PICK data \in Writes : circuit' = Send(circuit, data).c
    BY <1>2 DEF SendCall
  <2> QED BY <2>1, EndAssumption, SendSound
<1>3. CASE DisconnectCall
  BY <1>3, DisconnectSound DEF DisconnectCall
<1>4. CASE AcceptCall
  <2>1. PICK m \in Heard : /\ m.op = "ConnectRequest"
                           /\ circuit' = AcceptInbound(circuit, m.from, m.window).c
    BY <1>4 DEF AcceptCall
  <2>2. m.from \in Keys /\ m.window \in Nat
    BY <2>1, EndAssumption DEF Datagram
  <2> QED BY <1>4, <2>1, <2>2, AcceptInboundSound DEF AcceptCall
<1>5. CASE RefuseCall
  <2>1. PICK m \in Heard : /\ m.op = "ConnectRequest"
                           /\ circuit' = RefuseInbound(circuit, m.from).c
    BY <1>5 DEF RefuseCall
  <2>2. m.from \in Keys
    BY <2>1, EndAssumption DEF Datagram
  <2> QED BY <1>5, <2>1, <2>2, RefuseInboundSound DEF RefuseCall
<1>6. CASE TickCall
  BY <1>6, TickSound DEF TickCall
<1>7. CASE DrainedCall
  BY <1>7, DrainedSound DEF DrainedCall
<1>8. CASE Receive
  <2>1. PICK m \in Heard : circuit' = OnPacket(circuit, m).c
    BY <1>8 DEF Receive
  <2> QED BY <2>1, EndAssumption, OnPacketSound
<1>9. CASE UNCHANGED circuit
  BY <1>9
<1> QED
  BY <1>1, <1>2, <1>3, <1>4, <1>5, <1>6, <1>7, <1>8, <1>9 DEF Next

\* The inductive invariant: every reachable circuit is sound, whatever calls
\* its owner makes and whatever datagrams arrive (every entry point of
\* NetRomCircuit).
THEOREM EndIsSound == Spec => []SoundEnd
  BY InitSound, NextSound, PTL DEF Spec

\* No counter of a circuit leaves its range: in particular V(a) stays a
\* sequence number and the delivery backlog never goes below zero.
THEOREM EndTypeOK == Spec => []TypeOK
<1>1. SoundEnd => TypeOK
  BY DEF SoundEnd, Sound, Core, TypeOK
<1> QED BY <1>1, EndIsSound, PTL

\* pump_send_queue never lets out more than the negotiated window, with any
\* mixture of acknowledgements and retransmissions, and even with the window
\* of zero that an unclamped configuration gives a connecting circuit.
THEOREM EndWindowRespected == Spec => []WindowRespected
<1>1. SoundEnd => WindowRespected
  BY DEF SoundEnd, Sound, Core, WindowOK, WindowRespected
<1> QED BY <1>1, EndIsSound, PTL

\* Every handler that can open the window pumps: nothing is held back for no
\* reason.
THEOREM EndNoMissedPump == Spec => []NoMissedPump
<1>1. SoundEnd => NoMissedPump
  BY DEF SoundEnd, Sound, Pumped, NoMissedPump
<1> QED BY <1>1, EndIsSound, PTL

\* No fragment and no control request is retransmitted more than MaxRetries
\* times, although tick looks only at the oldest fragment's count.
THEOREM EndRetryBudget == Spec => [](RetryBudget /\ OlderRetriedMore)
<1>1. SoundEnd => RetryBudget /\ OlderRetriedMore
  BY DEF SoundEnd, Sound, Core, BudgetOK, FlightOK, RetryBudget, OlderRetriedMore
<1> QED BY <1>1, EndIsSound, PTL

\* The control timer runs exactly during the two control exchanges, and no data
\* of one life of a circuit is left for the next one (close, accept_inbound).
THEOREM EndLifecycleCoherent == Spec => []LifecycleCoherent
<1>1. SoundEnd => LifecycleCoherent
  BY DEF SoundEnd, Sound, Core, TimerOK, IdleOK, LifecycleCoherent
<1> QED BY <1>1, EndIsSound, PTL

\* The choke is asserted exactly while the backlog has reached the threshold.
THEOREM EndChokeMatchesBacklog == Spec => []ChokeMatchesBacklog
<1>1. SoundEnd => ChokeMatchesBacklog
  BY DEF SoundEnd, Sound, Core, ChokeOK, ChokeMatchesBacklog
<1> QED BY <1>1, EndIsSound, PTL

\* The reassembly buffer stays under its ceiling against any peer.
THEOREM EndReassemblyBounded == Spec => []ReassemblyBounded
<1>1. SoundEnd => ReassemblyBounded
  BY DEF SoundEnd, Sound, Core, BufferOK, ReassemblyBounded
<1> QED BY <1>1, EndIsSound, PTL

\* Fragments in flight have distinct positions, all of them below V(s).
THEOREM EndPositionsBelowVs == Spec => []PositionsBelowVs
<1>1. SoundEnd => PositionsBelowVs
  BY DEF SoundEnd, Sound, Core, FlightOK, PositionsBelowVs
<1> QED BY <1>1, EndIsSound, PTL

=============================================================================
