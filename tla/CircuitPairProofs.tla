-------------------------- MODULE CircuitPairProofs --------------------------
(***************************************************************************)
(* Two circuits serve a stream: proved for every sequence space, window,   *)
(* fragment size, set of scenarios and bound, on a network that keeps the  *)
(* order of the datagrams.  They may be lost and duplicated at will,       *)
(* timers may expire whenever they are armed, and the numbers wrap.        *)
(*                                                                         *)
(* The argument takes one direction at a time.  What the sender's frames   *)
(* are cut into is one sequence F of fragments; the positions in F of what *)
(* is in flight, on its way, received and acknowledged lie within half the *)
(* sequence space of each other, so that the octet in a datagram tells     *)
(* them apart.                                                             *)
(***************************************************************************)
EXTENDS CircuitPair, TLAPS, FiniteSetTheorems, SequenceTheorems

LEMMA HorizonType ==
  /\ SeqSpace \in Nat /\ Horizon \in Nat /\ SeqSpace = 2 * Horizon /\ Horizon >= 2
  /\ MaxWindow \in Nat /\ MaxWindow = Horizon - 1 /\ MaxWindow >= 1
  BY CircuitAssumption DEF Horizon, MaxWindow

\* A number is its remainder and a multiple of the sequence space.
LEMMA WireIs ==
  ASSUME NEW n \in Int
  PROVE  Wire(n) \in 0 .. SeqSpace - 1 /\ \E k \in Int : n = Wire(n) + k * SeqSpace
<1>1. SeqSpace \in Nat /\ SeqSpace > 0
  BY CircuitAssumption
<1>2. PICK k \in Int : k = n \div SeqSpace
  BY <1>1
<1>3. SeqSpace * k <= n /\ n < SeqSpace * k + SeqSpace
  BY <1>1, <1>2
<1>4. PICK r \in 0 .. SeqSpace - 1 : n = k * SeqSpace + r
  <2>1. SeqSpace * k \in Int /\ SeqSpace * k = k * SeqSpace
    BY <1>1
  <2>2. n - k * SeqSpace \in 0 .. SeqSpace - 1
    BY <1>1, <1>3, <2>1
  <2> QED BY <2>1, <2>2
<1>5. Wire(n) = r
  BY <1>1, <1>4 DEF Wire
<1>6. n = r + k * SeqSpace
  <2>1. k * SeqSpace \in Int
    BY <1>1
  <2> QED BY <1>4, <2>1
<1> QED BY <1>5, <1>6

\* Two multiples of the sequence space that differ, differ by at least one.
LEMMA MultiplesApart ==
  ASSUME NEW j \in Int, NEW k \in Int, j < k
  PROVE  j * SeqSpace + SeqSpace <= k * SeqSpace
<1>1. SeqSpace \in Nat /\ SeqSpace > 0
  BY CircuitAssumption
<1>2. k * SeqSpace = j * SeqSpace + (k - j) * SeqSpace
  BY <1>1
<1>3. PICK d \in Nat : d = k - j - 1
  OBVIOUS
<1>4. (k - j) * SeqSpace = d * SeqSpace + SeqSpace
  BY <1>1, <1>3
<1>5. d * SeqSpace >= 0
  BY <1>1, <1>3
<1>6. j * SeqSpace \in Int /\ d * SeqSpace \in Int /\ (k - j) * SeqSpace \in Int
  BY <1>1, <1>3
<1> QED BY <1>1, <1>2, <1>4, <1>5, <1>6

LEMMA WireUnique ==
  ASSUME NEW r \in 0 .. SeqSpace - 1, NEW k \in Int, NEW n \in Int,
         n = r + k * SeqSpace
  PROVE  Wire(n) = r
<1>1. SeqSpace \in Nat /\ SeqSpace > 0
  BY CircuitAssumption
<1>2. PICK j \in Int : n = Wire(n) + j * SeqSpace
  BY WireIs
<1>3. Wire(n) \in 0 .. SeqSpace - 1
  BY WireIs
<1>4. j * SeqSpace \in Int /\ k * SeqSpace \in Int
  BY <1>1
<1>5. ~ (j < k)
  <2> SUFFICES ASSUME j < k PROVE FALSE
    OBVIOUS
  <2>1. j * SeqSpace + SeqSpace <= k * SeqSpace
    BY MultiplesApart
  <2> QED BY <1>1, <1>2, <1>3, <1>4, <2>1
<1>6. ~ (k < j)
  <2> SUFFICES ASSUME k < j PROVE FALSE
    OBVIOUS
  <2>1. k * SeqSpace + SeqSpace <= j * SeqSpace
    BY MultiplesApart
  <2> QED BY <1>1, <1>2, <1>3, <1>4, <2>1
<1>7. j = k
  BY <1>5, <1>6
<1> QED BY <1>2, <1>3, <1>4, <1>7

\* Positions closer than the sequence space are told apart by what goes over
\* the air.
LEMMA WireInjective ==
  ASSUME NEW p \in Nat, NEW q \in Nat, Wire(p) = Wire(q),
         p < q + SeqSpace, q < p + SeqSpace
  PROVE  p = q
<1>1. SeqSpace \in Nat /\ SeqSpace > 0
  BY CircuitAssumption
<1>2. PICK j \in Int : p = Wire(p) + j * SeqSpace
  BY WireIs
<1>3. PICK k \in Int : q = Wire(q) + k * SeqSpace
  BY WireIs
<1>4. j * SeqSpace \in Int /\ k * SeqSpace \in Int /\ Wire(p) \in Int
  BY <1>1, WireIs
<1>5. j < k => j * SeqSpace + SeqSpace <= k * SeqSpace
  BY MultiplesApart
<1>6. k < j => k * SeqSpace + SeqSpace <= j * SeqSpace
  BY MultiplesApart
<1>7. j = k
  BY <1>1, <1>2, <1>3, <1>4, <1>5, <1>6
<1> QED BY <1>2, <1>3, <1>7

\* The wrapped distance of two positions less than half the space apart.
LEMMA WireGap ==
  ASSUME NEW p \in Nat, NEW q \in Nat, p <= q + MaxWindow, q <= p + MaxWindow
  PROVE  Wire(Wire(q) - Wire(p)) = IF p <= q THEN q - p ELSE q - p + SeqSpace
<1>1. SeqSpace \in Nat /\ SeqSpace > 0
  BY CircuitAssumption
<1>2. PICK j \in Int : p = Wire(p) + j * SeqSpace
  BY WireIs
<1>3. PICK k \in Int : q = Wire(q) + k * SeqSpace
  BY WireIs
<1>4. /\ j * SeqSpace \in Int /\ k * SeqSpace \in Int
      /\ Wire(p) \in Int /\ Wire(q) \in Int
  BY <1>1, WireIs
<1>5. Wire(q) - Wire(p) = (q - p) + (j - k) * SeqSpace
  <2>1. (j - k) * SeqSpace = j * SeqSpace - k * SeqSpace
    BY <1>1
  <2> QED BY <1>2, <1>3, <1>4, <2>1
<1>6. (j - k + (-1)) * SeqSpace = (j - k) * SeqSpace - SeqSpace
  BY <1>1
<1>7. (j - k) * SeqSpace \in Int
  BY <1>1
<1>8. CASE p <= q
  <2>1. q - p \in 0 .. SeqSpace - 1
    BY <1>8, HorizonType
  <2>2. Wire(q) - Wire(p) \in Int /\ j - k \in Int
    BY <1>4
  <2> QED BY <1>5, <1>8, <2>1, <2>2, WireUnique
<1>9. CASE ~ (p <= q)
  <2>1. q - p + SeqSpace \in 0 .. SeqSpace - 1
    BY <1>9, HorizonType
  <2>2. Wire(q) - Wire(p) \in Int /\ j - k + (-1) \in Int
    BY <1>4
  <2>3. Wire(q) - Wire(p) = (q - p + SeqSpace) + (j - k + (-1)) * SeqSpace
    BY <1>1, <1>5, <1>6, <1>7
  <2> QED BY <1>9, <2>1, <2>2, <2>3, WireUnique
<1> QED BY <1>8, <1>9

\* An acknowledgement covers exactly the positions before it.
LEMMA CoversWhatIsBefore ==
  ASSUME NEW p \in Nat, NEW x \in Nat, p <= x + MaxWindow, x <= p + MaxWindow
  PROVE  /\ SeqAcked(Wire(p), Wire(x)) <=> p < x
         /\ Mod256After(Wire(p), Wire(x)) <=> x < p
<1>1. Wire(Wire(x) - Wire(p)) = IF p <= x THEN x - p ELSE x - p + SeqSpace
  BY WireGap
<1>2. Wire(Wire(p) - Wire(x)) = IF x <= p THEN p - x ELSE p - x + SeqSpace
  BY WireGap
<1> QED BY <1>1, <1>2, HorizonType DEF SeqAcked, Mod256After

-----------------------------------------------------------------------------
(***************************************************************************)
(* What the state is made of.                                              *)
(***************************************************************************)
Unit == Nat \X Nat

Fragment == [bytes : Seq(Unit), more : BOOLEAN]

Unacked == [pos : Nat, bytes : Seq(Unit), more : BOOLEAN, retries : Nat]

\* The circuits of an established pair: no end is ever connecting again.
Circuits ==
  [state : {"Connected", "Disconnecting", "Disconnected"},
   local : Nat, remote : Nat, window : Nat, vs : Nat, va : Nat, vr : Nat,
   sendQueue : Seq(Fragment), unacked : SUBSET Unacked, reassembly : Seq(Unit),
   peerChoked : BOOLEAN, localChoked : BOOLEAN, pending : Nat,
   controlArmed : BOOLEAN, controlRetries : Nat]

Datagrams ==
  [op : {"DisconnectRequest", "DisconnectAcknowledge"}, key : Nat]
  \cup [op : {"Information"}, key : Nat, tx : Nat, rx : Nat, choke : BOOLEAN,
        more : BOOLEAN, bytes : Seq(Unit)]
  \cup [op : {"InformationAcknowledge"}, key : Nat, rx : Nat, nak : BOOLEAN,
        choke : BOOLEAN]

Acknowledges(m) == m.op \in {"Information", "InformationAcknowledge"}

-----------------------------------------------------------------------------
(***************************************************************************)
(* The two channels of one direction.  F is the sequence of all fragments  *)
(* the sender ever queued: the fragment at position q, as the circuits     *)
(* count them, is F[q + 1].                                                *)
(***************************************************************************)
\* Datagram m carries the fragment at position q.
Carries(m, F, q) ==
  m.tx = Wire(q) /\ m.bytes = F[q + 1].bytes /\ m.more = F[q + 1].more

\* A call emits the datagrams o: fragments the sender still holds, the
\* positions from lo up to hi, and acknowledgements of all before vr.
Emits(o, F, lo, hi, vr) ==
  /\ o \in Seq(Datagrams)
  /\ \A i \in 1 .. Len(o) :
       /\ o[i].op = "Information" => \E q \in lo .. hi - 1 : Carries(o[i], F, q)
       /\ Acknowledges(o[i]) => o[i].rx = Wire(vr)

\* The datagrams s carry the fragments at the positions P to a receiver that
\* expects vr next, no position is a window or more behind one ahead of it in
\* the channel, or more than a window behind the receiver.
CarriesAt(s, P, F, vs, vr) ==
  /\ P \in [1 .. Len(s) -> Nat]
  /\ \A i \in 1 .. Len(s) : s[i].op = "Information" =>
       /\ P[i] < vs /\ Carries(s[i], F, P[i]) /\ vr <= P[i] + MaxWindow
       /\ \A j \in 1 .. i - 1 : s[j].op = "Information" => P[j] < P[i] + MaxWindow

Carried(s, F, vs, vr) == \E P : CarriesAt(s, P, F, vs, vr)

\* The datagrams s acknowledge, one no less than the one before, what lies
\* before the positions P, between what the sender knows of and what the
\* receiver has received.
AcknowledgesAt(s, P, lo, vr) ==
  /\ P \in [1 .. Len(s) -> Nat]
  /\ \A i \in 1 .. Len(s) : Acknowledges(s[i]) =>
       /\ s[i].rx = Wire(P[i]) /\ lo <= P[i] /\ P[i] <= vr
       /\ \A j \in 1 .. i - 1 : Acknowledges(s[j]) => P[j] <= P[i]

Acknowledged(s, lo, vr) == \E P : AcknowledgesAt(s, P, lo, vr)

LEMMA EmitsNothing ==
  ASSUME NEW F, NEW lo, NEW hi, NEW vr
  PROVE  Emits(<<>>, F, lo, hi, vr)
  BY EmptySeq DEF Emits

LEMMA EmitsConcat ==
  ASSUME NEW F, NEW lo \in Nat, NEW mid \in Nat, NEW hi \in Nat, NEW vr \in Nat,
         mid <= hi, NEW o1, NEW o2, Emits(o1, F, lo, mid, vr), Emits(o2, F, lo, hi, vr)
  PROVE  Emits(o1 \o o2, F, lo, hi, vr)
<1>1. o1 \in Seq(Datagrams) /\ o2 \in Seq(Datagrams)
  BY DEF Emits
<1>2. PICK o : o = o1 \o o2
  OBVIOUS
<1>3. /\ o \in Seq(Datagrams) /\ Len(o) = Len(o1) + Len(o2)
      /\ Len(o1) \in Nat /\ Len(o2) \in Nat
      /\ \A i \in 1 .. Len(o) : o[i] = IF i <= Len(o1) THEN o1[i] ELSE o2[i - Len(o1)]
  BY <1>1, <1>2, ConcatProperties, LenProperties
<1>4. ASSUME NEW i \in 1 .. Len(o)
      PROVE  /\ o[i].op = "Information" => \E q \in lo .. hi - 1 : Carries(o[i], F, q)
             /\ Acknowledges(o[i]) => o[i].rx = Wire(vr)
  <2>1. CASE i <= Len(o1)
    <3>1. o[i] = o1[i] /\ i \in 1 .. Len(o1)
      BY <1>3, <2>1
    <3>2. lo .. mid - 1 \subseteq lo .. hi - 1
      OBVIOUS
    <3> QED BY <3>1, <3>2 DEF Emits
  <2>2. CASE ~ (i <= Len(o1))
    <3>1. o[i] = o2[i - Len(o1)] /\ i - Len(o1) \in 1 .. Len(o2)
      BY <1>3, <2>2
    <3> QED BY <3>1 DEF Emits
  <2> QED BY <2>1, <2>2
<1> QED BY <1>2, <1>3, <1>4 DEF Emits

\* More datagrams are sent: fragments of the sender's window, which is where
\* the receiver is.
LEMMA CarriedAppend ==
  ASSUME NEW F, NEW a \in Nat, NEW vs \in Nat, NEW more \in Nat, NEW vr \in Nat,
         vs <= more, vr <= vs, more <= a + MaxWindow,
         NEW s \in Seq(Datagrams), Carried(s, F, vs, vr),
         NEW o, NEW n, Emits(o, F, a, more, n)
  PROVE  Carried(s \o o, F, more, vr)
<1>1. PICK P : CarriesAt(s, P, F, vs, vr)
  BY DEF Carried
<1>2. PICK t : t = s \o o
  OBVIOUS
<1>3. /\ Len(t) = Len(s) + Len(o) /\ Len(s) \in Nat /\ Len(o) \in Nat
      /\ \A i \in 1 .. Len(t) : t[i] = IF i <= Len(s) THEN s[i] ELSE o[i - Len(s)]
  BY <1>2, ConcatProperties, LenProperties DEF Emits
<1> DEFINE At(i) == CHOOSE q \in a .. more - 1 : Carries(o[i], F, q)
           Q == [i \in 1 .. Len(t) |->
                   IF i <= Len(s) THEN P[i]
                   ELSE IF o[i - Len(s)].op = "Information" THEN At(i - Len(s)) ELSE 0]
<1>4. \A i \in 1 .. Len(o) : o[i].op = "Information" =>
         At(i) \in a .. more - 1 /\ Carries(o[i], F, At(i))
  BY DEF Emits
<1>5. P \in [1 .. Len(s) -> Nat]
  BY <1>1 DEF CarriesAt
<1>6. MaxWindow \in Nat
  BY HorizonType
<1> HIDE DEF At
<1>7. ASSUME NEW i \in 1 .. Len(t)
      PROVE  /\ Q[i] \in Nat
             /\ i <= Len(s) => Q[i] = P[i] /\ t[i] = s[i]
             /\ i > Len(s) /\ t[i].op = "Information" =>
                  Q[i] \in a .. more - 1 /\ Carries(t[i], F, Q[i])
  <2>1. CASE i <= Len(s)
    BY <1>3, <1>5, <2>1
  <2>2. CASE ~ (i <= Len(s))
    <3>1. i - Len(s) \in 1 .. Len(o) /\ t[i] = o[i - Len(s)]
      BY <1>3, <2>2
    <3>2. CASE o[i - Len(s)].op = "Information"
      BY <1>4, <2>2, <3>1, <3>2
    <3>3. CASE o[i - Len(s)].op # "Information"
      BY <2>2, <3>1, <3>3
    <3> QED BY <3>2, <3>3
  <2> QED BY <2>1, <2>2
<1>8. Q \in [1 .. Len(t) -> Nat]
  BY <1>7
<1> HIDE DEF Q
<1>9. ASSUME NEW i \in 1 .. Len(t), t[i].op = "Information"
      PROVE  /\ Q[i] < more /\ Carries(t[i], F, Q[i]) /\ vr <= Q[i] + MaxWindow
             /\ \A j \in 1 .. i - 1 : t[j].op = "Information" => Q[j] < Q[i] + MaxWindow
  <2>1. CASE i <= Len(s)
    <3>1. i \in 1 .. Len(s) /\ s[i].op = "Information" /\ Q[i] = P[i] /\ t[i] = s[i]
      BY <1>3, <1>7, <1>9, <2>1
    <3>2. /\ P[i] < vs /\ Carries(s[i], F, P[i]) /\ vr <= P[i] + MaxWindow
          /\ \A j \in 1 .. i - 1 : s[j].op = "Information" => P[j] < P[i] + MaxWindow
      BY <1>1, <3>1 DEF CarriesAt
    <3>3. P[i] \in Nat
      BY <1>5, <3>1
    <3>4. \A j \in 1 .. i - 1 : j \in 1 .. Len(t) /\ j <= Len(s)
      BY <1>3, <2>1
    <3>5. \A j \in 1 .. i - 1 : Q[j] = P[j] /\ t[j] = s[j]
      BY <1>7, <3>4
    <3> QED BY <3>1, <3>2, <3>3, <3>5
  <2>2. CASE ~ (i <= Len(s))
    <3>1. Q[i] \in a .. more - 1 /\ Carries(t[i], F, Q[i])
      BY <1>7, <1>9, <2>2, <1>3
    <3>2. ASSUME NEW j \in 1 .. i - 1, t[j].op = "Information"
          PROVE  Q[j] < more
      <4>1. j \in 1 .. Len(t)
        BY <1>3
      <4>2. CASE j <= Len(s)
        <5>1. j \in 1 .. Len(s) /\ s[j].op = "Information" /\ Q[j] = P[j]
          BY <1>7, <3>2, <4>1, <4>2, <1>3
        <5>2. P[j] < vs /\ P[j] \in Nat
          BY <1>1, <1>5, <5>1 DEF CarriesAt
        <5> QED BY <5>1, <5>2
      <4>3. CASE ~ (j <= Len(s))
        <5>1. j > Len(s)
          BY <1>3, <4>1, <4>3
        <5>2. Q[j] \in a .. more - 1
          BY <1>7, <3>2, <4>1, <5>1
        <5> QED BY <5>2
      <4> QED BY <4>2, <4>3
    <3>3. \A j \in 1 .. i - 1 : Q[j] \in Nat
      BY <1>3, <1>7
    <3>4. PICK x : x = Q[i]
      OBVIOUS
    <3>5. /\ x \in a .. more - 1 /\ Carries(t[i], F, x)
          /\ \A j \in 1 .. i - 1 : t[j].op = "Information" =>
                Q[j] < more
      BY <3>1, <3>2, <3>4
    <3>6. x < more /\ vr <= x + MaxWindow /\ more <= x + MaxWindow
      BY <1>6, <3>5
    <3>7. ASSUME NEW j \in 1 .. i - 1, t[j].op = "Information"
          PROVE  Q[j] < x + MaxWindow
      <4>1. PICK y, h : y = Q[j] /\ h = x + MaxWindow
        OBVIOUS
      <4>2. y \in Nat /\ y < more /\ h \in Nat /\ more <= h
        BY <1>6, <3>3, <3>5, <3>6, <3>7, <4>1
      <4>3. y < h
        BY <4>2
      <4> QED BY <4>1, <4>3
    <3> QED BY <3>4, <3>5, <3>6, <3>7
  <2> QED BY <2>1, <2>2
<1> QED BY <1>2, <1>8, <1>9 DEF Carried, CarriesAt

\* The sender queues more.
LEMMA CarriedExtend ==
  ASSUME NEW F \in Seq(Fragment), NEW G \in Seq(Fragment), NEW vs \in Nat, NEW vr \in Nat,
         vs <= Len(F), NEW s \in Seq(Datagrams), Carried(s, F, vs, vr)
  PROVE  Carried(s, F \o G, vs, vr)
<1>1. PICK P : CarriesAt(s, P, F, vs, vr)
  BY DEF Carried
<1>2. \A q \in 0 .. vs - 1 : (F \o G)[q + 1] = F[q + 1]
  BY ConcatProperties, LenProperties
<1>3. \A i \in 1 .. Len(s) : P[i] \in Nat
  BY <1>1 DEF CarriesAt
<1>4. PICK H : H = F \o G
  OBVIOUS
<1>5. \A i \in 1 .. Len(s) : P[i] < vs /\ Carries(s[i], F, P[i]) => Carries(s[i], H, P[i])
  BY <1>2, <1>3, <1>4 DEF Carries
<1>6. CarriesAt(s, P, H, vs, vr)
  BY <1>1, <1>5 DEF CarriesAt
<1> QED BY <1>4, <1>6 DEF Carried

LEMMA CarriedTail ==
  ASSUME NEW F, NEW vs, NEW vr, NEW s \in Seq(Datagrams), s # <<>>, Carried(s, F, vs, vr)
  PROVE  Carried(Tail(s), F, vs, vr)
<1>1. PICK P : CarriesAt(s, P, F, vs, vr)
  BY DEF Carried
<1>2. PICK t : t = Tail(s)
  OBVIOUS
<1>3. /\ Len(t) = Len(s) - 1 /\ Len(s) \in Nat /\ Len(t) \in Nat
      /\ \A i \in 1 .. Len(t) : t[i] = s[i + 1]
  BY <1>2, HeadTailProperties, LenProperties
<1> DEFINE Q == [i \in 1 .. Len(t) |-> P[i + 1]]
<1>4. Q \in [1 .. Len(t) -> Nat] /\ \A i \in 1 .. Len(t) : Q[i] = P[i + 1]
  BY <1>1, <1>3 DEF CarriesAt
<1> HIDE DEF Q
<1>5. ASSUME NEW i \in 1 .. Len(t), t[i].op = "Information"
      PROVE  /\ Q[i] < vs /\ Carries(t[i], F, Q[i]) /\ vr <= Q[i] + MaxWindow
             /\ \A j \in 1 .. i - 1 : t[j].op = "Information" => Q[j] < Q[i] + MaxWindow
  <2>1. i + 1 \in 1 .. Len(s) /\ s[i + 1].op = "Information" /\ t[i] = s[i + 1]
        /\ Q[i] = P[i + 1]
    BY <1>3, <1>4, <1>5
  <2>2. \A j \in 1 .. i - 1 : /\ j \in 1 .. Len(t) /\ j + 1 \in 1 .. (i + 1) - 1
    BY <1>3
  <2>3. /\ P[i + 1] < vs /\ Carries(s[i + 1], F, P[i + 1]) /\ vr <= P[i + 1] + MaxWindow
        /\ \A j \in 1 .. (i + 1) - 1 :
             s[j].op = "Information" => P[j] < P[i + 1] + MaxWindow
    BY <1>1, <2>1 DEF CarriesAt
  <2>4. ASSUME NEW j \in 1 .. i - 1, t[j].op = "Information"
        PROVE  Q[j] < Q[i] + MaxWindow
    <3>1. t[j] = s[j + 1] /\ Q[j] = P[j + 1]
      BY <1>3, <1>4, <2>2
    <3> QED BY <2>1, <2>2, <2>3, <2>4, <3>1
  <2> QED BY <2>1, <2>3, <2>4
<1> QED BY <1>2, <1>4, <1>5 DEF Carried, CarriesAt

\* A fragment whose number is the one expected next is the one expected next.
LEMMA CarriedArrives ==
  ASSUME NEW F, NEW vs \in Nat, NEW vr \in Nat, vs <= vr + MaxWindow,
         NEW s \in Seq(Datagrams), s # <<>>, Carried(s, F, vs, vr),
         Head(s).op = "Information", Head(s).tx = Wire(vr)
  PROVE  vr < vs /\ Carries(Head(s), F, vr) /\ Carried(s, F, vs, vr + 1)
<1>1. PICK P : CarriesAt(s, P, F, vs, vr)
  BY DEF Carried
<1>2. Len(s) \in Nat /\ 1 \in 1 .. Len(s) /\ s[1] = Head(s)
  BY EmptySeq, LenProperties
<1>3. /\ P[1] \in Nat /\ P[1] < vs /\ Carries(Head(s), F, P[1])
      /\ vr <= P[1] + MaxWindow
  BY <1>1, <1>2 DEF CarriesAt
<1>4. Wire(P[1]) = Wire(vr)
  BY <1>3 DEF Carries
<1>5. P[1] = vr
  BY <1>3, <1>4, HorizonType, WireInjective
<1>6. ASSUME NEW i \in 1 .. Len(s), s[i].op = "Information"
      PROVE  vr + 1 <= P[i] + MaxWindow
  <2>1. P[i] \in Nat
    BY <1>1 DEF CarriesAt
  <2>2. CASE i = 1
    BY <1>5, <2>1, <2>2, HorizonType
  <2>3. CASE i # 1
    <3>1. 1 \in 1 .. i - 1
      BY <2>3, <1>2
    <3>2. P[1] < P[i] + MaxWindow
      BY <1>1, <1>2, <1>6, <3>1 DEF CarriesAt
    <3> QED BY <1>5, <2>1, <3>2, HorizonType
  <2> QED BY <2>2, <2>3
<1>7. CarriesAt(s, P, F, vs, vr + 1)
  BY <1>1, <1>6 DEF CarriesAt
<1> QED BY <1>3, <1>5, <1>7 DEF Carried

LEMMA AcknowledgedAppend ==
  ASSUME NEW F, NEW lo, NEW hi, NEW a \in Nat, NEW vr \in Nat, NEW now \in Nat,
         vr <= now, a <= now,
         NEW s \in Seq(Datagrams), Acknowledged(s, a, vr),
         NEW o, Emits(o, F, lo, hi, now)
  PROVE  Acknowledged(s \o o, a, now)
<1>1. PICK P : AcknowledgesAt(s, P, a, vr)
  BY DEF Acknowledged
<1>2. PICK t : t = s \o o
  OBVIOUS
<1>3. /\ Len(t) = Len(s) + Len(o) /\ Len(s) \in Nat /\ Len(o) \in Nat
      /\ \A i \in 1 .. Len(t) : t[i] = IF i <= Len(s) THEN s[i] ELSE o[i - Len(s)]
  BY <1>2, ConcatProperties, LenProperties DEF Emits
<1> DEFINE Q == [i \in 1 .. Len(t) |-> IF i <= Len(s) THEN P[i] ELSE now]
<1>4. P \in [1 .. Len(s) -> Nat]
  BY <1>1 DEF AcknowledgesAt
<1>5. /\ Q \in [1 .. Len(t) -> Nat]
      /\ \A i \in 1 .. Len(t) : Q[i] = IF i <= Len(s) THEN P[i] ELSE now
  BY <1>3, <1>4
<1> HIDE DEF Q
<1>6. ASSUME NEW i \in 1 .. Len(t), Acknowledges(t[i])
      PROVE  /\ t[i].rx = Wire(Q[i]) /\ a <= Q[i] /\ Q[i] <= now
             /\ \A j \in 1 .. i - 1 : Acknowledges(t[j]) => Q[j] <= Q[i]
  <2>1. \A j \in 1 .. Len(s) : Acknowledges(s[j]) => P[j] \in Nat /\ P[j] <= vr
    BY <1>1 DEF AcknowledgesAt
  <2>2. \A j \in 1 .. i - 1 : j \in 1 .. Len(t)
    BY <1>3
  <2>3. CASE i <= Len(s)
    <3>1. i \in 1 .. Len(s) /\ t[i] = s[i] /\ Q[i] = P[i]
      BY <1>3, <1>5, <2>3
    <3>2. /\ s[i].rx = Wire(P[i]) /\ a <= P[i] /\ P[i] <= vr /\ P[i] \in Nat
          /\ \A j \in 1 .. i - 1 : Acknowledges(s[j]) => P[j] <= P[i]
      BY <1>1, <1>6, <3>1 DEF AcknowledgesAt
    <3>3. \A j \in 1 .. i - 1 : t[j] = s[j] /\ Q[j] = P[j]
      BY <1>3, <1>5, <2>2, <2>3
    <3> QED BY <3>1, <3>2, <3>3
  <2>4. CASE ~ (i <= Len(s))
    <3>1. i - Len(s) \in 1 .. Len(o) /\ t[i] = o[i - Len(s)] /\ Q[i] = now
      BY <1>3, <1>5, <2>4
    <3>2. t[i].rx = Wire(now)
      BY <1>6, <3>1 DEF Emits
    <3>3. ASSUME NEW j \in 1 .. i - 1, Acknowledges(t[j])
          PROVE  Q[j] <= now
      <4>1. CASE j <= Len(s)
        <5>1. j \in 1 .. Len(s) /\ t[j] = s[j] /\ Q[j] = P[j]
          BY <1>3, <1>5, <2>2, <4>1
        <5> QED BY <2>1, <3>3, <5>1
      <4>2. CASE ~ (j <= Len(s))
        BY <1>5, <2>2, <4>2
      <4> QED BY <4>1, <4>2
    <3> QED BY <3>1, <3>2, <3>3
  <2> QED BY <2>3, <2>4
<1> QED BY <1>2, <1>5, <1>6 DEF Acknowledged, AcknowledgesAt

LEMMA AcknowledgedTail ==
  ASSUME NEW a, NEW vr, NEW s \in Seq(Datagrams), s # <<>>, Acknowledged(s, a, vr)
  PROVE  Acknowledged(Tail(s), a, vr)
<1>1. PICK P : AcknowledgesAt(s, P, a, vr)
  BY DEF Acknowledged
<1>2. PICK t : t = Tail(s)
  OBVIOUS
<1>3. /\ Len(t) = Len(s) - 1 /\ Len(s) \in Nat /\ Len(t) \in Nat
      /\ \A i \in 1 .. Len(t) : t[i] = s[i + 1]
  BY <1>2, HeadTailProperties, LenProperties
<1> DEFINE Q == [i \in 1 .. Len(t) |-> P[i + 1]]
<1>4. Q \in [1 .. Len(t) -> Nat] /\ \A i \in 1 .. Len(t) : Q[i] = P[i + 1]
  BY <1>1, <1>3 DEF AcknowledgesAt
<1> HIDE DEF Q
<1>5. ASSUME NEW i \in 1 .. Len(t), Acknowledges(t[i])
      PROVE  /\ t[i].rx = Wire(Q[i]) /\ a <= Q[i] /\ Q[i] <= vr
             /\ \A j \in 1 .. i - 1 : Acknowledges(t[j]) => Q[j] <= Q[i]
  <2>1. i + 1 \in 1 .. Len(s) /\ Acknowledges(s[i + 1]) /\ t[i] = s[i + 1]
        /\ Q[i] = P[i + 1]
    BY <1>3, <1>4, <1>5
  <2>2. \A j \in 1 .. i - 1 : /\ j \in 1 .. Len(t) /\ j + 1 \in 1 .. (i + 1) - 1
                              /\ t[j] = s[j + 1] /\ Q[j] = P[j + 1]
    BY <1>3, <1>4
  <2>3. /\ s[i + 1].rx = Wire(P[i + 1]) /\ a <= P[i + 1] /\ P[i + 1] <= vr
        /\ \A j \in 1 .. (i + 1) - 1 : Acknowledges(s[j]) => P[j] <= P[i + 1]
    BY <1>1, <2>1 DEF AcknowledgesAt
  <2> QED BY <2>1, <2>2, <2>3
<1> QED BY <1>2, <1>4, <1>5 DEF Acknowledged, AcknowledgesAt

\* An acknowledgement at the head: no other one on its way says less.
LEMMA AcknowledgementArrives ==
  ASSUME NEW a \in Nat, NEW vr \in Nat, NEW s \in Seq(Datagrams), s # <<>>,
         Acknowledged(s, a, vr), Acknowledges(Head(s))
  PROVE  \E x \in a .. vr : Head(s).rx = Wire(x) /\ Acknowledged(s, x, vr)
<1>1. PICK P : AcknowledgesAt(s, P, a, vr)
  BY DEF Acknowledged
<1>2. Len(s) \in Nat /\ 1 \in 1 .. Len(s) /\ s[1] = Head(s)
  BY EmptySeq, LenProperties
<1>3. P[1] \in a .. vr /\ Head(s).rx = Wire(P[1])
  BY <1>1, <1>2 DEF AcknowledgesAt
<1>4. ASSUME NEW i \in 1 .. Len(s), Acknowledges(s[i])
      PROVE  P[1] <= P[i]
  <2>1. CASE i = 1
    BY <2>1, <1>3
  <2>2. CASE i # 1
    <3>1. 1 \in 1 .. i - 1
      BY <2>2, <1>2
    <3> QED BY <1>1, <1>2, <1>4, <3>1 DEF AcknowledgesAt
  <2> QED BY <2>1, <2>2
<1>5. AcknowledgesAt(s, P, P[1], vr)
  BY <1>1, <1>4 DEF AcknowledgesAt
<1> QED BY <1>3, <1>5 DEF Acknowledged

-----------------------------------------------------------------------------
(***************************************************************************)
(* The send side of one circuit.                                           *)
(***************************************************************************)
\* u is in flight and is the fragment at its position.
Held(u, F) == u.bytes = F[u.pos + 1].bytes /\ u.more = F[u.pos + 1].more

\* The fragments in flight are those at the positions from lo up to hi.
Window(S, F, lo, hi) ==
  /\ S \in SUBSET Unacked
  /\ \A u \in S : u.pos \in lo .. hi - 1 /\ Held(u, F)
  /\ \A q \in lo .. hi - 1 : \E u \in S : u.pos = q
  /\ \A u, v \in S : u.pos = v.pos => u = v

\* The sender c of the fragments F has taken in acknowledgements of all before
\* position a: it holds exactly the fragments from there up to V(s) in flight
\* and the ones after that in its queue.
SendSide(c, F, a) ==
  /\ c \in Circuits /\ F \in Seq(Fragment) /\ a \in Nat
  /\ a <= c.vs /\ c.vs <= Len(F) /\ c.vs <= a + MaxWindow
  /\ c.state = "Connected" =>
       /\ c.window <= MaxWindow
       /\ Len(c.sendQueue) = Len(F) - c.vs
       /\ \A i \in 1 .. Len(c.sendQueue) : c.sendQueue[i] = F[c.vs + i]
       /\ Window(c.unacked, F, a, c.vs)

LEMMA WindowCount ==
  ASSUME NEW S, NEW F, NEW lo \in Nat, NEW hi \in Nat, lo <= hi, Window(S, F, lo, hi)
  PROVE  IsFiniteSet(S) /\ Cardinality(S) = hi - lo
<1> PICK T : T = lo .. hi - 1
  OBVIOUS
<1> DEFINE f == [u \in S |-> u.pos]
<1>1. f \in [S -> T]
  BY DEF Window
<1>2. \A q \in T : \E u \in S : f[u] = q
  BY DEF Window
<1>3. \A u, v \in S : f[u] = f[v] => u = v
  BY DEF Window
<1> HIDE DEF f
<1>4. f \in Injection(S, T) /\ f \in Surjection(S, T)
  BY <1>1, <1>2, <1>3 DEF Injection, Surjection, IsInjective
<1>5. IsFiniteSet(T) /\ Cardinality(T) = hi - lo
  <2>1. PICK b \in Int : b = hi - 1
    OBVIOUS
  <2>2. /\ IsFiniteSet(lo .. b)
        /\ Cardinality(lo .. b) = IF lo > b THEN 0 ELSE b - lo + 1
    <3>1. lo \in Int
      OBVIOUS
    <3> QED BY <3>1, FS_Interval, Zenon
  <2> QED BY <2>1, <2>2
<1> QED BY <1>4, <1>5, FS_Injection

LEMMA WindowEmpty ==
  ASSUME NEW S, NEW F, NEW lo \in Nat, Window(S, F, lo, lo)
  PROVE  S = {}
<1>1. lo .. lo - 1 = {}
  OBVIOUS
<1> QED BY <1>1 DEF Window

LEMMA WindowRetried ==
  ASSUME NEW S, NEW F, NEW lo \in Nat, NEW hi \in Nat, Window(S, F, lo, hi)
  PROVE  Window(Retried(S), F, lo, hi)
<1> DEFINE again(u) == [u EXCEPT !.retries = @ + 1]
<1>1. \A u \in S : u \in Unacked
  BY DEF Window
<1>2. \A u \in S : /\ again(u) \in Unacked /\ again(u).pos = u.pos
                   /\ again(u).bytes = u.bytes /\ again(u).more = u.more
  BY <1>1 DEF Unacked
<1>3. Retried(S) = {again(u) : u \in S}
  BY DEF Retried
<1> HIDE DEF again
<1>4. \A v \in Retried(S) : \E u \in S : v = again(u)
  BY <1>3
<1>5. \A u \in S : again(u) \in Retried(S)
  BY <1>3
<1>6. Retried(S) \in SUBSET Unacked
  BY <1>2, <1>4
<1>7. \A v \in Retried(S) : v.pos \in lo .. hi - 1 /\ Held(v, F)
  BY <1>2, <1>4 DEF Window, Held
<1>8. \A q \in lo .. hi - 1 : \E v \in Retried(S) : v.pos = q
  BY <1>2, <1>5 DEF Window
<1>9. \A v, w \in Retried(S) : v.pos = w.pos => v = w
  BY <1>2, <1>4 DEF Window
<1> QED BY <1>6, <1>7, <1>8, <1>9 DEF Window

\* Any fragment in flight, sent now.
LEMMA InformationEmitted ==
  ASSUME NEW c \in Circuits, NEW F, NEW u \in Unacked, Held(u, F)
  PROVE  /\ Information(c, u) \in Datagrams
         /\ Information(c, u).op = "Information"
         /\ Carries(Information(c, u), F, u.pos)
         /\ Information(c, u).rx = Wire(c.vr)
<1>1. Wire(u.pos) \in Nat /\ Wire(c.vr) \in Nat
  BY WireIs, HorizonType DEF Circuits, Unacked
<1>2. Information(c, u) \in Datagrams
  BY <1>1 DEF Information, Datagrams, Circuits, Unacked
<1>3. Carries(Information(c, u), F, u.pos)
  BY DEF Carries, Information, Held
<1> QED BY <1>2, <1>3 DEF Information

LEMMA WindowResent ==
  ASSUME NEW c \in Circuits, NEW S, NEW F, NEW lo \in Nat, NEW hi \in Nat, lo <= hi,
         Window(S, F, lo, hi)
  PROVE  Emits(Resend(c, S), F, lo, hi, c.vr)
<1> DEFINE n == Cardinality(S)
           g == [i \in 1 .. n |-> CHOOSE u \in S : u.pos = lo + i - 1]
           f == OldestFirst(S)
<1>1. n = hi - lo /\ n \in Nat
  BY WindowCount
<1>2. \A i \in 1 .. n : g[i] \in S /\ g[i].pos = lo + i - 1
  <2>1. ASSUME NEW i \in 1 .. n PROVE \E u \in S : u.pos = lo + i - 1
    <3>1. lo + i - 1 \in lo .. hi - 1
      BY <1>1
    <3> QED BY <3>1 DEF Window
  <2> QED BY <2>1
<1>3. g \in [1 .. n -> S]
  BY <1>2
<1>4. \A i, j \in DOMAIN g : i < j => g[i].pos < g[j].pos
  BY <1>1, <1>2
<1> HIDE DEF g
<1>5. f \in [1 .. n -> S]
  BY <1>3, <1>4 DEF OldestFirst
<1> HIDE DEF f
<1>6. Resend(c, S) = [i \in 1 .. n |-> Information(c, f[i])]
  BY DEF Resend, f
<1>7. \A i \in 1 .. n : /\ f[i] \in Unacked /\ Held(f[i], F)
                        /\ f[i].pos \in lo .. hi - 1
  BY <1>5 DEF Window
<1>8. \A i \in 1 .. n : /\ Information(c, f[i]) \in Datagrams
                        /\ Carries(Information(c, f[i]), F, f[i].pos)
                        /\ Information(c, f[i]).rx = Wire(c.vr)
  BY <1>7, InformationEmitted
<1>9. PICK o : o = Resend(c, S)
  OBVIOUS
<1> HIDE DEF n
<1>10. o \in [1 .. n -> Datagrams] /\ \A i \in 1 .. n : o[i] = Information(c, f[i])
  BY <1>6, <1>8, <1>9
<1>11. o \in Seq(Datagrams) /\ Len(o) = n
  BY <1>1, <1>10
<1> QED BY <1>7, <1>8, <1>9, <1>10, <1>11 DEF Emits

-----------------------------------------------------------------------------
(***************************************************************************)
(* What a call does to the send side, whatever it is: it returns a circuit *)
(* that still holds its part of the fragments, and emits fragments of its  *)
(* window and acknowledgements of what it has received.                    *)
(***************************************************************************)
Events ==
  [type : {"Connected"}] \cup [type : {"Closed"}, reason : Reasons]
  \cup [type : {"DataReceived"}, data : Seq(Unit)]

\* The events hand no frame to the application.
Silent(ev) ==
  ev \in Seq(Events) /\ \A i \in 1 .. Len(ev) : ev[i].type # "DataReceived"

Step(c, r, F, a) ==
  /\ SendSide(r.c, F, a)
  /\ Emits(r.out, F, a, r.c.vs, r.c.vr)
  /\ c.vs <= r.c.vs
  /\ r.ev \in Seq(Events)

\* The call changes nothing of what the circuit received, or takes it down.
Still(c, r) ==
  /\ r.c.vr = c.vr
  /\ Silent(r.ev)
  /\ r.c.state = "Connected"
       => c.state = "Connected" /\ r.c.reassembly = c.reassembly

LEMMA SilentHandsNothing ==
  ASSUME NEW ev, Silent(ev)
  PROVE  Handed(ev) = <<>>
<1> DEFINE at == {i \in DOMAIN ev : ev[i].type = "DataReceived"}
<1>1. DOMAIN ev = 1 .. Len(ev)
  BY LenProperties DEF Silent
<1>2. at = {}
  <2>1. \A i \in 1 .. Len(ev) : ev[i].type # "DataReceived"
    BY DEF Silent
  <2>2. \A i \in DOMAIN ev : ev[i].type # "DataReceived"
    BY <1>1, <2>1, Zenon
  <2> QED BY <2>2, Zenon
<1>3. Cardinality(at) = 0
  BY <1>2, FS_EmptySet
<1>4. 1 .. Cardinality(at) = {}
  <2> HIDE DEF at
  <2> QED BY <1>3
<1> DEFINE nth(k) == CHOOSE i \in at : Cardinality({j \in at : j < i}) = k - 1
<1>5. Handed(ev) = [k \in 1 .. Cardinality(at) |-> ev[nth(k)].data]
  BY DEF Handed
<1> HIDE DEF at, nth
<1>6. Handed(ev) = [k \in {} |-> ev[nth(k)].data]
  BY <1>4, <1>5
<1> QED BY <1>6

LEMMA OneIsHanded ==
  ASSUME NEW x \in Events, x.type = "DataReceived"
  PROVE  Handed(<<x>>) = <<x.data>>
<1> PICK ev : ev = <<x>>
  OBVIOUS
<1> DEFINE at == {i \in DOMAIN ev : ev[i].type = "DataReceived"}
           nth(k) == CHOOSE i \in at : Cardinality({j \in at : j < i}) = k - 1
<1>1. at = {1}
  OBVIOUS
<1>2. Cardinality(at) = 1
  BY <1>1, FS_Singleton
<1>3. nth(1) = 1
  <2>1. {j \in at : j < 1} = {}
    BY <1>1
  <2>2. Cardinality({j \in at : j < 1}) = 1 - 1
    BY <2>1, FS_EmptySet
  <2> QED BY <1>1, <2>2
<1>4. Handed(ev) = [k \in 1 .. Cardinality(at) |-> ev[nth(k)].data]
  BY DEF Handed
<1> HIDE DEF at, nth
<1>5. Handed(ev) = [k \in 1 .. 1 |-> ev[nth(k)].data]
  BY <1>2, <1>4
<1>6. Handed(ev) = <<ev[1].data>>
  BY <1>3, <1>5
<1> QED BY <1>6

LEMMA SilentNothing == Silent(<<>>)
  BY EmptySeq DEF Silent

LEMMA SilentConcat ==
  ASSUME NEW e1, NEW e2, Silent(e1), Silent(e2)
  PROVE  Silent(e1 \o e2)
<1>1. PICK ev : ev = e1 \o e2
  OBVIOUS
<1>2. /\ ev \in Seq(Events) /\ Len(ev) = Len(e1) + Len(e2)
      /\ Len(e1) \in Nat /\ Len(e2) \in Nat
      /\ \A i \in 1 .. Len(ev) : ev[i] = IF i <= Len(e1) THEN e1[i] ELSE e2[i - Len(e1)]
  BY <1>1, ConcatProperties, LenProperties DEF Silent
<1>3. ASSUME NEW i \in 1 .. Len(ev) PROVE ev[i].type # "DataReceived"
  <2>1. CASE i <= Len(e1)
    BY <1>2, <2>1 DEF Silent
  <2>2. CASE ~ (i <= Len(e1))
    <3>1. i - Len(e1) \in 1 .. Len(e2) /\ ev[i] = e2[i - Len(e1)]
      BY <1>2, <2>2
    <3> QED BY <3>1 DEF Silent
  <2> QED BY <2>1, <2>2
<1> QED BY <1>1, <1>2, <1>3 DEF Silent

LEMMA SilentClosed ==
  ASSUME NEW reas \in Reasons
  PROVE  Silent(<<[type |-> "Closed", reason |-> reas]>>)
<1> PICK x : x = [type |-> "Closed", reason |-> reas]
  OBVIOUS
<1>1. x \in Events /\ x.type # "DataReceived"
  BY DEF Events
<1> QED BY <1>1 DEF Silent

\* A single datagram that carries no fragment.
LEMMA EmitsOne ==
  ASSUME NEW F, NEW lo, NEW hi, NEW vr, NEW m \in Datagrams, m.op # "Information",
         Acknowledges(m) => m.rx = Wire(vr)
  PROVE  Emits(<<m>>, F, lo, hi, vr)
<1> PICK o : o = <<m>>
  OBVIOUS
<1>1. o \in Seq(Datagrams) /\ Len(o) = 1 /\ o[1] = m
  OBVIOUS
<1> QED BY <1>1 DEF Emits

LEMMA AcknowledgementEmitted ==
  ASSUME NEW c \in Circuits, NEW nak \in BOOLEAN, NEW F, NEW lo, NEW hi
  PROVE  Emits(<<InformationAcknowledge(c, nak)>>, F, lo, hi, c.vr)
<1> PICK m : m = InformationAcknowledge(c, nak)
  OBVIOUS
<1>1. Wire(c.vr) \in Nat
  BY WireIs, HorizonType DEF Circuits
<1>2. m \in Datagrams
  BY <1>1 DEF InformationAcknowledge, Datagrams, Circuits
<1>3. m.op = "InformationAcknowledge" /\ m.rx = Wire(c.vr)
  BY DEF InformationAcknowledge
<1> QED BY <1>2, <1>3, EmitsOne

LEMMA DisconnectEmitted ==
  ASSUME NEW key \in Nat, NEW op \in {"DisconnectRequest", "DisconnectAcknowledge"},
         NEW F, NEW lo, NEW hi, NEW vr
  PROVE  Emits(<<[op |-> op, key |-> key]>>, F, lo, hi, vr)
<1> PICK m : m = [op |-> op, key |-> key]
  OBVIOUS
<1>1. m \in Datagrams /\ m.op = op
  BY DEF Datagrams
<1> QED BY <1>1, EmitsOne DEF Acknowledges

\* A call followed by one that receives nothing.
LEMMA ThenStep ==
  ASSUME NEW c \in Circuits, NEW r, NEW s, NEW F, NEW a,
         Step(c, r, F, a), Step(r.c, s, F, a), Still(r.c, s)
  PROVE  /\ Step(c, Then(r, s), F, a)
         /\ Still(c, r) => Still(c, Then(r, s))
<1>1. Then(r, s).c = s.c /\ Then(r, s).out = r.out \o s.out /\ Then(r, s).ev = r.ev \o s.ev
  BY DEF Then, Result
<1>2. s.c.vr = r.c.vr /\ r.c.vs <= s.c.vs /\ c.vs <= r.c.vs
  BY DEF Step, Still
<1>3. /\ a \in Nat /\ c.vs \in Nat /\ r.c.vs \in Nat /\ s.c.vs \in Nat
      /\ r.c.vr \in Nat
  BY DEF Step, SendSide, Circuits
<1>4. Emits(r.out \o s.out, F, a, s.c.vs, s.c.vr)
  <2>1. PICK o1, o2, hi, mid, vr : /\ o1 = r.out /\ o2 = s.out /\ hi = s.c.vs
                                   /\ mid = r.c.vs /\ vr = s.c.vr
    OBVIOUS
  <2>2. /\ Emits(o1, F, a, mid, vr) /\ Emits(o2, F, a, hi, vr) /\ mid <= hi
        /\ mid \in Nat /\ hi \in Nat /\ vr \in Nat
    BY <1>2, <1>3, <2>1 DEF Step
  <2>3. Emits(o1 \o o2, F, a, hi, vr)
    BY <1>3, <2>2, EmitsConcat
  <2> QED BY <2>1, <2>3
<1>5. r.ev \o s.ev \in Seq(Events)
  BY ConcatProperties DEF Step
<1>6. Step(c, Then(r, s), F, a)
  BY <1>1, <1>2, <1>3, <1>4, <1>5 DEF Step
<1>7. ASSUME Still(c, r) PROVE Still(c, Then(r, s))
  <2>1. Silent(r.ev \o s.ev)
    BY <1>7, SilentConcat DEF Still
  <2> QED BY <1>1, <1>7, <2>1 DEF Still
<1> QED BY <1>6, <1>7

\* A circuit whose send side is as it was.
LEMMA SameSide ==
  ASSUME NEW c, NEW F, NEW a, SendSide(c, F, a), NEW d \in Circuits, d.vs = c.vs,
         d.state = "Connected" =>
           /\ c.state = "Connected" /\ d.window = c.window
           /\ d.sendQueue = c.sendQueue /\ d.unacked = c.unacked
  PROVE  SendSide(d, F, a)
  BY DEF SendSide

\* An end that is not up needs no more than the positions.
LEMMA SideForward ==
  ASSUME NEW c, NEW F, NEW a, SendSide(c, F, a), c.state # "Connected",
         NEW x \in a .. c.vs
  PROVE  SendSide(c, F, x)
<1>1. a \in Nat /\ c.vs \in Nat /\ x \in Nat /\ a <= x /\ MaxWindow \in Nat
  BY HorizonType DEF SendSide, Circuits
<1>2. c.vs <= a + MaxWindow
  BY DEF SendSide
<1>3. c.vs <= x + MaxWindow
  BY <1>1, <1>2
<1> QED BY <1>1, <1>3 DEF SendSide

LEMMA QuietStep ==
  ASSUME NEW c, NEW F, NEW a, SendSide(c, F, a)
  PROVE  Step(c, Quiet(c), F, a) /\ Still(c, Quiet(c))
<1>1. Quiet(c).c = c /\ Quiet(c).out = <<>> /\ Quiet(c).ev = <<>>
  BY DEF Quiet, Result
<1>2. c.vs \in Nat
  BY DEF SendSide, Circuits
<1>3. <<>> \in Seq(Events)
  OBVIOUS
<1> QED BY <1>1, <1>2, <1>3, EmitsNothing, SilentNothing DEF Step, Still

-----------------------------------------------------------------------------
(***************************************************************************)
(* The mechanics every handler is made of.                                 *)
(***************************************************************************)
LEMMA CloseStep ==
  ASSUME NEW c, NEW F, NEW a, SendSide(c, F, a), NEW reas \in Reasons
  PROVE  /\ Step(c, Close(c, reas), F, a) /\ Still(c, Close(c, reas))
         /\ Close(c, reas).c.state = "Disconnected"
<1>1. CASE c.state = "Disconnected"
  <2>1. Close(c, reas) = Quiet(c)
    BY <1>1 DEF Close
  <2> QED BY <1>1, <2>1, QuietStep DEF Quiet, Result
<1>2. CASE c.state # "Disconnected"
  <2> PICK r : r = Close(c, reas)
    OBVIOUS
  <2>1. c \in Circuits
    BY DEF SendSide
  <2>2. /\ r.c = [c EXCEPT !.state = "Disconnected", !.controlArmed = FALSE,
                           !.unacked = {}, !.sendQueue = <<>>, !.reassembly = <<>>]
        /\ r.out = <<>> /\ r.ev = <<[type |-> "Closed", reason |-> reas]>>
    BY <1>2 DEF Close, Result
  <2> PICK d : d = r.c
    OBVIOUS
  <2>3. d \in Circuits
    <3>1. {} \in SUBSET Unacked /\ <<>> \in Seq(Fragment) /\ <<>> \in Seq(Unit)
      OBVIOUS
    <3> QED BY <2>1, <2>2, <3>1, Zenon DEF Circuits
  <2>4. d.state = "Disconnected" /\ d.vs = c.vs /\ d.vr = c.vr /\ c.vs \in Nat
    BY <2>1, <2>2 DEF Circuits
  <2>5. SendSide(d, F, a)
    BY <2>3, <2>4, SameSide
  <2>6. Silent(r.ev)
    BY <2>2, SilentClosed
  <2>7. Emits(r.out, F, a, d.vs, d.vr)
    BY <2>2, EmitsNothing
  <2> QED BY <2>4, <2>5, <2>6, <2>7 DEF Step, Still, Silent
<1> QED BY <1>1, <1>2

LEMMA PumpStep ==
  ASSUME NEW c, NEW F, NEW a, SendSide(c, F, a)
  PROVE  /\ Step(c, Pump(c), F, a) /\ Still(c, Pump(c))
         /\ Pump(c).c.state = c.state /\ Pump(c).ev = <<>>
<1> PICK n : n = Room(c)
  OBVIOUS
<1> DEFINE T == {InFlight(c, i) : i \in 1 .. n}
           q == c.sendQueue
           o == [i \in 1 .. n |-> Information(c, InFlight(c, i))]
<1> PICK r : r = Pump(c)
  OBVIOUS
<1> PICK d : d = r.c
  OBVIOUS
<1>1. c \in Circuits /\ F \in Seq(Fragment) /\ a \in Nat /\ a <= c.vs
      /\ c.vs <= Len(F) /\ c.vs <= a + MaxWindow
  BY DEF SendSide
<1>2. /\ c.vs \in Nat /\ c.vr \in Nat /\ q \in Seq(Fragment) /\ Len(q) \in Nat
      /\ Len(F) \in Nat /\ c.window \in Nat /\ MaxWindow \in Nat
      /\ c.unacked \in SUBSET Unacked
  BY <1>1, HorizonType, LenProperties DEF Circuits
<1>3. c.state = "Connected" => Cardinality(c.unacked) = c.vs - a
  BY <1>1, <1>2, WindowCount DEF SendSide
<1>4. /\ n \in 0 .. Len(q) /\ n \in Nat
      /\ n > 0 => c.state = "Connected" /\ c.vs - a + n <= c.window
  BY <1>1, <1>2, <1>3 DEF Room, Least
<1>5. c.state = "Connected" =>
        /\ c.window <= MaxWindow /\ Len(q) = Len(F) - c.vs
        /\ \A i \in 1 .. Len(q) : q[i] = F[c.vs + i]
        /\ Window(c.unacked, F, a, c.vs)
  BY DEF SendSide
<1>6. c.vs + n <= a + MaxWindow /\ c.vs + n <= Len(F)
  <2>1. PICK v, w, l, z : v = c.vs /\ w = c.window /\ l = Len(q) /\ z = Len(F)
    OBVIOUS
  <2>2. /\ v \in Nat /\ w \in Nat /\ l \in Nat /\ z \in Nat /\ a \in Nat
        /\ n \in 0 .. l /\ v <= a + MaxWindow /\ v <= z /\ MaxWindow \in Nat
        /\ n > 0 => v - a + n <= w /\ w <= MaxWindow /\ l = z - v
    BY <1>1, <1>2, <1>4, <1>5, <2>1
  <2>3. v + n <= a + MaxWindow /\ v + n <= z
    BY ONLY <2>2
  <2> QED BY <2>1, <2>3
<1>7. ASSUME NEW i \in 1 .. n
      PROVE  /\ InFlight(c, i) \in Unacked /\ InFlight(c, i).pos = c.vs + i - 1
             /\ Held(InFlight(c, i), F)
  <2>1. i \in 1 .. Len(q) /\ c.state = "Connected" /\ i \in Nat
    BY <1>2, <1>4
  <2>2. q[i] \in Fragment /\ q[i] = F[c.vs + i]
    BY <1>2, <1>5, <2>1, ElementOfSeq
  <2>3. c.vs + i - 1 \in Nat /\ c.vs + i - 1 + 1 = c.vs + i
    BY <1>2, <2>1
  <2>4. InFlight(c, i) = [pos |-> c.vs + i - 1, bytes |-> q[i].bytes,
                          more |-> q[i].more, retries |-> 0]
    BY DEF InFlight
  <2>5. InFlight(c, i) \in Unacked
    BY <2>2, <2>3, <2>4 DEF Unacked, Fragment
  <2>6. InFlight(c, i).pos = c.vs + i - 1 /\ InFlight(c, i).bytes = q[i].bytes
        /\ InFlight(c, i).more = q[i].more
    BY <2>4
  <2>7. F[InFlight(c, i).pos + 1] = q[i]
    BY <2>2, <2>3, <2>6
  <2>8. Held(InFlight(c, i), F)
    BY <2>6, <2>7 DEF Held
  <2> QED BY <2>5, <2>6, <2>8
<1>8. /\ d = [c EXCEPT !.vs = c.vs + n, !.sendQueue = SubSeq(q, n + 1, Len(q)),
                       !.unacked = c.unacked \cup T]
      /\ r.out = o /\ r.ev = <<>>
  BY DEF Pump, Result
<1>9. /\ SubSeq(q, n + 1, Len(q)) \in Seq(Fragment)
      /\ Len(SubSeq(q, n + 1, Len(q))) = Len(q) - n
      /\ \A i \in 1 .. Len(q) - n : SubSeq(q, n + 1, Len(q))[i] = q[n + i]
  <2>1. \A i \in n + 1 .. Len(q) : q[i] \in Fragment
    BY <1>2, <1>4, ElementOfSeq
  <2>2. PICK lo, hi : lo = n + 1 /\ hi = Len(q)
    OBVIOUS
  <2>3. PICK s : s = q
    OBVIOUS
  <2>4. /\ SubSeq(s, lo, hi) \in Seq(Fragment)
        /\ Len(SubSeq(s, lo, hi)) = IF lo <= hi THEN hi - lo + 1 ELSE 0
        /\ \A i \in 1 .. hi - lo + 1 : SubSeq(s, lo, hi)[i] = s[lo + i - 1]
    <3>1. lo \in Int /\ hi \in Int /\ \A i \in lo .. hi : s[i] \in Fragment
      BY <1>2, <1>4, <2>1, <2>2, <2>3
    <3> QED BY <3>1, SubSeqProperties
  <2> HIDE DEF q
  <2> QED BY <1>2, <1>4, <2>2, <2>3, <2>4
<1> HIDE DEF T, q, o
<1>10. T \in SUBSET Unacked
  BY <1>7 DEF T
<1>11. d \in Circuits
  <2>1. c.vs + n \in Nat /\ c.unacked \cup T \in SUBSET Unacked
    BY <1>2, <1>4, <1>10
  <2> QED BY <1>1, <1>8, <1>9, <2>1, Zenon DEF Circuits
<1>12. /\ d.state = c.state /\ d.window = c.window /\ d.vs = c.vs + n
       /\ d.vr = c.vr /\ d.reassembly = c.reassembly
       /\ d.unacked = c.unacked \cup T
       /\ d.sendQueue = SubSeq(q, n + 1, Len(q))
  BY <1>1, <1>8 DEF Circuits
<1>13. ASSUME d.state = "Connected"
       PROVE  Window(d.unacked, F, a, d.vs)
  <2> PICK hi : hi = c.vs + n
    OBVIOUS
  <2>1. Window(c.unacked, F, a, c.vs)
    BY <1>5, <1>12, <1>13
  <2>2. \A u \in T : \E i \in 1 .. n : u = InFlight(c, i)
    BY DEF T
  <2>3. \A i \in 1 .. n : InFlight(c, i) \in T
    BY DEF T
  <2>4. ASSUME NEW u \in T PROVE u.pos \in c.vs .. hi - 1 /\ Held(u, F)
    <3>1. PICK i \in 1 .. n : u = InFlight(c, i)
      BY <2>2
    <3>2. u.pos = c.vs + i - 1 /\ Held(u, F)
      BY <1>7, <3>1
    <3>3. PICK v : v = c.vs
      OBVIOUS
    <3>4. v \in Nat /\ hi = v + n /\ n \in Nat
      BY <1>2, <1>4, <3>3
    <3> QED BY <3>2, <3>3, <3>4
  <2>5. \A u \in c.unacked : u.pos \in a .. c.vs - 1 /\ Held(u, F)
    BY <2>1 DEF Window
  <2>6. \A u \in c.unacked \cup T : u.pos \in a .. hi - 1 /\ Held(u, F)
    <3>1. PICK v : v = c.vs
      OBVIOUS
    <3>2. v \in Nat /\ a \in Nat /\ a <= v /\ n \in Nat /\ hi = v + n
      BY <1>1, <1>2, <1>4, <3>1
    <3>3. a .. v - 1 \subseteq a .. hi - 1 /\ v .. hi - 1 \subseteq a .. hi - 1
      BY <3>2
    <3> QED BY <2>4, <2>5, <3>1, <3>3, Zenon
  <2>7. \A p \in a .. hi - 1 : \E u \in c.unacked \cup T : u.pos = p
    <3>1. ASSUME NEW p \in a .. hi - 1 PROVE \E u \in c.unacked \cup T : u.pos = p
      <4>1. CASE p < c.vs
        <5>1. p \in a .. c.vs - 1
          BY <1>1, <1>2, <4>1
        <5>2. \E u \in c.unacked : u.pos = p
          BY <2>1, <5>1, Zenon DEF Window
        <5> QED BY <5>2
      <4>2. CASE ~ (p < c.vs)
        <5>1. p - c.vs + 1 \in 1 .. n /\ c.vs + (p - c.vs + 1) - 1 = p
          <6>1. PICK v : v = c.vs
            OBVIOUS
          <6>2. p \in Int /\ v \in Nat /\ v <= p /\ p <= v + n - 1 /\ n \in Nat
            BY <1>1, <1>2, <1>4, <4>2, <6>1
          <6>3. p - v + 1 \in 1 .. n /\ v + (p - v + 1) - 1 = p
            BY <6>2
          <6> QED BY <6>1, <6>3
        <5>2. PICK i \in 1 .. n : c.vs + i - 1 = p
          BY <5>1
        <5> QED BY <1>7, <2>3, <5>2
      <4> QED BY <4>1, <4>2
    <3> QED BY <3>1
  <2>8. ASSUME NEW u \in c.unacked \cup T, NEW v \in c.unacked \cup T, u.pos = v.pos
        PROVE  u = v
    <3>1. CASE u \in c.unacked /\ v \in c.unacked
      BY <2>1, <2>8, <3>1 DEF Window
    <3>2. CASE u \in T /\ v \in T
      <4>1. PICK i \in 1 .. n : u = InFlight(c, i)
        BY <2>2, <3>2
      <4>2. PICK j \in 1 .. n : v = InFlight(c, j)
        BY <2>2, <3>2
      <4>3. c.vs + i - 1 = c.vs + j - 1
        BY <1>7, <2>8, <4>1, <4>2
      <4>4. i = j
        BY <1>2, <1>4, <4>3
      <4> QED BY <4>1, <4>2, <4>4
    <3>3. CASE u \in c.unacked /\ v \in T
      BY <1>2, <2>4, <2>5, <2>8, <3>3
    <3>4. CASE u \in T /\ v \in c.unacked
      BY <1>2, <2>4, <2>5, <2>8, <3>4
    <3> QED BY <3>1, <3>2, <3>3, <3>4
  <2>9. Window(c.unacked \cup T, F, a, hi)
    BY <1>2, <1>10, <2>6, <2>7, <2>8 DEF Window
  <2> QED BY <1>12, <2>9
<1>14. d.state = "Connected" =>
         /\ d.window <= MaxWindow /\ Len(d.sendQueue) = Len(F) - d.vs
         /\ \A i \in 1 .. Len(d.sendQueue) : d.sendQueue[i] = F[d.vs + i]
  <2> SUFFICES ASSUME c.state = "Connected"
               PROVE  /\ c.window <= MaxWindow
                      /\ Len(d.sendQueue) = Len(F) - (c.vs + n)
                      /\ \A i \in 1 .. Len(d.sendQueue) :
                           d.sendQueue[i] = F[c.vs + n + i]
    BY <1>12
  <2>1. Len(d.sendQueue) = Len(q) - n
    BY <1>9, <1>12
  <2>2. \A i \in 1 .. Len(q) - n : d.sendQueue[i] = q[n + i]
    BY <1>9, <1>12
  <2>3. \A i \in 1 .. Len(q) : q[i] = F[c.vs + i]
    BY <1>5
  <2>4. \A i \in 1 .. Len(q) - n : n + i \in 1 .. Len(q) /\ c.vs + (n + i) = c.vs + n + i
    BY <1>2, <1>4
  <2>5. \A i \in 1 .. Len(q) - n : d.sendQueue[i] = F[c.vs + n + i]
    BY <2>2, <2>3, <2>4
  <2> QED BY <1>2, <1>4, <1>5, <2>1, <2>5
<1>15. SendSide(d, F, a)
  <2>1. a <= d.vs /\ d.vs <= Len(F) /\ d.vs <= a + MaxWindow
    BY <1>1, <1>2, <1>4, <1>6, <1>12
  <2> QED BY <1>1, <1>11, <1>13, <1>14, <2>1, Zenon DEF SendSide
<1>16. Emits(r.out, F, a, d.vs, d.vr)
  <2> PICK s : s = r.out
    OBVIOUS
  <2>1. \A i \in 1 .. n :
           /\ Information(c, InFlight(c, i)) \in Datagrams
           /\ Carries(Information(c, InFlight(c, i)), F, c.vs + i - 1)
           /\ Information(c, InFlight(c, i)).rx = Wire(c.vr)
    <3>1. ASSUME NEW i \in 1 .. n
          PROVE  /\ Information(c, InFlight(c, i)) \in Datagrams
                 /\ Carries(Information(c, InFlight(c, i)), F, c.vs + i - 1)
                 /\ Information(c, InFlight(c, i)).rx = Wire(c.vr)
      <4> PICK u : u = InFlight(c, i)
        OBVIOUS
      <4>1. u \in Unacked /\ Held(u, F) /\ u.pos = c.vs + i - 1
        BY <1>7
      <4> QED BY <1>1, <4>1, InformationEmitted
    <3> QED BY <3>1
  <2>2. s \in [1 .. n -> Datagrams]
        /\ \A i \in 1 .. n : s[i] = Information(c, InFlight(c, i))
    BY <1>8, <2>1 DEF o
  <2>3. s \in Seq(Datagrams) /\ Len(s) = n
    BY <1>4, <2>2
  <2>4. \A i \in 1 .. n : c.vs + i - 1 \in a .. d.vs - 1
    <3>1. PICK v : v = c.vs
      OBVIOUS
    <3>2. v \in Nat /\ a \in Nat /\ a <= v /\ n \in Nat /\ d.vs = v + n
      BY <1>1, <1>2, <1>4, <1>12, <3>1
    <3> QED BY <3>1, <3>2
  <2> QED BY <1>12, <2>1, <2>2, <2>3, <2>4 DEF Emits
<1>17. c.vs <= d.vs
  BY <1>2, <1>4, <1>12
<1>18. r.ev \in Seq(Events) /\ Silent(r.ev)
  BY <1>8, SilentNothing DEF Silent
<1> QED BY <1>8, <1>12, <1>15, <1>16, <1>17, <1>18 DEF Step, Still

\* The sender takes in an acknowledgement of all before position x.
LEMMA AbsorbSide ==
  ASSUME NEW c, NEW F, NEW a, SendSide(c, F, a), c.state = "Connected",
         NEW x \in a .. c.vs, NEW d, d = AbsorbAck(c, Wire(x))
  PROVE  /\ SendSide(d, F, x) /\ d.state = "Connected" /\ d.vs = c.vs
         /\ d.vr = c.vr /\ d.reassembly = c.reassembly
<1>1. /\ c \in Circuits /\ F \in Seq(Fragment) /\ a \in Nat /\ a <= c.vs
      /\ c.vs <= Len(F) /\ c.vs <= a + MaxWindow /\ c.vs \in Nat
      /\ MaxWindow \in Nat
  BY HorizonType DEF SendSide, Circuits
<1>2. x \in Nat /\ a <= x /\ x <= c.vs
  BY <1>1
<1>3. Wire(x) \in Nat
  BY <1>2, WireIs, HorizonType
<1>4. PICK w : w = Wire(x)
  OBVIOUS
<1> PICK S : S = {u \in c.unacked : ~SeqAcked(Wire(u.pos), w)}
  OBVIOUS
<1>5. d = [c EXCEPT !.va = w, !.unacked = S]
  BY <1>4 DEF AbsorbAck
<1>6. d \in Circuits
  <2>1. S \in SUBSET Unacked /\ w \in Nat
    BY <1>1, <1>3, <1>4 DEF Circuits
  <2> QED BY <1>1, <1>5, <2>1, Zenon DEF Circuits
<1>7. /\ d.state = c.state /\ d.vs = c.vs /\ d.vr = c.vr /\ d.unacked = S
      /\ d.reassembly = c.reassembly /\ d.window = c.window
      /\ d.sendQueue = c.sendQueue
  BY <1>1, <1>5 DEF Circuits
<1>8. Window(c.unacked, F, a, c.vs)
  BY DEF SendSide
<1>9. \A u \in c.unacked : /\ u \in Unacked /\ u.pos \in a .. c.vs - 1 /\ Held(u, F)
                           /\ u \in S <=> x <= u.pos
  <2>1. ASSUME NEW u \in c.unacked
        PROVE  /\ u \in Unacked /\ u.pos \in a .. c.vs - 1 /\ Held(u, F)
               /\ u \in S <=> x <= u.pos
    <3>1. u \in Unacked /\ u.pos \in a .. c.vs - 1 /\ Held(u, F)
      BY <1>8 DEF Window
    <3>2. PICK p : p = u.pos
      OBVIOUS
    <3>3. p \in Nat /\ p <= x + MaxWindow /\ x <= p + MaxWindow
      BY <1>1, <1>2, <3>1, <3>2
    <3>4. SeqAcked(Wire(p), Wire(x)) <=> p < x
      BY <1>2, <3>3, CoversWhatIsBefore
    <3>5. u \in S <=> ~ SeqAcked(Wire(p), Wire(x))
      BY <1>4, <3>2
    <3> QED BY <1>2, <3>1, <3>2, <3>3, <3>4, <3>5
  <2> QED BY <2>1
<1>10. Window(S, F, x, c.vs)
  <2>1. \A u \in S : u \in c.unacked
    OBVIOUS
  <2>2. \A u \in S : u.pos \in x .. c.vs - 1 /\ Held(u, F)
    BY <1>1, <1>2, <1>9, <2>1
  <2>3. \A q \in x .. c.vs - 1 : \E u \in S : u.pos = q
    <3>1. ASSUME NEW q \in x .. c.vs - 1 PROVE \E u \in S : u.pos = q
      <4>1. q \in a .. c.vs - 1 /\ x <= q
        BY <1>1, <1>2
      <4>2. \E u \in c.unacked : u.pos = q
        BY <1>8, <4>1, Zenon DEF Window
      <4> QED BY <1>9, <4>1, <4>2
    <3> QED BY <3>1
  <2>4. \A u, v \in S : u.pos = v.pos => u = v
    BY <1>8, <2>1 DEF Window
  <2>5. S \in SUBSET Unacked
    BY <1>9, <2>1
  <2> QED BY <2>2, <2>3, <2>4, <2>5, Zenon DEF Window
<1>11. c.vs <= x + MaxWindow
  BY <1>1, <1>2
<1>12. /\ d.window <= MaxWindow /\ Len(d.sendQueue) = Len(F) - d.vs
       /\ \A i \in 1 .. Len(d.sendQueue) : d.sendQueue[i] = F[d.vs + i]
  BY <1>7 DEF SendSide
<1>13. SendSide(d, F, x)
  BY <1>1, <1>2, <1>6, <1>7, <1>10, <1>11, <1>12, Zenon DEF SendSide
<1> QED BY <1>7, <1>13

LEMMA ChokeSide ==
  ASSUME NEW c, NEW F, NEW a, SendSide(c, F, a), NEW choke \in BOOLEAN,
         NEW d, d = ApplyPeerChoke(c, choke)
  PROVE  /\ SendSide(d, F, a) /\ d.state = c.state /\ d.vs = c.vs
         /\ d.vr = c.vr /\ d.reassembly = c.reassembly
<1>1. c \in Circuits
  BY DEF SendSide
<1>2. d = [c EXCEPT !.peerChoked = choke]
  BY DEF ApplyPeerChoke
<1>3. d \in Circuits
  BY <1>1, <1>2, Zenon DEF Circuits
<1>4. /\ d.state = c.state /\ d.vs = c.vs /\ d.vr = c.vr /\ d.unacked = c.unacked
      /\ d.reassembly = c.reassembly /\ d.window = c.window
      /\ d.sendQueue = c.sendQueue
  BY <1>1, <1>2 DEF Circuits
<1> QED BY <1>3, <1>4, SameSide

\* Everything in flight is sent again.
LEMMA RetriedStep ==
  ASSUME NEW c, NEW F, NEW a, SendSide(c, F, a), c.state = "Connected",
         NEW r, r = Result([c EXCEPT !.unacked = Retried(@)], Resend(c, c.unacked), <<>>)
  PROVE  Step(c, r, F, a) /\ Still(c, r)
<1>1. /\ c \in Circuits /\ a \in Nat /\ c.vs \in Nat /\ a <= c.vs
      /\ Window(c.unacked, F, a, c.vs)
  BY DEF SendSide, Circuits
<1>2. PICK d : d = r.c
  OBVIOUS
<1>3. PICK S : S = Retried(c.unacked)
  OBVIOUS
<1>4. d = [c EXCEPT !.unacked = S] /\ r.out = Resend(c, c.unacked) /\ r.ev = <<>>
  BY <1>2, <1>3 DEF Result
<1>5. Window(S, F, a, c.vs)
  BY <1>1, <1>3, WindowRetried
<1>6. d \in Circuits
  <2>1. S \in SUBSET Unacked
    BY <1>5 DEF Window
  <2> QED BY <1>1, <1>4, <2>1, Zenon DEF Circuits
<1>7. /\ d.state = c.state /\ d.vs = c.vs /\ d.vr = c.vr /\ d.unacked = S
      /\ d.reassembly = c.reassembly /\ d.window = c.window
      /\ d.sendQueue = c.sendQueue
  BY <1>1, <1>4 DEF Circuits
<1>8. SendSide(d, F, a)
  BY <1>5, <1>6, <1>7, Zenon DEF SendSide
<1>9. Emits(r.out, F, a, d.vs, d.vr)
  <2> PICK T : T = c.unacked
    OBVIOUS
  <2> PICK hi : hi = c.vs
    OBVIOUS
  <2>1. Emits(Resend(c, T), F, a, hi, c.vr)
    BY <1>1, WindowResent
  <2> QED BY <1>4, <1>7, <2>1
<1>10. Silent(r.ev)
  BY <1>4, SilentNothing
<1> QED BY <1>1, <1>2, <1>7, <1>8, <1>9, <1>10 DEF Step, Still, Silent

\* A negative acknowledgement, absorbed first, asks for all that is left.
LEMMA RetransmitStep ==
  ASSUME NEW c, NEW F, NEW x, SendSide(c, F, x), c.state = "Connected",
         NEW r, r = RetransmitFrom(c, Wire(x))
  PROVE  Step(c, r, F, x) /\ Still(c, r)
<1>1. /\ c \in Circuits /\ x \in Nat /\ c.vs \in Nat /\ x <= c.vs
      /\ c.vs <= x + MaxWindow /\ MaxWindow \in Nat
      /\ Window(c.unacked, F, x, c.vs)
  BY HorizonType DEF SendSide, Circuits
<1>2. PICK seq : seq = Wire(x)
  OBVIOUS
<1> DEFINE range == {u \in c.unacked : \/ Wire(u.pos) = seq
                                       \/ Mod256After(Wire(u.pos), seq)}
<1>3. range = c.unacked
  <2>1. ASSUME NEW u \in c.unacked
        PROVE  Wire(u.pos) = seq \/ Mod256After(Wire(u.pos), seq)
    <3>1. u.pos \in x .. c.vs - 1
      BY <1>1 DEF Window
    <3>2. PICK p : p = u.pos
      OBVIOUS
    <3>3. p \in Nat /\ x <= p /\ p <= x + MaxWindow /\ x <= p + MaxWindow
      BY <1>1, <3>1, <3>2
    <3>4. Mod256After(Wire(p), Wire(x)) <=> x < p
      BY <1>1, <3>3, CoversWhatIsBefore
    <3> QED BY <1>1, <1>2, <3>2, <3>3, <3>4
  <2> QED BY <2>1
<1>4. CASE \E u \in range : u.retries >= MaxRetries
  <2>1. r = Close(c, "Timeout")
    BY <1>2, <1>4 DEF RetransmitFrom
  <2> QED BY <2>1, CloseStep DEF Reasons
<1>5. CASE ~ \E u \in range : u.retries >= MaxRetries
  <2>1. r = Result([c EXCEPT !.unacked = (@ \ range) \cup Retried(range)],
                   Resend(c, range), <<>>)
    BY <1>2, <1>5, Zenon DEF RetransmitFrom
  <2>2. (c.unacked \ range) \cup Retried(range) = Retried(c.unacked)
    BY <1>3 DEF Retried
  <2> HIDE DEF range
  <2>3. r = Result([c EXCEPT !.unacked = Retried(@)], Resend(c, c.unacked), <<>>)
    BY <1>3, <2>1, <2>2
  <2> QED BY <2>3, RetriedStep
<1> QED BY <1>4, <1>5

\* A circuit that goes on as it is but for its timers and its receiving side's
\* flow control.
LEMMA SideStep ==
  ASSUME NEW c, NEW F, NEW a, SendSide(c, F, a), NEW r, r.c \in Circuits,
         r.c.vs = c.vs, r.c.vr = c.vr, r.c.unacked = c.unacked,
         r.c.sendQueue = c.sendQueue, r.c.window = c.window,
         r.c.reassembly = c.reassembly,
         r.c.state = "Connected" => c.state = "Connected",
         r.ev = <<>>, Emits(r.out, F, a, c.vs, c.vr)
  PROVE  Step(c, r, F, a) /\ Still(c, r)
<1>1. PICK d : d = r.c
  OBVIOUS
<1>2. SendSide(d, F, a)
  BY <1>1, SameSide
<1>3. c.vs \in Nat
  BY DEF SendSide, Circuits
<1>4. Silent(r.ev)
  BY SilentNothing
<1> QED BY <1>1, <1>2, <1>3, <1>4 DEF Step, Still, Silent

-----------------------------------------------------------------------------
(***************************************************************************)
(* The calls an end's node makes.                                          *)
(***************************************************************************)
LEMMA TickStep ==
  ASSUME NEW c, NEW F, NEW a, SendSide(c, F, a), NEW r, r = Tick(c, TRUE, TRUE)
  PROVE  Step(c, r, F, a) /\ Still(c, r)
<1>1. c \in Circuits
  BY DEF SendSide
<1>2. PICK k : k = IF c.controlArmed THEN TickControl(c) ELSE Quiet(c)
  OBVIOUS
<1>3. Step(c, k, F, a) /\ Still(c, k)
  <2>1. CASE c.controlArmed
    <3>1. k = TickControl(c)
      BY <1>2, <2>1
    <3>2. /\ k.c = [c EXCEPT !.controlRetries = @ + 1] /\ k.ev = <<>>
          /\ k.out = CASE c.state = "Connecting" -> <<ConnectRequest(c)>>
                       [] c.state = "Disconnecting" -> <<DisconnectRequest(c)>>
                       [] OTHER -> <<>>
      BY <3>1 DEF TickControl, Result
    <3>3. /\ k.c \in Circuits /\ k.c.state = c.state /\ k.c.vs = c.vs
          /\ k.c.vr = c.vr /\ k.c.unacked = c.unacked
          /\ k.c.sendQueue = c.sendQueue /\ k.c.window = c.window
          /\ k.c.reassembly = c.reassembly
      <4>1. PICK d : d = k.c
        OBVIOUS
      <4>2. d = [c EXCEPT !.controlRetries = c.controlRetries + 1]
        BY <3>2, <4>1
      <4>3. /\ d \in Circuits /\ d.state = c.state /\ d.vs = c.vs
            /\ d.vr = c.vr /\ d.unacked = c.unacked
            /\ d.sendQueue = c.sendQueue /\ d.window = c.window
            /\ d.reassembly = c.reassembly
        <5>1. PICK n \in Nat : n = c.controlRetries + 1
          BY <1>1 DEF Circuits
        <5>2. d = [c EXCEPT !.controlRetries = n]
          BY <4>2, <5>1
        <5>3. d \in Circuits
          BY <1>1, <5>2, Zenon DEF Circuits
        <5> QED BY <1>1, <5>2, <5>3 DEF Circuits
      <4> QED BY <4>1, <4>3
    <3>4. Emits(k.out, F, a, c.vs, c.vr)
      <4>1. CASE c.state = "Disconnecting"
        <5>1. k.out = <<[op |-> "DisconnectRequest", key |-> c.remote]>>
          BY <3>2, <4>1 DEF DisconnectRequest
        <5>2. PICK key \in Nat : key = c.remote
          BY <1>1 DEF Circuits
        <5> QED BY <5>1, <5>2, DisconnectEmitted
      <4>2. CASE c.state # "Disconnecting"
        <5>1. c.state # "Connecting"
          BY <1>1 DEF Circuits
        <5>2. k.out = <<>>
          BY <3>2, <4>2, <5>1
        <5> QED BY <5>2, EmitsNothing
      <4> QED BY <4>1, <4>2
    <3> QED BY <3>2, <3>3, <3>4, SideStep
  <2>2. CASE ~ c.controlArmed
    BY <1>2, <2>2, QuietStep
  <2> QED BY <2>1, <2>2
<1>4. CASE c.controlArmed /\ c.controlRetries >= MaxRetries
  <2>1. r = Close(c, "Timeout")
    BY <1>4 DEF Tick
  <2> QED BY <2>1, CloseStep DEF Reasons
<1>5. CASE ~ (c.controlArmed /\ c.controlRetries >= MaxRetries)
  <2>1. r = IF k.c.state = "Connected" /\ k.c.unacked # {}
            THEN Then(k, TickInformation(k.c)) ELSE k
    BY <1>2, <1>5 DEF Tick
  <2>2. CASE k.c.state = "Connected" /\ k.c.unacked # {}
    <3>1. PICK d, s : d = k.c /\ s = TickInformation(d)
      OBVIOUS
    <3>2. SendSide(d, F, a)
      BY <1>3, <3>1 DEF Step
    <3>3. Step(d, s, F, a) /\ Still(d, s)
      <4>1. CASE Oldest(d.unacked).retries >= MaxRetries
        <5>1. s = Close(d, "Timeout")
          BY <3>1, <4>1 DEF TickInformation
        <5> QED BY <3>2, <5>1, CloseStep DEF Reasons
      <4>2. CASE ~ (Oldest(d.unacked).retries >= MaxRetries)
        <5>1. s = Result([d EXCEPT !.unacked = Retried(@)], Resend(d, d.unacked), <<>>)
          BY <3>1, <4>2, Zenon DEF TickInformation
        <5> QED BY <2>2, <3>1, <3>2, <5>1, RetriedStep
      <4> QED BY <4>1, <4>2
    <3>4. r = Then(k, s)
      BY <2>1, <2>2, <3>1
    <3> QED BY <1>1, <1>3, <3>1, <3>3, <3>4, ThenStep
  <2>3. CASE ~ (k.c.state = "Connected" /\ k.c.unacked # {})
    BY <1>3, <2>1, <2>3
  <2> QED BY <2>2, <2>3
<1> QED BY <1>4, <1>5

LEMMA DrainedStep ==
  ASSUME NEW c, NEW F, NEW a, SendSide(c, F, a), NEW r, r = OnDeliveryDrained(c)
  PROVE  Step(c, r, F, a) /\ Still(c, r)
<1>1. c \in Circuits
  BY DEF SendSide
<1> DEFINE less == IF c.pending > 0 THEN c.pending - 1 ELSE c.pending
           drained == [c EXCEPT !.pending = less]
           released == [drained EXCEPT !.localChoked = FALSE]
<1>2. less \in Nat
  BY <1>1 DEF Circuits
<1> HIDE DEF less
<1>3. /\ drained \in Circuits /\ drained.state = c.state /\ drained.vs = c.vs
      /\ drained.vr = c.vr /\ drained.unacked = c.unacked
      /\ drained.sendQueue = c.sendQueue /\ drained.window = c.window
      /\ drained.reassembly = c.reassembly
  BY <1>1, <1>2 DEF Circuits
<1>4. drained = [c EXCEPT !.pending = IF @ > 0 THEN @ - 1 ELSE @]
  BY DEF less
<1>5. r = IF drained.localChoked /\ drained.pending < ChokeThreshold
          THEN Result(released,
                      IF c.state = "Connected"
                      THEN <<InformationAcknowledge(released, FALSE)>>
                      ELSE <<>>, <<>>)
          ELSE Quiet(drained)
  BY <1>4, Zenon DEF OnDeliveryDrained
<1> HIDE DEF drained
<1>6. /\ released \in Circuits /\ released.state = c.state /\ released.vs = c.vs
      /\ released.vr = c.vr /\ released.unacked = c.unacked
      /\ released.sendQueue = c.sendQueue /\ released.window = c.window
      /\ released.reassembly = c.reassembly
  BY <1>3 DEF Circuits
<1> HIDE DEF released
<1>7. CASE drained.localChoked /\ drained.pending < ChokeThreshold
  <2>1. /\ r.c = released /\ r.ev = <<>>
        /\ r.out = IF c.state = "Connected"
                   THEN <<InformationAcknowledge(released, FALSE)>> ELSE <<>>
    BY <1>5, <1>7 DEF Result
  <2>2. Emits(r.out, F, a, c.vs, c.vr)
    <3>1. CASE c.state = "Connected"
      <4>1. PICK d : d = released
        OBVIOUS
      <4>2. PICK hi : hi = c.vs
        OBVIOUS
      <4>3. Emits(<<InformationAcknowledge(d, FALSE)>>, F, a, hi, d.vr)
        BY <1>6, <4>1, AcknowledgementEmitted
      <4> QED BY <1>6, <2>1, <3>1, <4>1, <4>2, <4>3
    <3>2. CASE c.state # "Connected"
      BY <2>1, <3>2, EmitsNothing
    <3> QED BY <3>1, <3>2
  <2> QED BY <1>6, <2>1, <2>2, SideStep
<1>8. CASE ~ (drained.localChoked /\ drained.pending < ChokeThreshold)
  <2>1. r.c = drained /\ r.ev = <<>> /\ r.out = <<>>
    BY <1>5, <1>8 DEF Quiet, Result
  <2>2. Emits(r.out, F, a, c.vs, c.vr)
    BY <2>1, EmitsNothing
  <2> QED BY <1>3, <2>1, <2>2, SideStep
<1> QED BY <1>7, <1>8

LEMMA DisconnectStep ==
  ASSUME NEW c, NEW F, NEW a, SendSide(c, F, a), NEW r, r = Disconnect(c)
  PROVE  Step(c, r, F, a) /\ Still(c, r) /\ r.c.state # "Connected"
<1>1. c \in Circuits
  BY DEF SendSide
<1>2. CASE c.state \in {"Disconnected", "Disconnecting"}
  <2>1. r = Quiet(c)
    BY <1>2 DEF Disconnect
  <2>2. r.c = c
    BY <2>1 DEF Quiet, Result
  <2> QED BY <1>2, <2>1, <2>2, QuietStep
<1>3. CASE c.state = "Connected"
  <2>1. /\ r.c = [c EXCEPT !.state = "Disconnecting", !.controlRetries = 0,
                           !.controlArmed = TRUE]
        /\ r.out = <<[op |-> "DisconnectRequest", key |-> c.remote]>>
        /\ r.ev = <<>>
    BY <1>3 DEF Disconnect, Result, DisconnectRequest
  <2>2. /\ r.c \in Circuits /\ r.c.state = "Disconnecting" /\ r.c.vs = c.vs
        /\ r.c.vr = c.vr /\ r.c.unacked = c.unacked
        /\ r.c.sendQueue = c.sendQueue /\ r.c.window = c.window
        /\ r.c.reassembly = c.reassembly
    <3>1. PICK d : d = r.c
      OBVIOUS
    <3>2. d = [c EXCEPT !.state = "Disconnecting", !.controlRetries = 0,
                        !.controlArmed = TRUE]
      BY <2>1, <3>1
    <3>3. /\ d \in Circuits /\ d.state = "Disconnecting" /\ d.vs = c.vs
          /\ d.vr = c.vr /\ d.unacked = c.unacked
          /\ d.sendQueue = c.sendQueue /\ d.window = c.window
          /\ d.reassembly = c.reassembly
      BY <1>1, <3>2 DEF Circuits
    <3> QED BY <3>1, <3>3
  <2>3. Emits(r.out, F, a, c.vs, c.vr)
    <3>1. PICK key, op, hi, vr : /\ key = c.remote /\ op = "DisconnectRequest"
                                 /\ hi = c.vs /\ vr = c.vr
      OBVIOUS
    <3>2. key \in Nat
      BY <1>1, <3>1 DEF Circuits
    <3>3. Emits(<<[op |-> op, key |-> key]>>, F, a, hi, vr)
      BY <3>1, <3>2, DisconnectEmitted
    <3> QED BY <2>1, <3>1, <3>3
  <2>4. Step(c, r, F, a) /\ Still(c, r)
    BY <1>3, <2>1, <2>2, <2>3, SideStep
  <2> QED BY <2>2, <2>4
<1> QED BY <1>1, <1>2, <1>3 DEF Circuits

\* The application writes: its fragments are put after those queued before.
LEMMA SendStep ==
  ASSUME NEW c, NEW F, NEW a, SendSide(c, F, a), c.state = "Connected",
         NEW data, data # <<>>, NEW G \in Seq(Fragment), G = Fragments(data),
         NEW r, r = Send(c, data)
  PROVE  /\ Step(c, r, F \o G, a) /\ Still(c, r)
         /\ r.c.state = "Connected" /\ r.ev = <<>>
<1>1. /\ c \in Circuits /\ F \in Seq(Fragment) /\ a \in Nat /\ c.vs \in Nat
      /\ a <= c.vs /\ c.vs <= Len(F) /\ c.vs <= a + MaxWindow
      /\ c.window <= MaxWindow /\ Window(c.unacked, F, a, c.vs)
      /\ Len(c.sendQueue) = Len(F) - c.vs
      /\ \A i \in 1 .. Len(c.sendQueue) : c.sendQueue[i] = F[c.vs + i]
      /\ c.sendQueue \in Seq(Fragment)
  BY DEF SendSide, Circuits
<1>2. PICK H, q, s : H = F \o G /\ q = c.sendQueue /\ s = q \o G
  OBVIOUS
<1>3. /\ H \in Seq(Fragment) /\ Len(H) = Len(F) + Len(G)
      /\ Len(F) \in Nat /\ Len(G) \in Nat
      /\ \A i \in 1 .. Len(F) + Len(G) :
            H[i] = IF i <= Len(F) THEN F[i] ELSE G[i - Len(F)]
  BY <1>1, <1>2, ConcatProperties, LenProperties
<1>4. /\ s \in Seq(Fragment) /\ Len(s) = Len(q) + Len(G) /\ Len(q) \in Nat
      /\ \A i \in 1 .. Len(q) + Len(G) :
            s[i] = IF i <= Len(q) THEN q[i] ELSE G[i - Len(q)]
  BY <1>1, <1>2, ConcatProperties, LenProperties
<1>5. PICK d : d = [c EXCEPT !.sendQueue = s]
  OBVIOUS
<1>6. d \in Circuits
  BY <1>1, <1>4, <1>5, Zenon DEF Circuits
<1>7. /\ d.state = c.state /\ d.vs = c.vs /\ d.vr = c.vr /\ d.unacked = c.unacked
      /\ d.reassembly = c.reassembly /\ d.window = c.window /\ d.sendQueue = s
  BY <1>1, <1>5 DEF Circuits
<1>8. Len(s) = Len(H) - c.vs /\ \A i \in 1 .. Len(s) : s[i] = H[c.vs + i]
  <2>1. PICK v : v = c.vs
    OBVIOUS
  <2>2. /\ v \in Nat /\ v <= Len(F) /\ Len(q) = Len(F) - v
        /\ \A i \in 1 .. Len(q) : q[i] = F[v + i]
    BY <1>1, <1>2, <2>1
  <2>3. ASSUME NEW i \in 1 .. Len(s) PROVE s[i] = H[v + i]
    <3>1. v + i \in 1 .. Len(F) + Len(G)
      BY <1>3, <1>4, <2>2
    <3>2. CASE i <= Len(q)
      <4>1. i \in 1 .. Len(q) /\ v + i <= Len(F)
        BY <1>3, <1>4, <2>2, <3>2
      <4>2. s[i] = q[i] /\ H[v + i] = F[v + i]
        BY <1>3, <1>4, <3>1, <3>2, <4>1
      <4> QED BY <2>2, <4>1, <4>2
    <3>3. CASE ~ (i <= Len(q))
      <4>1. ~ (v + i <= Len(F)) /\ (v + i) - Len(F) = i - Len(q)
        BY <1>3, <1>4, <2>2, <3>3
      <4>2. s[i] = G[i - Len(q)] /\ H[v + i] = G[(v + i) - Len(F)]
        BY <1>3, <1>4, <3>1, <3>3, <4>1
      <4> QED BY <4>1, <4>2
    <3> QED BY <3>2, <3>3
  <2> QED BY <1>3, <1>4, <2>1, <2>2, <2>3
<1>9. Window(c.unacked, H, a, c.vs)
  <2>1. \A u \in c.unacked : u.pos \in a .. c.vs - 1 /\ Held(u, F)
    BY <1>1 DEF Window
  <2>2. \A u \in c.unacked : H[u.pos + 1] = F[u.pos + 1]
    <3>1. SUFFICES ASSUME NEW u \in c.unacked PROVE H[u.pos + 1] = F[u.pos + 1]
      OBVIOUS
    <3>2. PICK i : i = u.pos + 1
      OBVIOUS
    <3>3. c.vs \in Nat /\ c.vs <= Len(F) /\ a \in Nat
      BY <1>1 DEF SendSide, Circuits
    <3>4. u.pos \in a .. c.vs - 1
      BY <2>1
    <3>5. i \in 1 .. Len(F) + Len(G) /\ i <= Len(F)
      BY <1>3, <3>2, <3>3, <3>4
    <3> QED BY <1>3, <3>2, <3>5
  <2>3. \A u \in c.unacked : Held(u, H)
    BY <2>1, <2>2 DEF Held
  <2> QED BY <1>1, <2>3, Zenon DEF Window
<1>10. SendSide(d, H, a)
  <2>1. c.vs <= Len(H)
    BY <1>1, <1>3
  <2> QED BY <1>1, <1>3, <1>6, <1>7, <1>8, <1>9, <2>1, Zenon DEF SendSide
<1>11. r = Pump(d)
  <2>1. r = Pump([c EXCEPT !.sendQueue = c.sendQueue \o Fragments(data)])
    BY DEF Send
  <2> QED BY <1>2, <1>5, <2>1
<1>12. /\ Step(d, r, H, a) /\ Still(d, r) /\ r.c.state = d.state /\ r.ev = <<>>
  BY <1>10, <1>11, PumpStep
<1> QED BY <1>2, <1>7, <1>12 DEF Step, Still

-----------------------------------------------------------------------------
(***************************************************************************)
(* The datagram handlers.                                                  *)
(***************************************************************************)
\* The circuit takes in the fragment that datagram m carries.
Taken(c, r, m) ==
  LET whole == c.reassembly \o m.bytes
  IN  /\ r.c.vr = c.vr + 1
      /\ r.c.state = "Connected" =>
           /\ m.more => r.c.reassembly = whole /\ Silent(r.ev)
           /\ ~m.more /\ whole # <<>>
                => r.c.reassembly = <<>> /\ Handed(r.ev) = <<whole>>
      /\ r.c.state # "Connected" => Silent(r.ev)

LEMMA InformationFields ==
  ASSUME NEW m \in Datagrams, m.op = "Information"
  PROVE  /\ m.bytes \in Seq(Unit) /\ m.more \in BOOLEAN /\ m.choke \in BOOLEAN
         /\ m.tx \in Nat /\ m.rx \in Nat
  BY DEF Datagrams

LEMMA AcknowledgementFields ==
  ASSUME NEW m \in Datagrams, m.op = "InformationAcknowledge"
  PROVE  m.nak \in BOOLEAN /\ m.choke \in BOOLEAN /\ m.rx \in Nat
  BY DEF Datagrams

\* The circuit d that has taken a fragment in acknowledges it and pumps.
Accepted(d, ev) ==
  Then(Result(d, <<InformationAcknowledge(d, FALSE)>>, ev), Pump(d))

LEMMA AcceptedStep ==
  ASSUME NEW c, NEW F, NEW a, SendSide(c, F, a), NEW d \in Circuits,
         d.vs = c.vs, d.vr = c.vr + 1, d.unacked = c.unacked,
         d.sendQueue = c.sendQueue, d.window = c.window, d.state = c.state,
         NEW ev \in Seq(Events), NEW r, r = Accepted(d, ev)
  PROVE  /\ Step(c, r, F, a) /\ r.c.vr = d.vr /\ r.c.state = d.state
         /\ d.state = "Connected" => r.c.reassembly = d.reassembly
         /\ r.ev = ev
<1>1. PICK k, s : /\ k = Result(d, <<InformationAcknowledge(d, FALSE)>>, ev)
                  /\ s = Pump(d)
  OBVIOUS
<1>2. SendSide(d, F, a)
  BY SameSide
<1>3. c \in Circuits /\ c.vs \in Nat
  BY DEF SendSide, Circuits
<1>4. k.c = d /\ k.out = <<InformationAcknowledge(d, FALSE)>> /\ k.ev = ev
  BY <1>1 DEF Result
<1>5. Emits(k.out, F, a, d.vs, d.vr)
  <2>1. PICK hi : hi = d.vs
    OBVIOUS
  <2>2. Emits(<<InformationAcknowledge(d, FALSE)>>, F, a, hi, d.vr)
    BY AcknowledgementEmitted
  <2> QED BY <1>4, <2>1, <2>2
<1>6. Step(c, k, F, a)
  BY <1>2, <1>3, <1>4, <1>5 DEF Step
<1>7. Step(d, s, F, a) /\ Still(d, s) /\ s.c.state = d.state /\ s.ev = <<>>
  BY <1>1, <1>2, PumpStep
<1>8. Step(k.c, s, F, a) /\ Still(k.c, s)
  BY <1>4, <1>7
<1>9. Step(c, Then(k, s), F, a)
  BY <1>3, <1>6, <1>8, ThenStep
<1>10. r = Then(k, s) /\ r.c = s.c /\ r.ev = k.ev \o s.ev
  BY <1>1 DEF Accepted, Then, Result
<1>11. r.ev = ev
  BY <1>4, <1>7, <1>10, ConcatEmptySeq
<1> QED BY <1>7, <1>9, <1>10, <1>11 DEF Still

LEMMA TakeStep ==
  ASSUME NEW c, NEW F, NEW a, SendSide(c, F, a), c.state = "Connected",
         NEW m \in Datagrams, m.op = "Information",
         NEW r, r = TakeInSequence(c, m)
  PROVE  Step(c, r, F, a) /\ Taken(c, r, m)
<1>1. c \in Circuits /\ c.vr \in Nat /\ c.vr + 1 \in Nat /\ c.reassembly \in Seq(Unit)
  BY DEF SendSide, Circuits
<1>2. m.bytes \in Seq(Unit) /\ m.more \in BOOLEAN
  BY InformationFields
<1> DEFINE whole == c.reassembly \o m.bytes
<1>4. whole \in Seq(Unit)
  BY <1>1, <1>2, ConcatProperties
<1> DEFINE stepped == [c EXCEPT !.vr = @ + 1]
           complete == ~m.more /\ whole # <<>>
           held == [stepped EXCEPT !.reassembly = whole]
           emptied == [stepped EXCEPT !.reassembly = <<>>]
           taken == [stepped EXCEPT !.reassembly = <<>>,
                                    !.pending = IF ChokeThreshold > 0
                                                THEN @ + 1 ELSE @]
           delivered0 == MaybeAssertChoke(taken)
           after == IF complete THEN delivered0 ELSE held
<1>5. r = IF m.bytes # <<>> /\ Len(whole) > MaxReassembly
          THEN Disconnect(emptied)
          ELSE Then(Result(after, <<InformationAcknowledge(after, FALSE)>>,
                           IF complete
                           THEN <<[type |-> "DataReceived", data |-> whole]>>
                           ELSE <<>>),
                    Pump(after))
  BY Zenon DEF TakeInSequence
<1>3. whole = c.reassembly \o m.bytes
  OBVIOUS
<1> HIDE DEF whole
<1>6. PICK vr \in Nat : vr = c.vr + 1
  BY <1>1
<1>7. PICK pending \in Nat : pending = IF ChokeThreshold > 0 THEN c.pending + 1
                                                             ELSE c.pending
  BY <1>1 DEF Circuits
<1>8. stepped = [c EXCEPT !.vr = vr]
  BY <1>6
<1>9. /\ stepped \in Circuits /\ stepped.vr = vr /\ stepped.vs = c.vs
      /\ stepped.unacked = c.unacked /\ stepped.sendQueue = c.sendQueue
      /\ stepped.window = c.window /\ stepped.state = c.state
      /\ stepped.pending = c.pending
  <2>1. stepped \in Circuits
    BY <1>1, <1>8, Zenon DEF Circuits
  <2> QED BY <1>1, <1>8, <2>1 DEF Circuits
<1> HIDE DEF stepped
<1>10. /\ held \in Circuits /\ held.vr = vr /\ held.vs = c.vs
       /\ held.unacked = c.unacked /\ held.sendQueue = c.sendQueue
       /\ held.window = c.window /\ held.state = c.state
       /\ held.reassembly = whole
  <2>1. held \in Circuits
    BY <1>4, <1>9, Zenon DEF Circuits
  <2> QED BY <1>9, <2>1 DEF Circuits
<1>11. /\ emptied \in Circuits /\ emptied.vr = vr /\ emptied.vs = c.vs
       /\ emptied.unacked = c.unacked /\ emptied.sendQueue = c.sendQueue
       /\ emptied.window = c.window /\ emptied.state = c.state
       /\ emptied.reassembly = <<>>
  <2>1. <<>> \in Seq(Unit)
    OBVIOUS
  <2>2. emptied \in Circuits
    BY <1>9, <2>1, Zenon DEF Circuits
  <2> QED BY <1>9, <2>2 DEF Circuits
<1>12. taken = [emptied EXCEPT !.pending = pending]
  BY <1>7, <1>9 DEF Circuits
<1> HIDE DEF emptied, held, taken
<1>13. /\ taken \in Circuits /\ taken.vr = vr /\ taken.vs = c.vs
       /\ taken.unacked = c.unacked /\ taken.sendQueue = c.sendQueue
       /\ taken.window = c.window /\ taken.state = c.state
       /\ taken.reassembly = <<>>
  <2>1. taken \in Circuits
    BY <1>11, <1>12, Zenon DEF Circuits
  <2> QED BY <1>11, <1>12, <2>1 DEF Circuits
<1>14. /\ delivered0 \in Circuits /\ delivered0.vr = vr /\ delivered0.vs = c.vs
       /\ delivered0.unacked = c.unacked /\ delivered0.sendQueue = c.sendQueue
       /\ delivered0.window = c.window /\ delivered0.state = c.state
       /\ delivered0.reassembly = <<>>
  <2>1. CASE ChokeThreshold > 0 /\ taken.pending >= ChokeThreshold
    <3>1. delivered0 = [taken EXCEPT !.localChoked = TRUE]
      BY <2>1 DEF MaybeAssertChoke
    <3> HIDE DEF delivered0
    <3>2. delivered0 \in Circuits
      BY <1>13, <3>1, Zenon DEF Circuits
    <3> QED BY <1>13, <3>1, <3>2 DEF Circuits
  <2>2. CASE ~ (ChokeThreshold > 0 /\ taken.pending >= ChokeThreshold)
    BY <1>13, <2>2 DEF MaybeAssertChoke
  <2> QED BY <2>1, <2>2
<1> HIDE DEF delivered0
<1>15. CASE m.bytes # <<>> /\ Len(whole) > MaxReassembly
  <2>1. r = Disconnect(emptied)
    BY <1>5, <1>15
  <2>2. PICK d : d = emptied
    OBVIOUS
  <2>3. SendSide(d, F, a)
    BY <1>11, <2>2, SameSide
  <2>4. Step(d, r, F, a) /\ Still(d, r) /\ r.c.state # "Connected"
    BY <2>1, <2>2, <2>3, DisconnectStep
  <2>5. Step(c, r, F, a)
    BY <1>11, <2>2, <2>4 DEF Step
  <2>6. Taken(c, r, m)
    BY <1>6, <1>11, <2>2, <2>4 DEF Taken, Still
  <2> QED BY <2>5, <2>6
<1>16. CASE ~ (m.bytes # <<>> /\ Len(whole) > MaxReassembly) /\ complete
  <2>1. PICK d, x, ev : /\ d = delivered0
                        /\ x = [type |-> "DataReceived", data |-> whole]
                        /\ ev = <<x>>
    OBVIOUS
  <2>2. r = Accepted(d, ev)
    BY <1>5, <1>16, <2>1 DEF Accepted
  <2>3. x \in Events /\ x.type = "DataReceived" /\ x.data = whole
    BY <1>4, <2>1 DEF Events
  <2>4. ev \in Seq(Events)
    BY <2>1, <2>3
  <2>5. /\ Step(c, r, F, a) /\ r.c.vr = d.vr /\ r.c.state = d.state
        /\ d.state = "Connected" => r.c.reassembly = d.reassembly
        /\ r.ev = ev
    <3>1. /\ d \in Circuits /\ d.vs = c.vs /\ d.vr = c.vr + 1
          /\ d.unacked = c.unacked /\ d.sendQueue = c.sendQueue
          /\ d.window = c.window /\ d.state = c.state
      BY <1>6, <1>14, <2>1
    <3> QED BY <2>2, <2>4, <3>1, AcceptedStep
  <2>6. Handed(ev) = <<whole>>
    BY <2>1, <2>3, OneIsHanded
  <2>7. Taken(c, r, m)
    BY <1>3, <1>6, <1>14, <1>16, <2>1, <2>5, <2>6 DEF Taken
  <2> QED BY <2>5, <2>7
<1>17. CASE ~ (m.bytes # <<>> /\ Len(whole) > MaxReassembly) /\ ~ complete
  <2>1. PICK d, ev : d = held /\ ev = <<>>
    OBVIOUS
  <2>2. r = Accepted(d, ev)
    BY <1>5, <1>17, <2>1 DEF Accepted
  <2>3. Silent(ev) /\ ev \in Seq(Events)
    BY <2>1, SilentNothing DEF Silent
  <2>4. /\ Step(c, r, F, a) /\ r.c.vr = d.vr /\ r.c.state = d.state
        /\ d.state = "Connected" => r.c.reassembly = d.reassembly
        /\ r.ev = ev
    <3>1. /\ d \in Circuits /\ d.vs = c.vs /\ d.vr = c.vr + 1
          /\ d.unacked = c.unacked /\ d.sendQueue = c.sendQueue
          /\ d.window = c.window /\ d.state = c.state
      BY <1>6, <1>10, <2>1
    <3> QED BY <2>2, <2>3, <3>1, AcceptedStep
  <2>5. Taken(c, r, m)
    BY <1>3, <1>6, <1>10, <1>17, <2>1, <2>3, <2>4 DEF Taken
  <2> QED BY <2>4, <2>5
<1> QED BY <1>15, <1>16, <1>17

\* What on_packet takes in: the fragment an open end expects next.
Fresh(c, m) ==
  c.state = "Connected" /\ m.op = "Information" /\ m.tx = Wire(c.vr)

LEMMA OnInformationStep ==
  ASSUME NEW c, NEW F, NEW a, SendSide(c, F, a), NEW m \in Datagrams,
         m.op = "Information", NEW x \in a .. c.vs, m.rx = Wire(x),
         NEW r, r = OnInformation(c, m)
  PROVE  /\ Step(c, r, F, x)
         /\ Fresh(c, m) => Taken(c, r, m)
         /\ ~ Fresh(c, m) => Still(c, r)
<1>1. m.choke \in BOOLEAN
  BY InformationFields
<1>2. PICK w, choke : w = AbsorbAck(c, Wire(x)) /\ choke = m.choke
  OBVIOUS
<1>3. PICK d : d = ApplyPeerChoke(w, choke)
  OBVIOUS
<1>4. PICK gap : gap = Mod256After(m.tx, Wire(c.vr))
  OBVIOUS
<1>5. gap \in BOOLEAN
  BY <1>4 DEF Mod256After
<1>6. ApplyPeerChoke(AbsorbAck(c, m.rx), m.choke) = d
  BY <1>2, <1>3
<1>7. r = CASE c.state # "Connected" -> Quiet(c)
            [] c.state = "Connected" /\ m.tx = Wire(c.vr) -> TakeInSequence(d, m)
            [] OTHER -> Then(Result(d, <<InformationAcknowledge(d, gap)>>, <<>>),
                             Pump(d))
  BY <1>4, <1>6 DEF OnInformation
<1>8. CASE c.state # "Connected"
  <2>1. r = Quiet(c)
    BY <1>7, <1>8
  <2>2. SendSide(c, F, x)
    BY <1>8, SideForward
  <2> QED BY <1>8, <2>1, <2>2, QuietStep DEF Fresh
<1>9. ASSUME c.state = "Connected"
      PROVE  /\ SendSide(d, F, x) /\ d.state = "Connected" /\ d.vs = c.vs
             /\ d.vr = c.vr /\ d.reassembly = c.reassembly
  <2>1. /\ SendSide(w, F, x) /\ w.state = "Connected" /\ w.vs = c.vs
        /\ w.vr = c.vr /\ w.reassembly = c.reassembly
    BY <1>2, <1>9, AbsorbSide
  <2>2. choke \in BOOLEAN
    BY <1>1, <1>2
  <2> QED BY <1>3, <2>1, <2>2, ChokeSide
<1>10. CASE c.state = "Connected" /\ m.tx = Wire(c.vr)
  <2>1. r = TakeInSequence(d, m)
    BY <1>7, <1>10
  <2>2. Step(d, r, F, x) /\ Taken(d, r, m)
    BY <1>9, <1>10, <2>1, TakeStep
  <2>3. Step(c, r, F, x)
    BY <1>9, <1>10, <2>2 DEF Step
  <2>4. Taken(c, r, m)
    BY <1>9, <1>10, <2>2 DEF Taken
  <2> QED BY <1>10, <2>3, <2>4 DEF Fresh
<1>11. CASE c.state = "Connected" /\ m.tx # Wire(c.vr)
  <2>1. PICK k, s : /\ k = Result(d, <<InformationAcknowledge(d, gap)>>, <<>>)
                    /\ s = Pump(d)
    OBVIOUS
  <2>2. r = Then(k, s)
    BY <1>7, <1>11, <2>1
  <2>3. k.c = d /\ k.out = <<InformationAcknowledge(d, gap)>> /\ k.ev = <<>>
    BY <2>1 DEF Result
  <2>4. d \in Circuits
    BY <1>9, <1>11 DEF SendSide
  <2>5. Emits(k.out, F, x, d.vs, d.vr)
    <3>1. PICK hi : hi = d.vs
      OBVIOUS
    <3>2. Emits(<<InformationAcknowledge(d, gap)>>, F, x, hi, d.vr)
      BY <1>5, <2>4, AcknowledgementEmitted
    <3> QED BY <2>3, <3>1, <3>2
  <2>6. Step(d, k, F, x) /\ Still(d, k)
    <3>1. SendSide(d, F, x)
      BY <1>9, <1>11
    <3> QED BY <2>3, <2>4, <2>5, <3>1, SideStep
  <2>7. Step(d, s, F, x) /\ Still(d, s)
    BY <1>9, <1>11, <2>1, PumpStep
  <2>8. Step(k.c, s, F, x) /\ Still(k.c, s)
    BY <2>3, <2>7
  <2>9. Step(d, r, F, x) /\ Still(d, r)
    BY <2>2, <2>4, <2>6, <2>8, ThenStep
  <2>10. Step(c, r, F, x) /\ Still(c, r)
    BY <1>9, <1>11, <2>9 DEF Step, Still
  <2> QED BY <1>11, <2>10 DEF Fresh
<1> QED BY <1>8, <1>10, <1>11

LEMMA OnInformationAcknowledgeStep ==
  ASSUME NEW c, NEW F, NEW a, SendSide(c, F, a), NEW m \in Datagrams,
         m.op = "InformationAcknowledge", NEW x \in a .. c.vs, m.rx = Wire(x),
         NEW r, r = OnInformationAcknowledge(c, m)
  PROVE  Step(c, r, F, x) /\ Still(c, r)
<1>1. m.choke \in BOOLEAN
  BY AcknowledgementFields
<1>2. PICK choke, w : choke = m.choke /\ w = ApplyPeerChoke(c, choke)
  OBVIOUS
<1>3. PICK d : d = AbsorbAck(w, Wire(x))
  OBVIOUS
<1>4. PICK k : k = IF m.nak THEN RetransmitFrom(d, Wire(x)) ELSE Quiet(d)
  OBVIOUS
<1>5. AbsorbAck(ApplyPeerChoke(c, m.choke), m.rx) = d
  BY <1>2, <1>3
<1>6. r = IF c.state # "Connected" THEN Quiet(c) ELSE Then(k, Pump(k.c))
  BY <1>4, <1>5 DEF OnInformationAcknowledge
<1>7. CASE c.state # "Connected"
  <2>1. SendSide(c, F, x)
    BY <1>7, SideForward
  <2> QED BY <1>6, <1>7, <2>1, QuietStep
<1>8. CASE c.state = "Connected"
  <2>1. /\ SendSide(w, F, a) /\ w.state = c.state /\ w.vs = c.vs
        /\ w.vr = c.vr /\ w.reassembly = c.reassembly
    <3>1. choke \in BOOLEAN
      BY <1>1, <1>2
    <3> QED BY <1>2, <3>1, ChokeSide
  <2>2. /\ SendSide(d, F, x) /\ d.state = "Connected" /\ d.vs = w.vs
        /\ d.vr = w.vr /\ d.reassembly = w.reassembly
    <3>1. x \in a .. w.vs /\ w.state = "Connected"
      BY <1>8, <2>1
    <3> QED BY <1>3, <2>1, <3>1, AbsorbSide
  <2>3. Step(d, k, F, x) /\ Still(d, k)
    <3>1. CASE m.nak
      BY <1>4, <2>2, <3>1, RetransmitStep
    <3>2. CASE ~ m.nak
      BY <1>4, <2>2, <3>2, QuietStep
    <3> QED BY <3>1, <3>2
  <2>4. PICK e, s : e = k.c /\ s = Pump(e)
    OBVIOUS
  <2>5. Step(e, s, F, x) /\ Still(e, s)
    <3>1. SendSide(e, F, x)
      BY <2>3, <2>4 DEF Step
    <3> QED BY <2>4, <3>1, PumpStep
  <2>6. d \in Circuits
    BY <2>2 DEF SendSide
  <2>7. r = Then(k, s)
    BY <1>6, <1>8, <2>4
  <2>8. Step(d, r, F, x) /\ Still(d, r)
    BY <2>3, <2>4, <2>5, <2>6, <2>7, ThenStep
  <2> QED BY <1>8, <2>1, <2>2, <2>8 DEF Step, Still
<1> QED BY <1>7, <1>8

\* Any datagram: what it acknowledges, if it does, is absorbed, and what it
\* carries is taken in exactly when it is what the end expects next.
LEMMA PacketStep ==
  ASSUME NEW c, NEW F, NEW a, SendSide(c, F, a), NEW m \in Datagrams,
         NEW x \in a .. c.vs, IF Acknowledges(m) THEN m.rx = Wire(x) ELSE x = a,
         NEW r, r = OnPacket(c, m)
  PROVE  /\ Step(c, r, F, x)
         /\ Fresh(c, m) => Taken(c, r, m)
         /\ ~ Fresh(c, m) => Still(c, r)
<1>1. CASE m.op = "Information"
  <2>1. m.rx = Wire(x) /\ r = OnInformation(c, m)
    BY <1>1 DEF Acknowledges, OnPacket
  <2> QED BY <1>1, <2>1, OnInformationStep
<1>2. CASE m.op = "InformationAcknowledge"
  <2>1. m.rx = Wire(x) /\ r = OnInformationAcknowledge(c, m)
    BY <1>2 DEF Acknowledges, OnPacket
  <2> QED BY <1>2, <2>1, OnInformationAcknowledgeStep DEF Fresh
<1>3. CASE m.op = "DisconnectRequest"
  <2>1. x = a /\ r = OnDisconnectRequest(c)
    BY <1>3 DEF Acknowledges, OnPacket
  <2>2. PICK k, s : /\ k = Result(c, <<DisconnectAcknowledge(c)>>, <<>>)
                    /\ s = Close(c, "Normal")
    OBVIOUS
  <2>3. r = Then(k, s)
    BY <2>1, <2>2 DEF OnDisconnectRequest
  <2>4. c \in Circuits
    BY DEF SendSide
  <2>5. k.c = c /\ k.ev = <<>>
        /\ k.out = <<[op |-> "DisconnectAcknowledge", key |-> c.remote]>>
    BY <2>2 DEF Result, DisconnectAcknowledge
  <2>6. Emits(k.out, F, a, c.vs, c.vr)
    <3>1. PICK key, op, hi, vr : /\ key = c.remote /\ op = "DisconnectAcknowledge"
                                 /\ hi = c.vs /\ vr = c.vr
      OBVIOUS
    <3>2. key \in Nat
      BY <2>4, <3>1 DEF Circuits
    <3>3. Emits(<<[op |-> op, key |-> key]>>, F, a, hi, vr)
      BY <3>1, <3>2, DisconnectEmitted
    <3> QED BY <2>5, <3>1, <3>3
  <2>7. Step(c, k, F, a) /\ Still(c, k)
    BY <2>4, <2>5, <2>6, SideStep
  <2>8. Step(k.c, s, F, a) /\ Still(k.c, s)
    BY <2>2, <2>5, CloseStep DEF Reasons
  <2>9. Step(c, r, F, a) /\ Still(c, r)
    BY <2>3, <2>4, <2>7, <2>8, ThenStep
  <2> QED BY <1>3, <2>1, <2>9 DEF Fresh
<1>4. CASE m.op = "DisconnectAcknowledge"
  <2>1. x = a /\ r = OnDisconnectAcknowledge(c)
    BY <1>4 DEF Acknowledges, OnPacket
  <2>2. r = Close(c, "Normal") \/ r = Quiet(c)
    BY <2>1 DEF OnDisconnectAcknowledge
  <2>3. Step(c, r, F, a) /\ Still(c, r)
    BY <2>2, CloseStep, QuietStep DEF Reasons
  <2> QED BY <1>4, <2>1, <2>3 DEF Fresh
<1>5. m.op \in {"Information", "InformationAcknowledge", "DisconnectRequest",
               "DisconnectAcknowledge"}
  BY DEF Datagrams
<1> QED BY <1>1, <1>2, <1>3, <1>4, <1>5

-----------------------------------------------------------------------------
(***************************************************************************)
(* Frames and their fragments.                                             *)
(***************************************************************************)
Messages == Seq(Unit) \ {<<>>}

Count(w) == (Len(w) + FragmentSize - 1) \div FragmentSize

LEMMA CountProperties ==
  ASSUME NEW w \in Seq(Unit)
  PROVE  /\ Count(w) \in Nat
         /\ w # <<>> => Count(w) >= 1
         /\ Len(w) <= Count(w) * FragmentSize
         /\ w # <<>> => (Count(w) - 1) * FragmentSize < Len(w)
<1>1. PICK n, b, q : n = Len(w) + FragmentSize - 1 /\ b = FragmentSize /\ q = n \div b
  OBVIOUS
<1>2. /\ n \in Nat /\ b \in Nat /\ b > 0 /\ n = Len(w) + b - 1 /\ q = Count(w)
      /\ Len(w) \in Nat /\ (w # <<>> => Len(w) > 0)
  BY <1>1, EmptySeq, LenProperties, CircuitAssumption DEF Count
<1>3. b * q <= n /\ n < b * q + b /\ q \in Int
  BY <1>1, <1>2, SMTT(60)
<1>4. b * q \in Int /\ q * b = b * q /\ (q - 1) * b = b * q - b
  BY <1>2, <1>3, SMTT(60)
<1>5. Len(w) <= q * b
  BY <1>2, <1>3, <1>4
<1>6. w # <<>> => (q - 1) * b < Len(w)
  <2>1. (q - 1) * b < Len(w) \/ ~ (w # <<>>)
    BY <1>2, <1>3, <1>4
  <2> QED BY <2>1
<1>7. q >= 0
  <2> SUFFICES ASSUME q <= -1 PROVE FALSE
    BY <1>3
  <2>1. PICK k \in Nat : k = - q - 1
    BY <1>3
  <2>2. b * q = - (b * k) - b /\ b * k >= 0 /\ b * k \in Int
    BY <1>2, <1>3, <2>1
  <2> QED BY <1>2, <1>3, <2>2
<1>8. w # <<>> => q >= 1
  <2> SUFFICES ASSUME w # <<>>, q = 0 PROVE FALSE
    BY <1>3, <1>7
  <2> QED BY <1>2, <1>4, <1>5
<1> QED BY <1>1, <1>2, <1>3, <1>5, <1>6, <1>7, <1>8

LEMMA FragmentsShape ==
  ASSUME NEW w \in Seq(Unit)
  PROVE  /\ Fragments(w) \in Seq(Fragment) /\ Len(Fragments(w)) = Count(w)
         /\ \A i \in 1 .. Count(w) :
              Fragments(w)[i] =
                [bytes |-> SubSeq(w, (i - 1) * FragmentSize + 1,
                                  Least(i * FragmentSize, Len(w))),
                 more  |-> i < Count(w)]
<1>1. PICK n : n = Count(w)
  OBVIOUS
<1> DEFINE first(i) == (i - 1) * FragmentSize + 1
           last(i) == Least(i * FragmentSize, Len(w))
           fragment(i) == [bytes |-> SubSeq(w, first(i), last(i)), more |-> i < n]
<1>2. Len(w) \in Nat /\ FragmentSize \in Nat \ {0} /\ n \in Nat
  BY <1>1, CountProperties, CircuitAssumption
<1>3. ASSUME NEW i \in 1 .. n
      PROVE  fragment(i) \in Fragment
  <2>1. i \in Nat /\ i - 1 \in Nat
    BY <1>2
  <2>2. first(i) \in Nat /\ first(i) >= 1 /\ last(i) \in Nat /\ last(i) <= Len(w)
    BY <1>2, <2>1 DEF Least
  <2>3. \A j \in first(i) .. last(i) : w[j] \in Unit
    BY <1>2, <2>2, ElementOfSeq
  <2>4. SubSeq(w, first(i), last(i)) \in Seq(Unit)
    BY <2>2, <2>3, SubSeqProperties
  <2> QED BY <2>4 DEF Fragment
<1>4. Fragments(w) = [i \in 1 .. n |-> fragment(i)]
  BY <1>1 DEF Fragments, Count
<1>5. \A i \in 1 .. n : fragment(i)
        = [bytes |-> SubSeq(w, (i - 1) * FragmentSize + 1,
                            Least(i * FragmentSize, Len(w))),
           more  |-> i < n]
  OBVIOUS
<1> HIDE DEF fragment
<1>6. Fragments(w) \in [1 .. n -> Fragment]
  BY <1>3, <1>4
<1>7. Fragments(w) \in Seq(Fragment) /\ Len(Fragments(w)) = n
  BY <1>2, <1>6
<1>8. \A i \in 1 .. n : Fragments(w)[i] = fragment(i)
  BY <1>4
<1> QED BY <1>1, <1>5, <1>7, <1>8

\* A fragment put to the ones before it.
LEMMA NextPiece ==
  ASSUME NEW w \in Messages, NEW j \in 0 .. Count(w) - 1,
         NEW p, p = Fragments(w)[j + 1]
  PROVE  /\ p.more <=> j + 1 < Count(w)
         /\ p.more => SubSeq(w, 1, j * FragmentSize) \o p.bytes
                        = SubSeq(w, 1, (j + 1) * FragmentSize)
         /\ ~p.more => SubSeq(w, 1, j * FragmentSize) \o p.bytes = w
<1>1. w \in Seq(Unit) /\ w # <<>>
  BY DEF Messages
<1>2. PICK n, b, z : n = Count(w) /\ b = FragmentSize /\ z = Len(w)
  OBVIOUS
<1>3. /\ n \in Nat /\ n >= 1 /\ z <= n * b /\ (n - 1) * b < z
      /\ b \in Nat /\ b > 0 /\ z \in Nat /\ j \in Nat /\ j <= n - 1
  BY <1>1, <1>2, CountProperties, LenProperties, CircuitAssumption
<1>4. PICK k, h : k = j * b /\ h = (j + 1) * b
  OBVIOUS
<1>5. k \in Nat /\ h \in Nat /\ h = k + b
  BY <1>3, <1>4
<1>6. k < z
  <2>1. PICK i \in Nat : i = n - 1 - j
    BY <1>3
  <2>2. (n - 1) * b = j * b + i * b /\ i * b >= 0 /\ j * b \in Int /\ i * b \in Int
    <3>1. n - 1 = j + i
      BY <1>3, <2>1
    <3>2. (j + i) * b = j * b + i * b
      BY <1>3
    <3>3. i * b >= 0 /\ j * b \in Int /\ i * b \in Int
      BY <1>3
    <3> QED BY <3>1, <3>2, <3>3
  <2> QED BY <1>3, <1>4, <2>2
<1>7. p = [bytes |-> SubSeq(w, k + 1, Least(h, z)), more |-> j + 1 < n]
  <2>1. j + 1 \in 1 .. Count(w) /\ (j + 1) - 1 = j
    BY <1>2, <1>3
  <2> QED BY <1>1, <1>2, <1>4, <2>1, FragmentsShape
<1>10. /\ p.more <=> j + 1 < Count(w)
       /\ p.bytes = SubSeq(w, k + 1, Least(h, z))
  <2>1. PICK bs, mo : bs = SubSeq(w, k + 1, Least(h, z)) /\ mo = (j + 1 < n)
    OBVIOUS
  <2>2. p = [bytes |-> bs, more |-> mo]
    BY <1>7, <2>1
  <2>3. p.bytes = bs /\ p.more = mo
    BY <2>2
  <2> QED BY <1>2, <2>1, <2>3
<1>11. /\ SubSeq(w, 1, j * FragmentSize) = SubSeq(w, 1, k)
       /\ SubSeq(w, 1, (j + 1) * FragmentSize) = SubSeq(w, 1, h)
  BY <1>2, <1>4
<1>8. CASE j + 1 < n
  <2>1. h < z
    <3>1. PICK i \in Nat : i = n - 1 - (j + 1)
      BY <1>3, <1>8
    <3>2. (n - 1) * b = (j + 1) * b + i * b /\ i * b >= 0 /\ (j + 1) * b \in Int
          /\ i * b \in Int
      <4>1. n - 1 = (j + 1) + i
        BY <1>3, <3>1
      <4>2. ((j + 1) + i) * b = (j + 1) * b + i * b
        BY <1>3
      <4>3. i * b >= 0 /\ (j + 1) * b \in Int /\ i * b \in Int
        BY <1>3
      <4> QED BY <4>1, <4>2, <4>3
    <3> QED BY <1>3, <1>4, <3>2
  <2>2. Least(h, z) = h
    BY <1>3, <1>5, <2>1 DEF Least
  <2>3. SubSeq(w, 1, k) \o SubSeq(w, k + 1, h) = SubSeq(w, 1, h)
    <3>1. 1 \in 1 .. Len(w) + 1 /\ k \in 1 - 1 .. Len(w) /\ h \in k .. Len(w)
      BY <1>2, <1>3, <1>5, <1>6, <2>1
    <3> QED BY <1>1, <3>1, ConcatAdjacentSubSeq
  <2>4. SubSeq(w, 1, k) \o p.bytes = SubSeq(w, 1, h)
    BY <1>10, <2>2, <2>3
  <2> QED BY <1>2, <1>8, <1>10, <1>11, <2>4
<1>9. CASE ~ (j + 1 < n)
  <2>1. h >= z
    <3>1. j + 1 = n
      BY <1>3, <1>9
    <3> QED BY <1>3, <1>4, <3>1
  <2>2. Least(h, z) = z
    BY <1>3, <1>5, <2>1 DEF Least
  <2>3. SubSeq(w, 1, k) \o SubSeq(w, k + 1, z) = SubSeq(w, 1, z)
    <3>1. 1 \in 1 .. Len(w) + 1 /\ k \in 1 - 1 .. Len(w) /\ z \in k .. Len(w)
      BY <1>2, <1>3, <1>5, <1>6
    <3> QED BY <1>1, <3>1, ConcatAdjacentSubSeq
  <2>4. SubSeq(w, 1, z) = w
    BY <1>1, <1>2, SubSeqFull
  <2>5. SubSeq(w, 1, k) \o p.bytes = w
    BY <1>10, <2>2, <2>3, <2>4
  <2> QED BY <1>2, <1>9, <1>10, <1>11, <2>5
<1> QED BY <1>8, <1>9

\* F is the fragments of the frames W, one after the other: those of the k-th
\* end at B[k].
Boundaries(B, W, F) ==
  /\ W \in Seq(Messages) /\ F \in Seq(Fragment)
  /\ B \in [0 .. Len(W) -> Nat] /\ B[0] = 0 /\ B[Len(W)] = Len(F)
  /\ \A k \in 0 .. Len(W) : B[k] <= Len(F)
  /\ \A k \in 1 .. Len(W) :
       /\ B[k] = B[k - 1] + Count(W[k])
       /\ \A i \in 1 .. Count(W[k]) : F[B[k - 1] + i] = Fragments(W[k])[i]

\* The circuit d, whose application was handed the frames D of the frames W,
\* has taken in the fragments of these and holds those of the next one that it
\* has taken in so far.
Progress(d, D, W, B) ==
  LET k == Len(D)
  IN  /\ D \in Seq(Messages) /\ k <= Len(W)
      /\ \A i \in 1 .. k : D[i] = W[i]
      /\ d.state = "Connected" =>
           /\ B[k] <= d.vr
           /\ IF k < Len(W)
              THEN /\ d.vr < B[k + 1]
                   /\ d.reassembly = SubSeq(W[k + 1], 1, (d.vr - B[k]) * FragmentSize)
              ELSE d.reassembly = <<>>

\* One direction of the pair: the sender c of the frames W, the receiver d that
\* handed on D, the datagrams on their way forth and back.
Flow(F, B, a, c, d, W, D, forth, back) ==
  /\ SendSide(c, F, a)
  /\ d \in Circuits /\ a <= d.vr /\ d.vr <= c.vs
  /\ Boundaries(B, W, F) /\ Progress(d, D, W, B)
  /\ forth \in Seq(Datagrams) /\ Carried(forth, F, c.vs, d.vr)
  /\ back \in Seq(Datagrams) /\ Acknowledged(back, a, d.vr)

\* C bounds the first n frames where B does.
Agree(C, B, n) == \A k \in 0 .. n : C[k] = B[k]

LEMMA BoundariesGrow ==
  ASSUME NEW B, NEW W, NEW F, Boundaries(B, W, F), NEW w \in Messages, NEW V,
         V = Append(W, w), NEW G, G = Fragments(w), NEW H, H = F \o G
  PROVE  \E C : Boundaries(C, V, H) /\ Agree(C, B, Len(W))
<1>1. /\ W \in Seq(Messages) /\ F \in Seq(Fragment)
      /\ B \in [0 .. Len(W) -> Nat] /\ B[0] = 0 /\ B[Len(W)] = Len(F)
      /\ Len(W) \in Nat /\ Len(F) \in Nat
  BY LenProperties DEF Boundaries
<1>2. /\ V \in Seq(Messages) /\ Len(V) = Len(W) + 1
      /\ \A i \in 1 .. Len(W) : V[i] = W[i]
      /\ V[Len(W) + 1] = w
  BY <1>1, AppendProperties
<1>3. G \in Seq(Fragment) /\ Len(G) = Count(w) /\ Count(w) \in Nat
  BY FragmentsShape, CountProperties DEF Messages
<1>4. /\ H \in Seq(Fragment) /\ Len(H) = Len(F) + Count(w)
      /\ \A i \in 1 .. Len(F) + Count(w) :
           H[i] = IF i <= Len(F) THEN F[i] ELSE G[i - Len(F)]
  BY <1>1, <1>3, ConcatProperties
<1>5. PICK n, z : n = Len(W) /\ z = Len(F)
  OBVIOUS
<1> DEFINE C == [k \in 0 .. n + 1 |-> IF k <= n THEN B[k] ELSE z + Count(w)]
<1>6. /\ C \in [0 .. n + 1 -> Nat]
      /\ \A k \in 0 .. n : C[k] = B[k]
      /\ C[n + 1] = z + Count(w)
  BY <1>1, <1>3, <1>5
<1> HIDE DEF C
<1>7. ASSUME NEW k \in 1 .. n + 1
      PROVE  /\ C[k] = C[k - 1] + Count(V[k])
             /\ \A i \in 1 .. Count(V[k]) : H[C[k - 1] + i] = Fragments(V[k])[i]
  <2>1. CASE k <= n
    <3>1. /\ k \in 1 .. n /\ k \in 0 .. n /\ k - 1 \in 0 .. n
      BY <1>1, <1>5, <2>1
    <3>2. V[k] = W[k] /\ C[k] = B[k] /\ C[k - 1] = B[k - 1]
      BY <1>2, <1>5, <1>6, <3>1
    <3>3. /\ B[k] = B[k - 1] + Count(W[k])
          /\ \A i \in 1 .. Count(W[k]) : F[B[k - 1] + i] = Fragments(W[k])[i]
      BY <1>5, <3>1 DEF Boundaries
    <3>4. B[k] <= z
      BY <3>1, <1>5 DEF Boundaries
    <3>5. B[k - 1] \in Nat /\ Count(W[k]) \in Nat
      <4>1. W[k] \in Seq(Unit)
        BY <1>1, <1>5, <3>1, ElementOfSeq DEF Messages
      <4> QED BY <1>1, <1>5, <3>1, <4>1, CountProperties
    <3>6. ASSUME NEW i \in 1 .. Count(W[k]) PROVE H[B[k - 1] + i] = F[B[k - 1] + i]
      <4>1. B[k - 1] + i \in 1 .. z /\ z \in Nat
        BY <1>1, <1>5, <3>3, <3>4, <3>5
      <4>2. B[k - 1] + i \in 1 .. z + Count(w) /\ B[k - 1] + i <= z
        BY <1>3, <4>1
      <4> QED BY <1>4, <1>5, <4>2
    <3> QED BY <3>2, <3>3, <3>6
  <2>2. CASE ~ (k <= n)
    <3>1. k = n + 1 /\ n \in 0 .. n /\ n + 1 - 1 = n /\ z \in Nat
      BY <1>1, <1>5, <2>2
    <3>2. V[k] = w /\ C[k] = z + Count(w) /\ C[k - 1] = z
      <4>1. V[k] = w /\ C[k] = z + Count(w) /\ k - 1 = n
        BY <1>2, <1>5, <1>6, <3>1
      <4>2. C[n] = B[n] /\ B[n] = z
        BY <1>1, <1>5, <1>6, <3>1
      <4> QED BY <4>1, <4>2
    <3>3. ASSUME NEW i \in 1 .. Count(w) PROVE H[z + i] = G[i]
      <4>1. PICK j : j = z + i
        OBVIOUS
      <4>2. j \in 1 .. z + Count(w) /\ ~ (j <= z) /\ j - z = i
        BY <1>3, <3>1, <4>1
      <4>3. H[j] = G[j - z]
        BY <1>4, <1>5, <4>2
      <4> QED BY <4>1, <4>2, <4>3
    <3> QED BY <3>2, <3>3
  <2> QED BY <2>1, <2>2
<1>8. Boundaries(C, V, H)
  <2>1. C[0] = 0 /\ Len(V) = n + 1 /\ C[Len(V)] = Len(H)
    BY <1>1, <1>2, <1>4, <1>5, <1>6
  <2>2. ASSUME NEW k \in 0 .. n + 1 PROVE C[k] <= Len(H)
    <3>1. CASE k <= n
      <4>1. k \in 0 .. n
        BY <1>1, <1>5, <3>1
      <4>2. C[k] = B[k] /\ B[k] \in Nat
        BY <1>1, <1>5, <1>6, <4>1
      <4>3. B[k] <= z
        BY <1>5, <4>1 DEF Boundaries
      <4> QED BY <1>1, <1>3, <1>4, <1>5, <4>2, <4>3
    <3>2. CASE k = n + 1
      BY <1>4, <1>5, <1>6, <3>2, <1>1, <1>3
    <3> QED BY <3>1, <3>2, <1>1, <1>5
  <2>3. /\ \A k \in 0 .. Len(V) : C[k] <= Len(H)
        /\ \A k \in 1 .. Len(V) :
              /\ C[k] = C[k - 1] + Count(V[k])
              /\ \A i \in 1 .. Count(V[k]) : H[C[k - 1] + i] = Fragments(V[k])[i]
        /\ C \in [0 .. Len(V) -> Nat]
    BY <1>6, <1>7, <2>1, <2>2, Zenon
  <2> QED BY <1>2, <1>4, <2>1, <2>3, Zenon DEF Boundaries
<1>9. Agree(C, B, Len(W))
  BY <1>5, <1>6 DEF Agree
<1> QED BY <1>8, <1>9

-----------------------------------------------------------------------------
(***************************************************************************)
(* What a call does to the direction its end sends in, and to the one it   *)
(* receives in.                                                            *)
(***************************************************************************)
LEMMA SenderCalls ==
  ASSUME NEW F, NEW B, NEW a, NEW c, NEW d, NEW W, NEW D, NEW forth, NEW back,
         Flow(F, B, a, c, d, W, D, forth, back),
         NEW x \in Nat, x <= d.vr, NEW r, Step(c, r, F, x),
         NEW rest \in Seq(Datagrams), Acknowledged(rest, x, d.vr)
  PROVE  Flow(F, B, x, r.c, d, W, D, forth \o r.out, rest)
<1>1. PICK e, o, vs, more, vr, n : /\ e = r.c /\ o = r.out /\ vs = c.vs
                                   /\ more = r.c.vs /\ vr = d.vr /\ n = r.c.vr
  OBVIOUS
<1>2. /\ SendSide(e, F, x) /\ Emits(o, F, x, more, n) /\ vs <= more
  BY <1>1 DEF Step
<1>3. c \in Circuits /\ d \in Circuits /\ e \in Circuits
  BY <1>2 DEF Flow, SendSide
<1>4. vs \in Nat /\ more \in Nat /\ vr \in Nat /\ n \in Nat
  BY <1>1, <1>3 DEF Circuits
<1>5. vr <= vs /\ more <= x + MaxWindow
  BY <1>1, <1>2 DEF Flow, SendSide
<1>6. forth \in Seq(Datagrams) /\ Carried(forth, F, vs, vr)
  BY <1>1 DEF Flow
<1>7. Carried(forth \o o, F, more, vr)
  BY <1>2, <1>4, <1>5, <1>6, CarriedAppend
<1>8. forth \o o \in Seq(Datagrams)
  BY <1>2, <1>6, ConcatProperties DEF Emits
<1>9. vr <= more
  BY <1>2, <1>4, <1>5
<1> QED BY <1>1, <1>2, <1>3, <1>7, <1>8, <1>9 DEF Flow

LEMMA SenderWrites ==
  ASSUME NEW F, NEW B, NEW a, NEW c, NEW d, NEW W, NEW D, NEW forth, NEW back,
         Flow(F, B, a, c, d, W, D, forth, back),
         NEW w \in Messages, NEW V, V = Append(W, w), NEW G, G = Fragments(w),
         NEW r, Step(c, r, F \o G, a)
  PROVE  \E H, C : Flow(H, C, a, r.c, d, V, D, forth \o r.out, back)
<1>1. PICK e, o, vs, more, vr, n, H :
        /\ e = r.c /\ o = r.out /\ vs = c.vs /\ more = r.c.vs /\ vr = d.vr
        /\ n = r.c.vr /\ H = F \o G
  OBVIOUS
<1>2. /\ SendSide(e, H, a) /\ Emits(o, H, a, more, n) /\ vs <= more
  BY <1>1 DEF Step
<1>3. c \in Circuits /\ d \in Circuits /\ e \in Circuits
  BY <1>2 DEF Flow, SendSide
<1>4. vs \in Nat /\ more \in Nat /\ vr \in Nat /\ n \in Nat /\ a \in Nat
  BY <1>1, <1>3 DEF Circuits, Flow, SendSide
<1>5. vr <= vs /\ more <= a + MaxWindow /\ vs <= Len(F) /\ F \in Seq(Fragment)
  BY <1>1, <1>2 DEF Flow, SendSide
<1>6. forth \in Seq(Datagrams) /\ Carried(forth, F, vs, vr)
  BY <1>1 DEF Flow
<1>7. G \in Seq(Fragment)
  BY FragmentsShape DEF Messages
<1>8. Carried(forth, H, vs, vr)
  BY <1>1, <1>4, <1>5, <1>6, <1>7, CarriedExtend
<1>9. Carried(forth \o o, H, more, vr)
  BY <1>2, <1>4, <1>5, <1>6, <1>8, CarriedAppend
<1>10. forth \o o \in Seq(Datagrams)
  BY <1>2, <1>6, ConcatProperties DEF Emits
<1>11. vr <= more
  BY <1>2, <1>4, <1>5
<1>12. Boundaries(B, W, F)
  BY DEF Flow
<1>13. PICK C : Boundaries(C, V, H) /\ Agree(C, B, Len(W))
  <2>1. H = F \o G
    BY <1>1
  <2> QED BY <1>12, <2>1, BoundariesGrow
<1>14. Progress(d, D, V, C)
  <2>1. Progress(d, D, W, B) /\ W \in Seq(Messages) /\ Len(W) \in Nat
    BY <1>12, LenProperties DEF Flow, Boundaries
  <2>2. PICK k, z : k = Len(D) /\ z = Len(W)
    OBVIOUS
  <2>3. /\ D \in Seq(Messages) /\ k <= z /\ \A i \in 1 .. k : D[i] = W[i]
        /\ k \in Nat /\ z \in Nat
    BY <2>1, <2>2, LenProperties DEF Progress
  <2>4. /\ Len(V) = z + 1 /\ \A i \in 1 .. z : V[i] = W[i]
        /\ V[z + 1] = w
    BY <2>1, <2>2, AppendProperties
  <2>5. \A i \in 1 .. k : D[i] = V[i]
    BY <2>3, <2>4
  <2>6. C[k] = B[k] /\ k < z + 1 /\ k \in 0 .. z
    BY <1>13, <2>2, <2>3 DEF Agree
  <2>7. ASSUME d.state = "Connected"
        PROVE  /\ C[k] <= vr /\ vr < C[k + 1]
               /\ d.reassembly = SubSeq(V[k + 1], 1, (vr - C[k]) * FragmentSize)
    <3>1. CASE k < z
      <4>1. /\ B[k] <= vr /\ vr < B[k + 1]
            /\ d.reassembly = SubSeq(W[k + 1], 1, (vr - B[k]) * FragmentSize)
        BY <1>1, <2>1, <2>2, <2>7, <3>1 DEF Progress
      <4>2. k + 1 \in 0 .. z /\ k + 1 \in 1 .. z
        BY <2>3, <3>1
      <4>3. C[k + 1] = B[k + 1] /\ V[k + 1] = W[k + 1]
        BY <1>13, <2>2, <2>4, <4>2 DEF Agree
      <4> QED BY <2>6, <4>1, <4>3
    <3>2. CASE ~ (k < z)
      <4>1. k = z
        BY <2>3, <3>2
      <4>2. B[k] <= vr /\ d.reassembly = <<>>
        BY <1>1, <2>1, <2>2, <2>7, <3>2 DEF Progress
      <4>3. B[k] = Len(F) /\ B[k] \in Nat
        BY <1>12, <2>2, <2>6, <4>1 DEF Boundaries
      <4>4. vr = B[k]
        BY <1>4, <1>5, <4>2, <4>3
      <4>5. C[k + 1] = C[k] + Count(w)
        <5>1. k + 1 \in 1 .. Len(V) /\ (k + 1) - 1 = k /\ V[k + 1] = w
          BY <2>3, <2>4, <4>1
        <5> QED BY <1>13, <5>1 DEF Boundaries
      <4>6. Count(w) \in Nat /\ Count(w) >= 1
        BY CountProperties DEF Messages
      <4>7. vr < C[k + 1]
        BY <1>4, <2>6, <4>4, <4>5, <4>6
      <4>8. (vr - C[k]) * FragmentSize = 0
        BY <1>4, <2>6, <4>4, CircuitAssumption
      <4>9. SubSeq(V[k + 1], 1, 0) = <<>>
        BY SubSeqEmpty
      <4> QED BY <1>4, <2>6, <4>2, <4>4, <4>7, <4>8, <4>9
    <3> QED BY <3>1, <3>2
  <2> QED BY <1>1, <2>2, <2>3, <2>4, <2>5, <2>6, <2>7 DEF Progress
<1>15. Flow(H, C, a, e, d, V, D, forth \o o, back)
  <2>1. a <= vr /\ back \in Seq(Datagrams) /\ Acknowledged(back, a, vr)
    BY <1>1 DEF Flow
  <2> QED BY <1>1, <1>2, <1>3, <1>9, <1>10, <1>11, <1>13, <1>14, <2>1 DEF Flow
<1> QED BY <1>1, <1>15
LEMMA ReceiverStill ==
  ASSUME NEW F, NEW B, NEW a, NEW c, NEW d, NEW W, NEW D, NEW forth, NEW back,
         Flow(F, B, a, c, d, W, D, forth, back),
         NEW r, r.c \in Circuits, Still(d, r),
         NEW G, NEW lo, NEW hi, Emits(r.out, G, lo, hi, r.c.vr),
         NEW rest \in Seq(Datagrams), Carried(rest, F, c.vs, d.vr)
  PROVE  /\ Handed(r.ev) = <<>>
         /\ Flow(F, B, a, c, r.c, W, D, rest, back \o r.out)
<1>1. PICK e, o, vs, vr : e = r.c /\ o = r.out /\ vs = c.vs /\ vr = d.vr
  OBVIOUS
<1>2. Silent(r.ev) /\ e.vr = vr /\ e \in Circuits
  BY <1>1 DEF Still
<1>3. Handed(r.ev) = <<>>
  BY <1>2, SilentHandsNothing
<1>4. Emits(o, G, lo, hi, vr) /\ o \in Seq(Datagrams)
  BY <1>1, <1>2 DEF Emits
<1>5. /\ a \in Nat /\ vr \in Nat /\ a <= vr /\ vr <= vs
      /\ back \in Seq(Datagrams) /\ Acknowledged(back, a, vr)
  BY <1>1 DEF Flow, SendSide, Circuits
<1>6. Acknowledged(back \o o, a, vr)
  BY <1>4, <1>5, AcknowledgedAppend
<1>7. back \o o \in Seq(Datagrams)
  BY <1>4, <1>5, ConcatProperties
<1>8. Progress(e, D, W, B)
  <2>1. Progress(d, D, W, B)
    BY DEF Flow
  <2>2. e.state = "Connected" => d.state = "Connected" /\ e.reassembly = d.reassembly
    BY <1>1 DEF Still
  <2> QED BY <1>1, <1>2, <2>1, <2>2 DEF Progress
<1>9. Carried(rest, F, vs, e.vr) /\ Acknowledged(back \o o, a, e.vr)
      /\ a <= e.vr /\ e.vr <= vs
  BY <1>1, <1>2, <1>5, <1>6
<1>10. SendSide(c, F, a) /\ Boundaries(B, W, F)
  BY DEF Flow
<1>11. Flow(F, B, a, c, e, W, D, rest, back \o o)
  BY <1>1, <1>2, <1>7, <1>8, <1>9, <1>10, Zenon DEF Flow
<1> QED BY <1>1, <1>3, <1>11

\* A call hands on no frame, or, its circuit still up, the next one.
Hands(r, W, D) ==
  \/ Handed(r.ev) = <<>>
  \/ /\ r.c.state = "Connected" /\ Len(D) + 1 <= Len(W)
     /\ D \o Handed(r.ev) = SubSeq(W, 1, Len(D) + 1)

\* The receiver takes in the fragment it expects: it is the next one of the
\* frame it is putting together, and the last one of a frame completes it.
LEMMA ReceiverTakes ==
  ASSUME NEW F, NEW B, NEW a, NEW c, NEW d, NEW W, NEW D, NEW forth, NEW back,
         Flow(F, B, a, c, d, W, D, forth, back), forth # <<>>,
         NEW m, m = Head(forth), Fresh(d, m),
         NEW r, r.c \in Circuits, Taken(d, r, m),
         NEW G, NEW lo, NEW hi, Emits(r.out, G, lo, hi, r.c.vr),
         NEW rest \in {forth, Tail(forth)}
  PROVE  /\ Flow(F, B, a, c, r.c, W, D \o Handed(r.ev), rest, back \o r.out)
         /\ Hands(r, W, D)
<1>1. PICK e, o, vs, vr : e = r.c /\ o = r.out /\ vs = c.vs /\ vr = d.vr
  OBVIOUS
<1>2. /\ a \in Nat /\ vr \in Nat /\ vs \in Nat /\ a <= vr /\ vr <= vs /\ vs <= Len(F)
      /\ vs <= a + MaxWindow
      /\ back \in Seq(Datagrams) /\ Acknowledged(back, a, vr)
      /\ forth \in Seq(Datagrams) /\ Carried(forth, F, vs, vr)
  BY <1>1 DEF Flow, SendSide, Circuits
<1>3. /\ d.state = "Connected" /\ m.op = "Information" /\ m.tx = Wire(vr)
      /\ e.vr = vr + 1 /\ e \in Circuits
  BY <1>1 DEF Fresh, Taken
<1>4. vs <= vr + MaxWindow
  BY <1>2, HorizonType
<1>5. vr < vs /\ Carries(m, F, vr) /\ Carried(forth, F, vs, vr + 1)
  BY <1>2, <1>3, <1>4, CarriedArrives
<1>6. /\ rest \in Seq(Datagrams) /\ Carried(rest, F, vs, e.vr)
  <2>1. Tail(forth) \in Seq(Datagrams) /\ Carried(Tail(forth), F, vs, vr + 1)
    BY <1>2, <1>5, CarriedTail, HeadTailProperties
  <2> QED BY <1>2, <1>3, <1>5, <2>1
<1>7. Emits(o, G, lo, hi, e.vr) /\ o \in Seq(Datagrams)
  BY <1>1 DEF Emits
<1>8. /\ back \o o \in Seq(Datagrams) /\ Acknowledged(back \o o, a, e.vr)
  <2>1. e.vr \in Nat /\ vr <= e.vr /\ a <= e.vr
    BY <1>2, <1>3
  <2> QED BY <1>2, <1>7, <2>1, AcknowledgedAppend, ConcatProperties
<1>9. /\ Boundaries(B, W, F) /\ Progress(d, D, W, B) /\ SendSide(c, F, a)
  BY DEF Flow
<1>10. PICK k, z : k = Len(D) /\ z = Len(W)
  OBVIOUS
<1>11. /\ D \in Seq(Messages) /\ W \in Seq(Messages) /\ k \in Nat /\ z \in Nat
       /\ k <= z /\ \A i \in 1 .. k : D[i] = W[i]
  BY <1>9, <1>10, LenProperties DEF Progress, Boundaries
<1>12. B[k] \in Nat /\ B[k] <= vr /\ B[z] = Len(F)
  BY <1>1, <1>3, <1>9, <1>10, <1>11 DEF Progress, Boundaries
<1>13. k < z
  <2>1. vr < B[z]
    BY <1>2, <1>5, <1>12, LenProperties, <1>9 DEF Boundaries
  <2> QED BY <1>2, <1>11, <1>12, <2>1
<1>14. /\ vr < B[k + 1] /\ d.reassembly = SubSeq(W[k + 1], 1, (vr - B[k]) * FragmentSize)
  BY <1>1, <1>3, <1>9, <1>10, <1>13 DEF Progress
<1>15. k + 1 \in 1 .. z /\ k \in 0 .. z /\ k + 1 \in 0 .. z /\ (k + 1) - 1 = k
  BY <1>11, <1>13
<1>16. PICK w, j, b, n, t : /\ w = W[k + 1] /\ j = vr - B[k] /\ b = B[k]
                            /\ n = Count(w) /\ t = B[k + 1]
  OBVIOUS
<1>17. w \in Messages /\ w \in Seq(Unit)
  BY <1>10, <1>11, <1>15, <1>16, ElementOfSeq DEF Messages
<1>18. n \in Nat
  BY <1>16, <1>17, CountProperties
<1>19. /\ t = b + n
       /\ \A i \in 1 .. Count(w) : F[b + i] = Fragments(w)[i]
  BY <1>9, <1>10, <1>15, <1>16 DEF Boundaries
<1>20. /\ j \in 0 .. n - 1 /\ b + (j + 1) = vr + 1 /\ j + 1 \in 1 .. n
       /\ b \in Nat /\ (vr + 1) - b = j + 1 /\ b <= vr + 1
  <2>1. b \in Nat /\ b <= vr /\ vr < t /\ j = vr - b
    BY <1>12, <1>14, <1>16
  <2>2. t = b + n /\ n \in Nat /\ vr \in Nat
    BY <1>2, <1>18, <1>19
  <2>3. j \in Nat /\ vr = b + j /\ j < n
    BY <2>1, <2>2
  <2> QED BY <2>1, <2>2, <2>3
<1>21. PICK p : p = Fragments(w)[j + 1]
  OBVIOUS
<1>22. /\ m.bytes = p.bytes /\ m.more = p.more
  <2>1. F[vr + 1] = p
    BY <1>16, <1>19, <1>20, <1>21
  <2> QED BY <1>5, <2>1 DEF Carries
<1>23. /\ p.more <=> j + 1 < n
       /\ p.more => d.reassembly \o p.bytes = SubSeq(w, 1, (j + 1) * FragmentSize)
       /\ ~p.more => d.reassembly \o p.bytes = w
  <2>1. d.reassembly = SubSeq(w, 1, j * FragmentSize)
    BY <1>14, <1>16
  <2>2. j \in 0 .. Count(w) - 1
    BY <1>16, <1>20
  <2>3. /\ p.more <=> j + 1 < Count(w)
        /\ p.more => SubSeq(w, 1, j * FragmentSize) \o p.bytes
                      = SubSeq(w, 1, (j + 1) * FragmentSize)
        /\ ~p.more => SubSeq(w, 1, j * FragmentSize) \o p.bytes = w
    BY <1>17, <1>21, <2>2, NextPiece
  <2> QED BY <1>16, <2>1, <2>3
<1>24. ASSUME NEW E, Progress(e, E, W, B)
       PROVE  Flow(F, B, a, c, e, W, E, rest, back \o o)
  <2>1. a <= e.vr /\ e.vr <= vs
    BY <1>2, <1>3, <1>5
  <2> QED BY <1>1, <1>3, <1>6, <1>8, <1>9, <1>24, <2>1, Zenon DEF Flow
<1>25. ASSUME e.state = "Connected" => /\ vr + 1 < t
                                      /\ e.reassembly = SubSeq(w, 1, (j + 1) * FragmentSize)
       PROVE  Progress(e, D, W, B)
  <2>1. e.state = "Connected" =>
          /\ B[k] <= e.vr /\ e.vr < B[k + 1]
          /\ e.reassembly = SubSeq(W[k + 1], 1, (e.vr - B[k]) * FragmentSize)
    <3> QED BY <1>3, <1>16, <1>20, <1>25
  <2> QED BY <1>10, <1>11, <1>13, <2>1 DEF Progress
<1>26. CASE e.state # "Connected"
  <2>1. Handed(r.ev) = <<>>
    BY <1>1, <1>26, SilentHandsNothing DEF Taken
  <2>2. Progress(e, D, W, B)
    BY <1>25, <1>26
  <2>3. D \o <<>> = D
    BY <1>11, ConcatEmptySeq
  <2> QED BY <1>1, <1>24, <2>1, <2>2, <2>3 DEF Hands
<1>27. CASE e.state = "Connected" /\ p.more
  <2>1. Silent(r.ev) /\ e.reassembly = d.reassembly \o m.bytes
    BY <1>1, <1>22, <1>27 DEF Taken
  <2>2. Handed(r.ev) = <<>>
    BY <2>1, SilentHandsNothing
  <2>3. e.reassembly = SubSeq(w, 1, (j + 1) * FragmentSize)
    BY <1>22, <1>23, <1>27, <2>1
  <2>6. vr + 1 < t
    <3>1. j + 1 < n
      BY <1>23, <1>27
    <3> QED BY <1>18, <1>19, <1>20, <3>1
  <2>4. Progress(e, D, W, B)
    BY <1>25, <2>3, <2>6
  <2>5. D \o <<>> = D
    BY <1>11, ConcatEmptySeq
  <2> QED BY <1>1, <1>24, <2>2, <2>4, <2>5 DEF Hands
<1>28. CASE e.state = "Connected" /\ ~p.more
  <2>1. d.reassembly \o m.bytes = w /\ w # <<>>
    BY <1>17, <1>22, <1>23, <1>28 DEF Messages
  <2>2. e.reassembly = <<>> /\ Handed(r.ev) = <<w>>
    BY <1>1, <1>22, <1>28, <2>1 DEF Taken
  <2>3. PICK E : E = D \o <<w>>
    OBVIOUS
  <2>4. /\ E \in Seq(Messages) /\ Len(E) = k + 1 /\ E[k + 1] = w
        /\ \A i \in 1 .. k : E[i] = D[i]
    BY <1>10, <1>11, <1>17, <2>3, AppendIsConcat, AppendProperties
  <2>5. \A i \in 1 .. k + 1 : E[i] = W[i]
    BY <1>11, <1>16, <2>4
  <2>6. vr + 1 = t
    <3>1. ~ (j + 1 < n)
      BY <1>23, <1>28
    <3> QED BY <1>18, <1>19, <1>20, <3>1
  <2>7. k + 1 < z =>
          /\ e.vr < B[(k + 1) + 1]
          /\ e.reassembly = SubSeq(W[(k + 1) + 1], 1, (e.vr - t) * FragmentSize)
    <3>1. HAVE k + 1 < z
    <3>2. PICK h : h = (k + 1) + 1
      OBVIOUS
    <3>3. h \in 1 .. z /\ h - 1 = k + 1
      BY <1>11, <3>1, <3>2
    <3>4. W[h] \in Messages /\ W[h] \in Seq(Unit)
      BY <1>10, <1>11, <3>3, ElementOfSeq DEF Messages
    <3>5. Count(W[h]) \in Nat /\ Count(W[h]) >= 1
      BY <3>4, CountProperties DEF Messages
    <3>6. B[h] = t + Count(W[h])
      BY <1>9, <1>10, <1>16, <3>3 DEF Boundaries
    <3>7. e.vr < B[h]
      BY <1>2, <1>3, <2>6, <3>5, <3>6
    <3>8. (e.vr - t) * FragmentSize = 0
      BY <1>2, <1>3, <2>6, CircuitAssumption
    <3>9. SubSeq(W[h], 1, 0) = <<>>
      BY SubSeqEmpty
    <3> QED BY <2>2, <3>2, <3>7, <3>8, <3>9
  <2>8. Progress(e, E, W, B)
    <3>1. B[k + 1] <= e.vr
      BY <1>2, <1>3, <1>16, <2>6
    <3>2. k + 1 <= z
      BY <1>11, <1>13
    <3> QED BY <1>10, <1>16, <2>2, <2>4, <2>5, <2>7, <3>1, <3>2 DEF Progress
  <2>9. E = SubSeq(W, 1, k + 1)
    <3>1. PICK T : T = SubSeq(W, 1, k + 1)
      OBVIOUS
    <3>2. T \in Seq(Messages) /\ Len(T) = k + 1 /\ \A i \in 1 .. k + 1 : T[i] = W[i]
      BY <1>10, <1>11, <1>13, <3>1, SubSeqProperties
    <3> QED BY <2>4, <2>5, <3>1, <3>2, SeqEqual
  <2>10. Flow(F, B, a, c, e, W, E, rest, back \o o)
    BY <1>24, <2>8
  <2> QED BY <1>1, <1>10, <1>13, <1>11, <1>28, <2>2, <2>3, <2>9, <2>10 DEF Hands
<1> QED BY <1>26, <1>27, <1>28
-----------------------------------------------------------------------------
(***************************************************************************)
(* Both directions of the pair, seen from the end whose circuit is c: it   *)
(* wrote W and was handed E, its peer d wrote V and was handed D, and the  *)
(* datagrams `forth' and `back' are on their way to d and to c.            *)
(***************************************************************************)
Flows(c, d, W, D, forth, back) ==
  \E F, B, a : Flow(F, B, a, c, d, W, D, forth, back)

Both(c, d, W, D, V, E, forth, back) ==
  Flows(c, d, W, D, forth, back) /\ Flows(d, c, V, E, back, forth)

\* A circuit that is not up never comes up again.
Kept(c, r, V, E) ==
  (r.c.state = "Connected" => c.state = "Connected") /\ Hands(r, V, E)

LEMMA FlowShape ==
  ASSUME NEW F, NEW B, NEW a, NEW c, NEW d, NEW W, NEW D, NEW forth, NEW back,
         Flow(F, B, a, c, d, W, D, forth, back)
  PROVE  /\ c \in Circuits /\ d \in Circuits /\ a \in Nat /\ a <= d.vr /\ d.vr <= c.vs
         /\ W \in Seq(Messages) /\ D \in Seq(Messages)
         /\ forth \in Seq(Datagrams) /\ back \in Seq(Datagrams)
         /\ SendSide(c, F, a) /\ Carried(forth, F, c.vs, d.vr)
         /\ Acknowledged(back, a, d.vr)
         /\ c.vs \in Nat /\ c.vr \in Nat /\ d.vr \in Nat /\ d.vs \in Nat
<1>1. c \in Circuits /\ d \in Circuits
  BY DEF Flow, SendSide
<1>2. c.vs \in Nat /\ c.vr \in Nat /\ d.vr \in Nat /\ d.vs \in Nat
  BY <1>1 DEF Circuits
<1> QED BY <1>1, <1>2 DEF Flow, SendSide, Boundaries, Progress

\* What a call by the end c does, one that took in the datagram that arrived,
\* or that took nothing in.
LEMMA CallBoth ==
  ASSUME NEW F, NEW B, NEW a, NEW c, NEW d, NEW W, NEW D, NEW forth, NEW back,
         Flow(F, B, a, c, d, W, D, forth, back),
         NEW V, NEW E, Flows(d, c, V, E, back, forth),
         NEW x \in Nat, x <= d.vr, Acknowledged(back, x, d.vr),
         NEW r, Step(c, r, F, x),
         NEW rest, rest = back \/ (back # <<>> /\ rest = Tail(back)),
         \/ Still(c, r)
         \/ back # <<>> /\ Fresh(c, Head(back)) /\ Taken(c, r, Head(back))
  PROVE  /\ Both(r.c, d, W, D, V, E \o Handed(r.ev), forth \o r.out, rest)
         /\ Kept(c, r, V, E)
<1>1. PICK G, C, b : Flow(G, C, b, d, c, V, E, back, forth)
  BY DEF Flows
<1>2. /\ back \in Seq(Datagrams) /\ Carried(back, G, d.vs, c.vr) /\ E \in Seq(Messages)
  BY <1>1, FlowShape
<1>3. /\ rest \in Seq(Datagrams) /\ Carried(rest, G, d.vs, c.vr)
      /\ Acknowledged(rest, x, d.vr)
  <2>1. ASSUME back # <<>>
        PROVE  /\ Tail(back) \in Seq(Datagrams) /\ Carried(Tail(back), G, d.vs, c.vr)
               /\ Acknowledged(Tail(back), x, d.vr)
    BY <1>2, <2>1, CarriedTail, AcknowledgedTail, HeadTailProperties
  <2> QED BY <1>2, <2>1
<1>4. Flow(F, B, x, r.c, d, W, D, forth \o r.out, rest)
  BY <1>3, SenderCalls
<1>5. r.c \in Circuits /\ Emits(r.out, F, x, r.c.vs, r.c.vr)
  BY DEF Step, SendSide
<1>6. PICK T : T = E \o Handed(r.ev)
  OBVIOUS
<1>7. Flow(G, C, b, d, r.c, V, T, rest, forth \o r.out) /\ Kept(c, r, V, E)
  <2>1. CASE Still(c, r)
    <3>1. /\ Handed(r.ev) = <<>>
          /\ Flow(G, C, b, d, r.c, V, E, rest, forth \o r.out)
      BY <1>1, <1>3, <1>5, <2>1, ReceiverStill
    <3>2. T = E
      BY <1>2, <1>6, <3>1, ConcatEmptySeq
    <3>3. Kept(c, r, V, E)
      BY <2>1, <3>1 DEF Kept, Hands, Still
    <3> QED BY <3>1, <3>2, <3>3
  <2>2. CASE back # <<>> /\ Fresh(c, Head(back)) /\ Taken(c, r, Head(back))
    <3>1. rest \in {back, Tail(back)}
      OBVIOUS
    <3>2. PICK m : m = Head(back)
      OBVIOUS
    <3>3. back # <<>> /\ Fresh(c, m) /\ Taken(c, r, m)
      BY <2>2, <3>2
    <3>4. /\ Flow(G, C, b, d, r.c, V, E \o Handed(r.ev), rest, forth \o r.out)
          /\ Hands(r, V, E)
      <4>2. r.c \in Circuits /\ Emits(r.out, F, x, r.c.vs, r.c.vr)
        BY <1>5
      <4> QED BY <1>1, <3>1, <3>2, <3>3, <4>2, ReceiverTakes
    <3>5. c.state = "Connected"
      BY <3>3 DEF Fresh
    <3> QED BY <1>6, <3>4, <3>5 DEF Kept
  <2> QED BY <2>1, <2>2
<1>8. Flows(r.c, d, W, D, forth \o r.out, rest)
  BY <1>4 DEF Flows
<1>9. Flows(d, r.c, V, T, rest, forth \o r.out)
  BY <1>7 DEF Flows
<1> QED BY <1>6, <1>7, <1>8, <1>9 DEF Both

\* A call that no datagram caused: a timer, a disconnect, a drained backlog.
LEMMA QuietBoth ==
  ASSUME NEW c, NEW d, NEW W, NEW D, NEW V, NEW E, NEW forth, NEW back,
         Both(c, d, W, D, V, E, forth, back), NEW r,
         \A F, a : SendSide(c, F, a) => Step(c, r, F, a) /\ Still(c, r)
  PROVE  /\ Both(r.c, d, W, D, V, E \o Handed(r.ev), forth \o r.out, back)
         /\ Kept(c, r, V, E)
<1>1. PICK F, B, a : Flow(F, B, a, c, d, W, D, forth, back)
  BY DEF Both, Flows
<1>2. Flows(d, c, V, E, back, forth)
  BY DEF Both
<1>3. a \in Nat /\ a <= d.vr /\ Acknowledged(back, a, d.vr) /\ SendSide(c, F, a)
  BY <1>1, FlowShape
<1>4. Step(c, r, F, a) /\ Still(c, r)
  BY <1>3
<1> QED BY <1>1, <1>2, <1>3, <1>4, CallBoth

\* The datagram that arrived is handed to the circuit.
LEMMA PacketBoth ==
  ASSUME NEW c, NEW d, NEW W, NEW D, NEW V, NEW E, NEW forth, NEW back,
         Both(c, d, W, D, V, E, forth, back), back # <<>>,
         NEW r, r = OnPacket(c, Head(back)),
         NEW rest \in {back, Tail(back)}
  PROVE  /\ Both(r.c, d, W, D, V, E \o Handed(r.ev), forth \o r.out, rest)
         /\ Kept(c, r, V, E)
<1>1. PICK F, B, a : Flow(F, B, a, c, d, W, D, forth, back)
  BY DEF Both, Flows
<1>2. Flows(d, c, V, E, back, forth)
  BY DEF Both
<1>3. /\ a \in Nat /\ a <= d.vr /\ d.vr <= c.vs /\ c.vs \in Nat /\ d.vr \in Nat
      /\ Acknowledged(back, a, d.vr) /\ SendSide(c, F, a) /\ back \in Seq(Datagrams)
  BY <1>1, FlowShape
<1>4. PICK m : m = Head(back)
  OBVIOUS
<1>5. m \in Datagrams
  BY <1>3, <1>4, HeadTailProperties
<1>6. \E x \in a .. d.vr : /\ IF Acknowledges(m) THEN m.rx = Wire(x) ELSE x = a
                           /\ Acknowledged(back, x, d.vr)
  <2>1. CASE Acknowledges(m)
    BY <1>3, <1>4, <2>1, AcknowledgementArrives
  <2>2. CASE ~ Acknowledges(m)
    BY <1>3, <2>2
  <2> QED BY <2>1, <2>2
<1>7. PICK x \in a .. d.vr : /\ IF Acknowledges(m) THEN m.rx = Wire(x) ELSE x = a
                             /\ Acknowledged(back, x, d.vr)
  BY <1>6
<1>8. x \in a .. c.vs /\ x \in Nat /\ x <= d.vr
  BY <1>3, <1>7
<1>9. r = OnPacket(c, m)
  BY <1>4
<1>10. /\ Step(c, r, F, x)
       /\ Fresh(c, m) => Taken(c, r, m)
       /\ ~ Fresh(c, m) => Still(c, r)
  BY <1>3, <1>5, <1>7, <1>8, <1>9, PacketStep
<1>11. rest = back \/ (back # <<>> /\ rest = Tail(back))
  OBVIOUS
<1>12. \/ Still(c, r)
       \/ back # <<>> /\ Fresh(c, Head(back)) /\ Taken(c, r, Head(back))
  BY <1>4, <1>10
<1> QED BY <1>1, <1>2, <1>7, <1>8, <1>10, <1>11, <1>12, CallBoth

\* A datagram for a circuit its node does not know.
Courtesy(m) ==
  IF m.op = "DisconnectRequest"
  THEN <<[op |-> "DisconnectAcknowledge", key |-> m.key]>>
  ELSE <<>>

LEMMA StrangerBoth ==
  ASSUME NEW c, NEW d, NEW W, NEW D, NEW V, NEW E, NEW forth, NEW back,
         Both(c, d, W, D, V, E, forth, back), back # <<>>,
         NEW r, r.c = c, r.ev = <<>>,
         NEW m, m = Head(back),
         r.out = Courtesy(m),
         NEW rest \in {back, Tail(back)}
  PROVE  /\ Both(r.c, d, W, D, V, E \o Handed(r.ev), forth \o r.out, rest)
         /\ Kept(c, r, V, E)
<1>1. PICK F, B, a : Flow(F, B, a, c, d, W, D, forth, back)
  BY DEF Both, Flows
<1>2. Flows(d, c, V, E, back, forth)
  BY DEF Both
<1>3. /\ a \in Nat /\ a <= d.vr /\ c \in Circuits /\ c.vs \in Nat
      /\ Acknowledged(back, a, d.vr) /\ SendSide(c, F, a) /\ back \in Seq(Datagrams)
  BY <1>1, FlowShape
<1>4. m \in Datagrams
  BY <1>3, HeadTailProperties
<1>5. Emits(r.out, F, a, c.vs, c.vr)
  <2>1. CASE m.op = "DisconnectRequest"
    <3>1. m.key \in Nat
      BY <1>4, <2>1 DEF Datagrams
    <3> QED BY <2>1, <3>1, DisconnectEmitted DEF Courtesy
  <2>2. CASE m.op # "DisconnectRequest"
    BY <2>2, EmitsNothing DEF Courtesy
  <2> QED BY <2>1, <2>2
<1>6. r.ev \in Seq(Events) /\ Silent(r.ev)
  BY SilentNothing, EmptySeq DEF Silent
<1>7. Step(c, r, F, a) /\ Still(c, r)
  BY <1>3, <1>5, <1>6 DEF Step, Still
<1>8. rest = back \/ (back # <<>> /\ rest = Tail(back))
  OBVIOUS
<1> QED BY <1>1, <1>2, <1>3, <1>7, <1>8, CallBoth

\* The application writes w.
LEMMA WriteBoth ==
  ASSUME NEW c, NEW d, NEW W, NEW D, NEW V, NEW E, NEW forth, NEW back,
         Both(c, d, W, D, V, E, forth, back), c.state = "Connected",
         NEW w \in Messages, NEW r, r = Send(c, w)
  PROVE  /\ Both(r.c, d, Append(W, w), D, V, E \o Handed(r.ev), forth \o r.out, back)
         /\ Handed(r.ev) = <<>> /\ r.c.state = "Connected"
<1>1. PICK F, B, a : Flow(F, B, a, c, d, W, D, forth, back)
  BY DEF Both, Flows
<1>2. PICK H, C, b : Flow(H, C, b, d, c, V, E, back, forth)
  BY DEF Both, Flows
<1>3. PICK G : G = Fragments(w)
  OBVIOUS
<1>4. G \in Seq(Fragment) /\ w # <<>>
  BY <1>3, FragmentsShape DEF Messages
<1>5. SendSide(c, F, a)
  BY <1>1, FlowShape
<1>6. /\ Step(c, r, F \o G, a) /\ Still(c, r)
      /\ r.c.state = "Connected" /\ r.ev = <<>>
  BY <1>3, <1>4, <1>5, SendStep
<1>7. PICK X : X = Append(W, w)
  OBVIOUS
<1>8. Flows(r.c, d, X, D, forth \o r.out, back)
  BY <1>1, <1>3, <1>6, <1>7, SenderWrites DEF Flows
<1>9. PICK J : J = F \o G
  OBVIOUS
<1>10. Step(c, r, J, a)
  BY <1>6, <1>9
<1>11. r.c \in Circuits /\ Emits(r.out, J, a, r.c.vs, r.c.vr)
  BY <1>10 DEF Step, SendSide
<1>12. back \in Seq(Datagrams) /\ Carried(back, H, d.vs, c.vr) /\ E \in Seq(Messages)
  BY <1>2, FlowShape
<1>13. /\ Handed(r.ev) = <<>>
       /\ Flow(H, C, b, d, r.c, V, E, back, forth \o r.out)
  BY <1>2, <1>6, <1>11, <1>12, ReceiverStill
<1>14. E \o Handed(r.ev) = E
  BY <1>12, <1>13, ConcatEmptySeq
<1>15. Flows(d, r.c, V, E, back, forth \o r.out)
  BY <1>13 DEF Flows
<1> QED BY <1>6, <1>7, <1>8, <1>13, <1>14, <1>15 DEF Both

\* The datagram next to arrive at c is lost.
LEMMA LossBoth ==
  ASSUME NEW c, NEW d, NEW W, NEW D, NEW V, NEW E, NEW forth, NEW back,
         Both(c, d, W, D, V, E, forth, back), back # <<>>
  PROVE  Both(c, d, W, D, V, E, forth, Tail(back))
<1>1. PICK F, B, a : Flow(F, B, a, c, d, W, D, forth, back)
  BY DEF Both, Flows
<1>2. PICK H, C, b : Flow(H, C, b, d, c, V, E, back, forth)
  BY DEF Both, Flows
<1>3. /\ back \in Seq(Datagrams) /\ Acknowledged(back, a, d.vr)
      /\ Carried(back, H, d.vs, c.vr)
  BY <1>1, <1>2, FlowShape
<1>4. PICK t : t = Tail(back)
  OBVIOUS
<1>5. t \in Seq(Datagrams) /\ Acknowledged(t, a, d.vr) /\ Carried(t, H, d.vs, c.vr)
  BY <1>3, <1>4, CarriedTail, AcknowledgedTail, HeadTailProperties
<1>6. Flow(F, B, a, c, d, W, D, forth, t)
  BY <1>1, <1>5 DEF Flow
<1>7. Flow(H, C, b, d, c, V, E, t, forth)
  BY <1>2, <1>5 DEF Flow
<1> QED BY <1>4, <1>6, <1>7 DEF Both, Flows
-----------------------------------------------------------------------------
(***************************************************************************)
(* Where the handshake leaves the two ends.                                *)
(***************************************************************************)
LEMMA ClampBounds ==
  ASSUME NEW w \in Nat
  PROVE  Clamp(w) \in 1 .. MaxWindow
BY HorizonType DEF Clamp, Least

\* An end that is up and has sent and received nothing.
Unused(c) ==
  /\ c \in Circuits /\ c.state = "Connected" /\ c.window <= MaxWindow
  /\ c.vs = 0 /\ c.vr = 0 /\ c.sendQueue = <<>> /\ c.unacked = {}
  /\ c.reassembly = <<>>

LEMMA UnusedSide ==
  ASSUME NEW c, Unused(c)
  PROVE  SendSide(c, <<>>, 0)
<1>1. /\ c \in Circuits /\ <<>> \in Seq(Fragment) /\ 0 \in Nat
      /\ 0 <= c.vs /\ c.vs <= Len(<<>>) /\ c.vs <= 0 + MaxWindow
  BY HorizonType, EmptySeq DEF Unused
<1>2. Len(c.sendQueue) = Len(<<>>) - c.vs
  BY EmptySeq DEF Unused
<1>3. \A i \in 1 .. Len(c.sendQueue) : c.sendQueue[i] = <<>>[c.vs + i]
  BY EmptySeq DEF Unused
<1>4. Window(c.unacked, <<>>, 0, c.vs)
  BY DEF Unused, Window
<1> QED BY <1>1, <1>2, <1>3, <1>4 DEF SendSide, Unused

LEMMA FlowStarts ==
  ASSUME NEW c, NEW d, SendSide(c, <<>>, 0), c.vs = 0,
         d \in Circuits, d.vr = 0, d.reassembly = <<>>
  PROVE  Flows(c, d, <<>>, <<>>, <<>>, <<>>)
<1>1. PICK B : B = [k \in 0 .. 0 |-> 0]
  OBVIOUS
<1>2. /\ <<>> \in Seq(Messages) /\ <<>> \in Seq(Fragment) /\ <<>> \in Seq(Datagrams)
      /\ Len(<<>>) = 0
  BY EmptySeq
<1>3. Boundaries(B, <<>>, <<>>)
  BY <1>1, <1>2 DEF Boundaries
<1>4. Progress(d, <<>>, <<>>, B)
  BY <1>1, <1>2 DEF Progress
<1>5. Carried(<<>>, <<>>, c.vs, d.vr)
  <2>1. CarriesAt(<<>>, [i \in 1 .. 0 |-> 0], <<>>, c.vs, d.vr)
    BY <1>2 DEF CarriesAt
  <2> QED BY <2>1 DEF Carried
<1>6. Acknowledged(<<>>, 0, d.vr)
  <2>1. AcknowledgesAt(<<>>, [i \in 1 .. 0 |-> 0], 0, d.vr)
    BY <1>2 DEF AcknowledgesAt
  <2> QED BY <2>1 DEF Acknowledged
<1>7. Flow(<<>>, B, 0, c, d, <<>>, <<>>, <<>>, <<>>)
  <2>1. 0 <= d.vr /\ d.vr <= c.vs
    OBVIOUS
  <2> QED BY <1>2, <1>3, <1>4, <1>5, <1>6, <2>1, Zenon DEF Flow
<1> QED BY <1>7 DEF Flows

LEMMA HandshakeA ==
  ASSUME NEW key \in Nat, NEW c, c = Handshake(key)["A"]
  PROVE  /\ SendSide(c, <<>>, 0) /\ c.vs = 0 /\ c.vr = 0 /\ c.reassembly = <<>>
         /\ c.state = "Connected"
<1> DEFINE asked == Connect(NewCircuit(0))
           taken == AcceptInbound(NewCircuit(key), asked.out[1].from, asked.out[1].window)
<1>1. c = OnConnectAcknowledge(asked.c, taken.out[1]).c
  BY DEF Handshake, Ends
<1>2. PICK n : n = NewCircuit(0)
  OBVIOUS
<1>3. PICK d : d = [n EXCEPT !.state = "Connecting", !.controlRetries = 0,
                             !.controlArmed = TRUE]
  OBVIOUS
<1>4. asked.c = d /\ asked.out[1] = ConnectRequest(n)
  BY <1>2, <1>3 DEF Connect, NewCircuit, Result
<1>5. PICK m : m = taken.out[1]
  OBVIOUS
<1>6. m.op = "ConnectAcknowledge" /\ m.from = key /\ m.choke = FALSE
      /\ m.window \in 1 .. MaxWindow
  <2>1. asked.out[1].from = 0 /\ asked.out[1].window = Clamp(WindowSize)
    BY <1>2, <1>4 DEF ConnectRequest, NewCircuit
  <2>2. PICK f, w : f = asked.out[1].from /\ w = asked.out[1].window
    OBVIOUS
  <2>3. w \in Nat
    BY <2>1, <2>2, ClampBounds, CircuitAssumption
  <2>4. PICK v : v = Least(IF w = 0 THEN WindowSize ELSE w, WindowSize)
    OBVIOUS
  <2>5. v \in Nat
    BY <2>3, <2>4, CircuitAssumption DEF Least
  <2>6. PICK u : u = [NewCircuit(key) EXCEPT !.remote = f, !.state = "Connected",
                                             !.window = Clamp(v)]
    OBVIOUS
  <2>7. PICK o, g : o = taken.out /\ g = ConnectAcknowledge(u, FALSE)
    OBVIOUS
  <2>8. m = g
    <3>1. taken.out = <<ConnectAcknowledge(u, FALSE)>>
      BY <2>2, <2>4, <2>6 DEF AcceptInbound, Result
    <3>2. m = o[1] /\ o = <<g>>
      BY ONLY <1>5, <2>7, <3>1, Zenon
    <3> QED BY <3>2
  <2>9. u.local = key /\ u.window = Clamp(v)
    BY <2>6 DEF NewCircuit
  <2> QED BY <2>5, <2>7, <2>8, <2>9, ClampBounds DEF ConnectAcknowledge
<1> HIDE DEF taken, asked
<1>7. PICK x : x = IF m.window \in 1 .. MaxWindow THEN Least(WindowSize, m.window)
                   ELSE WindowSize
  OBVIOUS
<1>8. x \in Nat /\ x <= MaxWindow
  BY <1>6, <1>7, CircuitAssumption, HorizonType DEF Least
<1>9. PICK u : u = [d EXCEPT !.remote = key, !.controlArmed = FALSE,
                             !.state = "Connected", !.window = x]
  OBVIOUS
<1>10. c = Pump(u).c
  <2>1. d.state = "Connecting" /\ d.window = WindowSize
    BY <1>2, <1>3 DEF NewCircuit
  <2>2. PICK h : h = [d EXCEPT !.remote = m.from, !.controlArmed = FALSE]
    OBVIOUS
  <2>3. h.window = WindowSize
    BY <1>2, <1>3, <2>2 DEF NewCircuit
  <2>4. u = [h EXCEPT !.state = "Connected",
                      !.window = IF m.window \in 1 .. MaxWindow
                                 THEN Least(@, m.window) ELSE @]
    BY <1>2, <1>3, <1>6, <1>7, <1>9, <2>2, <2>3 DEF NewCircuit
  <2>5. c = OnConnectAcknowledge(d, m).c
    BY <1>1, <1>4, <1>5
  <2>6. OnConnectAcknowledge(d, m)
          = Then(Result(u, <<>>, <<[type |-> "Connected"]>>), Pump(u))
    <3> DEFINE heard == [d EXCEPT !.remote = m.from, !.controlArmed = FALSE]
               up == [heard EXCEPT !.state = "Connected",
                                   !.window = IF m.window \in 1 .. MaxWindow
                                              THEN Least(@, m.window) ELSE @]
    <3>1. d.state = "Connecting" /\ ~ m.choke
      BY <1>6, <2>1
    <3>2. OnConnectAcknowledge(d, m)
            = Then(Result(up, <<>>, <<[type |-> "Connected"]>>), Pump(up))
      BY <3>1 DEF OnConnectAcknowledge
    <3>3. u = up
      BY <2>2, <2>4
    <3> HIDE DEF up, heard
    <3> QED BY <3>2, <3>3
  <2> QED BY <2>5, <2>6 DEF Then, Result
<1>11. Unused(u)
  BY <1>2, <1>3, <1>8, <1>9, CircuitAssumption, EmptySeq
     DEF Unused, Circuits, NewCircuit
<1>12. SendSide(u, <<>>, 0)
  BY <1>11, UnusedSide
<1>13. Step(u, Pump(u), <<>>, 0) /\ Still(u, Pump(u)) /\ Pump(u).c.state = u.state
  BY <1>12, PumpStep
<1>14. SendSide(c, <<>>, 0) /\ c.vr = 0 /\ c.reassembly = <<>> /\ c.state = "Connected"
  BY <1>10, <1>11, <1>13 DEF Step, Still, Unused
<1>15. c.vs = 0
  BY <1>14, EmptySeq DEF SendSide, Circuits
<1> QED BY <1>14, <1>15

LEMMA HandshakeB ==
  ASSUME NEW key \in Nat, NEW c, c = Handshake(key)["B"]
  PROVE  /\ SendSide(c, <<>>, 0) /\ c.vs = 0 /\ c.vr = 0 /\ c.reassembly = <<>>
         /\ c.state = "Connected"
<1> DEFINE asked == Connect(NewCircuit(0))
<1>1. c = AcceptInbound(NewCircuit(key), asked.out[1].from, asked.out[1].window).c
  BY DEF Handshake, Ends
<1>2. asked.out[1].from = 0 /\ asked.out[1].window = Clamp(WindowSize)
  BY DEF Connect, NewCircuit, Result, ConnectRequest
<1>3. PICK f, w : f = asked.out[1].from /\ w = asked.out[1].window
  OBVIOUS
<1>4. w \in Nat /\ f = 0
  BY <1>2, <1>3, ClampBounds, CircuitAssumption
<1> HIDE DEF asked
<1>5. PICK v : v = Least(IF w = 0 THEN WindowSize ELSE w, WindowSize)
  OBVIOUS
<1>6. v \in Nat
  BY <1>4, <1>5, CircuitAssumption DEF Least
<1>7. PICK x : x = Clamp(v)
  OBVIOUS
<1>8. x \in Nat /\ x <= MaxWindow
  BY <1>6, <1>7, ClampBounds
<1>9. c = [NewCircuit(key) EXCEPT !.remote = f, !.state = "Connected", !.window = x]
  <2>1. AcceptInbound(NewCircuit(key), f, w).c
          = [NewCircuit(key) EXCEPT !.remote = f, !.state = "Connected",
               !.window = Clamp(Least(IF w = 0 THEN WindowSize ELSE w, WindowSize))]
    BY Zenon DEF AcceptInbound, Result
  <2>2. c = AcceptInbound(NewCircuit(key), f, w).c
    BY <1>1, <1>3, Zenon
  <2> QED BY <1>5, <1>7, <2>1, <2>2
<1>10. Unused(c)
  <2>1. PICK u : u = c
    OBVIOUS
  <2>2. u = [state |-> "Connected", local |-> key, remote |-> f,
             window |-> x, vs |-> 0, va |-> 0, vr |-> 0,
             sendQueue |-> <<>>, unacked |-> {}, reassembly |-> <<>>,
             peerChoked |-> FALSE, localChoked |-> FALSE, pending |-> 0,
             controlArmed |-> FALSE, controlRetries |-> 0]
    <3>1. PICK n : n = NewCircuit(key)
      OBVIOUS
    <3>2. u = [n EXCEPT !.remote = f, !.state = "Connected", !.window = x]
      BY <1>9, <2>1, <3>1
    <3>3. n = [state |-> "Disconnected", local |-> key, remote |-> 0,
               window |-> WindowSize, vs |-> 0, va |-> 0, vr |-> 0,
               sendQueue |-> <<>>, unacked |-> {}, reassembly |-> <<>>,
               peerChoked |-> FALSE, localChoked |-> FALSE, pending |-> 0,
               controlArmed |-> FALSE, controlRetries |-> 0]
      BY <3>1 DEF NewCircuit
    <3> QED BY ONLY <3>2, <3>3
  <2>3. Unused(u)
    BY <1>4, <1>8, <2>2, EmptySeq DEF Unused, Circuits
  <2> QED BY <2>1, <2>3
<1> QED BY <1>10, UnusedSide DEF Unused
-----------------------------------------------------------------------------
(***************************************************************************)
(* The invariant: both directions flow.  It needs a network that keeps the *)
(* order of the datagrams; they may be lost and duplicated at will, and    *)
(* timers may expire whenever they are armed.                              *)
(***************************************************************************)
InOrder == \A s \in Scenarios : s.overtakes = 0

Spends == [loss : Nat, duplicates : Nat, overtakes : Nat, hangups : Nat]

Shaped ==
  /\ scenario \in Scenarios /\ spent \in Spends
  /\ circuit \in [Ends -> Circuits] /\ net \in [Ends -> Seq(Datagrams)]
  /\ written \in [Ends -> Seq(Messages)] /\ delivered \in [Ends -> Seq(Messages)]

\* End e, its circuit now c, having written W and been handed E, with `forth'
\* on its way to its peer and `back' to it.
Around(e, c, W, E, forth, back) ==
  Both(c, circuit[Peer[e]], W, delivered[Peer[e]], written[Peer[e]], E, forth, back)

Streams ==
  /\ Shaped
  /\ \A e \in Ends : Around(e, circuit[e], written[e], delivered[e], net[Peer[e]], net[e])

LEMMA Peers ==
  ASSUME NEW e \in Ends
  PROVE  /\ Peer[e] \in Ends /\ Peer[e] # e /\ Peer[Peer[e]] = e
         /\ \A x \in Ends : x = e \/ x = Peer[e]
BY DEF Ends, Peer

LEMMA BothShape ==
  ASSUME NEW c, NEW d, NEW W, NEW D, NEW V, NEW E, NEW forth, NEW back,
         Both(c, d, W, D, V, E, forth, back)
  PROVE  /\ c \in Circuits /\ d \in Circuits /\ W \in Seq(Messages) /\ D \in Seq(Messages)
         /\ V \in Seq(Messages) /\ E \in Seq(Messages)
         /\ forth \in Seq(Datagrams) /\ back \in Seq(Datagrams)
         /\ Both(d, c, V, E, W, D, back, forth)
<1>1. PICK F, B, a : Flow(F, B, a, c, d, W, D, forth, back)
  BY DEF Both, Flows
<1>2. PICK H, C, b : Flow(H, C, b, d, c, V, E, back, forth)
  BY DEF Both, Flows
<1> QED BY <1>1, <1>2, FlowShape DEF Both

\* What a call of end e leaves, and what the service saw of it.
LEMMA FinishStreams ==
  ASSUME Streams, NEW e \in Ends, NEW r, NEW rest, NEW U,
         Finish(e, r, rest), written' = [written EXCEPT ![e] = U],
         UNCHANGED scenario, spent' \in Spends,
         Around(e, r.c, U, delivered[e] \o Handed(r.ev), net[Peer[e]] \o r.out, rest)
  PROVE  Streams'
<1>1. PICK p : p = Peer[e]
  OBVIOUS
<1>2. p \in Ends /\ p # e /\ Peer[p] = e /\ \A x \in Ends : x = e \/ x = p
  BY <1>1, Peers
<1>3. PICK T, forth : T = delivered[e] \o Handed(r.ev) /\ forth = net[p] \o r.out
  OBVIOUS
<1>4. /\ circuit \in [Ends -> Circuits] /\ net \in [Ends -> Seq(Datagrams)]
      /\ written \in [Ends -> Seq(Messages)] /\ delivered \in [Ends -> Seq(Messages)]
      /\ scenario \in Scenarios
  BY DEF Streams, Shaped
<1>5. Both(r.c, circuit[p], U, delivered[p], written[p], T, forth, rest)
  BY <1>1, <1>3 DEF Around
<1>6. /\ r.c \in Circuits /\ U \in Seq(Messages) /\ T \in Seq(Messages)
      /\ forth \in Seq(Datagrams) /\ rest \in Seq(Datagrams)
      /\ Both(circuit[p], r.c, written[p], T, U, delivered[p], rest, forth)
  BY <1>5, BothShape
<1>7. /\ circuit' = [circuit EXCEPT ![e] = r.c]
      /\ net' = [net EXCEPT ![e] = rest, ![p] = @ \o r.out]
      /\ delivered' = [delivered EXCEPT ![e] = T]
  <2>1. delivered' = [delivered EXCEPT ![e] = @ \o Handed(r.ev)]
    BY DEF Finish
  <2>2. delivered' = [delivered EXCEPT ![e] = T]
    BY <1>3, <2>1
  <2> QED BY <1>1, <2>2 DEF Finish
<1>8. /\ circuit'[e] = r.c /\ circuit'[p] = circuit[p]
      /\ net'[e] = rest /\ net'[p] = forth
      /\ delivered'[e] = T /\ delivered'[p] = delivered[p]
      /\ written'[e] = U /\ written'[p] = written[p]
  BY <1>2, <1>3, <1>4, <1>7
<1>9. /\ circuit' \in [Ends -> Circuits] /\ net' \in [Ends -> Seq(Datagrams)]
      /\ written' \in [Ends -> Seq(Messages)] /\ delivered' \in [Ends -> Seq(Messages)]
  <2>1. PICK N : N = [net EXCEPT ![e] = rest]
    OBVIOUS
  <2>2. N \in [Ends -> Seq(Datagrams)] /\ N[p] = net[p]
    BY <1>2, <1>4, <1>6, <2>1
  <2>3. net' = [N EXCEPT ![p] = forth]
    BY <1>2, <1>3, <1>4, <1>7, <2>1
  <2>4. net' \in [Ends -> Seq(Datagrams)]
    BY <1>6, <2>2, <2>3
  <2>5. circuit' \in [Ends -> Circuits] /\ delivered' \in [Ends -> Seq(Messages)]
    BY <1>4, <1>6, <1>7
  <2>6. written' \in [Ends -> Seq(Messages)]
    BY <1>4, <1>6
  <2> QED BY <2>4, <2>5, <2>6
<1>10. Shaped'
  BY <1>4, <1>9 DEF Shaped
<1>11. Around(e, circuit[e], written[e], delivered[e], net[Peer[e]], net[e])'
  BY <1>1, <1>5, <1>8 DEF Around
<1>12. Around(p, circuit[p], written[p], delivered[p], net[Peer[p]], net[p])'
  BY <1>2, <1>6, <1>8 DEF Around
<1> QED BY <1>2, <1>10, <1>11, <1>12 DEF Streams

LEMMA FinishServes ==
  ASSUME Streams, NEW e \in Ends, NEW r, NEW rest,
         Finish(e, r, rest), UNCHANGED written,
         Kept(circuit[e], r, written[Peer[e]], delivered[e])
  PROVE  [Service!Next]_(Service!vars)
<1>1. PICK p : p = Peer[e]
  OBVIOUS
<1>2. /\ circuit \in [Ends -> Circuits] /\ written \in [Ends -> Seq(Messages)]
      /\ delivered \in [Ends -> Seq(Messages)] /\ p \in Ends
  BY <1>1, Peers DEF Streams, Shaped
<1>3. /\ circuit' = [circuit EXCEPT ![e] = r.c]
      /\ delivered' = [delivered EXCEPT ![e] = @ \o Handed(r.ev)]
      /\ written' = written
  BY DEF Finish
<1>4. /\ r.c.state = "Connected" => circuit[e].state = "Connected"
      /\ Hands(r, written[p], delivered[e])
  BY <1>1 DEF Kept
<1>5. CASE Handed(r.ev) = <<>>
  <2>1. delivered' = delivered
    <3>1. delivered[e] \o <<>> = delivered[e]
      BY <1>2, ConcatEmptySeq
    <3> QED BY <1>2, <1>3, <1>5, <3>1
  <2>2. CASE r.c.state = "Connected" \/ circuit[e].state # "Connected"
    <3>1. OpenEnds' = OpenEnds
      BY <1>2, <1>3, <1>4, <2>2 DEF OpenEnds
    <3> QED BY <1>3, <2>1, <3>1 DEF Service!vars
  <2>3. CASE r.c.state # "Connected" /\ circuit[e].state = "Connected"
    <3>1. OpenEnds[e] /\ OpenEnds' = [OpenEnds EXCEPT ![e] = FALSE]
      BY <1>2, <1>3, <2>3 DEF OpenEnds
    <3>2. Service!Close(e)
      BY <1>3, <2>1, <3>1 DEF Service!Close
    <3> QED BY <3>2 DEF Service!Next
  <2> QED BY <2>2, <2>3
<1>6. CASE /\ r.c.state = "Connected" /\ Len(delivered[e]) + 1 <= Len(written[p])
           /\ delivered[e] \o Handed(r.ev) = SubSeq(written[p], 1, Len(delivered[e]) + 1)
  <2>1. OpenEnds' = OpenEnds /\ OpenEnds[e]
    BY <1>2, <1>3, <1>4, <1>6 DEF OpenEnds
  <2>2. PICK n : n = Len(delivered[e]) + 1
    OBVIOUS
  <2>3. n \in Len(delivered[e]) + 1 .. Len(written[p])
    BY <1>2, <1>6, <2>2, LenProperties
  <2>4. delivered' = [delivered EXCEPT ![e] = SubSeq(written[p], 1, n)]
    BY <1>3, <1>6, <2>2
  <2>5. Service!Deliver(e)
    BY <1>1, <1>3, <2>1, <2>3, <2>4 DEF Service!Deliver
  <2> QED BY <2>5 DEF Service!Next
<1> QED BY <1>4, <1>5, <1>6 DEF Hands

LEMMA EndCalls ==
  ASSUME Streams, NEW e \in Ends, NEW r, NEW rest, Finish(e, r, rest),
         UNCHANGED <<written, scenario>>, spent' \in Spends,
         Around(e, r.c, written[e], delivered[e] \o Handed(r.ev),
                net[Peer[e]] \o r.out, rest),
         Kept(circuit[e], r, written[Peer[e]], delivered[e])
  PROVE  Streams' /\ [Service!Next]_(Service!vars)
<1>1. PICK U : U = written[e]
  OBVIOUS
<1>2. written' = [written EXCEPT ![e] = U]
  BY <1>1 DEF Streams, Shaped
<1>3. Streams'
  BY <1>1, <1>2, FinishStreams
<1> QED BY <1>3, FinishServes
LEMMA AtEnd ==
  ASSUME Streams, NEW e \in Ends, NEW p, p = Peer[e]
  PROVE  /\ Both(circuit[e], circuit[p], written[e], delivered[p], written[p],
                 delivered[e], net[p], net[e])
         /\ spent \in Spends /\ scenario \in Scenarios
BY DEF Streams, Shaped, Around

\* A call that no datagram caused.
LEMMA QuietCalls ==
  ASSUME Streams, NEW e \in Ends, NEW r, Finish(e, r, net[e]),
         UNCHANGED <<written, scenario>>, spent' \in Spends,
         \A F, a : SendSide(circuit[e], F, a)
                     => Step(circuit[e], r, F, a) /\ Still(circuit[e], r)
  PROVE  Streams' /\ [Service!Next]_(Service!vars)
<1>1. PICK p, c : p = Peer[e] /\ c = circuit[e]
  OBVIOUS
<1>2. Both(c, circuit[p], written[e], delivered[p], written[p], delivered[e],
           net[p], net[e])
  BY <1>1, AtEnd
<1>3. \A F, a : SendSide(c, F, a) => Step(c, r, F, a) /\ Still(c, r)
  BY <1>1
<1>4. /\ Both(r.c, circuit[p], written[e], delivered[p], written[p],
              delivered[e] \o Handed(r.ev), net[p] \o r.out, net[e])
      /\ Kept(c, r, written[p], delivered[e])
  BY <1>2, <1>3, QuietBoth
<1>5. /\ Around(e, r.c, written[e], delivered[e] \o Handed(r.ev),
                net[Peer[e]] \o r.out, net[e])
      /\ Kept(circuit[e], r, written[Peer[e]], delivered[e])
  BY <1>1, <1>4 DEF Around
<1> QED BY <1>5, EndCalls

\* A datagram arrives, and is or is not used up.
LEMMA Arrives ==
  ASSUME Streams, NEW e \in Ends, net[e] # <<>>, NEW rest \in {net[e], Tail(net[e])},
         Finish(e, Handled(e, Head(net[e])), rest),
         UNCHANGED <<written, scenario>>, spent' \in Spends
  PROVE  Streams' /\ [Service!Next]_(Service!vars)
<1>1. PICK p, c, m, r : /\ p = Peer[e] /\ c = circuit[e] /\ m = Head(net[e])
                        /\ r = Handled(e, m)
  OBVIOUS
<1>2. Both(c, circuit[p], written[e], delivered[p], written[p], delivered[e],
           net[p], net[e])
  BY <1>1, AtEnd
<1>3. Finish(e, r, rest)
  BY <1>1
<1>4. /\ Both(r.c, circuit[p], written[e], delivered[p], written[p],
              delivered[e] \o Handed(r.ev), net[p] \o r.out, rest)
      /\ Kept(c, r, written[p], delivered[e])
  <2>1. CASE Closed(e) \/ m.key # circuit[e].local
    <3>1. r = Unmatched(e, m)
      BY <1>1, <2>1 DEF Handled
    <3>2. r.c = c /\ r.ev = <<>> /\ r.out = Courtesy(m) /\ m = Head(net[e])
      BY <1>1, <3>1 DEF Unmatched, Result, Courtesy
    <3> QED BY <1>2, <3>2, StrangerBoth
  <2>2. CASE ~ (Closed(e) \/ m.key # circuit[e].local)
    <3>1. r = OnPacket(c, m)
      BY <1>1, <2>2 DEF Handled
    <3>2. r = OnPacket(c, Head(net[e]))
      BY <1>1, <3>1
    <3> QED BY <1>2, <3>2, PacketBoth
  <2> QED BY <2>1, <2>2
<1>5. /\ Around(e, r.c, written[e], delivered[e] \o Handed(r.ev),
                net[Peer[e]] \o r.out, rest)
      /\ Kept(circuit[e], r, written[Peer[e]], delivered[e])
  BY <1>1, <1>4 DEF Around
<1> QED BY <1>3, <1>5, EndCalls

LEMMA ScenarioFields ==
  ASSUME NEW s \in Scenarios
  PROVE  /\ s.sizes \in SUBSET (Nat \ {0}) /\ s.writes \in [Ends -> Nat]
BY PairAssumption

LEMMA FrameWritable ==
  ASSUME NEW s \in Scenarios, NEW i \in 1 .. s.writes.A + s.writes.B,
         NEW l \in s.sizes
  PROVE  Frame(i, l) \in Writable
<1>1. Frame(i, l) \in FramesOf(s)
  BY DEF FramesOf
<1> QED BY <1>1 DEF Writable

LEMMA WriteServes ==
  ASSUME Streams, NEW e \in Ends, Write(e)
  PROVE  Streams' /\ [Service!Next]_(Service!vars)
<1>1. PICK n \in scenario.sizes :
        /\ written' = [written EXCEPT ![e] = Append(@, NextFrame(e, n))]
        /\ Finish(e, Send(circuit[e], NextFrame(e, n)), net[e])
  BY DEF Write
<1>2. PICK p, c, k, w, r : /\ p = Peer[e] /\ c = circuit[e] /\ k = Len(written[e]) + 1
                           /\ w = NextFrame(e, n) /\ r = Send(c, w)
  OBVIOUS
<1>3. /\ Both(c, circuit[p], written[e], delivered[p], written[p], delivered[e],
              net[p], net[e])
      /\ spent \in Spends /\ scenario \in Scenarios
  BY <1>2, AtEnd
<1>4. n \in Nat \ {0} /\ k \in Nat /\ k \in 1 .. scenario.writes[e]
      /\ scenario.writes \in [Ends -> Nat]
  <2>1. n \in Nat \ {0} /\ scenario.writes \in [Ends -> Nat]
    BY <1>3, ScenarioFields
  <2>2. Len(written[e]) \in Nat
    BY LenProperties DEF Streams, Shaped
  <2>3. Len(written[e]) < scenario.writes[e]
    BY DEF Write
  <2>4. scenario.writes[e] \in Nat
    BY <2>1
  <2> QED BY <1>2, <2>1, <2>2, <2>3, <2>4
<1>5. w = Frame(k, n) /\ w \in Messages
  <2>1. w = [i \in 1 .. n |-> <<k, i>>]
    BY <1>2 DEF NextFrame, Frame
  <2>2. w \in [1 .. n -> Unit]
    BY <1>4, <2>1 DEF Unit
  <2>3. w \in Seq(Unit)
    BY <1>4, <2>2, IsASeq
  <2>4. w # <<>>
    <3>1. Len(w) = n
      BY <1>4, <2>1
    <3> QED BY <1>4, <3>1, EmptySeq
  <2> QED BY <1>2, <2>3, <2>4 DEF Messages, NextFrame
<1>6. c.state = "Connected" /\ UNCHANGED <<scenario, spent>>
  BY <1>2 DEF Write
<1>7. /\ Both(r.c, circuit[p], Append(written[e], w), delivered[p], written[p],
              delivered[e] \o Handed(r.ev), net[p] \o r.out, net[e])
      /\ Handed(r.ev) = <<>> /\ r.c.state = "Connected"
  BY <1>2, <1>3, <1>5, <1>6, WriteBoth
<1>8. PICK U : U = Append(written[e], w)
  OBVIOUS
<1>9. /\ Finish(e, r, net[e]) /\ written' = [written EXCEPT ![e] = U]
      /\ Around(e, r.c, U, delivered[e] \o Handed(r.ev), net[Peer[e]] \o r.out, net[e])
      /\ spent' \in Spends
  BY <1>1, <1>2, <1>3, <1>6, <1>7, <1>8 DEF Around
<1>10. Streams'
  BY <1>6, <1>9, FinishStreams
<1>11. /\ circuit \in [Ends -> Circuits] /\ delivered \in [Ends -> Seq(Messages)]
       /\ circuit' = [circuit EXCEPT ![e] = r.c]
       /\ delivered' = [delivered EXCEPT ![e] = @ \o Handed(r.ev)]
  BY <1>9 DEF Streams, Shaped, Finish
<1>12. delivered' = delivered
  <2>1. delivered[e] \o <<>> = delivered[e]
    BY <1>11, ConcatEmptySeq
  <2> QED BY <1>7, <1>11, <2>1
<1>13. OpenEnds' = OpenEnds /\ OpenEnds[e]
  BY <1>2, <1>6, <1>7, <1>11 DEF OpenEnds
<1>14. k \in 1 .. scenario.writes.A + scenario.writes.B
  <2>1. scenario.writes["A"] \in Nat /\ scenario.writes["B"] \in Nat
    BY <1>4 DEF Ends
  <2> QED BY <1>4, <2>1 DEF Ends
<1>15. Service!Write(e)
  <2>1. /\ OpenEnds[e] /\ UNCHANGED <<delivered, OpenEnds>>
        /\ written' = [written EXCEPT ![e] = Append(@, w)]
    BY <1>1, <1>2, <1>12, <1>13
  <2>2. PICK s : s = scenario
    OBVIOUS
  <2>3. s \in Scenarios /\ k \in 1 .. s.writes.A + s.writes.B /\ n \in s.sizes
    BY <1>3, <1>14, <2>2
  <2>4. w \in Writable
    BY <1>5, <2>3, FrameWritable
  <2> QED BY <2>1, <2>4 DEF Service!Write
<1> QED BY <1>10, <1>15 DEF Service!Next

\* A step of the pair, seen by the service.
LEMMA StreamsStep ==
  ASSUME InOrder, Streams, [Next]_vars
  PROVE  Streams' /\ [Service!Next]_(Service!vars)
<1>1. CASE UNCHANGED vars
  <2>1. Streams'
    BY <1>1 DEF Streams, Shaped, Around, vars
  <2>2. UNCHANGED Service!vars
    BY <1>1 DEF vars, Service!vars, OpenEnds
  <2> QED BY <2>1, <2>2
<1>2. CASE Next
  <2>1. PICK e \in Ends : \/ Write(e) \/ Hangup(e) \/ Deliver(e) \/ Overtake(e)
                          \/ Duplicate(e) \/ Lose(e) \/ Expire(e) \/ Drain(e)
    BY <1>2 DEF Next
  <2>2. spent \in Spends /\ scenario \in Scenarios
    BY DEF Streams, Shaped
  <2>3. CASE Write(e)
    BY <2>3, WriteServes
  <2>4. CASE Hangup(e)
    <3>1. PICK r : r = Disconnect(circuit[e])
      OBVIOUS
    <3>2. /\ Finish(e, r, net[e]) /\ UNCHANGED <<written, scenario>> /\ spent' \in Spends
      BY <2>2, <2>4, <3>1 DEF Hangup, Spends
    <3>3. \A F, a : SendSide(circuit[e], F, a)
                      => Step(circuit[e], r, F, a) /\ Still(circuit[e], r)
      BY <3>1, DisconnectStep
    <3> QED BY <3>2, <3>3, QuietCalls
  <2>5. CASE Deliver(e)
    BY <2>2, <2>5, Arrives DEF Deliver
  <2>6. CASE Overtake(e)
    <3>1. spent.overtakes < scenario.overtakes /\ spent.overtakes \in Nat
      BY <2>2, <2>6 DEF Overtake, Spends
    <3>2. scenario.overtakes = 0
      BY <2>2 DEF InOrder
    <3> QED BY <3>1, <3>2
  <2>7. CASE Duplicate(e)
    <3>1. /\ net[e] # <<>> /\ Finish(e, Handled(e, Head(net[e])), net[e])
          /\ UNCHANGED <<written, scenario>> /\ spent' \in Spends
      BY <2>2, <2>7 DEF Duplicate, Spends
    <3> QED BY <3>1, Arrives
  <2>8. CASE Lose(e)
    <3>1. PICK p, t : p = Peer[e] /\ t = Tail(net[e])
      OBVIOUS
    <3>2. /\ p \in Ends /\ p # e /\ Peer[p] = e /\ \A x \in Ends : x = e \/ x = p
          /\ net \in [Ends -> Seq(Datagrams)]
      BY <3>1, Peers DEF Streams, Shaped
    <3>3. /\ net[e] # <<>> /\ net' = [net EXCEPT ![e] = t] /\ spent' \in Spends
          /\ UNCHANGED <<circuit, written, delivered, reason, scenario>>
      <4>1. /\ net[e] # <<>> /\ net' = [net EXCEPT ![e] = Tail(@)]
            /\ spent' = [spent EXCEPT !.loss = @ + 1]
            /\ UNCHANGED <<circuit, written, delivered, reason, scenario>>
        BY <2>8 DEF Lose
      <4>2. spent' \in Spends
        BY <2>2, <4>1 DEF Spends
      <4> QED BY <3>1, <4>1, <4>2
    <3>4. Both(circuit[e], circuit[p], written[e], delivered[p], written[p],
               delivered[e], net[p], net[e])
      BY <3>1, AtEnd
    <3>5. Both(circuit[e], circuit[p], written[e], delivered[p], written[p],
               delivered[e], net[p], t)
      BY <3>1, <3>3, <3>4, LossBoth
    <3>6. /\ t \in Seq(Datagrams)
          /\ Both(circuit[p], circuit[e], written[p], delivered[e], written[e],
                  delivered[p], t, net[p])
      BY <3>5, BothShape
    <3>7. net'[e] = t /\ net'[p] = net[p] /\ net' \in [Ends -> Seq(Datagrams)]
      BY <3>2, <3>3, <3>6
    <3>8. Around(e, circuit[e], written[e], delivered[e], net[Peer[e]], net[e])'
      BY <3>1, <3>3, <3>5, <3>7 DEF Around
    <3>9. Around(p, circuit[p], written[p], delivered[p], net[Peer[p]], net[p])'
      BY <3>2, <3>3, <3>6, <3>7 DEF Around
    <3>10. Streams'
      BY <3>2, <3>3, <3>7, <3>8, <3>9 DEF Streams, Shaped
    <3>11. UNCHANGED Service!vars
      BY <3>3 DEF Service!vars, OpenEnds
    <3> QED BY <3>10, <3>11
  <2>9. CASE Expire(e)
    <3>1. PICK r : r = Tick(circuit[e], TRUE, TRUE)
      OBVIOUS
    <3>2. /\ Finish(e, r, net[e]) /\ UNCHANGED <<written, scenario>> /\ spent' \in Spends
      BY <2>2, <2>9, <3>1 DEF Expire
    <3>3. \A F, a : SendSide(circuit[e], F, a)
                      => Step(circuit[e], r, F, a) /\ Still(circuit[e], r)
      BY <3>1, TickStep
    <3> QED BY <3>2, <3>3, QuietCalls
  <2>10. CASE Drain(e)
    <3>1. PICK r : r = OnDeliveryDrained(circuit[e])
      OBVIOUS
    <3>2. /\ Finish(e, r, net[e]) /\ UNCHANGED <<written, scenario>> /\ spent' \in Spends
      BY <2>2, <2>10, <3>1 DEF Drain
    <3>3. \A F, a : SendSide(circuit[e], F, a)
                      => Step(circuit[e], r, F, a) /\ Still(circuit[e], r)
      BY <3>1, DrainedStep
    <3> QED BY <3>2, <3>3, QuietCalls
  <2> QED BY <2>1, <2>3, <2>4, <2>5, <2>6, <2>7, <2>8, <2>9, <2>10
<1> QED BY <1>1, <1>2
LEMMA StreamsStart == Init => Streams /\ Service!Init
<1> SUFFICES ASSUME Init PROVE Streams /\ Service!Init
  OBVIOUS
<1>1. /\ scenario \in Scenarios /\ scenario.keyOfB \in Nat
      /\ circuit = Handshake(scenario.keyOfB)
      /\ net = [x \in Ends |-> <<>>] /\ written = [x \in Ends |-> <<>>]
      /\ delivered = [x \in Ends |-> <<>>] /\ spent \in Spends
  BY PairAssumption DEF Init, Spends
<1>2. PICK key, cA, cB : /\ key = scenario.keyOfB
                         /\ cA = Handshake(key)["A"] /\ cB = Handshake(key)["B"]
  OBVIOUS
<1>3. key \in Nat
  BY <1>1, <1>2
<1>4. /\ SendSide(cA, <<>>, 0) /\ cA.vs = 0 /\ cA.vr = 0 /\ cA.reassembly = <<>>
      /\ SendSide(cB, <<>>, 0) /\ cB.vs = 0 /\ cB.vr = 0 /\ cB.reassembly = <<>>
      /\ cA.state = "Connected" /\ cB.state = "Connected"
  BY <1>2, <1>3, HandshakeA, HandshakeB
<1>5. cA \in Circuits /\ cB \in Circuits
  BY <1>4 DEF SendSide
<1>6. Flows(cA, cB, <<>>, <<>>, <<>>, <<>>) /\ Flows(cB, cA, <<>>, <<>>, <<>>, <<>>)
  BY <1>4, <1>5, FlowStarts
<1>7. PICK K : K = Handshake(key)
  OBVIOUS
<1>8. K = [e \in Ends |-> IF e = "A" THEN cA ELSE cB]
  <2>1. K["A"] = cA /\ K["B"] = cB
    BY <1>2, <1>7
  <2>2. \E f : K = [e \in Ends |-> f[e]]
    <3>1. PICK f : f = K
      OBVIOUS
    <3>2. K = [e \in Ends |-> K[e]]
      BY <1>7 DEF Handshake
    <3> QED BY <3>2
  <2> QED BY <2>1, <2>2 DEF Ends
<1>9. circuit = K
  BY <1>1, <1>2, <1>7
<1>10. Shaped
  <2>1. <<>> \in Seq(Datagrams) /\ <<>> \in Seq(Messages)
    BY EmptySeq
  <2>2. circuit \in [Ends -> Circuits]
    BY <1>5, <1>8, <1>9
  <2> QED BY <1>1, <2>1, <2>2 DEF Shaped
<1>11. ASSUME NEW e \in Ends
       PROVE  Around(e, circuit[e], written[e], delivered[e], net[Peer[e]], net[e])
  <2>1. PICK p : p = Peer[e]
    OBVIOUS
  <2>2. p \in Ends /\ p # e
    BY <2>1, Peers
  <2>3. \/ circuit[e] = cA /\ circuit[p] = cB
        \/ circuit[e] = cB /\ circuit[p] = cA
    BY <1>8, <1>9, <2>2 DEF Ends
  <2>4. /\ written[e] = <<>> /\ written[p] = <<>> /\ delivered[e] = <<>>
        /\ delivered[p] = <<>> /\ net[e] = <<>> /\ net[p] = <<>>
    BY <1>1, <2>2
  <2>5. Both(circuit[e], circuit[p], <<>>, <<>>, <<>>, <<>>, <<>>, <<>>)
    BY <1>6, <2>3 DEF Both
  <2> QED BY <2>1, <2>4, <2>5 DEF Around
<1>12. Service!Init
  <2>1. \A e \in Ends : circuit[e].state = "Connected"
    BY <1>4, <1>8, <1>9 DEF Ends
  <2> QED BY <1>1, <2>1 DEF Service!Init, OpenEnds
<1> QED BY <1>10, <1>11, <1>12 DEF Streams

LEMMA FlowAcknowledged ==
  ASSUME NEW F, NEW B, NEW a, NEW c, NEW d, NEW W, NEW D, NEW forth, NEW back,
         Flow(F, B, a, c, d, W, D, forth, back), c.state = "Connected",
         NEW q \in 0 .. c.vs - 1
  PROVE  q \in {u.pos : u \in c.unacked} \/ q < d.vr
<1>1. /\ a \in Nat /\ a <= d.vr /\ d.vr \in Nat /\ c.vs \in Nat /\ SendSide(c, F, a)
  BY FlowShape
<1>2. CASE q < a
  BY <1>1, <1>2
<1>3. CASE ~ (q < a)
  <2>1. q \in a .. c.vs - 1
    BY <1>1, <1>3
  <2>2. \A x \in a .. c.vs - 1 : \E u \in c.unacked : u.pos = x
    BY <1>1 DEF SendSide, Window
  <2> QED BY <2>1, <2>2
<1> QED BY <1>2, <1>3

LEMMA StreamsAcknowledged == Streams => AckMeansReceived
<1> SUFFICES ASSUME Streams, NEW e \in Ends, circuit[e].state = "Connected",
                    NEW q \in 0 .. circuit[e].vs - 1
             PROVE  q \in {u.pos : u \in circuit[e].unacked} \/ q < circuit[Peer[e]].vr
  BY DEF AckMeansReceived
<1>1. PICK p, c : p = Peer[e] /\ c = circuit[e]
  OBVIOUS
<1>2. Both(c, circuit[p], written[e], delivered[p], written[p], delivered[e],
           net[p], net[e])
  BY <1>1, AtEnd
<1>3. PICK d : d = circuit[p]
  OBVIOUS
<1>4. PICK F, B, a : Flow(F, B, a, c, d, written[e], delivered[p], net[p], net[e])
  BY <1>2, <1>3 DEF Both, Flows
<1>5. c.state = "Connected" /\ q \in 0 .. c.vs - 1
  BY <1>1
<1>6. q \in {u.pos : u \in c.unacked} \/ q < d.vr
  BY <1>4, <1>5, FlowAcknowledged
<1> QED BY <1>1, <1>3, <1>6

\* Both directions flow in every reachable state: every datagram on its way
\* carries a fragment of the sender's stream or acknowledges a position of it,
\* within half the sequence space of where the other end is; the sender holds
\* exactly what the receiver may lack, and the receiver a prefix of the next frame
\* (pump_send_window, on_information, absorb_ack, tick).
THEOREM StreamsInvariant ==
  ASSUME InOrder
  PROVE  Spec => []Streams
<1>1. Init => Streams
  BY StreamsStart
<1>2. Streams /\ [Next]_vars => Streams'
  BY StreamsStep
<1> QED BY <1>1, <1>2, PTL DEF Spec

\* On a network that keeps the order of the datagrams, an acknowledgement is
\* never taken for more than the peer has received, whatever is lost or
\* duplicated, whenever timers expire and however often the sequence numbers
\* wrap (seq_acked, prune_acked and on_information_acknowledge).
THEOREM AcknowledgedIsReceived ==
  ASSUME InOrder
  PROVE  Spec => []AckMeansReceived
<1>1. Spec => []Streams
  BY StreamsInvariant
<1> QED BY <1>1, StreamsAcknowledged, PTL

\* On such a network the two circuits implement the service: what one
\* application writes reaches the other whole, once and in order, as long as
\* the receiving end is up (pump_send_window, on_information, tick).
THEOREM CircuitsServe ==
  ASSUME InOrder
  PROVE  Spec => ImplementsService
<1>1. Init => Service!Init
  BY StreamsStart
<1>2. Streams /\ [Next]_vars => [Service!Next]_(Service!vars)
  BY StreamsStep
<1>3. Spec => []Streams
  BY StreamsInvariant
<1> QED BY <1>1, <1>2, <1>3, PTL DEF Spec, ImplementsService, Service!Spec

=============================================================================
