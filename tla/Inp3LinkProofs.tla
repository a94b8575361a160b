---------------------------- MODULE Inp3LinkProofs ----------------------------
(***************************************************************************)
(* The safety of the INP3 overlay for every cadence, reset window, update  *)
(* interval, delay and number of faults.  Probing is safe as long as the   *)
(* window outlasts the cadence and a round trip: a probe goes out at most  *)
(* one cadence after the last sign of life, so its answer is back before   *)
(* the silence is long enough for a reset, and until then none follows it. *)
(***************************************************************************)
EXTENDS Inp3Link, TLAPS

Tellings == {"nothing", "reach", "gone"}

\* Only a RIF tells of a destination.
Frame == {f \in [kind : {"l3rtt", "rif", "l4"}, origin : Nodes, tells : Tellings, age : Nat] :
             f.kind # "rif" => f.tells = "nothing"}

Entry == [known : BOOLEAN, sent : 0 .. Cadence, silent : 0 .. Window + 1,
          measured : BOOLEAN, capable : BOOLEAN, awaiting : BOOLEAN]

Flags == [Nodes -> BOOLEAN]

TypeOK ==
    /\ entry \in [Nodes -> Entry]
    /\ rifAge \in [Advertisers -> Nat]
    /\ held \in Flags /\ gone \in Flags /\ belief \in Flags
    /\ up \in BOOLEAN
    /\ wire \in [Nodes -> Seq(Frame)]
    /\ ticked \in Flags
    /\ faults \in Nat
    /\ lost \in Flags /\ covered \in Flags

\* What LinkAssumption says, one constant at a time.
LEMMA Constants ==
    /\ Cadence \in Nat /\ Cadence >= 1 /\ RifInterval \in Nat
    /\ Window \in Nat /\ Window > Cadence /\ MaxDelay \in Nat
    /\ ProbeUnknown \in BOOLEAN /\ Advertisers \subseteq Nodes
    /\ \E m, n \in Nodes : m # n /\ Nodes = {m, n}
BY LinkAssumption DEF LinkAssumption

-----------------------------------------------------------------------------
LEMMA PeerIsTheOther ==
    ASSUME NEW n \in Nodes
    PROVE  /\ Peer(n) \in Nodes /\ Peer(n) # n /\ Peer(Peer(n)) = n
           /\ \A m \in Nodes : m = n \/ m = Peer(n)
<1>1. \E m \in Nodes : m # n
  BY Constants
<1>2. Peer(n) \in Nodes /\ Peer(n) # n
  BY <1>1 DEF Peer
<1>3. \A m \in Nodes : m = n \/ m = Peer(n)
  BY <1>2, Constants
<1>4. Peer(Peer(n)) \in Nodes /\ Peer(Peer(n)) # Peer(n)
  <2>1. \E m \in Nodes : m # Peer(n)
    BY <1>2
  <2> QED BY <2>1 DEF Peer
<1> QED BY <1>2, <1>3, <1>4

LEMMA EntriesTyped ==
    /\ Fresh \in Entry /\ Forgotten \in Entry
    /\ \A e \in Entry : Observe(e) \in Entry /\ AfterReset(e) \in Entry /\ Reflected(e) \in Entry
<1>1. Fresh \in Entry
  BY Constants DEF Fresh, Entry
<1>2. Forgotten \in Entry
  BY <1>1 DEF Forgotten, Entry
<1>3. ASSUME NEW e \in Entry PROVE Reflected(e) \in Entry
  <2>1. 0 \in 0 .. Window + 1
    BY Constants
  <2> QED BY <2>1 DEF Reflected, Entry
<1>4. ASSUME NEW e \in Entry PROVE Observe(e) \in Entry /\ AfterReset(e) \in Entry
  <2>1. Observe(e) \in Entry
    BY <1>1 DEF Observe
  <2>2. AfterReset(e) \in Entry
    BY <1>2 DEF AfterReset
  <2> QED BY <2>1, <2>2
<1> QED BY <1>1, <1>2, <1>3, <1>4

LEMMA Aged ==
    ASSUME NEW f \in Frame, NEW a \in Nat
    PROVE  [f EXCEPT !.age = a] \in Frame
BY DEF Frame

LEMMA FramesTyped ==
    ASSUME NEW n \in Nodes
    PROVE  L3Rtt(n) \in Frame /\ L4(n) \in Frame /\ \A t \in Tellings : Rif(n, t) \in Frame
BY DEF L3Rtt, L4, Rif, Frame, Tellings

LEMMA TypeInit == Init => TypeOK
BY EntriesTyped DEF Init, TypeOK, Flags

LEMMA RoundTyped ==
    ASSUME TypeOK, NEW n \in Nodes, Round(n)
    PROVE  TypeOK'
<1> DEFINE kept == AfterReset(entry[n])
           probes == IF Due(kept) THEN <<L3Rtt(n)>> ELSE <<>>
           rifs == IF FansOut(n) /\ entry[n].known /\ entry[n].capable
                   THEN <<Rif(n, Tells(n))>> ELSE <<>>
<1>1. kept \in Entry
  BY EntriesTyped DEF TypeOK
<1>2. entry' \in [Nodes -> Entry]
  <2>1. [kept EXCEPT !.sent = 0, !.awaiting = TRUE] \in Entry
    <3> HIDE DEF kept
    <3>1. 0 \in 0 .. Cadence
      BY Constants
    <3> QED BY <1>1, <3>1 DEF Entry
  <2> HIDE DEF kept
  <2> QED BY <1>1, <2>1 DEF Round, TypeOK, kept
<1>3. wire' \in [Nodes -> Seq(Frame)]
  <2>1. probes \in Seq(Frame) /\ rifs \in Seq(Frame)
    BY FramesTyped DEF Tells, Tellings
  <2>2. Ship(n, probes \o rifs) \in Seq(Frame)
    <3> HIDE DEF probes, rifs
    <3>1. wire[n] \in Seq(Frame)
      BY DEF TypeOK
    <3>2. probes \o rifs \in Seq(Frame)
      BY <2>1
    <3>3. wire[n] \o (probes \o rifs) \in Seq(Frame)
      BY <3>1, <3>2
    <3> QED BY <3>1, <3>3 DEF Ship
  <2> QED BY <2>2 DEF Round, TypeOK
<1>4. rifAge' \in [Advertisers -> Nat]
  BY DEF Round, TypeOK
<1>5. lost' \in Flags /\ covered' \in Flags
  <2>1. kept.known \in BOOLEAN
    BY <1>1 DEF Entry
  <2> QED BY <2>1 DEF Round, TypeOK, Flags
<1> QED BY <1>2, <1>3, <1>4, <1>5 DEF Round, TypeOK, Flags

LEMMA HearTyped ==
    ASSUME TypeOK, NEW n \in Nodes, Hear(n)
    PROVE  TypeOK'
<1>1. Peer(n) \in Nodes
  BY PeerIsTheOther
<1>2. wire[Peer(n)] # <<>>
  BY DEF Hear, HearL3Rtt, HearRif, HearL4, Arrives
<1>3. Inbound(n) \in Frame /\ Tail(wire[Peer(n)]) \in Seq(Frame)
  BY <1>1, <1>2 DEF Inbound, TypeOK
<1>4. Taken(n) \in [Nodes -> Seq(Frame)]
  BY <1>1, <1>3 DEF Taken, TypeOK
<1>5. Observe(entry[n]) \in Entry
  BY EntriesTyped DEF TypeOK
<1>6. CASE HearL3Rtt(n)
  <2> DEFINE heard == [Observe(entry[n]) EXCEPT !.capable = TRUE]
  <2>1. heard \in Entry /\ Reflected(heard) \in Entry
    <3>1. heard \in Entry
      BY <1>5 DEF Entry
    <3> QED BY <3>1, EntriesTyped
  <2>2. [Inbound(n) EXCEPT !.age = 0] \in Frame
    BY <1>3, Aged
  <2>3. wire' \in [Nodes -> Seq(Frame)]
    BY <1>4, <1>6, <2>2 DEF HearL3Rtt
  <2>4. lost' \in Flags
    BY <1>6, <2>1 DEF HearL3Rtt, TypeOK, Flags, Entry
  <2>5. entry' \in [Nodes -> Entry]
    <3> HIDE DEF heard
    <3> QED BY <1>6, <2>1 DEF HearL3Rtt, TypeOK, heard
  <2> QED BY <1>6, <2>3, <2>4, <2>5 DEF HearL3Rtt, TypeOK, table
<1>7. CASE HearRif(n)
  <2>1. entry[n].measured \in BOOLEAN
    BY DEF TypeOK, Entry
  <2>2. belief' \in Flags
    BY <1>7, <2>1 DEF HearRif, TypeOK, Flags
  <2> QED BY <1>4, <1>5, <1>7, <2>2 DEF HearRif, TypeOK
<1>8. CASE HearL4(n)
  BY <1>4, <1>5, <1>8 DEF HearL4, TypeOK, table
<1> QED BY <1>6, <1>7, <1>8 DEF Hear

LEMMA SendL4Typed ==
    ASSUME TypeOK, NEW n \in Nodes, SendL4(n)
    PROVE  TypeOK'
BY FramesTyped DEF SendL4, TypeOK, table

LEMMA RouteTyped ==
    ASSUME TypeOK, NEW n \in Advertisers, RouteFound(n) \/ RouteLost(n)
    PROVE  TypeOK'
BY DEF RouteFound, RouteLost, TypeOK, Flags

LEMMA CutTyped ==
    ASSUME TypeOK, LinkDrops \/ \E n \in Nodes : Restart(n)
    PROVE  TypeOK'
<1>1. CASE LinkDrops
  <2>1. wire' \in [Nodes -> Seq(Frame)] /\ covered' \in Flags /\ faults' \in Nat
    BY <1>1 DEF LinkDrops, Cut, TypeOK, Flags
  <2>2. lost' \in Flags
    BY <1>1 DEF LinkDrops, TypeOK, Flags, InFlight
  <2> QED BY <1>1, <2>1, <2>2 DEF LinkDrops, Cut, TypeOK, table
<1>2. ASSUME NEW n \in Nodes, Restart(n)
      PROVE  TypeOK'
  <2>1. wire' \in [Nodes -> Seq(Frame)] /\ covered' \in Flags /\ faults' \in Nat
    BY <1>2 DEF Restart, Cut, TypeOK, Flags
  <2>2. lost' \in Flags
    BY <1>2 DEF Restart, TypeOK, Flags, InFlight
  <2>3. entry' \in [Nodes -> Entry] /\ rifAge' \in [Advertisers -> Nat]
    BY <1>2, EntriesTyped DEF Restart, TypeOK
  <2>4. held' \in Flags /\ gone' \in Flags /\ belief' \in Flags
    BY <1>2 DEF Restart, TypeOK, Flags
  <2> QED BY <1>2, <2>1, <2>2, <2>3, <2>4 DEF Restart, Cut, TypeOK
<1> QED BY <1>1, <1>2

LEMMA ElapseTyped ==
    ASSUME TypeOK, Elapse
    PROVE  TypeOK'
<1>1. entry' \in [Nodes -> Entry]
  <2>1. ASSUME NEW n \in Nodes
        PROVE  [entry[n] EXCEPT !.sent = Older(@, Cadence), !.silent = Older(@, Window + 1)] \in Entry
    <3>1. entry[n] \in Entry
      BY DEF TypeOK
    <3>2. Older(entry[n].sent, Cadence) \in 0 .. Cadence
      BY <3>1, Constants DEF Older, Entry
    <3>3. Older(entry[n].silent, Window + 1) \in 0 .. Window + 1
      BY <3>1, Constants DEF Older, Entry
    <3> QED BY <3>1, <3>2, <3>3 DEF Entry
  <2> QED BY <2>1 DEF Elapse, TypeOK
<1>2. wire' \in [Nodes -> Seq(Frame)]
  <2>1. ASSUME NEW n \in Nodes
        PROVE  wire'[n] \in Seq(Frame)
    <3>1. wire'[n] = [i \in 1 .. Len(wire[n]) |-> [wire[n][i] EXCEPT !.age = @ + 1]]
      <4>1. wire[n] \in Seq(Frame)
        BY DEF TypeOK
      <4>2. DOMAIN wire[n] = 1 .. Len(wire[n])
        BY <4>1
      <4> QED BY <4>2 DEF Elapse
    <3>2. \A i \in 1 .. Len(wire[n]) : [wire[n][i] EXCEPT !.age = @ + 1] \in Frame
      <4> TAKE i \in 1 .. Len(wire[n])
      <4>1. wire[n][i] \in Frame
        BY DEF TypeOK
      <4>2. wire[n][i].age + 1 \in Nat
        BY <4>1 DEF Frame
      <4> QED BY <4>1, <4>2, Aged
    <3>3. Len(wire[n]) \in Nat
      BY DEF TypeOK
    <3> QED BY <3>1, <3>2, <3>3
  <2> QED BY <2>1 DEF Elapse
<1>3. rifAge' \in [Advertisers -> Nat]
  BY Constants DEF Elapse, Older, TypeOK
<1> QED BY <1>1, <1>2, <1>3 DEF Elapse, TypeOK, Flags, table

LEMMA TypeStep == TypeOK /\ [Next]_vars => TypeOK'
<1> SUFFICES ASSUME TypeOK, [Next]_vars PROVE TypeOK'
  OBVIOUS
<1>1. CASE LinkReturns
  BY <1>1 DEF LinkReturns, TypeOK, table
<1>2. CASE UNCHANGED vars
  BY <1>2 DEF vars, table, TypeOK
<1> QED BY <1>1, <1>2, RoundTyped, HearTyped, SendL4Typed, RouteTyped, CutTyped, ElapseTyped DEF Next

\* Every reachable state is well typed.
THEOREM TypeCorrect == Spec => []TypeOK
<1> QED BY TypeInit, TypeStep, PTL DEF Spec

-----------------------------------------------------------------------------
(***************************************************************************)
(* What a step does to the frames on their way.                            *)
(***************************************************************************)
SentProbes(n) == IF up /\ Due(AfterReset(entry[n])) THEN <<L3Rtt(n)>> ELSE <<>>
SentRifs(n) == IF up /\ FansOut(n) /\ entry[n].known /\ entry[n].capable
               THEN <<Rif(n, Tells(n))>> ELSE <<>>
Sent(n) == SentProbes(n) \o SentRifs(n)

LEMMA Joined ==
    ASSUME NEW s \in Seq(Frame), NEW t \in Seq(Frame)
    PROVE  /\ s \o t \in Seq(Frame) /\ Len(s \o t) = Len(s) + Len(t)
           /\ Len(s) \in Nat /\ Len(t) \in Nat
           /\ \A i \in 1 .. Len(s) : (s \o t)[i] = s[i]
           /\ \A i \in 1 .. Len(t) : (s \o t)[Len(s) + i] = t[i]
OBVIOUS

LEMMA Pair ==
    ASSUME NEW a \in Frame, NEW b \in Frame
    PROVE  LET s == <<a>> \o <<b>>
           IN  s \in Seq(Frame) /\ Len(s) = 2 /\ s[1] = a /\ s[2] = b
OBVIOUS

LEMMA Typed ==
    ASSUME TypeOK, NEW n \in Nodes
    PROVE  /\ wire[n] \in Seq(Frame) /\ Len(wire[n]) \in Nat /\ DOMAIN wire[n] = 1 .. Len(wire[n])
           /\ \A i \in 1 .. Len(wire[n]) : wire[n][i] \in Frame
           /\ entry[n] \in Entry
BY DEF TypeOK

LEMMA SentTyped ==
    ASSUME NEW n \in Nodes
    PROVE  /\ SentProbes(n) \in Seq(Frame) /\ SentRifs(n) \in Seq(Frame)
           /\ Sent(n) \in Seq(Frame)
BY FramesTyped DEF Sent, SentProbes, SentRifs, Tells, Tellings

LEMMA RoundSends ==
    ASSUME TypeOK, NEW n \in Nodes, Round(n)
    PROVE  /\ wire'[n] = wire[n] \o Sent(n)
           /\ \A m \in Nodes : m # n => wire'[m] = wire[m]
<1>1. wire[n] \in Seq(Frame)
  BY Typed
<1>2. wire[n] = wire[n] \o <<>>
  BY <1>1
<1>3. CASE up
  BY <1>3 DEF Round, Ship, Sent, SentProbes, SentRifs, TypeOK
<1>4. CASE ~up
  <2>1. Sent(n) = <<>>
    BY <1>4 DEF Sent, SentProbes, SentRifs
  <2> QED BY <1>2, <1>4, <2>1 DEF Round, Ship, TypeOK
<1> QED BY <1>3, <1>4 DEF TypeOK

\* A frame leaves the peer's wire; a probe not ours follows the node's own frames.
LEMMA HearTakes ==
    ASSUME TypeOK, NEW n \in Nodes, Hear(n)
    PROVE  /\ wire[Peer(n)] # <<>> /\ Inbound(n) \in Frame
           /\ wire'[Peer(n)] = Tail(wire[Peer(n)])
           /\ \/ wire'[n] = wire[n]
              \/ /\ HearL3Rtt(n) /\ Inbound(n).kind = "l3rtt"
                 /\ wire'[n] = wire[n] \o <<[Inbound(n) EXCEPT !.age = 0]>>
<1>1. Peer(n) \in Nodes /\ Peer(n) # n
  BY PeerIsTheOther
<1>2. wire[Peer(n)] # <<>>
  BY DEF Hear, HearL3Rtt, HearRif, HearL4, Arrives
<1>3. Inbound(n) \in Frame /\ wire[n] \in Seq(Frame)
  BY <1>1, <1>2, Typed DEF Inbound
<1>4. Taken(n)[Peer(n)] = Tail(wire[Peer(n)]) /\ Taken(n)[n] = wire[n]
  BY <1>1 DEF Taken, TypeOK
<1>5. CASE HearL3Rtt(n)
  <2> DEFINE back == [Inbound(n) EXCEPT !.age = 0]
  <2>1. back \in Frame
    BY <1>3, Aged
  <2>2. Append(wire[n], back) = wire[n] \o <<back>>
    BY <1>3, <2>1
  <2>3. wire'[Peer(n)] = Tail(wire[Peer(n)])
    BY <1>1, <1>4, <1>5 DEF HearL3Rtt, Taken, TypeOK
  <2>4. wire'[n] = wire[n] \/ wire'[n] = Append(wire[n], back)
    BY <1>1, <1>4, <1>5 DEF HearL3Rtt, Taken, TypeOK
  <2> QED BY <1>2, <1>3, <1>5, <2>2, <2>3, <2>4 DEF HearL3Rtt, Arrives
<1>6. CASE HearRif(n) \/ HearL4(n)
  BY <1>2, <1>3, <1>4, <1>6 DEF HearRif, HearL4
<1> QED BY <1>5, <1>6 DEF Hear

-----------------------------------------------------------------------------
(***************************************************************************)
(* A peer told of a route is told of its loss: whatever the constants are. *)
(***************************************************************************)
\* What was told to the peer was told to a fan-out target, and it is still one.
Targeted(n) == covered[n] => up /\ entry[n].known /\ entry[n].capable /\ n \in Advertisers

ToldOrGone(n) == covered[n] /\ ~held[n] /\ Settles(n) => gone[n]

Told == \A n \in Nodes : Targeted(n) /\ ToldOrGone(n)

\* Frames that tell nothing change nothing of what the peer will hold.
LEMMA QuietFrames ==
    ASSUME TypeOK, NEW n \in Nodes, NEW fs \in Seq(Frame),
           \A k \in 1 .. Len(fs) : fs[k].tells = "nothing",
           wire'[n] = wire[n] \o fs, belief'[Peer(n)] => belief[Peer(n)],
           Settles(n)'
    PROVE  Settles(n)
<1> DEFINE w == wire[n]
<1>1. /\ w \in Seq(Frame) /\ Len(w) \in Nat /\ Len(fs) \in Nat /\ DOMAIN w = 1 .. Len(w)
      /\ Len(wire'[n]) = Len(w) + Len(fs) /\ DOMAIN wire'[n] = 1 .. Len(w) + Len(fs)
  BY Typed, Joined
<1>2. \A k \in 1 .. Len(w) : wire'[n][k] = w[k]
  BY <1>1, Joined
<1>3. \A k \in 1 .. Len(w) + Len(fs) : k > Len(w) => wire'[n][k].tells = "nothing"
  <2> TAKE k \in 1 .. Len(w) + Len(fs)
  <2> HAVE k > Len(w)
  <2>1. k - Len(w) \in 1 .. Len(fs) /\ Len(w) + (k - Len(w)) = k
    BY <1>1
  <2>2. wire'[n][k] = fs[k - Len(w)]
    BY <1>1, <2>1, Joined
  <2> QED BY <2>1, <2>2
<1>4. ASSUME NEW i \in 1 .. Len(w) + Len(fs), wire'[n][i].tells = "reach",
             \A k \in i + 1 .. Len(w) + Len(fs) : wire'[n][k].tells = "nothing"
      PROVE  Settles(n)
  <2>1. ~(i > Len(w))
    <3>1. wire'[n][i].tells # "nothing"
      BY <1>4
    <3> QED BY <1>3, <3>1
  <2>2. i \in 1 .. Len(w)
    BY <1>1, <2>1
  <2>3. w[i].tells = "reach"
    BY <1>2, <1>4, <2>2
  <2>4. \A k \in i + 1 .. Len(w) : w[k].tells = "nothing"
    BY <1>1, <1>2, <1>4, <2>2
  <2> QED BY <1>1, <2>2, <2>3, <2>4 DEF Settles, Untold
<1>5. ASSUME belief'[Peer(n)], \A k \in 1 .. Len(w) + Len(fs) : wire'[n][k].tells = "nothing"
      PROVE  Settles(n)
  <2>1. \A k \in 1 .. Len(w) : w[k].tells = "nothing"
    BY <1>1, <1>2, <1>5
  <2> QED BY <1>5, <2>1 DEF Settles, Untold
<1> QED BY <1>1, <1>4, <1>5 DEF Settles, Untold

\* A last frame that withdraws the destination settles it.
LEMMA GoneFrame ==
    ASSUME NEW n \in Nodes, wire'[n] \in Seq(Frame), wire'[n] # <<>>,
           wire'[n][Len(wire'[n])].tells = "gone"
    PROVE  ~Settles(n)'
<1> DEFINE w == wire'[n]
<1>1. Len(w) \in 1 .. Len(w) /\ DOMAIN w = 1 .. Len(w) /\ Len(w) \in Nat
  OBVIOUS
<1>2. w[Len(w)].tells # "nothing" /\ w[Len(w)].tells # "reach"
  OBVIOUS
<1>3. ASSUME NEW i \in 1 .. Len(w), w[i].tells = "reach",
             \A k \in i + 1 .. Len(w) : w[k].tells = "nothing"
      PROVE  FALSE
  <2>1. i # Len(w)
    BY <1>2, <1>3
  <2>2. Len(w) \in i + 1 .. Len(w)
    BY <1>1, <2>1
  <2> QED BY <1>2, <1>3, <2>2
<1> QED BY <1>1, <1>2, <1>3 DEF Settles, Untold

\* The peer takes the first frame as it hears it.
LEMMA FrameHeard ==
    ASSUME TypeOK, NEW n \in Nodes, wire[n] # <<>>, wire'[n] = Tail(wire[n]),
           wire[n][1].tells = "gone" => ~belief'[Peer(n)],
           wire[n][1].tells = "nothing" => (belief'[Peer(n)] => belief[Peer(n)]),
           Settles(n)'
    PROVE  Settles(n)
<1> DEFINE w == wire[n]
<1>1. /\ w \in Seq(Frame) /\ Len(w) \in Nat /\ Len(w) >= 1 /\ DOMAIN w = 1 .. Len(w)
      /\ Len(wire'[n]) = Len(w) - 1 /\ DOMAIN wire'[n] = 1 .. Len(w) - 1
  BY Typed
<1>2. \A k \in 1 .. Len(w) - 1 : wire'[n][k] = w[k + 1]
  BY <1>1
<1>3. w[1].tells \in Tellings
  BY <1>1, Typed DEF Frame
<1>4. ASSUME NEW i \in 1 .. Len(w) - 1, wire'[n][i].tells = "reach",
             \A k \in i + 1 .. Len(w) - 1 : wire'[n][k].tells = "nothing"
      PROVE  Settles(n)
  <2>1. i + 1 \in 1 .. Len(w) /\ w[i + 1].tells = "reach"
    BY <1>1, <1>2, <1>4
  <2>2. ASSUME NEW k \in (i + 1) + 1 .. Len(w) PROVE w[k].tells = "nothing"
    <3>1. k - 1 \in i + 1 .. Len(w) - 1 /\ (k - 1) + 1 = k /\ k - 1 \in 1 .. Len(w) - 1
      BY <1>1
    <3> QED BY <1>2, <1>4, <3>1
  <2> QED BY <1>1, <2>1, <2>2 DEF Settles, Untold
<1>5. ASSUME belief'[Peer(n)], \A k \in 1 .. Len(w) - 1 : wire'[n][k].tells = "nothing"
      PROVE  Settles(n)
  <2>1. ASSUME NEW k \in 2 .. Len(w) PROVE w[k].tells = "nothing"
    <3>1. k - 1 \in 1 .. Len(w) - 1 /\ (k - 1) + 1 = k
      BY <1>1
    <3> QED BY <1>2, <1>5, <3>1
  <2>2. CASE w[1].tells = "reach"
    BY <1>1, <2>1, <2>2 DEF Settles, Untold
  <2>3. CASE w[1].tells = "nothing"
    <3>1. \A k \in 1 .. Len(w) : k = 1 \/ k \in 2 .. Len(w)
      BY <1>1
    <3> QED BY <1>5, <2>1, <2>3, <3>1 DEF Settles, Untold
  <2> QED BY <1>3, <1>5, <2>2, <2>3 DEF Tellings
<1> QED BY <1>1, <1>4, <1>5 DEF Settles, Untold

LEMMA ToldInit == Init => Told
BY DEF Init, Told, Targeted, ToldOrGone

\* The round that drains the withdrawn destination tells of it: what was told
\* went to a target, so the neighbour is one still, and the withdrawal fans out.
LEMMA RoundTold ==
    ASSUME TypeOK, Told, NEW n \in Nodes, Round(n)
    PROVE  Told'
<1>1. ASSUME NEW m \in Nodes, m # n
      PROVE  Targeted(m)' /\ ToldOrGone(m)'
  <2>1. /\ covered'[m] = covered[m] /\ entry'[m] = entry[m] /\ gone'[m] = gone[m]
        /\ UNCHANGED <<up, held, belief>>
    BY <1>1 DEF Round, TypeOK
  <2>2. wire'[m] = wire[m] \o <<>> /\ wire'[m] = wire[m]
    BY <1>1, RoundSends, Typed
  <2>3. Settles(m)' => Settles(m)
    BY <2>1, <2>2 DEF Settles, Untold
  <2> QED BY <2>1, <2>3 DEF Told, Targeted, ToldOrGone
<1>2. ASSUME covered'[n]
      PROVE  up' /\ entry[n].known /\ entry[n].capable /\ entry'[n].known /\ entry'[n].capable /\ n \in Advertisers
  <2> DEFINE kept == AfterReset(entry[n])
  <2>1. up /\ up' /\ kept.known
    <3> HIDE DEF kept
    <3> QED BY <1>2 DEF Round, TypeOK, Flags, kept
  <2>2. kept = entry[n]
    BY <2>1 DEF AfterReset, Forgotten, Fresh
  <2>3. entry[n].capable /\ n \in Advertisers
    <3>1. covered[n] \/ (FansOut(n) /\ entry[n].capable)
      BY <1>2 DEF Round, TypeOK, Flags
    <3> QED BY <3>1 DEF Told, Targeted, FansOut
  <2>4. entry'[n].known = entry[n].known /\ entry'[n].capable = entry[n].capable
    <3>1. entry'[n] = entry[n] \/ entry'[n] = [entry[n] EXCEPT !.sent = 0, !.awaiting = TRUE]
      BY <2>2 DEF Round, TypeOK
    <3> QED BY <3>1, Typed DEF Entry
  <2> QED BY <2>1, <2>2, <2>3, <2>4
<1>3. ASSUME covered'[n], ~held'[n], Settles(n)'
      PROVE  FALSE
  <2>1. ~held[n] /\ covered[n]
    BY <1>3 DEF Round, TypeOK, Flags
  <2>2. up /\ entry[n].known /\ entry[n].capable /\ n \in Advertisers
    BY <2>1 DEF Told, Targeted
  <2>3. \A k \in 1 .. Len(SentProbes(n)) : SentProbes(n)[k].tells = "nothing"
    BY DEF SentProbes, L3Rtt
  <2>4. CASE gone[n]
    <3>1. SentRifs(n) = <<Rif(n, "gone")>>
      BY <2>1, <2>2, <2>4 DEF SentRifs, FansOut, Tells
    <3>2. Rif(n, "gone") \in Frame /\ Rif(n, "gone").tells = "gone"
      BY FramesTyped DEF Rif, Tellings
    <3>3. Sent(n) \in Seq(Frame) /\ Len(Sent(n)) >= 1 /\ Sent(n)[Len(Sent(n))] = Rif(n, "gone")
      BY <3>1, <3>2, SentTyped DEF Sent
    <3>4. wire'[n] = wire[n] \o Sent(n) /\ wire[n] \in Seq(Frame)
      BY RoundSends, Typed
    <3>5. /\ wire'[n] \in Seq(Frame) /\ wire'[n] # <<>>
          /\ wire'[n][Len(wire'[n])] = Rif(n, "gone")
      BY <3>3, <3>4
    <3> QED BY <1>3, <3>2, <3>5, GoneFrame
  <2>5. CASE ~gone[n]
    <3>1. \A k \in 1 .. Len(Sent(n)) : Sent(n)[k].tells = "nothing"
      BY <2>1, <2>5 DEF Sent, SentProbes, SentRifs, Tells, L3Rtt, Rif
    <3>2. Settles(n)
      <4>1. belief' = belief
        BY DEF Round
      <4> QED BY <1>3, <3>1, <4>1, QuietFrames, RoundSends, SentTyped
    <3> QED BY <2>1, <2>5, <3>2 DEF Told, ToldOrGone
  <2> QED BY <2>4, <2>5
<1> QED BY <1>1, <1>2, <1>3 DEF Told, Targeted, ToldOrGone

LEMMA HearTold ==
    ASSUME TypeOK, Told, NEW n \in Nodes, Hear(n)
    PROVE  Told'
<1> DEFINE p == Peer(n)
<1>1. p \in Nodes /\ p # n /\ Peer(p) = n /\ \A m \in Nodes : m = n \/ m = p
  BY PeerIsTheOther
<1>2. UNCHANGED <<held, gone, up, covered>>
  BY DEF Hear, HearL3Rtt, HearRif, HearL4, table
<1>3. ASSUME NEW m \in Nodes, Targeted(m) PROVE Targeted(m)'
  <2>1. entry[m].known /\ entry[m].capable => entry'[m].known /\ entry'[m].capable
    <3>1. CASE m # n
      BY <3>1 DEF Hear, HearL3Rtt, HearRif, HearL4, TypeOK
    <3>2. CASE m = n /\ entry[n].known /\ entry[n].capable
      <4>1. Observe(entry[n]) = entry[n] /\ entry[n] \in Entry
        BY <3>2, Typed DEF Observe
      <4>2. \/ entry'[n] = entry[n]
            \/ entry'[n] = [entry[n] EXCEPT !.capable = TRUE]
            \/ entry'[n] = Reflected([entry[n] EXCEPT !.capable = TRUE])
        BY <4>1 DEF Hear, HearL3Rtt, HearRif, HearL4, TypeOK
      <4> QED BY <3>2, <4>1, <4>2 DEF Reflected, Entry
    <3> QED BY <3>1, <3>2
  <2> QED BY <1>2, <1>3, <2>1 DEF Targeted
<1>4. Settles(n)' => Settles(n)
  <2>1. belief'[p] = belief[p]
    BY <1>1 DEF Hear, HearL3Rtt, HearRif, HearL4, TypeOK, Flags, table
  <2>2. CASE wire'[n] = wire[n]
    BY <2>1, <2>2 DEF Settles, Untold
  <2>3. CASE HearL3Rtt(n) /\ Inbound(n).kind = "l3rtt"
             /\ wire'[n] = wire[n] \o <<[Inbound(n) EXCEPT !.age = 0]>>
    <3> DEFINE back == [Inbound(n) EXCEPT !.age = 0]
    <3>1. back \in Frame /\ back.tells = "nothing"
      BY <2>3, HearTakes, Aged DEF Frame
    <3>2. <<back>> \in Seq(Frame) /\ \A k \in 1 .. Len(<<back>>) : <<back>>[k].tells = "nothing"
      <4> HIDE DEF back
      <4> QED BY <3>1
    <3> QED BY <2>1, <2>3, <3>2, QuietFrames
  <2> QED BY <2>2, <2>3, HearTakes
<1>5. Settles(p)' => Settles(p)
  <2>1. wire[p] # <<>> /\ wire'[p] = Tail(wire[p]) /\ Inbound(n) = wire[p][1]
    <3>1. wire[p] \in Seq(Frame) /\ Inbound(n) = Head(wire[p])
      BY <1>1, Typed DEF Inbound
    <3>2. wire[p] # <<>> /\ wire'[p] = Tail(wire[p])
      BY HearTakes
    <3>3. Inbound(n) = wire[p][1]
      BY <3>1
    <3> QED BY <3>2, <3>3
  <2>2. Inbound(n).tells = "gone" => ~belief'[n]
    <3>1. HearL3Rtt(n) \/ HearL4(n) => Inbound(n).tells = "nothing"
      BY HearTakes DEF HearL3Rtt, HearL4, Arrives, Frame
    <3>2. HearRif(n) /\ Inbound(n).tells = "gone" => ~belief'[n]
      BY DEF HearRif, TypeOK, Flags
    <3> QED BY <3>1, <3>2 DEF Hear
  <2>3. Inbound(n).tells = "nothing" => (belief'[n] => belief[n])
    BY DEF Hear, HearL3Rtt, HearRif, HearL4, TypeOK, Flags, table
  <2> QED BY <1>1, <2>1, <2>2, <2>3, FrameHeard
<1>6. ASSUME NEW m \in Nodes PROVE ToldOrGone(m)'
  BY <1>1, <1>2, <1>4, <1>5 DEF Told, ToldOrGone
<1> QED BY <1>3, <1>6 DEF Told

LEMMA SendL4Told ==
    ASSUME TypeOK, Told, NEW n \in Nodes, SendL4(n)
    PROVE  Told'
<1>1. ASSUME NEW m \in Nodes PROVE Settles(m)' => Settles(m)
  <2>1. belief' = belief
    BY DEF SendL4, table
  <2>2. CASE m # n
    <3>1. wire'[m] = wire[m]
      BY <2>2 DEF SendL4, TypeOK
    <3> QED BY <2>1, <3>1 DEF Settles, Untold
  <2>3. CASE m = n
    <3>1. L4(n) \in Frame /\ L4(n).tells = "nothing" /\ wire[n] = <<>> /\ wire'[n] = <<L4(n)>>
      BY FramesTyped DEF SendL4, TypeOK, L4
    <3>2. /\ wire'[n] = wire[n] \o <<L4(n)>> /\ <<L4(n)>> \in Seq(Frame)
          /\ \A k \in 1 .. Len(<<L4(n)>>) : <<L4(n)>>[k].tells = "nothing"
      <4>1. <<>> \o <<L4(n)>> = <<L4(n)>>
        BY <3>1
      <4> QED BY <3>1, <4>1
    <3> QED BY <2>1, <2>3, <3>2, QuietFrames
  <2> QED BY <2>2, <2>3
<1> QED BY <1>1 DEF SendL4, table, Told, Targeted, ToldOrGone

LEMMA ElapseTold ==
    ASSUME TypeOK, Told, Elapse
    PROVE  Told'
<1>1. ASSUME NEW n \in Nodes
      PROVE  /\ entry'[n].known = entry[n].known /\ entry'[n].capable = entry[n].capable
  BY Typed DEF Elapse, Entry
<1>2. ASSUME NEW n \in Nodes PROVE Settles(n)' => Settles(n)
  <2>1. /\ Len(wire[n]) \in Nat /\ DOMAIN wire[n] = 1 .. Len(wire[n])
        /\ Len(wire'[n]) = Len(wire[n]) /\ DOMAIN wire'[n] = DOMAIN wire[n]
    <3>1. Len(wire[n]) \in Nat /\ DOMAIN wire[n] = 1 .. Len(wire[n])
      BY Typed
    <3>2. DOMAIN wire'[n] = DOMAIN wire[n]
      BY DEF Elapse
    <3>3. wire'[n] \in Seq(Frame)
      BY ElapseTyped DEF TypeOK
    <3>4. Len(wire'[n]) \in Nat /\ DOMAIN wire'[n] = 1 .. Len(wire'[n])
      BY <3>3
    <3>5. Len(wire'[n]) = Len(wire[n])
      BY <3>1, <3>2, <3>4
    <3> QED BY <3>1, <3>2, <3>5
  <2>2. \A i \in DOMAIN wire[n] : wire'[n][i].tells = wire[n][i].tells
    <3> TAKE i \in DOMAIN wire[n]
    <3>1. wire[n][i] \in Frame /\ wire'[n][i] = [wire[n][i] EXCEPT !.age = @ + 1]
      BY <2>1, Typed DEF Elapse
    <3> QED BY <3>1 DEF Frame
  <2>3. belief' = belief
    BY DEF Elapse, table
  <2>4. \A i \in DOMAIN wire[n] :
           (\A k \in i + 1 .. Len(wire'[n]) : wire'[n][k].tells = "nothing")
           => (\A k \in i + 1 .. Len(wire[n]) : wire[n][k].tells = "nothing")
    BY <2>1, <2>2
  <2>5. (\A k \in 1 .. Len(wire'[n]) : wire'[n][k].tells = "nothing")
        => (\A k \in 1 .. Len(wire[n]) : wire[n][k].tells = "nothing")
    BY <2>1, <2>2
  <2> QED BY <2>1, <2>2, <2>3, <2>4, <2>5 DEF Settles, Untold
<1> QED BY <1>1, <1>2 DEF Elapse, table, Told, Targeted, ToldOrGone

LEMMA ToldStep == TypeOK /\ Told /\ [Next]_vars => Told'
<1> SUFFICES ASSUME TypeOK, Told, [Next]_vars PROVE Told'
  OBVIOUS
<1>1. ASSUME NEW n \in Advertisers, RouteFound(n) \/ RouteLost(n) PROVE Told'
  <2>1. UNCHANGED <<entry, belief, up, wire, covered>>
    BY <1>1 DEF RouteFound, RouteLost
  <2>2. ASSUME NEW m \in Nodes PROVE Settles(m)' <=> Settles(m)
    BY <2>1 DEF Settles, Untold
  <2>3. ASSUME NEW m \in Nodes, ~held'[m] PROVE (~held[m] /\ gone'[m] = gone[m]) \/ gone'[m]
    <3>1. CASE RouteFound(n)
      BY <2>3, <3>1 DEF RouteFound, TypeOK, Flags
    <3>2. CASE RouteLost(n)
      BY <2>3, <3>2 DEF RouteLost, TypeOK, Flags
    <3> QED BY <1>1, <3>1, <3>2
  <2>4. ASSUME NEW m \in Nodes PROVE ToldOrGone(m)'
    BY <2>1, <2>2, <2>3 DEF Told, ToldOrGone
  <2>5. ASSUME NEW m \in Nodes PROVE Targeted(m)'
    BY <2>1 DEF Told, Targeted
  <2> QED BY <2>4, <2>5 DEF Told
<1>2. CASE LinkDrops \/ \E n \in Nodes : Restart(n)
  <2>1. \A n \in Nodes : ~covered'[n]
    BY <1>2 DEF LinkDrops, Restart, Cut
  <2> QED BY <2>1 DEF Told, Targeted, ToldOrGone
<1>3. CASE LinkReturns \/ UNCHANGED vars
  <2>1. UNCHANGED <<entry, held, gone, belief, wire, covered>> /\ (up => up')
    BY <1>3 DEF LinkReturns, vars, table
  <2>2. ASSUME NEW m \in Nodes PROVE Settles(m)' <=> Settles(m)
    BY <2>1 DEF Settles, Untold
  <2> QED BY <2>1, <2>2 DEF Told, Targeted, ToldOrGone
<1> QED BY <1>1, <1>2, <1>3, RoundTold, HearTold, SendL4Told, ElapseTold DEF Next

\* In every reachable state, whatever the constants: a peer that was told of a
\* route and has stayed a fan-out target does not keep it once it is lost, the
\* withdrawal being still to be told or on its way.
THEOREM WithdrawalReachesThePeer == Spec => []LossIsTold
<1>1. TypeOK /\ Told => LossIsTold
  BY DEF Told, ToldOrGone, LossIsTold
<1>2. Spec => [](TypeOK /\ Told)
  BY TypeInit, TypeStep, ToldInit, ToldStep, PTL DEF Spec
<1> QED BY <1>1, <1>2, PTL

-----------------------------------------------------------------------------
(***************************************************************************)
(* One probe at a time, and no reset without a loss: for a node that       *)
(* probes whatever it hears of, with a window that outlasts the cadence    *)
(* and a probe's way there and back.                                       *)
(***************************************************************************)
Timely == ProbeUnknown /\ Cadence + 2 * MaxDelay <= Window

Single(n) ==
    \A m, l \in Nodes : \A i \in Probes(n, m), j \in Probes(n, l) : m = l /\ i = j

\* The answer to a probe is expected, and comes before the silence is too long.
Awaited(n) ==
    \A m \in Nodes : \A i \in Probes(n, m) :
        /\ entry[n].known /\ entry[n].awaiting /\ wire[m][i].age <= MaxDelay
        /\ entry[n].silent <= Cadence + wire[m][i].age + (IF m = n THEN 0 ELSE MaxDelay)

\* With no answer expected the next probe is due before the silence is long.
Quick(n) ==
    entry[n].known /\ ~entry[n].awaiting =>
        /\ entry[n].silent <= entry[n].sent
        /\ ticked[n] /\ entry[n].sent = Cadence => entry[n].silent = 0

Expecting(n) == entry[n].awaiting => entry[n].known

Accounted(n) == entry[n].awaiting /\ ~lost[n] => InFlight(n)

Probing(n) == Single(n) /\ Awaited(n) /\ Quick(n) /\ Expecting(n) /\ Accounted(n)

LEMMA ProbeIsFrame ==
    ASSUME TypeOK, NEW n \in Nodes, NEW m \in Nodes, NEW i \in Probes(n, m)
    PROVE  /\ i \in 1 .. Len(wire[m]) /\ Len(wire[m]) \in Nat /\ wire[m][i] \in Frame
           /\ wire[m][i].kind = "l3rtt" /\ wire[m][i].origin = n /\ wire[m][i].age \in Nat
<1>1. /\ i \in 1 .. Len(wire[m]) /\ Len(wire[m]) \in Nat
      /\ wire[m][i].kind = "l3rtt" /\ wire[m][i].origin = n
  BY Typed DEF Probes
<1>2. wire[m][i] \in Frame
  BY <1>1, Typed
<1> QED BY <1>1, <1>2 DEF Frame

\* Frames that follow bring no probe of n.
LEMMA NoneFollows ==
    ASSUME TypeOK, NEW n \in Nodes, NEW m \in Nodes, NEW fs \in Seq(Frame),
           wire'[m] = wire[m] \o fs,
           \A k \in 1 .. Len(fs) : fs[k].kind # "l3rtt" \/ fs[k].origin # n
    PROVE  /\ Probes(n, m)' = Probes(n, m)
           /\ \A i \in Probes(n, m) : wire'[m][i] = wire[m][i]
<1> DEFINE w == wire[m]
<1>1. /\ w \in Seq(Frame) /\ Len(w) \in Nat /\ Len(fs) \in Nat /\ DOMAIN w = 1 .. Len(w)
      /\ DOMAIN wire'[m] = 1 .. Len(w) + Len(fs)
  BY Typed, Joined
<1>2. \A i \in 1 .. Len(w) : wire'[m][i] = w[i]
  BY <1>1, Joined
<1>3. ASSUME NEW i \in 1 .. Len(w) + Len(fs), i > Len(w)
      PROVE  wire'[m][i].kind # "l3rtt" \/ wire'[m][i].origin # n
  <2>1. i - Len(w) \in 1 .. Len(fs) /\ Len(w) + (i - Len(w)) = i
    BY <1>1, <1>3
  <2>2. wire'[m][i] = fs[i - Len(w)]
    BY <1>1, <2>1, Joined
  <2> QED BY <2>1, <2>2
<1>4. \A i \in 1 .. Len(w) + Len(fs) : i \in 1 .. Len(w) \/ i > Len(w)
  BY <1>1
<1>5. ASSUME NEW i PROVE i \in Probes(n, m)' <=> i \in Probes(n, m)
  <2>1. i \in 1 .. Len(w) => i \in 1 .. Len(w) + Len(fs)
    BY <1>1
  <2> QED BY <1>1, <1>2, <1>3, <1>4, <2>1 DEF Probes
<1>6. \A i \in Probes(n, m) : i \in 1 .. Len(w)
  BY <1>1 DEF Probes
<1> QED BY <1>2, <1>5, <1>6

\* One that does not go with frames that follow is the only one.
LEMMA OneFollows ==
    ASSUME TypeOK, NEW n \in Nodes, NEW m \in Nodes, NEW fs \in Seq(Frame),
           wire'[m] = wire[m] \o fs, Probes(n, m) = {},
           \A k \in 1 .. Len(fs) : k # 1 => fs[k].kind # "l3rtt"
    PROVE  \A i \in Probes(n, m)' : i = Len(wire[m]) + 1 /\ wire'[m][i] = fs[1]
<1> DEFINE w == wire[m]
<1>1. /\ w \in Seq(Frame) /\ Len(w) \in Nat /\ Len(fs) \in Nat /\ DOMAIN w = 1 .. Len(w)
      /\ DOMAIN wire'[m] = 1 .. Len(w) + Len(fs)
  BY Typed, Joined
<1> SUFFICES ASSUME NEW i \in Probes(n, m)'
             PROVE  i = Len(w) + 1 /\ wire'[m][i] = fs[1]
  OBVIOUS
<1>2. i \in 1 .. Len(w) + Len(fs) /\ wire'[m][i].kind = "l3rtt" /\ wire'[m][i].origin = n
  BY <1>1 DEF Probes
<1>3. i \notin 1 .. Len(w)
  <2>1. \A k \in 1 .. Len(w) : wire'[m][k] = w[k]
    BY <1>1, Joined
  <2> QED BY <1>1, <1>2, <2>1 DEF Probes
<1>4. i - Len(w) \in 1 .. Len(fs) /\ Len(w) + (i - Len(w)) = i
  <2>1. i \in 1 .. Len(w) + Len(fs) /\ Len(w) \in Nat /\ Len(fs) \in Nat
    BY <1>1, <1>2
  <2> HIDE DEF w
  <2> QED BY <1>3, <2>1
<1>5. wire'[m][i] = fs[i - Len(w)]
  <2> DEFINE k == i - Len(w)
  <2>1. k \in 1 .. Len(fs) /\ Len(w) + k = i
    BY <1>4
  <2> HIDE DEF k
  <2>2. (w \o fs)[Len(w) + k] = fs[k]
    BY <1>1, <2>1, Joined
  <2> QED BY <2>1, <2>2 DEF k
<1>6. i - Len(w) = 1
  <2>1. fs[i - Len(w)].kind = "l3rtt"
    BY <1>2, <1>5
  <2> QED BY <1>4, <2>1
<1> QED BY <1>1, <1>2, <1>5, <1>6

\* With the first frame gone the others are one place nearer.
LEMMA Nearer ==
    ASSUME TypeOK, NEW n \in Nodes, NEW m \in Nodes, wire[m] # <<>>,
           wire'[m] = Tail(wire[m])
    PROVE  /\ \A i \in Probes(n, m)' : i + 1 \in Probes(n, m) /\ wire'[m][i] = wire[m][i + 1]
           /\ \A i \in Probes(n, m) : i = 1 \/ i - 1 \in Probes(n, m)'
<1> DEFINE w == wire[m]
<1>1. /\ w \in Seq(Frame) /\ Len(w) \in Nat /\ Len(w) >= 1 /\ DOMAIN w = 1 .. Len(w)
      /\ DOMAIN wire'[m] = 1 .. Len(w) - 1
  BY Typed
<1>2. \A k \in 1 .. Len(w) - 1 : wire'[m][k] = w[k + 1] /\ k + 1 \in 1 .. Len(w)
  BY <1>1
<1>3. \A k \in 1 .. Len(w) : k = 1 \/ (k - 1 \in 1 .. Len(w) - 1 /\ (k - 1) + 1 = k)
  BY <1>1
<1> QED BY <1>1, <1>2, <1>3 DEF Probes

\* What a step must leave of a node's state not to concern its probing.
SameClock(n) ==
    /\ entry'[n].known = entry[n].known /\ entry'[n].awaiting = entry[n].awaiting
    /\ entry'[n].silent = entry[n].silent /\ entry'[n].sent = entry[n].sent
    /\ ticked'[n] = ticked[n] /\ lost'[n] = lost[n]

\* The node's probes are where they were, or one place nearer.
LEMMA Carried ==
    ASSUME TypeOK, TypeOK', NEW n \in Nodes, NEW d \in [Nodes -> {0, 1}],
           Probing(n), SameClock(n),
           \A m \in Nodes : \A i \in Probes(n, m)' :
              i + d[m] \in Probes(n, m) /\ wire'[m][i].age = wire[m][i + d[m]].age,
           InFlight(n) => InFlight(n)'
    PROVE  Probing(n)'
<1>1. Single(n)'
  <2> SUFFICES ASSUME NEW m \in Nodes, NEW l \in Nodes,
                      NEW i \in Probes(n, m)', NEW j \in Probes(n, l)'
               PROVE  m = l /\ i = j
    BY DEF Single
  <2>1. m = l /\ i + d[m] = j + d[l]
    BY DEF Probing, Single
  <2>2. i \in Int /\ j \in Int
    BY Typed DEF Probes, TypeOK
  <2> QED BY <2>1, <2>2
<1>2. Awaited(n)'
  BY DEF Probing, Awaited, SameClock
<1>3. Quick(n)' /\ Expecting(n)' /\ Accounted(n)'
  BY DEF Probing, Quick, Expecting, Accounted, SameClock
<1> QED BY <1>1, <1>2, <1>3 DEF Probing

\* No probe is on its way and none is expected.
LEMMA Idle ==
    ASSUME NEW n \in Nodes, \A m \in Nodes : Probes(n, m)' = {}, ~entry'[n].awaiting, Quick(n)'
    PROVE  Probing(n)'
BY DEF Probing, Single, Awaited, Expecting, Accounted

LEMMA ProbingInit == Init => \A n \in Nodes : Probing(n)
<1> SUFFICES ASSUME Init, NEW n \in Nodes PROVE Probing(n)
  OBVIOUS
<1>1. \A m \in Nodes : Probes(n, m) = {}
  BY DEF Init, Probes
<1>2. ~entry[n].known /\ ~entry[n].awaiting
  BY DEF Init, Forgotten, Fresh
<1> QED BY <1>1, <1>2 DEF Probing, Single, Awaited, Quick, Expecting, Accounted

LEMMA NotExpired ==
    ASSUME TypeOK, Timely, NEW n \in Nodes, Probing(n), InFlight(n)
    PROVE  entry[n].known /\ entry[n].awaiting /\ ~Expired(entry[n])
<1>1. PICK m \in Nodes : Probes(n, m) # {}
  BY DEF InFlight
<1> PICK i \in Probes(n, m) : TRUE
  BY <1>1
<1>2. wire[m][i].age \in Nat /\ wire[m][i].age <= MaxDelay
  BY ProbeIsFrame DEF Probing, Awaited
<1>3. entry[n].silent \in Int
  BY Typed DEF Entry
<1>4. entry[n].silent <= Cadence + wire[m][i].age + MaxDelay
  BY <1>2, <1>3, Constants DEF Probing, Awaited
<1>5. entry[n].silent <= Window
  BY <1>2, <1>3, <1>4, Constants DEF Timely
<1> QED BY <1>3, <1>5, Constants DEF Probing, Awaited, Expired

LEMMA RoundProbing ==
    ASSUME TypeOK, Timely, NEW n \in Nodes, Round(n), TypeOK',
           \A m \in Nodes : Probing(m)
    PROVE  \A m \in Nodes : Probing(m)'
<1> DEFINE kept == AfterReset(entry[n])
<1>1. ASSUME NEW q \in Nodes, NEW m \in Nodes, q # n \/ m # n \/ ~Due(kept) \/ ~up
      PROVE  Probes(q, m)' = Probes(q, m) /\ \A i \in Probes(q, m) : wire'[m][i] = wire[m][i]
  <2>1. CASE m # n
    BY <2>1, RoundSends DEF Probes
  <2>2. CASE m = n
    <3>1. \A k \in 1 .. Len(Sent(n)) : Sent(n)[k].kind # "l3rtt" \/ Sent(n)[k].origin # q
      <4>1. CASE SentProbes(n) = <<>>
        BY <4>1, SentTyped DEF Sent, SentRifs, Rif
      <4>2. CASE SentProbes(n) # <<>>
        <5>1. q # n
          BY <1>1, <2>2, <4>2 DEF SentProbes
        <5> QED BY <5>1 DEF Sent, SentProbes, SentRifs, Rif, L3Rtt
      <4> QED BY <4>1, <4>2
    <3> QED BY <2>2, <3>1, NoneFollows, RoundSends, SentTyped
  <2> QED BY <2>1, <2>2
<1>2. ASSUME NEW m \in Nodes, m # n
      PROVE  Probing(m)'
  <2>1. SameClock(m)
    BY <1>2 DEF Round, SameClock, TypeOK
  <2>2. \A l \in Nodes : \A i \in Probes(m, l)' :
           i + 0 \in Probes(m, l) /\ wire'[l][i].age = wire[l][i + 0].age
    BY <1>1, <1>2, ProbeIsFrame
  <2>3. InFlight(m) => InFlight(m)'
    BY <1>1, <1>2 DEF InFlight
  <2> DEFINE d == [l \in Nodes |-> 0]
  <2>4. d \in [Nodes -> {0, 1}] /\ \A l \in Nodes : d[l] = 0
    OBVIOUS
  <2> HIDE DEF d
  <2> QED BY <2>1, <2>2, <2>3, <2>4, Carried
<1>3. ASSUME InFlight(n)
      PROVE  Probing(n)'
  <2>1. entry[n].known /\ entry[n].awaiting /\ kept = entry[n] /\ ~Due(kept)
    BY <1>3, NotExpired DEF AfterReset, Due
  <2>2. entry'[n] = entry[n] /\ lost'[n] = lost[n]
    BY <2>1 DEF Round, TypeOK, Flags
  <2>3. Single(n)' /\ Awaited(n)'
    BY <1>1, <2>1, <2>2 DEF Probing, Single, Awaited
  <2>4. InFlight(n)'
    BY <1>1, <1>3, <2>1 DEF InFlight
  <2> QED BY <2>1, <2>2, <2>3, <2>4 DEF Probing, Quick, Expecting, Accounted
<1>4. ASSUME ~InFlight(n), ~Due(kept)
      PROVE  Probing(n)'
  <2>1. \A m \in Nodes : Probes(n, m)' = {}
    BY <1>1, <1>4 DEF InFlight
  <2>2. entry'[n] = kept
    BY <1>4 DEF Round, TypeOK
  <2>3. CASE Expired(entry[n])
    <3>1. ~entry'[n].known /\ ~entry'[n].awaiting
      BY <2>2, <2>3 DEF AfterReset, Forgotten, Fresh
    <3> QED BY <2>1, <3>1, Idle DEF Quick
  <2>4. CASE ~Expired(entry[n])
    <3>1. kept = entry[n]
      BY <2>4 DEF AfterReset
    <3>2. entry[n].known /\ ~entry[n].awaiting => entry[n].sent < Cadence
      BY <1>4, <3>1, Typed, Constants DEF Due, Timely, Entry
    <3>3. Quick(n)'
      BY <2>2, <3>1, <3>2, Typed, Constants DEF Probing, Quick, Entry
    <3>4. entry[n].known => lost'[n] = lost[n]
      BY <1>4, <3>1 DEF Round, TypeOK, Flags
    <3>5. Accounted(n)' /\ Expecting(n)'
      BY <1>4, <2>2, <3>1, <3>4 DEF Probing, Accounted, Expecting
    <3> QED BY <2>1, <3>3, <3>5 DEF Probing, Single, Awaited
  <2> QED BY <2>3, <2>4
<1>5. ASSUME ~InFlight(n), Due(kept)
      PROVE  Probing(n)'
  <2>1. kept = entry[n] /\ entry[n].known /\ ~entry[n].awaiting
    BY <1>5 DEF Due, AfterReset, Forgotten, Fresh
  <2>2. /\ entry'[n].known /\ entry'[n].awaiting
        /\ entry'[n].silent = entry[n].silent /\ entry[n].silent <= Cadence
    <3>1. entry'[n] = [entry[n] EXCEPT !.sent = 0, !.awaiting = TRUE]
      <4> HIDE DEF kept
      <4>1. entry'[n] = [kept EXCEPT !.sent = 0, !.awaiting = TRUE]
        BY <1>5 DEF Round, TypeOK, kept
      <4> QED BY <2>1, <4>1
    <3>2. entry[n].silent <= entry[n].sent
      BY <2>1 DEF Probing, Quick
    <3> QED BY <2>1, <3>1, <3>2, Typed, Constants DEF Entry
  <2>3. \A m \in Nodes : Probes(n, m) = {}
    BY <1>5 DEF InFlight
  <2>4. CASE ~up
    <3>1. lost'[n]
      <4> HIDE DEF kept
      <4>1. kept.known /\ Due(kept)
        BY <1>5, <2>1
      <4>2. lost'[n] = (kept.known /\ (lost[n] \/ (Due(kept) /\ ~up)))
        BY DEF Round, TypeOK, Flags, kept
      <4> QED BY <2>4, <4>1, <4>2
    <3>2. \A m \in Nodes : Probes(n, m)' = {}
      BY <1>1, <2>3, <2>4
    <3> QED BY <2>2, <3>1, <3>2 DEF Probing, Single, Awaited, Quick, Expecting, Accounted
  <2>5. CASE up
    <3>1. Sent(n) = <<L3Rtt(n)>> \o SentRifs(n)
      BY <1>5, <2>5 DEF Sent, SentProbes
    <3>2. /\ L3Rtt(n) \in Frame /\ SentRifs(n) \in Seq(Frame)
          /\ \A k \in 1 .. Len(SentRifs(n)) : SentRifs(n)[k].kind # "l3rtt"
      BY FramesTyped, SentTyped DEF SentRifs, Rif
    <3>3. /\ Sent(n) \in Seq(Frame) /\ Len(Sent(n)) >= 1 /\ Sent(n)[1] = L3Rtt(n)
          /\ \A k \in 1 .. Len(Sent(n)) : k # 1 => Sent(n)[k].kind # "l3rtt"
      <4>1. CASE SentRifs(n) = <<>>
        <5>1. Sent(n) = <<L3Rtt(n)>>
          BY <3>1, <3>2, <4>1
        <5> QED BY <3>2, <5>1
      <4>2. CASE SentRifs(n) = <<Rif(n, Tells(n))>>
        <5>1. Rif(n, Tells(n)) \in Frame /\ Rif(n, Tells(n)).kind # "l3rtt"
          BY FramesTyped DEF Tells, Tellings, Rif
        <5>2. /\ Sent(n) \in Seq(Frame) /\ Len(Sent(n)) = 2
              /\ Sent(n)[1] = L3Rtt(n) /\ Sent(n)[2] = Rif(n, Tells(n))
          BY <3>1, <3>2, <4>2, <5>1, Pair
        <5> QED BY <3>2, <5>1, <5>2
      <4> QED BY <4>1, <4>2 DEF SentRifs
    <3>4. \A i \in Probes(n, n)' : i = Len(wire[n]) + 1 /\ wire'[n][i] = L3Rtt(n)
      <4>1. wire'[n] = wire[n] \o Sent(n) /\ Probes(n, n) = {}
        BY <2>3, RoundSends
      <4>2. \A k \in 1 .. Len(Sent(n)) : k # 1 => Sent(n)[k].kind # "l3rtt"
        BY <3>3
      <4>3. \A i \in Probes(n, n)' : i = Len(wire[n]) + 1 /\ wire'[n][i] = Sent(n)[1]
        BY <3>3, <4>1, <4>2, OneFollows
      <4> QED BY <3>3, <4>3
    <3>5. \A m \in Nodes : m # n => Probes(n, m)' = {}
      BY <1>1, <2>3
    <3>6. Single(n)'
      BY <3>4, <3>5 DEF Single
    <3>7. Awaited(n)'
      <4>1. L3Rtt(n).age = 0 /\ entry[n].silent \in Nat
        BY Typed DEF L3Rtt, Entry
      <4> QED BY <2>2, <3>4, <3>5, <4>1, Constants DEF Awaited
    <3>8. InFlight(n)'
      <4>1. /\ Len(wire[n]) + 1 \in DOMAIN wire'[n]
            /\ wire'[n][Len(wire[n]) + 1] = L3Rtt(n)
        <5>1. wire[n] \in Seq(Frame) /\ wire'[n] = wire[n] \o Sent(n)
          BY RoundSends, Typed
        <5> QED BY <3>3, <5>1
      <4> QED BY <4>1 DEF InFlight, Probes, L3Rtt
    <3> QED BY <2>2, <3>6, <3>7, <3>8 DEF Probing, Quick, Expecting, Accounted
  <2> QED BY <2>4, <2>5
<1> QED BY <1>2, <1>3, <1>4, <1>5

LEMMA HearProbing ==
    ASSUME TypeOK, NEW n \in Nodes, Hear(n), TypeOK',
           \A m \in Nodes : Probing(m)
    PROVE  \A m \in Nodes : Probing(m)'
<1> PICK p \in Nodes : p = Peer(n)
  BY PeerIsTheOther
<1> DEFINE f == Inbound(n)
           back == [f EXCEPT !.age = 0]
           d == [m \in Nodes |-> IF m = p THEN 1 ELSE 0]
<1>1. p = Peer(n) /\ p # n /\ \A m \in Nodes : m = n \/ m = p
  BY PeerIsTheOther
<1>2. /\ wire[p] \in Seq(Frame) /\ wire[p] # <<>> /\ f = wire[p][1] /\ f \in Frame
      /\ wire'[p] = Tail(wire[p])
  <2>1. wire[p] \in Seq(Frame) /\ f = Head(wire[p])
    BY <1>1, Typed DEF Inbound
  <2>2. wire[p] # <<>> /\ wire'[p] = Tail(wire[p]) /\ f \in Frame
    BY <1>1, HearTakes
  <2>3. f = wire[p][1]
    BY <2>1
  <2> QED BY <2>1, <2>2, <2>3
<1>3. \/ wire'[n] = wire[n]
      \/ /\ HearL3Rtt(n) /\ f.kind = "l3rtt"
         /\ wire'[n] = wire[n] \o <<back>>
  BY HearTakes
<1>4. back \in Frame /\ back.kind = f.kind /\ back.origin = f.origin /\ back.age = 0
  BY <1>2, Aged DEF Frame
<1>5. d \in [Nodes -> {0, 1}] /\ d[p] = 1 /\ d[n] = 0
  BY <1>1
<1>6. ticked' = ticked /\ entry'[p] = entry[p] /\ lost'[p] = lost[p]
  <2>1. ticked' = ticked
    BY DEF Hear, HearL3Rtt, HearRif, HearL4
  <2>2. entry'[p] = entry[p]
    BY <1>1 DEF Hear, HearL3Rtt, HearRif, HearL4, TypeOK
  <2>3. lost'[p] = lost[p]
    <3>1. CASE HearL3Rtt(n)
      BY <1>1, <3>1 DEF HearL3Rtt, TypeOK, Flags
    <3>2. CASE HearRif(n) \/ HearL4(n)
      BY <3>2 DEF HearRif, HearL4
    <3> QED BY <3>1, <3>2 DEF Hear
  <2> QED BY <2>1, <2>2, <2>3
<1>7. 1 \in DOMAIN wire[p] /\ f.origin \in {n, p}
  BY <1>1, <1>2 DEF Frame
<1> HIDE DEF f, back, d
\* A probe taken is the only one of its node.
<1>8. ASSUME NEW q \in Nodes, f.kind = "l3rtt", f.origin = q
      PROVE  /\ \A m \in Nodes : \A i \in Probes(q, m) : m = p /\ i = 1
             /\ entry[q].known /\ entry[q].awaiting /\ f.age <= MaxDelay
             /\ entry[q].silent <= Cadence + f.age + (IF p = q THEN 0 ELSE MaxDelay)
             /\ Probes(q, p)' = {}
  <2>1. 1 \in Probes(q, p)
    BY <1>2, <1>7, <1>8 DEF Probes
  <2>2. \A m \in Nodes : \A i \in Probes(q, m) : m = p /\ i = 1
    BY <1>1, <2>1 DEF Probing, Single
  <2>3. Probes(q, p)' = {}
    <3>1. \A i \in Probes(q, p)' : i + 1 \in Probes(q, p) /\ i \in 1 .. Len(wire'[p])
      BY <1>1, <1>2, Nearer, Typed DEF Probes, TypeOK
    <3>2. \A i \in Probes(q, p)' : i + 1 = 1 /\ i >= 1 /\ i \in Int
      BY <1>1, <2>2, <3>1
    <3> QED BY <3>2
  <2> QED BY <1>1, <1>2, <2>1, <2>2, <2>3 DEF Probing, Awaited
\* Any other frame leaves a node's probes on their way.
<1>9. ASSUME NEW q \in Nodes, f.kind # "l3rtt" \/ f.origin # q
      PROVE  /\ \A m \in Nodes : \A i \in Probes(q, m)' :
                    i + d[m] \in Probes(q, m) /\ wire'[m][i].age = wire[m][i + d[m]].age
             /\ InFlight(q) => InFlight(q)'
  <2>1. /\ \A i \in Probes(q, p)' : i + 1 \in Probes(q, p) /\ wire'[p][i] = wire[p][i + 1]
        /\ \A i \in Probes(q, p) : i # 1 => i - 1 \in Probes(q, p)'
    BY <1>1, <1>2, Nearer
  <2>2. 1 \notin Probes(q, p)
    BY <1>2, <1>9 DEF Probes
  <2>3. Probes(q, n)' = Probes(q, n) /\ \A i \in Probes(q, n) : wire'[n][i] = wire[n][i]
    <3>1. CASE wire'[n] = wire[n]
      BY <3>1 DEF Probes
    <3>2. CASE f.kind = "l3rtt" /\ wire'[n] = wire[n] \o <<back>>
      <4>1. <<back>> \in Seq(Frame) /\ \A k \in 1 .. Len(<<back>>) :
               <<back>>[k].kind # "l3rtt" \/ <<back>>[k].origin # q
        BY <1>4, <1>9, <3>2
      <4> QED BY <3>2, <4>1, NoneFollows
    <3> QED BY <1>3, <3>1, <3>2
  <2>4. \A i \in Probes(q, n) : i + 0 = i
    BY ProbeIsFrame
  <2> QED BY <1>1, <1>5, <2>1, <2>2, <2>3, <2>4 DEF InFlight
<1>10. Probing(p)'
  <2>1. CASE f.kind # "l3rtt" \/ f.origin # p
    <3>1. SameClock(p)
      BY <1>6 DEF SameClock
    <3> QED BY <1>1, <1>5, <1>9, <2>1, <3>1, Carried
  <2>2. CASE f.kind = "l3rtt" /\ f.origin = p
    <3>1. /\ \A i \in Probes(p, p) : i = 1
          /\ entry[p].known /\ entry[p].awaiting /\ f.age <= MaxDelay
          /\ entry[p].silent <= Cadence + f.age
          /\ Probes(p, p)' = {} /\ Probes(p, n) = {}
      <4>1. /\ \A m \in Nodes : \A i \in Probes(p, m) : m = p /\ i = 1
            /\ entry[p].known /\ entry[p].awaiting /\ f.age <= MaxDelay
            /\ entry[p].silent <= Cadence + f.age + (IF p = p THEN 0 ELSE MaxDelay)
            /\ Probes(p, p)' = {}
        BY <1>1, <1>8, <2>2
      <4>2. entry[p].silent <= Cadence + f.age
        BY <1>1, <1>2, <4>1, Typed, Constants DEF Entry, Frame
      <4> QED BY <1>1, <4>1, <4>2
    <3>2. HearL3Rtt(n) /\ wire'[n] = wire[n] \o <<back>>
      <4>1. HearL3Rtt(n)
        BY <2>2 DEF Hear, HearRif, HearL4, Arrives, f
      <4>2. wire'[n] = Append(wire[n], back)
        BY <1>1, <2>2, <4>1 DEF HearL3Rtt, Taken, TypeOK, f, back
      <4>3. Append(wire[n], back) = wire[n] \o <<back>>
        BY <1>4, Typed
      <4> QED BY <4>1, <4>2, <4>3
    <3>3. /\ <<back>> \in Seq(Frame) /\ <<back>>[1] = back
          /\ \A k \in 1 .. Len(<<back>>) : k # 1 => <<back>>[k].kind # "l3rtt"
      BY <1>4
    <3>4. \A i \in Probes(p, n)' : i = Len(wire[n]) + 1 /\ wire'[n][i] = back
      <4>0. p \in Nodes /\ n \in Nodes /\ Probes(p, n) = {}
        BY <3>1
      <4> DEFINE fs == <<back>>
      <4>1. fs \in Seq(Frame) /\ wire'[n] = wire[n] \o fs
        BY <3>2, <3>3
      <4>2. fs[1] = back
        BY <3>3
      <4>3. \A k \in 1 .. Len(fs) : k # 1 => fs[k].kind # "l3rtt"
        BY <3>3
      <4> HIDE DEF fs
      <4>4. \A i \in Probes(p, n)' : i = Len(wire[n]) + 1 /\ wire'[n][i] = fs[1]
        BY <4>0, <4>1, <4>3, OneFollows
      <4> QED BY <4>2, <4>4
    <3>5. Single(p)'
      BY <1>1, <3>1, <3>4 DEF Single
    <3>6. Awaited(p)'
      <4>1. entry[p].silent \in Int /\ f.age \in Nat
        BY <1>1, <1>2, Typed DEF Entry, Frame
      <4>2. entry[p].silent <= Cadence + 0 + MaxDelay /\ 0 <= MaxDelay
        BY <3>1, <4>1, Constants
      <4> QED BY <1>1, <1>4, <1>6, <3>1, <3>4, <4>2 DEF Awaited
    <3>7. InFlight(p)'
      <4>1. /\ Len(wire[n]) + 1 \in DOMAIN wire'[n]
            /\ wire'[n][Len(wire[n]) + 1] = back
        <5>1. wire[n] \in Seq(Frame)
          BY Typed
        <5> QED BY <1>4, <3>2, <5>1
      <4> QED BY <1>4, <2>2, <4>1 DEF InFlight, Probes
    <3> QED BY <1>6, <3>1, <3>5, <3>6, <3>7 DEF Probing, Quick, Expecting, Accounted
  <2> QED BY <2>1, <2>2
<1>11. Probing(n)'
  <2>1. CASE f.kind = "l3rtt" /\ f.origin = n
    <3>1. HearL3Rtt(n)
      BY <2>1 DEF Hear, HearRif, HearL4, Arrives, f
    <3>2. /\ \A m \in Nodes : \A i \in Probes(n, m) : m = p
          /\ entry[n].known /\ entry[n].awaiting /\ Probes(n, p)' = {}
      BY <1>8, <2>1
    <3>3. Observe(entry[n]) = entry[n]
      BY <3>2 DEF Observe
    <3>4. /\ entry'[n] = Reflected([entry[n] EXCEPT !.capable = TRUE])
          /\ wire'[n] = wire[n]
      BY <1>1, <2>1, <3>1, <3>2, <3>3, Typed DEF HearL3Rtt, Taken, TypeOK, Entry, f
    <3>5. ~entry'[n].awaiting /\ entry'[n].silent = 0 /\ entry'[n].sent \in Nat
      BY <3>4, Typed DEF Reflected, Entry
    <3>6. Probes(n, n)' = {}
      BY <1>1, <3>2, <3>4 DEF Probes
    <3> QED BY <1>1, <3>2, <3>5, <3>6, Idle DEF Quick
  <2>2. CASE ~(f.kind = "l3rtt" /\ f.origin = n)
    <3> DEFINE heard == [Observe(entry[n]) EXCEPT !.capable = TRUE]
    <3>1. entry'[n] = Observe(entry[n]) \/ entry'[n] = heard
      <4>1. HearL3Rtt(n) => f.origin # n
        BY <2>2 DEF HearL3Rtt, Arrives, f
      <4> QED BY <4>1 DEF Hear, HearL3Rtt, HearRif, HearL4, TypeOK, f
    <3>2. lost'[n] = lost[n]
      <4>1. HearL3Rtt(n) => f.origin # n
        BY <2>2 DEF HearL3Rtt, Arrives, f
      <4> QED BY <4>1 DEF Hear, HearL3Rtt, HearRif, HearL4, TypeOK, Flags, f
    <3>3. CASE entry[n].known
      <4>1. SameClock(n)
        BY <1>6, <3>1, <3>2, <3>3, Typed DEF SameClock, Observe, Entry
      <4> QED BY <1>5, <1>9, <2>2, <4>1, Carried
    <3>4. CASE ~entry[n].known
      <4>1. \A m \in Nodes : Probes(n, m) = {}
        BY <3>4 DEF Probing, Awaited
      <4>2. \A m \in Nodes : Probes(n, m)' = {}
        BY <1>9, <2>2, <4>1
      <4>3. ~entry'[n].awaiting /\ entry'[n].silent = 0 /\ entry'[n].sent = Cadence
        BY <3>1, <3>4 DEF Observe, Fresh
      <4> QED BY <4>2, <4>3, Idle, Constants DEF Quick
    <3> QED BY <3>3, <3>4
  <2> QED BY <2>1, <2>2
<1> QED BY <1>1, <1>10, <1>11

LEMMA SendL4Probing ==
    ASSUME TypeOK, NEW n \in Nodes, SendL4(n), TypeOK', NEW q \in Nodes, Probing(q)
    PROVE  Probing(q)'
<1>1. SameClock(q)
  BY DEF SendL4, SameClock
<1>2. ASSUME NEW m \in Nodes PROVE Probes(q, m)' = Probes(q, m)
  <2>1. CASE m # n
    BY <2>1 DEF SendL4, TypeOK, Probes
  <2>2. CASE m = n
    <3>1. wire[n] = <<>> /\ wire'[n] = <<L4(n)>> /\ L4(n).kind = "l4"
      BY DEF SendL4, TypeOK, L4
    <3> QED BY <2>2, <3>1 DEF Probes
  <2> QED BY <2>1, <2>2
<1>3. ASSUME NEW m \in Nodes, NEW i \in Probes(q, m) PROVE wire'[m][i] = wire[m][i] /\ i + 0 = i
  <2>1. m # n
    BY <1>3 DEF SendL4, Probes
  <2> QED BY <1>3, <2>1, ProbeIsFrame DEF SendL4, TypeOK
<1> DEFINE d == [m \in Nodes |-> 0]
<1>4. d \in [Nodes -> {0, 1}] /\ \A m \in Nodes : d[m] = 0
  OBVIOUS
<1> HIDE DEF d
<1> QED BY <1>1, <1>2, <1>3, <1>4, Carried DEF InFlight

LEMMA UnconcernedProbing ==
    ASSUME TypeOK, TypeOK', NEW q \in Nodes, Probing(q),
           UNCHANGED <<entry, wire, ticked, lost>>
    PROVE  Probing(q)'
BY DEF Probing, Single, Awaited, Quick, Expecting, Accounted, InFlight, Probes

LEMMA CutProbing ==
    ASSUME TypeOK, NEW q \in Nodes, Probing(q), LinkDrops \/ \E n \in Nodes : Restart(n)
    PROVE  Probing(q)'
<1>1. \A m \in Nodes : Probes(q, m)' = {}
  BY DEF LinkDrops, Restart, Cut, Probes
<1>2. CASE LinkDrops \/ \E n \in Nodes : Restart(n) /\ n # q
  <2>1. entry'[q] = entry[q] /\ ticked'[q] = ticked[q]
    BY <1>2 DEF LinkDrops, Restart, TypeOK
  <2>2. InFlight(q) \/ lost[q] => lost'[q]
    BY <1>2 DEF LinkDrops, Restart
  <2> QED BY <1>1, <2>1, <2>2 DEF Probing, Single, Awaited, Quick, Expecting, Accounted
<1>3. CASE Restart(q)
  <2>1. ~entry'[q].known /\ ~entry'[q].awaiting
    BY <1>3 DEF Restart, TypeOK, Forgotten, Fresh
  <2> QED BY <1>1, <2>1, Idle DEF Quick
<1> QED BY <1>2, <1>3

\* A tick ages the silence and the frames alike; a node that expects no answer
\* has had its round, so the next probe was not due yet.
LEMMA ElapseProbing ==
    ASSUME TypeOK, NEW q \in Nodes, Probing(q), Elapse
    PROVE  Probing(q)'
<1>1. ASSUME NEW m \in Nodes
      PROVE  /\ Probes(q, m)' = Probes(q, m)
             /\ \A i \in Probes(q, m) : wire'[m][i].age = wire[m][i].age + 1
  <2>1. DOMAIN wire'[m] = DOMAIN wire[m]
    BY DEF Elapse
  <2>2. ASSUME NEW i \in DOMAIN wire[m]
        PROVE  /\ wire'[m][i].kind = wire[m][i].kind /\ wire'[m][i].origin = wire[m][i].origin
               /\ wire'[m][i].age = wire[m][i].age + 1
    <3>1. wire[m][i] \in Frame /\ wire'[m][i] = [wire[m][i] EXCEPT !.age = @ + 1]
      BY Typed DEF Elapse
    <3> QED BY <3>1 DEF Frame
  <2> QED BY <2>1, <2>2 DEF Probes
<1>2. ASSUME NEW m \in Nodes, NEW i \in Probes(q, m) PROVE wire[m][i].age < MaxDelay /\ wire[m][i].age \in Nat
  <2>1. i \in DOMAIN wire[m]
    BY DEF Probes
  <2> QED BY <2>1, ProbeIsFrame DEF Elapse
<1>3. /\ entry'[q].known = entry[q].known /\ entry'[q].awaiting = entry[q].awaiting
      /\ entry[q].known => /\ entry'[q].silent <= entry[q].silent + 1
                           /\ entry'[q].sent = Older(entry[q].sent, Cadence)
      /\ {entry[q].silent, entry'[q].silent, entry[q].sent} \subseteq Nat /\ entry[q].sent <= Cadence
  <2>1. entry[q] \in Entry
    BY Typed
  <2>2. CASE entry[q].known
    <3>1. entry'[q] = [entry[q] EXCEPT !.sent = Older(@, Cadence), !.silent = Older(@, Window + 1)]
      BY <2>2 DEF Elapse
    <3>2. /\ entry'[q].sent = Older(entry[q].sent, Cadence)
          /\ entry'[q].silent = Older(entry[q].silent, Window + 1)
          /\ entry'[q].known = entry[q].known /\ entry'[q].awaiting = entry[q].awaiting
      BY <2>1, <3>1 DEF Entry
    <3>3. /\ entry[q].silent \in 0 .. Window + 1 /\ entry[q].sent \in 0 .. Cadence
      BY <2>1 DEF Entry
    <3>4. Older(entry[q].silent, Window + 1) \in Nat /\ Older(entry[q].silent, Window + 1) <= entry[q].silent + 1
      BY <3>3, Constants DEF Older
    <3> QED BY <2>2, <3>2, <3>3, <3>4, Constants
  <2>3. CASE ~entry[q].known
    <3>1. entry'[q] = entry[q]
      BY <2>3 DEF Elapse
    <3> QED BY <2>1, <2>3, <3>1, Constants DEF Entry
  <2> QED BY <2>1, <2>2, <2>3 DEF Entry
<1>4. Single(q)'
  BY <1>1 DEF Probing, Single
<1>5. Awaited(q)'
  <2> SUFFICES ASSUME NEW m \in Nodes, NEW i \in Probes(q, m)'
               PROVE  /\ entry'[q].known /\ entry'[q].awaiting /\ wire'[m][i].age <= MaxDelay
                      /\ entry'[q].silent <= Cadence + wire'[m][i].age + (IF m = q THEN 0 ELSE MaxDelay)
    BY DEF Awaited
  <2>1. i \in Probes(q, m) /\ wire'[m][i].age = wire[m][i].age + 1
    BY <1>1
  <2>2. /\ entry[q].known /\ entry[q].awaiting
        /\ entry[q].silent <= Cadence + wire[m][i].age + (IF m = q THEN 0 ELSE MaxDelay)
    BY <2>1 DEF Probing, Awaited
  <2>3. wire[m][i].age < MaxDelay /\ wire[m][i].age \in Nat
    BY <1>2, <2>1
  <2> QED BY <1>3, <2>1, <2>2, <2>3, Constants
<1>6. Quick(q)'
  <2> SUFFICES ASSUME entry[q].known, ~entry[q].awaiting
               PROVE  entry'[q].silent <= entry'[q].sent
    BY <1>3 DEF Quick, Elapse
  <2>1. ticked[q]
    BY DEF Elapse
  <2>2. entry[q].silent <= entry[q].sent /\ (entry[q].sent = Cadence => entry[q].silent = 0)
    BY <2>1 DEF Probing, Quick
  <2> QED BY <1>3, <2>2, Constants DEF Older
<1>7. Expecting(q)' /\ Accounted(q)'
  BY <1>1, <1>3 DEF Probing, Expecting, Accounted, InFlight, Elapse
<1> QED BY <1>4, <1>5, <1>6, <1>7 DEF Probing

LEMMA ProbingStep ==
    ASSUME Timely
    PROVE  TypeOK /\ (\A n \in Nodes : Probing(n)) /\ [Next]_vars
           => TypeOK' /\ \A n \in Nodes : Probing(n)'
<1> SUFFICES ASSUME TypeOK, \A n \in Nodes : Probing(n), [Next]_vars
             PROVE  TypeOK' /\ \A n \in Nodes : Probing(n)'
  OBVIOUS
<1>1. TypeOK'
  BY TypeStep
<1>2. CASE UNCHANGED vars \/ LinkReturns \/ \E n \in Advertisers : RouteFound(n) \/ RouteLost(n)
  <2>1. UNCHANGED <<entry, wire, ticked, lost>>
    BY <1>2 DEF vars, LinkReturns, RouteFound, RouteLost
  <2> QED BY <1>1, <2>1, UnconcernedProbing
<1>3. ASSUME NEW n \in Nodes, Round(n) \/ Hear(n) PROVE \A m \in Nodes : Probing(m)'
  BY <1>1, <1>3, RoundProbing, HearProbing
<1>4. CASE LinkDrops \/ Elapse \/ \E n \in Nodes : SendL4(n) \/ Restart(n)
  BY <1>1, <1>4, CutProbing, ElapseProbing, SendL4Probing
<1> QED BY <1>1, <1>2, <1>3, <1>4 DEF Next

\* With a window that outlasts the cadence and a round trip, however the frames
\* and the rounds interleave and whatever is lost, a probe is alone on its way
\* and its sender awaits it ...
THEOREM OneProbeAtATime ==
    ASSUME Timely
    PROVE  Spec => []OneInFlight
<1>1. Init => TypeOK /\ \A n \in Nodes : Probing(n)
  BY TypeInit, ProbingInit
<1>2. TypeOK /\ (\A n \in Nodes : Probing(n)) /\ [Next]_vars
      => (TypeOK /\ \A n \in Nodes : Probing(n))'
  BY ProbingStep
<1>3. (\A n \in Nodes : Probing(n)) => OneInFlight
  BY DEF Probing, Single, Awaited, OneInFlight
<1> QED BY <1>1, <1>2, <1>3, PTL DEF Spec

\* ... and a neighbour is reset only when a probe or its answer was lost.
THEOREM ResetOnlyAfterLoss ==
    ASSUME Timely
    PROVE  Spec => []DownOnlyAfterLoss
<1>1. Init => TypeOK /\ \A n \in Nodes : Probing(n)
  BY TypeInit, ProbingInit
<1>2. TypeOK /\ (\A n \in Nodes : Probing(n)) /\ [Next]_vars
      => (TypeOK /\ \A n \in Nodes : Probing(n))'
  BY ProbingStep
<1>3. TypeOK /\ (\A n \in Nodes : Probing(n)) => DownOnlyAfterLoss
  <2> SUFFICES ASSUME TypeOK, NEW n \in Nodes, Probing(n), Expired(entry[n]), ~lost[n]
               PROVE  FALSE
    BY DEF DownOnlyAfterLoss
  <2>1. entry[n].known /\ entry[n].silent > Window
    BY DEF Expired
  <2>2. CASE entry[n].awaiting
    BY <2>2, NotExpired DEF Probing, Accounted
  <2>3. CASE ~entry[n].awaiting
    BY <2>1, <2>3, Typed, Constants DEF Probing, Quick, Entry
  <2> QED BY <2>2, <2>3
<1> QED BY <1>1, <1>2, <1>3, PTL DEF Spec

=============================================================================
