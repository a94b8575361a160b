----------------------------- MODULE CircuitPair -----------------------------
(***************************************************************************)
(* The two ends of one established circuit and the datagram network        *)
(* between them.  The network may lose, duplicate and deliver out of order; *)
(* retransmission timers may expire at any moment, or, when Patient, only  *)
(* once nothing is in flight.                                              *)
(*                                                                         *)
(* The pair starts where a connect handshake without faults leaves it.  A  *)
(* circuit that closes is deregistered by its manager in the same call     *)
(* (CircuitManager::collect), and from then on its node answers as the     *)
(* manager does for a circuit it does not know.  CircuitManager models the *)
(* handshake, several circuits per node, and restarts.                     *)
(***************************************************************************)
EXTENDS NetRomCircuit

Ends == {"A", "B"}

Peer == [e \in Ends |-> IF e = "A" THEN "B" ELSE "A"]

CONSTANT
  Scenarios  \* what applications, network and timers may do; one is chosen

\* `keyOfB' is the circuit key node B allocated (node A's is 0), `sizes' the
\* lengths of the applications' writes; `patient' says that timers expire only
\* when nothing is on its way.  The other fields are bounds: frames written
\* per end, disconnect calls, and datagrams lost, delivered twice, and
\* delivered ahead of older ones.
ASSUME PairAssumption ==
  Scenarios \subseteq
    [keyOfB : Nat, sizes : SUBSET (Nat \ {0}), patient : BOOLEAN,
     writes : [Ends -> Nat], hangups : Nat, loss : Nat, duplicates : Nat,
     overtakes : Nat]

VARIABLES
  circuit,    \* per end: the NetRomCircuit
  net,        \* per end: the datagrams on their way to it, oldest first
  written,    \* per end: the frames its application wrote
  delivered,  \* per end: the frames handed to its application
  reason,     \* per end: why its circuit closed, or "None"
  scenario,   \* the scenario chosen
  spent       \* how much of its faults and disconnects is used up

vars == <<circuit, net, written, delivered, reason, scenario, spent>>

-----------------------------------------------------------------------------
Handshake(keyOfB) ==
  LET asked == Connect(NewCircuit(0))
      taken == AcceptInbound(NewCircuit(keyOfB), asked.out[1].from,
                             asked.out[1].window)
  IN  [e \in Ends |-> IF e = "A"
                      THEN OnConnectAcknowledge(asked.c, taken.out[1]).c
                      ELSE taken.c]

Init ==
  /\ scenario \in Scenarios
  /\ circuit = Handshake(scenario.keyOfB)
  /\ net = [e \in Ends |-> <<>>]
  /\ written = [e \in Ends |-> <<>>]
  /\ delivered = [e \in Ends |-> <<>>]
  /\ reason = [e \in Ends |-> "None"]
  /\ spent = [loss |-> 0, duplicates |-> 0, overtakes |-> 0,
             hangups |-> 0]

Closed(e) == circuit[e].state = "Disconnected"

\* The call that returned r was made on end e; `rest' is what remains of the
\* datagrams on their way to e.
Finish(e, r, rest) ==
  /\ circuit' = [circuit EXCEPT ![e] = r.c]
  /\ net' = [net EXCEPT ![e] = rest, ![Peer[e]] = @ \o r.out]
  /\ delivered' = [delivered EXCEPT ![e] = @ \o Handed(r.ev)]
  /\ LET closed == SelectSeq(r.ev, LAMBDA x : x.type = "Closed")
     IN  reason' = [reason EXCEPT
                      ![e] = IF closed = <<>> THEN @ ELSE closed[1].reason]

\* The k-th frame of an end, n units long, each one recognisable.
Frame(k, n) == [i \in 1..n |-> <<k, i>>]

NextFrame(e, n) == Frame(Len(written[e]) + 1, n)

Write(e) ==
  /\ circuit[e].state = "Connected"
  /\ Len(written[e]) < scenario.writes[e]
  /\ \E n \in scenario.sizes :
       /\ written' = [written EXCEPT ![e] = Append(@, NextFrame(e, n))]
       /\ Finish(e, Send(circuit[e], NextFrame(e, n)), net[e])
  /\ UNCHANGED <<scenario, spent>>

Hangup(e) ==
  /\ circuit[e].state = "Connected"
  /\ spent.hangups < scenario.hangups
  /\ Finish(e, Disconnect(circuit[e]), net[e])
  /\ spent' = [spent EXCEPT !.hangups = @ + 1]
  /\ UNCHANGED <<written, scenario>>

\* Mutant: a Disconnect Request for an unknown circuit is dropped.
UnmatchedSilent(e, m) == Quiet(circuit[e])

\* What the manager does with a datagram for a circuit it does not know.
Unmatched(e, m) ==
  Result(circuit[e],
         IF m.op = "DisconnectRequest"
         THEN <<[op |-> "DisconnectAcknowledge", key |-> m.key]>>
         ELSE <<>>,
         <<>>)

Handled(e, m) ==
  IF Closed(e) \/ m.key # circuit[e].local
  THEN Unmatched(e, m)
  ELSE OnPacket(circuit[e], m)

Deliver(e) ==
  /\ net[e] # <<>>
  /\ Finish(e, Handled(e, Head(net[e])), Tail(net[e]))
  /\ UNCHANGED <<written, scenario, spent>>

Overtake(e) ==
  /\ spent.overtakes < scenario.overtakes
  /\ \E i \in 2 .. Len(net[e]) :
       Finish(e, Handled(e, net[e][i]), RemoveAt(net[e], i))
  /\ spent' = [spent EXCEPT !.overtakes = @ + 1]
  /\ UNCHANGED <<written, scenario>>

Duplicate(e) ==
  /\ spent.duplicates < scenario.duplicates
  /\ net[e] # <<>>
  /\ Finish(e, Handled(e, Head(net[e])), net[e])
  /\ spent' = [spent EXCEPT !.duplicates = @ + 1]
  /\ UNCHANGED <<written, scenario>>

Lose(e) ==
  /\ spent.loss < scenario.loss
  /\ net[e] # <<>>
  /\ net' = [net EXCEPT ![e] = Tail(@)]
  /\ spent' = [spent EXCEPT !.loss = @ + 1]
  /\ UNCHANGED <<circuit, written, delivered, reason, scenario>>

\* A timer of end e is due: the control timer, or that of the oldest fragment.
Expire(e) ==
  /\ \/ circuit[e].controlArmed
     \/ circuit[e].state = "Connected" /\ circuit[e].unacked # {}
  /\ scenario.patient => \A x \in Ends : net[x] = <<>>
  /\ Finish(e, Tick(circuit[e], TRUE, TRUE), net[e])
  /\ UNCHANGED <<written, scenario, spent>>

\* The consumer of end e takes one delivered frame off its backlog.
Drain(e) ==
  /\ circuit[e].pending > 0
  /\ Finish(e, OnDeliveryDrained(circuit[e]), net[e])
  /\ UNCHANGED <<written, scenario, spent>>

Next ==
  \E e \in Ends :
    \/ Write(e) \/ Hangup(e) \/ Deliver(e) \/ Overtake(e)
    \/ Duplicate(e) \/ Lose(e) \/ Expire(e) \/ Drain(e)

Spec == Init /\ [][Next]_vars

\* A datagram not lost arrives, a timer that stays due is found due by the
\* next tick, and a consumer keeps reading.  Applications owe nothing.
FairSpec ==
  Spec /\ \A e \in Ends : WF_vars(Deliver(e)) /\ WF_vars(Expire(e))
                          /\ WF_vars(Drain(e))

-----------------------------------------------------------------------------
OpenEnds == [e \in Ends |-> circuit[e].state = "Connected"]

\* The frames that the applications of some scenario may write.
FramesOf(scn) ==
  {Frame(k, n) : k \in 1 .. scn.writes.A + scn.writes.B, n \in scn.sizes}

Writable == UNION {FramesOf(scn) : scn \in Scenarios}

Service == INSTANCE StreamService WITH open <- OpenEnds, Frames <- Writable

\* The shape of the pair's state.
TypeOK ==
  /\ \A e \in Ends :
       /\ circuit[e].state \in States
       /\ {circuit[e].va} \cup {m.rx : m \in
             {x \in Range(net[e]) : x.op \in {"Information",
                                              "InformationAcknowledge"}}}
            \subseteq 0 .. SeqSpace - 1
       /\ Len(delivered[e]) <= circuit[e].vr
       /\ reason[e] \in Reasons \cup {"None"}

\* The circuit implements the service: what one application writes reaches
\* the other whole, once and in order, over losses, duplicates, reordering,
\* timer races and the wraparound of the sequence numbers.
ImplementsService == Service!Spec

\* An acknowledgement is never taken for more than the peer has received: a
\* fragment that an open end no longer holds has been taken in by the peer.
AckMeansReceived ==
  \A e \in Ends : circuit[e].state = "Connected" =>
    \A p \in 0 .. circuit[e].vs - 1 :
      p \in {u.pos : u \in circuit[e].unacked} \/ p < circuit[Peer[e]].vr

\* The network has lost one datagram at most and kept the others in order.
OneLossOnly == spent.loss <= 1 /\ spent.duplicates = 0 /\ spent.overtakes = 0

\* With a window no larger than the retry budget plus one and timers that wait
\* for the round trip, one lost datagram never costs the circuit before someone
\* hangs up, although every fragment of the window sent after it brings back a
\* negative acknowledgement that is charged to the retry count of the lost one.
\* A second loss, a duplicate or an overtaking datagram can add one charge more
\* than the budget holds, so they are excluded.
LossNeverTimesOut ==
  /\ scenario.patient /\ OneLossOnly /\ spent.hangups = 0
  /\ WindowSize <= MaxRetries + 1
  => \A e \in Ends : reason[e] # "Timeout"

\* No Disconnect Request is left hanging, as long as timers wait for the round
\* trip and no more than MaxRetries datagrams are lost: when the end that hung up
\* is done, its peer is no longer connected, and it ended in Timeout only if the
\* peer was gone before its answer arrived and the two ends' keys differ.  The node
\* that has forgotten the circuit answers with the key it was asked by, which the
\* asking end knows for its own only when the keys are equal.
HangupIsAnswered ==
  [][scenario.patient /\ spent.loss <= MaxRetries =>
       \A e \in Ends : circuit[e].state = "Disconnecting" /\ Closed(e)'
                        => /\ circuit[Peer[e]].state # "Connected"
                           /\ \/ reason'[e] = "Normal"
                              \/ Closed(Peer[e]) /\ circuit[e].local # circuit[e].remote]_vars

\* What circuit_manager.rs says of every such end: a Disconnect Request for a circuit
\* we don't have "we courteously disconnect-ack so a half-open peer settles".
HangupAlwaysAnswered ==
  [][scenario.patient /\ spent.loss <= MaxRetries =>
       \A e \in Ends : circuit[e].state = "Disconnecting" /\ Closed(e)'
                        => reason'[e] = "Normal"]_vars

AllDelivered == \A e \in Ends : Len(delivered[Peer[e]]) = Len(written[e])

BothUp == \A e \in Ends : circuit[e].state = "Connected"

Choked == \E e \in Ends : circuit[e].peerChoked

\* Every frame written is delivered unless an end goes down or stays choked:
\* the applications write finitely often, so in the end nothing else is left.
EventuallyDelivered == <>[](BothUp /\ ~Choked => AllDelivered)

\* A choke ends once the choking end's consumer has drained its backlog, as
\* long as nothing is lost: the release is one datagram and never repeated.
ChokeReleased ==
  BothUp /\ Choked ~> (BothUp /\ spent.loss = 0 => ~Choked)

=============================================================================
