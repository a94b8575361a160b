------------------------------ MODULE CircuitEnd ------------------------------
(***************************************************************************)
(* One circuit end and everything that can be done to it: every call of    *)
(* its owner, every timer expiry, and every datagram a peer can put on the *)
(* air, in any order.  on_packet promises to be "tolerant of any opcode",  *)
(* so what is claimed here is claimed against peers that follow no         *)
(* protocol at all.                                                        *)
(***************************************************************************)
EXTENDS NetRomCircuit

CONSTANTS
  Keys,    \* the circuit keys (index and id) a datagram can carry
  Units,   \* units of user data
  Heard,   \* the datagrams that may arrive, in any state
  Writes   \* the data the application may send in one call

SeqNo == 0 .. SeqSpace - 1

Fragment == [bytes : Seq(Units), more : BOOLEAN]

Unacked == [pos : Nat, bytes : Seq(Units), more : BOOLEAN, retries : Nat]

\* Every datagram the wire format can express.
Datagram ==
  [op : {"ConnectRequest"}, from : Keys, window : Nat]
  \cup [op : {"ConnectAcknowledge"}, key : Keys, from : Keys, choke : BOOLEAN,
        window : Nat]
  \cup [op : {"DisconnectRequest", "DisconnectAcknowledge"}, key : Keys]
  \cup [op : {"Information"}, key : Keys, tx : SeqNo, rx : SeqNo,
        choke : BOOLEAN, more : BOOLEAN, bytes : Seq(Units)]
  \cup [op : {"InformationAcknowledge"}, key : Keys, rx : SeqNo,
        nak : BOOLEAN, choke : BOOLEAN]

ASSUME EndAssumption ==
  /\ 0 \in Keys
  /\ Heard \subseteq Datagram
  /\ Writes \subseteq Seq(Units)

VARIABLE circuit

-----------------------------------------------------------------------------
Init == \E key \in Keys : circuit = NewCircuit(key)

ConnectCall == circuit' = Connect(circuit).c

SendCall == \E data \in Writes : circuit' = Send(circuit, data).c

DisconnectCall == circuit' = Disconnect(circuit).c

\* The owner accepts or refuses only a circuit it has just minted for a
\* Connect Request.
AcceptCall ==
  /\ circuit.state = "Disconnected"
  /\ \E m \in Heard : /\ m.op = "ConnectRequest"
                      /\ circuit' = AcceptInbound(circuit, m.from, m.window).c

RefuseCall ==
  /\ circuit.state = "Disconnected"
  /\ \E m \in Heard : /\ m.op = "ConnectRequest"
                      /\ circuit' = RefuseInbound(circuit, m.from).c

TickCall ==
  \E controlDue, informationDue \in BOOLEAN :
    circuit' = Tick(circuit, controlDue, informationDue).c

DrainedCall == circuit' = OnDeliveryDrained(circuit).c

Receive == \E m \in Heard : circuit' = OnPacket(circuit, m).c

Next ==
  \/ ConnectCall \/ SendCall \/ DisconnectCall
  \/ AcceptCall \/ RefuseCall
  \/ TickCall \/ DrainedCall \/ Receive

Spec == Init /\ [][Next]_circuit

\* The firmware calls tick from its timer for as long as it runs, so every
\* deadline is eventually found due.
TickDue == circuit' = Tick(circuit, TRUE, TRUE).c

FairSpec == Spec /\ WF_circuit(TickDue)

-----------------------------------------------------------------------------
\* Every shape of the circuit record.
Circuits ==
  [state : States, local : Keys, remote : Keys, window : Nat,
   vs : Nat, va : SeqNo, vr : Nat, sendQueue : Seq(Fragment),
   unacked : SUBSET Unacked, reassembly : Seq(Units),
   peerChoked : BOOLEAN, localChoked : BOOLEAN, pending : Nat,
   controlArmed : BOOLEAN, controlRetries : Nat]

\* The circuit record keeps its shape: no counter leaves its range.
TypeOK == circuit \in Circuits

\* Never more in flight than the negotiated window, whatever is acknowledged,
\* negatively acknowledged or retransmitted (pump_send_queue, retransmit_from).
WindowRespected ==
  /\ IsFiniteSet(circuit.unacked)
  /\ Cardinality(circuit.unacked) <= circuit.window

\* No handler that opens the window forgets to pump: a connected end holds a
\* fragment back only because the window is full or the peer has choked it.
\* The pump is called from five places, each after a different mutation.
NoMissedPump ==
  circuit.state = "Connected" /\ circuit.sendQueue # <<>>
    => circuit.peerChoked \/ Cardinality(circuit.unacked) >= circuit.window

\* Both retransmission paths (tick and retransmit_from) respect the retry
\* budget, also when they interleave on the same fragment.
RetryBudget ==
  /\ circuit.controlRetries <= MaxRetries
  /\ \A u \in circuit.unacked : u.retries <= MaxRetries

\* What a circuit holds fits the state of its life: the control timer runs
\* exactly while a Connect or Disconnect Request awaits its answer, so no
\* expiry ever hits an established or a closed circuit; and a circuit that is
\* not up holds no data of an earlier life and has no retransmission to make.
LifecycleCoherent ==
  /\ circuit.controlArmed <=> circuit.state \in {"Connecting", "Disconnecting"}
  /\ circuit.state \in {"Disconnected", "Connecting"}
       => /\ circuit.unacked = {}
          /\ circuit.sendQueue = <<>>
          /\ circuit.reassembly = <<>>

\* This end chokes its peer exactly while its consumer's backlog has reached
\* the threshold: maybe_assert_choke and maybe_release_choke never miss an edge.
ChokeMatchesBacklog ==
  circuit.localChoked
    <=> ChokeThreshold > 0 /\ circuit.pending >= ChokeThreshold

\* A peer streaming more-follows fragments never grows the reassembly buffer
\* past its ceiling (MAX_REASSEMBLY_BYTES).
ReassemblyBounded == Len(circuit.reassembly) <= MaxReassembly

\* In-flight fragments are distinct and were numbered before V(s).
PositionsBelowVs ==
  \A u, v \in circuit.unacked : u.pos < circuit.vs /\ (u.pos = v.pos => u = v)

\* Of two fragments in flight the older one has been retransmitted at least as
\* often.  tick looks at the oldest fragment's budget alone, so without this it
\* would retransmit a newer fragment whose budget is spent.
OlderRetriedMore ==
  \A u, v \in circuit.unacked : u.pos < v.pos => v.retries <= u.retries

\* What the retry budget buys: no control exchange waits for ever, whatever
\* the peer sends meanwhile.
ControlResolves ==
  /\ circuit.state = "Connecting" ~> circuit.state # "Connecting"
  /\ circuit.state = "Disconnecting" ~> circuit.state # "Disconnecting"

InFlightAt(p) == \E u \in circuit.unacked : u.pos = p

=============================================================================
