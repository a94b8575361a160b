---------------------------- MODULE MCCircuitEnd ----------------------------
(***************************************************************************)
(* A small circuit end for TLC, and the datagrams an arbitrary peer sends. *)
(***************************************************************************)
EXTENDS CircuitEnd

CONSTANTS
  MaxVs,       \* bound: fragments ever sent or queued
  MaxVr,       \* bound: fragments ever taken in sequence
  MaxPending   \* bound: frames delivered and not drained

MCKeys == {0}

MCUnits == {1}

MCWrites == {<<1>>, <<1, 1>>}

\* Information with and without a payload, any sequence numbers; a connect
\* acknowledgement with no window octet (0), a usable one and one out of range.
MCHeard ==
  [op : {"ConnectRequest"}, from : MCKeys, window : {0, 1}]
  \cup [op : {"ConnectAcknowledge"}, key : MCKeys, from : MCKeys,
        choke : BOOLEAN, window : {0, 1, SeqSpace}]
  \cup [op : {"DisconnectRequest", "DisconnectAcknowledge"}, key : MCKeys]
  \cup [op : {"Information"}, key : MCKeys, tx : SeqNo, rx : SeqNo,
        choke : BOOLEAN, more : BOOLEAN, bytes : {<<>>, <<1>>}]
  \cup [op : {"InformationAcknowledge"}, key : MCKeys, rx : SeqNo,
        nak : BOOLEAN, choke : BOOLEAN]

Bounded ==
  /\ circuit.vs + Len(circuit.sendQueue) <= MaxVs
  /\ circuit.vr <= MaxVr
  /\ circuit.pending <= MaxPending

MCSpec == Init /\ [][Next /\ Bounded']_circuit

MCFairSpec == MCSpec /\ WF_circuit(TickDue /\ Bounded')

\* No connect or disconnect waits for its answer for ever, and every fragment put
\* in flight is acknowledged or given up: the two timers and their retry budgets
\* end every exchange, whatever the peer sends meanwhile.
ExchangesResolve ==
  ControlResolves /\ \A p \in 0 .. MaxVs - 1 : InFlightAt(p) ~> ~InFlightAt(p)

=============================================================================
