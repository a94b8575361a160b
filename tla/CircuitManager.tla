---------------------------- MODULE CircuitManager ----------------------------
(***************************************************************************)
(* The circuit tables of several nodes (netrom/transport/                  *)
(* circuit_manager.rs) and the datagrams between them: opening a circuit,  *)
(* minting one for a peer's Connect Request, the host's accept or refuse,  *)
(* demultiplexing on the key each node allocates for itself, deregistering *)
(* what closed, the live-circuit cap, and a node that restarts with an     *)
(* empty table while its peers still hold circuits to it.                  *)
(***************************************************************************)
EXTENDS NetRomCircuit

CONSTANTS
  Nodes,
  MaxLive,    \* MAX_LIVE_CIRCUITS
  KeySpace,   \* number of circuit keys (65536 index/id pairs)
  Scenarios   \* what users, hosts, timers and network may do; one is chosen

\* `openers' are the nodes whose users open circuits.  The other fields are
\* bounds: circuits opened per node, one-fragment frames written per circuit,
\* disconnect calls, refusals by the hosts, datagrams lost and delivered twice,
\* timer expiries and restarts.
ASSUME ManagerAssumption ==
  /\ {MaxLive, KeySpace} \subseteq Nat \ {0}
  /\ MaxLive <= KeySpace
  /\ Scenarios \subseteq
       [openers : SUBSET Nodes, opens : Nat, writes : Nat, hangups : Nat,
        refusals : Nat, loss : Nat, duplicates : Nat, expiries : Nat,
        restarts : Nat]

VARIABLES
  table,     \* per node: the circuits it holds (Managed)
  nextKey,   \* per node: next_index and next_id, read as one counter
  incoming,  \* per node: circuits minted and awaiting accept or refuse
  net,       \* per origin and destination: datagrams on their way
  minted,    \* per node: circuits it ever minted, restarts included
  asked,     \* history, per node: the peers' circuits it ever minted one for
  scenario,  \* the scenario chosen
  spent      \* how much of it is used up

vars == <<table, nextKey, incoming, net, minted, asked, scenario, spent>>

NoPeer == <<>>

\* A table entry.  `serial', `wrote' and `got' record which circuit of the
\* node's history this is and what its user wrote and received on it.
Managed(key, remote, peer, serial) ==
  [c |-> NewCircuit(key), remote |-> remote, peer |-> peer,
   serial |-> serial, wrote |-> 0, got |-> <<>>]

Init ==
  /\ scenario \in Scenarios
  /\ table = [n \in Nodes |-> {}]
  /\ nextKey = [n \in Nodes |-> 0]
  /\ incoming = [n \in Nodes |-> {}]
  /\ net = [od \in Nodes \X Nodes |-> <<>>]
  /\ minted = [n \in Nodes |-> 0]
  /\ asked = [n \in Nodes |-> {}]
  /\ spent = [opens |-> [n \in Nodes |-> 0], hangups |-> 0, refusals |-> 0,
              loss |-> 0, duplicates |-> 0, expiries |-> 0, restarts |-> 0]

-----------------------------------------------------------------------------
Key(m) == m.c.local

KeysInUse(n) == {Key(m) : m \in table[n]}

\* The keys allocate_key probes, in its order.
Probe(n, i) == (nextKey[n] + i) % KeySpace

CanAllocate(n) ==
  /\ Cardinality(table[n]) < MaxLive
  /\ \E i \in 0 .. KeySpace - 1 : Probe(n, i) \notin KeysInUse(n)

AllocatedKey(n) ==
  LET free == {i \in 0 .. KeySpace - 1 : Probe(n, i) \notin KeysInUse(n)}
  IN  Probe(n, CHOOSE i \in free : \A j \in free : i <= j)

\* The network `before' once node n has sent `out' to the node `remote'.
Sent(before, n, remote, out) == [before EXCEPT ![<<n, remote>>] = @ \o out]

\* collect(): the events of a call on circuit m reach its user, its datagrams
\* go to its remote node, and a closed circuit leaves the table.
Collected(m, r) ==
  IF \E i \in DOMAIN r.ev : r.ev[i].type = "Closed"
  THEN {}
  ELSE {[m EXCEPT !.c = r.c, !.got = @ \o Handed(r.ev)]}

\* The owner's call on circuit m of node n returned r.
Drive(n, m, r, before) ==
  /\ table' = [table EXCEPT ![n] = (@ \ {m}) \cup Collected(m, r)]
  /\ net' = Sent(before, n, m.remote, r.out)

-----------------------------------------------------------------------------
(***************************************************************************)
(* The owner's calls.                                                      *)
(***************************************************************************)
\* NetRomConnector::connect: open_circuit, then connect on the new circuit.
Open(n, remote) ==
  /\ n \in scenario.openers
  /\ spent.opens[n] < scenario.opens
  /\ CanAllocate(n)
  /\ LET key == AllocatedKey(n)
         m == Managed(key, remote, NoPeer, minted[n] + 1)
         r == Connect(m.c)
     IN  /\ table' = [table EXCEPT ![n] = @ \cup Collected(m, r)]
         /\ nextKey' = [nextKey EXCEPT ![n] = (key + 1) % KeySpace]
         /\ net' = Sent(net, n, remote, r.out)
  /\ minted' = [minted EXCEPT ![n] = @ + 1]
  /\ spent' = [spent EXCEPT !.opens[n] = @ + 1]
  /\ UNCHANGED <<incoming, asked, scenario>>

\* The next frame the user of circuit m writes names the circuit and its place.
Frame(n, m) == <<[node |-> n, serial |-> m.serial, place |-> m.wrote + 1]>>

Write(n, m) ==
  /\ m.c.state = "Connected"
  /\ m.wrote < scenario.writes
  /\ LET r == Send(m.c, Frame(n, m))
     IN  /\ table' = [table EXCEPT
                        ![n] = (@ \ {m}) \cup
                               Collected([m EXCEPT !.wrote = @ + 1], r)]
         /\ net' = Sent(net, n, m.remote, r.out)
  /\ UNCHANGED <<nextKey, incoming, minted, asked, scenario, spent>>

Hangup(n, m) ==
  /\ m.c.state \in {"Connecting", "Connected"}
  /\ spent.hangups < scenario.hangups
  /\ Drive(n, m, Disconnect(m.c), net)
  /\ spent' = [spent EXCEPT !.hangups = @ + 1]
  /\ UNCHANGED <<nextKey, incoming, minted, asked, scenario>>

Accept(n, inc) ==
  /\ IF \E m \in table[n] : Key(m) = inc.key
     THEN \E m \in table[n] :
            /\ Key(m) = inc.key
            /\ Drive(n, m, AcceptInbound(m.c, inc.peer, inc.window), net)
     ELSE UNCHANGED <<table, net>>
  /\ incoming' = [incoming EXCEPT ![n] = @ \ {inc}]
  /\ UNCHANGED <<nextKey, minted, asked, scenario, spent>>

Refuse(n, inc) ==
  /\ spent.refusals < scenario.refusals
  /\ LET refused == {m \in table[n] : Key(m) = inc.key}
     IN  /\ net' = [od \in DOMAIN net |->
                      IF \E m \in refused : od = <<n, m.remote>>
                      THEN net[od] \o RefuseInbound(
                                        (CHOOSE m \in refused : TRUE).c, inc.peer).out
                      ELSE net[od]]
         /\ table' = [table EXCEPT ![n] = @ \ refused]
  /\ incoming' = [incoming EXCEPT ![n] = @ \ {inc}]
  /\ spent' = [spent EXCEPT !.refusals = @ + 1]
  /\ UNCHANGED <<nextKey, minted, asked, scenario>>

-----------------------------------------------------------------------------
(***************************************************************************)
(* on_packet.  `before' is the network without the datagram.               *)
(***************************************************************************)
\* Mutant: at the cap the request is dropped.
MintInboundSilently(n, origin, d, before) ==
  IF CanAllocate(n)
  THEN LET key == AllocatedKey(n)
       IN  /\ table' = [table EXCEPT
                          ![n] = @ \cup {Managed(key, origin, <<origin, d.from>>,
                                                 minted[n] + 1)}]
           /\ nextKey' = [nextKey EXCEPT ![n] = (key + 1) % KeySpace]
           /\ incoming' = [incoming EXCEPT
                             ![n] = @ \cup {[key |-> key, peer |-> d.from,
                                             window |-> d.window]}]
           /\ minted' = [minted EXCEPT ![n] = @ + 1]
           /\ asked' = [asked EXCEPT ![n] = @ \cup {<<origin, d.from>>}]
           /\ net' = before
  ELSE /\ net' = before
       /\ UNCHANGED <<table, nextKey, incoming, minted, asked>>

MintInbound(n, origin, d, before) ==
  IF CanAllocate(n)
  THEN LET key == AllocatedKey(n)
       IN  /\ table' = [table EXCEPT
                          ![n] = @ \cup {Managed(key, origin, <<origin, d.from>>,
                                                 minted[n] + 1)}]
           /\ nextKey' = [nextKey EXCEPT ![n] = (key + 1) % KeySpace]
           /\ incoming' = [incoming EXCEPT
                             ![n] = @ \cup {[key |-> key, peer |-> d.from,
                                             window |-> d.window]}]
           /\ minted' = [minted EXCEPT ![n] = @ + 1]
           /\ asked' = [asked EXCEPT ![n] = @ \cup {<<origin, d.from>>}]
           /\ net' = before
  ELSE /\ net' = Sent(before, n, origin,
                      <<[op |-> "ConnectAcknowledge", key |-> d.from, from |-> 0,
                         choke |-> TRUE, window |-> 0]>>)
       /\ UNCHANGED <<table, nextKey, incoming, minted, asked>>

\* Mutant: no match, so that every retransmission mints.
OnConnectPacketMinting(n, origin, d, before) == MintInbound(n, origin, d, before)

\* A Connect Request names the peer's circuit and is matched on that.
OnConnectPacket(n, origin, d, before) ==
  LET known == {m \in table[n] : m.peer = <<origin, d.from>>}
  IN  IF known = {}
      THEN MintInbound(n, origin, d, before)
      ELSE /\ \E m \in known : Drive(n, m, OnPacket(m.c, d), before)
           /\ UNCHANGED <<nextKey, incoming, minted, asked>>

\* Any other datagram is matched on our own key, whoever sent it.
OnCircuitPacket(n, origin, d, before) ==
  LET known == {m \in table[n] : Key(m) = d.key}
  IN  /\ \/ \E m \in known : Drive(n, m, OnPacket(m.c, d), before)
         \/ /\ known = {} /\ d.op = "DisconnectRequest"
            /\ net' = Sent(before, n, origin,
                           <<[op |-> "DisconnectAcknowledge", key |-> d.key]>>)
            /\ UNCHANGED table
         \/ /\ known = {} /\ d.op # "DisconnectRequest"
            /\ net' = before
            /\ UNCHANGED table
      /\ UNCHANGED <<nextKey, incoming, minted, asked>>

Receive(n, origin, before) ==
  LET d == Head(net[<<origin, n>>])
  IN  IF d.op = "ConnectRequest"
      THEN OnConnectPacket(n, origin, d, before)
      ELSE OnCircuitPacket(n, origin, d, before)

Deliver(n, origin) ==
  /\ net[<<origin, n>>] # <<>>
  /\ Receive(n, origin, [net EXCEPT ![<<origin, n>>] = Tail(@)])
  /\ UNCHANGED <<scenario, spent>>

Duplicate(n, origin) ==
  /\ net[<<origin, n>>] # <<>>
  /\ spent.duplicates < scenario.duplicates
  /\ Receive(n, origin, net)
  /\ spent' = [spent EXCEPT !.duplicates = @ + 1]
  /\ UNCHANGED scenario

Lose(n, origin) ==
  /\ net[<<origin, n>>] # <<>>
  /\ spent.loss < scenario.loss
  /\ net' = [net EXCEPT ![<<origin, n>>] = Tail(@)]
  /\ spent' = [spent EXCEPT !.loss = @ + 1]
  /\ UNCHANGED <<table, nextKey, incoming, minted, asked, scenario>>

-----------------------------------------------------------------------------
\* tick() drives every circuit; here it finds the timer of one of them due.
Tick1(n, m) ==
  /\ \/ m.c.controlArmed
     \/ m.c.state = "Connected" /\ m.c.unacked # {}
  /\ spent.expiries < scenario.expiries
  /\ Drive(n, m, Tick(m.c, TRUE, TRUE), net)
  /\ spent' = [spent EXCEPT !.expiries = @ + 1]
  /\ UNCHANGED <<nextKey, incoming, minted, asked, scenario>>

\* The node reboots: its manager is constructed afresh.
Restart(n) ==
  /\ spent.restarts < scenario.restarts
  /\ table' = [table EXCEPT ![n] = {}]
  /\ nextKey' = [nextKey EXCEPT ![n] = 0]
  /\ incoming' = [incoming EXCEPT ![n] = {}]
  /\ spent' = [spent EXCEPT !.restarts = @ + 1]
  /\ UNCHANGED <<net, minted, asked, scenario>>

Next ==
  \E n \in Nodes :
    \/ \E other \in Nodes \ {n} :
         Open(n, other) \/ Deliver(n, other) \/ Duplicate(n, other)
         \/ Lose(n, other)
    \/ \E m \in table[n] : Write(n, m) \/ Hangup(n, m) \/ Tick1(n, m)
    \/ \E inc \in incoming[n] : Accept(n, inc) \/ Refuse(n, inc)
    \/ Restart(n)

Spec == Init /\ [][Next]_vars

-----------------------------------------------------------------------------
\* The shape of the tables, and the live-circuit cap.
TypeOK ==
  \A n \in Nodes :
    /\ Cardinality(table[n]) <= MaxLive
    /\ nextKey[n] \in 0 .. KeySpace - 1
    /\ \A m \in table[n] : /\ m.c.state \in States
                          /\ Key(m) \in 0 .. KeySpace - 1
                          /\ m.remote \in Nodes \ {n}
                          /\ m.serial \in 1 .. minted[n]
                          /\ m.wrote \in 0 .. scenario.writes

\* A retransmitted or duplicated Connect Request never mints a second circuit
\* for the same circuit of the peer while the first one lives (on_packet).
InboundOnce ==
  \A n \in Nodes : \A m1, m2 \in table[n] :
    m1.peer = m2.peer /\ m1.peer # NoPeer => m1 = m2

\* Circuit m of node n and circuit p of node o each take the other for their
\* counterpart.
Paired(n, m, o, p) ==
  /\ m.remote = o /\ p.remote = n
  /\ m.c.remote = Key(p) /\ p.c.remote = Key(m)
  /\ m.c.state = "Connected" /\ p.c.state = "Connected"

\* Two circuits that take each other for counterparts agree on the stream: what
\* one holds as acknowledged the other has received, and neither has received
\* what was not sent.
StreamsAgree ==
  \A n \in Nodes : \A o \in Nodes : \A m \in table[n] : \A p \in table[o] :
    Paired(n, m, o, p) =>
      /\ p.c.vr <= m.c.vs
      /\ \A pos \in 0 .. m.c.vs - 1 :
           pos \in {u.pos : u \in m.c.unacked} \/ pos < p.c.vr

\* No node has minted more circuits than there are keys: none is used again.
KeysFresh == \A n \in Nodes : minted[n] <= KeySpace

\* No node has minted a second circuit for the same circuit of a peer: no Connect
\* Request came again when the circuit it had minted was gone.
NoSecondMint == \A n \in Nodes : minted[n] = spent.opens[n] + Cardinality(asked[n])

\* Nothing has made a key name another circuit than its peer takes it for.
KeysHold == spent.restarts = 0 /\ KeysFresh /\ NoSecondMint

\* Circuits that take each other for counterparts agree on the stream, as long as
\* no node restarts, no key comes round and no Connect Request comes again after
\* the end of the circuit it minted.
PairAgrees == KeysHold => StreamsAgree

\* "The L4 layer already gives reliable in-order delivery", also when a node
\* has restarted and its peers still hold circuits to it.
PairAgreesAfterRestart == StreamsAgree

\* What every user has read: the frames one circuit of the remote node wrote, from
\* the first one on, in order and without a gap.
OneSource ==
  \A n \in Nodes : \A m \in table[n] :
    \A i \in 1 .. Len(m.got) :
      /\ m.got[i][1].node = m.remote
      /\ m.got[i][1].serial = m.got[1][1].serial
      /\ m.got[i][1].place = i

\* The user of a circuit receives the frames of one circuit, from the first one on:
\* nothing of an earlier circuit, or of another node's, that happened to carry the
\* same key.  A late Connect Request ends that, since the circuit it mints a second
\* time is new at one end only.
SingleSource == KeysHold => OneSource

\* The same without the other two conditions.  A retransmitted Connect Request is
\* matched "rather than minting a duplicate" (on_packet) only while the circuit it
\* minted lives.
SingleSourceAlways == spent.restarts = 0 => OneSource

\* When every datagram has arrived and every host has decided, no circuit is
\* still waiting for the answer to its Connect Request, unless a datagram was
\* lost or a node restarted, also when keys are used again: "so a half-open
\* peer settles" (on_packet).
OpenAnsweredAfterReuse ==
  /\ \A od \in Nodes \X Nodes : net[od] = <<>>
  /\ \A n \in Nodes : incoming[n] = {}
  /\ spent.loss = 0 /\ spent.restarts = 0
  => \A n \in Nodes : \A m \in table[n] : m.c.state # "Connecting"

\* Until the keys come round, every Connect Request is answered: at the
\* live-circuit cap the answer is a refusal, "so the originator closes as
\* Refused instead of retransmitting into the void".
OpenAnswered == KeysFresh => OpenAnsweredAfterReuse

=============================================================================
