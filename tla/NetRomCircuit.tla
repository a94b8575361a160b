---------------------------- MODULE NetRomCircuit ----------------------------
(***************************************************************************)
(* One end of a NET/ROM L4 virtual circuit (netrom/transport/circuit.rs).  *)
(*                                                                         *)
(* The program's NetRomCircuit is sans-io: every entry point mutates the   *)
(* circuit, pushes datagrams on an outbox and lifecycle events on a queue, *)
(* and its owner drains both after the call.  Here a circuit is a record   *)
(* and every entry point is a function of it that returns                  *)
(*                                                                         *)
(*     [c |-> the circuit after the call,                                  *)
(*      out |-> the datagrams it emitted, in order,                        *)
(*      ev |-> the events it fired, in order]                              *)
(*                                                                         *)
(* so that CircuitEnd, CircuitPair and CircuitManager drive the same code. *)
(*                                                                         *)
(* The u8 counters V(s) and V(r) are kept unwrapped: `vs' is the number of *)
(* fragments ever pumped and `vr' the number ever taken in sequence.  The  *)
(* program's field is their value modulo SeqSpace, and that is all a         *)
(* comparison or a datagram here ever uses (Wire).  An in-flight fragment  *)
(* is identified by its unwrapped position for the same reason.  Clocks    *)
(* are not kept: whether a timer is due is an argument of Tick.            *)
(* L4 compression (Cargo feature netrom-compress) is off in the firmware.  *)
(***************************************************************************)
EXTENDS Integers, Sequences, FiniteSets, SequencesExt

CONSTANTS
  SeqSpace,          \* size of the sequence space (256 in the program)
  WindowSize,      \* options.window_size
  MaxRetries,      \* options.max_retries
  FragmentSize,    \* options.fragment_size, in units of user data
  ChokeThreshold,  \* options.choke_threshold (0: never choke)
  MaxReassembly    \* MAX_REASSEMBLY_BYTES, in units of user data

ASSUME CircuitAssumption ==
  /\ SeqSpace \in Nat /\ SeqSpace >= 4 /\ SeqSpace % 2 = 0
  /\ WindowSize \in Nat
  /\ MaxRetries \in Nat
  /\ FragmentSize \in Nat \ {0}
  /\ ChokeThreshold \in Nat
  /\ MaxReassembly \in Nat \ {0}

States == {"Disconnected", "Connecting", "Connected", "Disconnecting"}

Reasons == {"Normal", "Refused", "Timeout"}

-----------------------------------------------------------------------------
(***************************************************************************)
(* Sequence arithmetic: a wrapped distance counts as "before" or "after"   *)
(* when it is in the first half of the space, both bounds included.        *)
(***************************************************************************)
Horizon == SeqSpace \div 2

MaxWindow == Horizon - 1

Wire(n) == n % SeqSpace

\* Mutant: the bound that includes `expected' itself.
SeqAckedInclusive(seq, expected) == Wire(expected - seq) \in 0..Horizon

SeqAcked(seq, expected) == Wire(expected - seq) \in 1..Horizon

Mod256After(a, b) == Wire(a - b) \in 1..Horizon

Least(a, b) == IF a <= b THEN a ELSE b

Clamp(w) == IF w < 1 THEN 1 ELSE Least(w, MaxWindow)

-----------------------------------------------------------------------------
(***************************************************************************)
(* The circuit record and the result of a call.                            *)
(***************************************************************************)
NewCircuit(key) ==
  [state |-> "Disconnected", local |-> key, remote |-> 0,
   window |-> WindowSize, vs |-> 0, va |-> 0, vr |-> 0,
   sendQueue |-> <<>>, unacked |-> {}, reassembly |-> <<>>,
   peerChoked |-> FALSE, localChoked |-> FALSE, pending |-> 0,
   controlArmed |-> FALSE, controlRetries |-> 0]

Result(c, out, ev) == [c |-> c, out |-> out, ev |-> ev]

Quiet(c) == Result(c, <<>>, <<>>)

\* r happened, then the call that returned s on the circuit r left.
Then(r, s) == Result(s.c, r.out \o s.out, r.ev \o s.ev)

\* The frames that the events ev hand to the application, in order.
Handed(ev) ==
  LET at == {i \in DOMAIN ev : ev[i].type = "DataReceived"}
      nth(k) == CHOOSE i \in at : Cardinality({j \in at : j < i}) = k - 1
  IN  [k \in 1..Cardinality(at) |-> ev[nth(k)].data]

-----------------------------------------------------------------------------
(***************************************************************************)
(* Datagrams.  `key' is the circuit index/id pair of the transport header; *)
(* a Connect Request and a Connect Acknowledge carry the sender's own pair *)
(* as `from' (in the header, resp. in the two sequence octets).            *)
(***************************************************************************)
ConnectRequest(c) ==
  [op |-> "ConnectRequest", from |-> c.local, window |-> Clamp(WindowSize)]

ConnectAcknowledge(c, refused) ==
  [op |-> "ConnectAcknowledge", key |-> c.remote, from |-> c.local,
   choke |-> refused, window |-> IF refused THEN 0 ELSE c.window]

DisconnectRequest(c) == [op |-> "DisconnectRequest", key |-> c.remote]

DisconnectAcknowledge(c) == [op |-> "DisconnectAcknowledge", key |-> c.remote]

Information(c, u) ==
  [op |-> "Information", key |-> c.remote, tx |-> Wire(u.pos),
   rx |-> Wire(c.vr), choke |-> c.localChoked, more |-> u.more,
   bytes |-> u.bytes]

InformationAcknowledge(c, nak) ==
  [op |-> "InformationAcknowledge", key |-> c.remote, rx |-> Wire(c.vr),
   nak |-> nak, choke |-> c.localChoked]

\* The in-flight fragments S, oldest first.
OldestFirst(S) ==
  CHOOSE f \in [1..Cardinality(S) -> S] :
    \A i, j \in DOMAIN f : i < j => f[i].pos < f[j].pos

\* Their retransmission.
Resend(c, S) == [i \in 1..Cardinality(S) |-> Information(c, OldestFirst(S)[i])]

-----------------------------------------------------------------------------
(***************************************************************************)
(* Window and acknowledgement mechanics.                                   *)
(***************************************************************************)
\* The number of queued fragments the window and the peer's choke let out.
Room(c) ==
  IF c.state = "Connected" /\ ~c.peerChoked /\ Cardinality(c.unacked) < c.window
  THEN Least(Len(c.sendQueue), c.window - Cardinality(c.unacked))
  ELSE 0

\* The i-th fragment of the queue once it is in flight.
InFlight(c, i) ==
  [pos |-> c.vs + i - 1, bytes |-> c.sendQueue[i].bytes,
   more |-> c.sendQueue[i].more, retries |-> 0]

Pump(c) ==
  LET n == Room(c)
  IN  Result([c EXCEPT !.vs = @ + n,
                       !.sendQueue = SubSeq(@, n + 1, Len(@)),
                       !.unacked = @ \cup {InFlight(c, i) : i \in 1..n}],
             [i \in 1..n |-> Information(c, InFlight(c, i))], <<>>)

\* Drops what the cumulative acknowledgement `expected' covers.  V(a) takes
\* the value of the acknowledgement, whatever it is.
AbsorbAck(c, expected) ==
  [c EXCEPT !.va = expected,
            !.unacked = {u \in @ : ~SeqAcked(Wire(u.pos), expected)}]

Close(c, reason) ==
  IF c.state = "Disconnected"
  THEN Quiet(c)
  ELSE Result([c EXCEPT !.state = "Disconnected", !.controlArmed = FALSE,
                        !.unacked = {}, !.sendQueue = <<>>, !.reassembly = <<>>],
              <<>>, <<[type |-> "Closed", reason |-> reason]>>)

Retried(S) == {[u EXCEPT !.retries = @ + 1] : u \in S}

\* Mutant: the budget is spent one retransmission early.
RetransmitFromGivingUp(c, seq) ==
  LET range == {u \in c.unacked : \/ Wire(u.pos) = seq
                                  \/ Mod256After(Wire(u.pos), seq)}
  IN  IF \E u \in range : u.retries + 1 >= MaxRetries
      THEN Close(c, "Timeout")
      ELSE Result([c EXCEPT !.unacked = (@ \ range) \cup Retried(range)],
                  Resend(c, range), <<>>)

RetransmitFrom(c, seq) ==
  LET range == {u \in c.unacked : \/ Wire(u.pos) = seq
                                  \/ Mod256After(Wire(u.pos), seq)}
  IN  IF \E u \in range : u.retries >= MaxRetries
      THEN Close(c, "Timeout")
      ELSE Result([c EXCEPT !.unacked = (@ \ range) \cup Retried(range)],
                  Resend(c, range), <<>>)

-----------------------------------------------------------------------------
(***************************************************************************)
(* Receive-side flow control.                                              *)
(***************************************************************************)
ApplyPeerChoke(c, choke) == [c EXCEPT !.peerChoked = choke]

MaybeAssertChoke(c) ==
  IF ChokeThreshold > 0 /\ c.pending >= ChokeThreshold
  THEN [c EXCEPT !.localChoked = TRUE]
  ELSE c

\* Mutant: the release is not told to the peer.
OnDeliveryDrainedSilent(c) ==
  LET drained == [c EXCEPT !.pending = IF @ > 0 THEN @ - 1 ELSE @]
  IN  Quiet(IF drained.pending < ChokeThreshold
            THEN [drained EXCEPT !.localChoked = FALSE] ELSE drained)

OnDeliveryDrained(c) ==
  LET drained == [c EXCEPT !.pending = IF @ > 0 THEN @ - 1 ELSE @]
      released == [drained EXCEPT !.localChoked = FALSE]
  IN  IF drained.localChoked /\ drained.pending < ChokeThreshold
      THEN Result(released,
                  IF c.state = "Connected"
                  THEN <<InformationAcknowledge(released, FALSE)>>
                  ELSE <<>>, <<>>)
      ELSE Quiet(drained)

-----------------------------------------------------------------------------
(***************************************************************************)
(* The calls the circuit's owner makes.                                    *)
(***************************************************************************)
Connect(c) ==
  IF c.state # "Disconnected"
  THEN Quiet(c)
  ELSE Result([c EXCEPT !.state = "Connecting", !.controlRetries = 0,
                        !.controlArmed = TRUE],
              <<ConnectRequest(c)>>, <<>>)

\* The fragments of `data': FragmentSize units each, all but the last one
\* marked more-follows.
Fragments(data) ==
  LET count == (Len(data) + FragmentSize - 1) \div FragmentSize
  IN  [i \in 1..count |->
         [bytes |-> SubSeq(data, (i - 1) * FragmentSize + 1,
                           Least(i * FragmentSize, Len(data))),
          more  |-> i < count]]

Send(c, data) ==
  IF c.state # "Connected" \/ data = <<>>
  THEN Quiet(c)
  ELSE Pump([c EXCEPT !.sendQueue = @ \o Fragments(data)])

Disconnect(c) ==
  CASE c.state \in {"Disconnected", "Disconnecting"} -> Quiet(c)
    [] c.state = "Connecting" -> Close(c, "Normal")
    [] c.state = "Connected" ->
         Result([c EXCEPT !.state = "Disconnecting", !.controlRetries = 0,
                          !.controlArmed = TRUE],
                <<DisconnectRequest(c)>>, <<>>)

AcceptInbound(c, peer, proposed) ==
  LET wanted == IF proposed = 0 THEN WindowSize ELSE proposed
      up == [c EXCEPT !.remote = peer, !.state = "Connected",
                      !.window = Clamp(Least(wanted, WindowSize))]
  IN  Result(up, <<ConnectAcknowledge(up, FALSE)>>, <<[type |-> "Connected"]>>)

RefuseInbound(c, peer) ==
  LET refused == [c EXCEPT !.remote = peer, !.state = "Disconnected"]
  IN  Result(refused, <<ConnectAcknowledge(refused, TRUE)>>, <<>>)

\* Mutant: the control retries are not counted.
TickControlForever(c) == Result(c, <<ConnectRequest(c)>>, <<>>)

\* The control half of tick: resend what the state awaits an answer to.
TickControl(c) ==
  LET again == [c EXCEPT !.controlRetries = @ + 1]
  IN  Result(again,
             CASE c.state = "Connecting" -> <<ConnectRequest(c)>>
               [] c.state = "Disconnecting" -> <<DisconnectRequest(c)>>
               [] OTHER -> <<>>,
             <<>>)

Oldest(S) == CHOOSE u \in S : \A v \in S : u.pos <= v.pos

\* Mutants: one retransmission more than the budget, and no count of them.
TickInformationOnceMore(c) ==
  IF Oldest(c.unacked).retries > MaxRetries
  THEN Close(c, "Timeout")
  ELSE Result([c EXCEPT !.unacked = Retried(@)], Resend(c, c.unacked), <<>>)

TickInformationForever(c) == Result(c, Resend(c, c.unacked), <<>>)

\* The Information half of tick: the oldest fragment's timer is due.
TickInformation(c) ==
  IF Oldest(c.unacked).retries >= MaxRetries
  THEN Close(c, "Timeout")
  ELSE Result([c EXCEPT !.unacked = Retried(@)], Resend(c, c.unacked), <<>>)

Tick(c, controlDue, informationDue) ==
  IF c.controlArmed /\ controlDue /\ c.controlRetries >= MaxRetries
  THEN Close(c, "Timeout")
  ELSE LET r == IF c.controlArmed /\ controlDue THEN TickControl(c) ELSE Quiet(c)
       IN  IF r.c.state = "Connected" /\ r.c.unacked # {} /\ informationDue
           THEN Then(r, TickInformation(r.c))
           ELSE r

-----------------------------------------------------------------------------
(***************************************************************************)
(* The handlers of on_packet.                                              *)
(***************************************************************************)
OnConnectRequest(c) ==
  IF c.state = "Connected"
  THEN Result(c, <<ConnectAcknowledge(c, FALSE)>>, <<>>)
  ELSE Quiet(c)

OnConnectAcknowledge(c, m) ==
  LET heard == [c EXCEPT !.remote = m.from, !.controlArmed = FALSE]
      up == [heard EXCEPT !.state = "Connected",
                          !.window = IF m.window \in 1..MaxWindow
                                     THEN Least(@, m.window) ELSE @]
  IN  CASE c.state # "Connecting" -> Quiet(c)
        [] c.state = "Connecting" /\ m.choke -> Close(heard, "Refused")
        [] OTHER -> Then(Result(up, <<>>, <<[type |-> "Connected"]>>), Pump(up))

OnDisconnectRequest(c) ==
  Then(Result(c, <<DisconnectAcknowledge(c)>>, <<>>), Close(c, "Normal"))

OnDisconnectAcknowledge(c) ==
  IF c.state = "Disconnecting" THEN Close(c, "Normal") ELSE Quiet(c)

\* Mutant: V(r) is not advanced.
TakeInSequenceTwice(c, m) ==
  LET whole == c.reassembly \o m.bytes
      after == [c EXCEPT !.reassembly = IF m.more THEN whole ELSE <<>>]
  IN  Result(after, <<InformationAcknowledge([c EXCEPT !.vr = @ + 1], FALSE)>>,
             IF m.more THEN <<>>
             ELSE <<[type |-> "DataReceived", data |-> whole]>>)

\* An Information datagram with the sequence number expected next.
TakeInSequence(c, m) ==
  LET stepped == [c EXCEPT !.vr = @ + 1]
      whole == c.reassembly \o m.bytes
      complete == ~m.more /\ whole # <<>>
      held == [stepped EXCEPT !.reassembly = whole]
      delivered == MaybeAssertChoke(
                     [stepped EXCEPT !.reassembly = <<>>,
                                     !.pending = IF ChokeThreshold > 0
                                                 THEN @ + 1 ELSE @])
      after == IF complete THEN delivered ELSE held
  IN  IF m.bytes # <<>> /\ Len(whole) > MaxReassembly
      THEN Disconnect([stepped EXCEPT !.reassembly = <<>>])
      ELSE Then(Result(after, <<InformationAcknowledge(after, FALSE)>>,
                       IF complete
                       THEN <<[type |-> "DataReceived", data |-> whole]>>
                       ELSE <<>>),
                Pump(after))

\* Mutants: the window an acknowledgement opens is not used; a fragment beyond
\* a gap is taken in.
OnInformationUnpumped(c, m) ==
  LET heard == ApplyPeerChoke(AbsorbAck(c, m.rx), m.choke)
      gap == Mod256After(m.tx, Wire(c.vr))
  IN  CASE c.state # "Connected" -> Quiet(c)
        [] c.state = "Connected" /\ m.tx = Wire(c.vr) -> TakeInSequence(heard, m)
        [] OTHER -> Result(heard, <<InformationAcknowledge(heard, gap)>>, <<>>)

OnInformationTakingGaps(c, m) ==
  LET heard == ApplyPeerChoke(AbsorbAck(c, m.rx), m.choke)
  IN  CASE c.state # "Connected" -> Quiet(c)
        [] c.state = "Connected" /\ (m.tx = Wire(c.vr) \/ Mod256After(m.tx, Wire(c.vr)))
             -> TakeInSequence(heard, m)
        [] OTHER -> Then(Result(heard, <<InformationAcknowledge(heard, FALSE)>>, <<>>),
                         Pump(heard))

OnInformation(c, m) ==
  LET heard == ApplyPeerChoke(AbsorbAck(c, m.rx), m.choke)
      gap == Mod256After(m.tx, Wire(c.vr))
  IN  CASE c.state # "Connected" -> Quiet(c)
        [] c.state = "Connected" /\ m.tx = Wire(c.vr) -> TakeInSequence(heard, m)
        [] OTHER -> Then(Result(heard, <<InformationAcknowledge(heard, gap)>>, <<>>),
                         Pump(heard))

\* Mutant: the window that an acknowledgement opens is not used.
OnInformationAcknowledgeUnpumped(c, m) ==
  LET heard == AbsorbAck(ApplyPeerChoke(c, m.choke), m.rx)
  IN  IF c.state # "Connected" THEN Quiet(c)
      ELSE IF m.nak THEN RetransmitFrom(heard, m.rx) ELSE Quiet(heard)

OnInformationAcknowledge(c, m) ==
  LET heard == AbsorbAck(ApplyPeerChoke(c, m.choke), m.rx)
      r == IF m.nak THEN RetransmitFrom(heard, m.rx) ELSE Quiet(heard)
  IN  IF c.state # "Connected" THEN Quiet(c) ELSE Then(r, Pump(r.c))

OnPacket(c, m) ==
  CASE m.op = "ConnectRequest"         -> OnConnectRequest(c)
    [] m.op = "ConnectAcknowledge"     -> OnConnectAcknowledge(c, m)
    [] m.op = "DisconnectRequest"      -> OnDisconnectRequest(c)
    [] m.op = "DisconnectAcknowledge"  -> OnDisconnectAcknowledge(c)
    [] m.op = "Information"            -> OnInformation(c, m)
    [] m.op = "InformationAcknowledge" -> OnInformationAcknowledge(c, m)

=============================================================================
