------------------------------ MODULE DataLink ------------------------------
(***************************************************************************)
(* One end of an established AX.25 connection as the session runtime of    *)
(* crates/ax25-node-core/src/sdl drives it: dispatch.rs says what a verb   *)
(* does, guard.rs what a guard reads, context.rs keeps the variables and   *)
(* session.rs runs a transition and then drains the queue.  Which verbs a  *)
(* transition strings together is in the generated ax25sdl tables, outside *)
(* the repository: the pages Connected (figc4.4), TimerRecovery (figc4.5)  *)
(* and the subroutines (figc4.7) are modelled as the comments and tests of *)
(* the runtime describe them, with the quirks at their default, all on.    *)
(*                                                                         *)
(* An operator takes a transition in progress (tx.rs Tx) to the next: the  *)
(* context c, the frames sent, the data indicated, and whether a frame was *)
(* replayed inline.                                                        *)
(***************************************************************************)
EXTENDS Integers, Sequences, Functions, SequencesExt

CONSTANTS
    Modulus,  \* of the sequence numbers
    K,        \* k, the window asked for
    N2        \* retries

ASSUME LinkAssumption ==
    /\ Modulus \in Nat /\ Modulus >= 4 /\ Modulus % 2 = 0
    /\ K \in Nat \ {0} /\ N2 \in Nat \ {0}

SeqNums == 0 .. Modulus - 1

-----------------------------------------------------------------------------
(* The context.  Peer and own receiver are never busy, and SRT and T1V     *)
(* only decide when T1 expires, which is any time.                         *)

Fresh(srej) ==
    [state |-> "Connected", srej |-> srej, vs |-> 0, va |-> 0, vr |-> 0, rc |-> 0,
     ackPending |-> FALSE, rejectException |-> FALSE, srejCount |-> 0,
     t1 |-> FALSE, t3 |-> TRUE, queue |-> <<>>, sent |-> <<>>, stored |-> <<>>,
     replayed |-> {}, progressed |-> FALSE, seizing |-> FALSE]

\* increment_seq, and how far b is ahead of a.
Succ(n) == (n + 1) % Modulus
Ahead(a, b) == (b - a) % Modulus

OutstandingCount(c) == Ahead(c.va, c.vs)
IsOutstanding(c, ns) == Ahead(c.va, ns) < OutstandingCount(c)

Lesser(a, b) == IF a < b THEN a ELSE b

\* Mutant: the window of a selective-reject link is not halved.
UnclampedWindow(c) == Lesser(K, Modulus - 1)

EffectiveWindow(c) ==
    IF c.srej THEN Lesser(K, Modulus \div 2) ELSE Lesser(K, Modulus - 1)

Pruned(c) ==
    [c EXCEPT !.sent = Restrict(@, {ns \in DOMAIN @ : IsOutstanding(c, ns)})]

\* Guards on a received frame f.
ValidNr(c, f) == Ahead(c.va, f.nr) <= OutstandingCount(c)
InWindow(c, f) == Ahead(c.vr, f.ns) \in 1 .. EffectiveWindow(c) - 1

-----------------------------------------------------------------------------
(* Verbs. *)

Tx(c) == [c |-> c, out |-> <<>>, up |-> <<>>, inline |-> FALSE]

Sending(t, f) == [t EXCEPT !.out = Append(@, f)]

Supervisory(kind, cmd, pf, nr) ==
    [kind |-> kind, cmd |-> cmd, pf |-> pf, nr |-> nr, ns |-> 0, data |-> 0]

Information(ns, nr, data) ==
    [kind |-> "I", cmd |-> TRUE, pf |-> FALSE, nr |-> nr, ns |-> ns, data |-> data]

\* N(r) := V(r), and the supervisory frame.
SendS(t, kind, cmd, pf) == Sending(t, Supervisory(kind, cmd, pf, t.c.vr))

StartT1(t) == [t EXCEPT !.c.t1 = TRUE]
StopT1(t) == [t EXCEPT !.c.t1 = FALSE]
StartT3(t) == [t EXCEPT !.c.t3 = TRUE]
StopT3(t) == [t EXCEPT !.c.t3 = FALSE]
AssignRC(t, n) == [t EXCEPT !.c.rc = n]
Enter(t, state) == [t EXCEPT !.c.state = state]
ClearAckPending(t) == [t EXCEPT !.c.ackPending = FALSE]

\* Mutant: a replay in the same transition does not excuse the flag.
SetAckPendingAlways(t) == [t EXCEPT !.c.ackPending = TRUE]

SetAckPending(t) == IF t.inline THEN t ELSE [t EXCEPT !.c.ackPending = TRUE]

\* V(a) := N(r)
VaAssignNr(t, nr) ==
    IF nr = t.c.va THEN t
    ELSE [t EXCEPT !.c = Pruned([@ EXCEPT !.va = nr, !.replayed = {}])]

\* I_command with N(s) = V(s), N(r) = V(r), P = 0, which is kept for a replay.
EmitIFrame(t, data) ==
    [Sending(t, Information(t.c.vs, t.c.vr, data)) EXCEPT
        !.c.sent = (t.c.vs :> data) @@ @, !.c.replayed = @ \ {t.c.vs}]

\* A kept frame goes out again: any, or, asked for selectively, one that is
\* outstanding, and once per advance of V(a).
EmitOldIFrame(t, ns, selective) ==
    IF selective /\ (~IsOutstanding(t.c, ns) \/ ns \in t.c.replayed) THEN t
    ELSE LET marked == IF selective THEN [t EXCEPT !.c.replayed = @ \cup {ns}] ELSE t
         IN  IF ns \notin DOMAIN t.c.sent THEN marked
             ELSE [Sending(marked, Information(ns, t.c.vr, t.c.sent[ns])) EXCEPT
                      !.c.ackPending = FALSE, !.inline = TRUE]

SaveIFrame(t, f) == [t EXCEPT !.c.stored = (f.ns :> f.data) @@ @]

DataIndication(t, data) == [t EXCEPT !.up = Append(@, data)]

\* The stored frame V(r), if there is one, is indicated and V(r) advances.
RetrieveStored(t) ==
    IF t.c.vr \notin DOMAIN t.c.stored THEN t
    ELSE [DataIndication(t, t.c.stored[t.c.vr]) EXCEPT
             !.c.stored = Restrict(@, DOMAIN @ \ {t.c.vr}), !.c.vr = Succ(@)]

\* LM-SEIZE request, which the manager grants (seize_pending).
RequestSeize(t) == [t EXCEPT !.c.seizing = TRUE]

-----------------------------------------------------------------------------
(* The subroutines (figc4.7). *)

\* Go back N: every frame from N(r) to V(s).
InvokeRetransmission(t, nr) ==
    FoldLeft(LAMBDA u, i : EmitOldIFrame(u, (nr + i - 1) % Modulus, FALSE),
             t, [i \in 1 .. Ahead(nr, t.c.vs) |-> i])

TransmitEnquiry(t) == StartT1(ClearAckPending(SendS(t, "RR", TRUE, TRUE)))

\* f polled; a selective-reject end that holds stored frames asks for V(r).
EnquiryResponse(t, f) ==
    ClearAckPending(
        IF t.c.srej /\ f.kind \in {"RR", "I"} /\ f.pf /\ t.c.stored # <<>>
        THEN SendS(t, "SREJ", FALSE, TRUE)
        ELSE SendS(t, "RR", FALSE, f.pf))

CheckNeedForResponse(t, f) == IF f.cmd /\ f.pf THEN EnquiryResponse(t, f) ELSE t

CheckIFrameAcknowledged(t, nr) ==
    IF nr = t.c.vs THEN StartT3(StopT1(VaAssignNr(t, nr)))
    ELSE IF nr # t.c.va THEN StartT1(VaAssignNr(t, nr))
    ELSE t

\* The tail of an arm that has sent frames again.
Resent(t) == ClearAckPending(StartT1(StopT3(t)))

-----------------------------------------------------------------------------
(* The pages Connected (figc4.4) and TimerRecovery (figc4.5). *)

\* An I frame whose N(s) is V(r).
InSequence(t, f) ==
    LET taken == [DataIndication(t, f.data) EXCEPT
                     !.c.vr = Succ(@), !.c.rejectException = FALSE,
                     !.c.srejCount = IF @ > 0 THEN @ - 1 ELSE 0]
        drained == FoldLeft(LAMBDA u, i : RetrieveStored(u), taken, [i \in SeqNums \ {0} |-> i])
    IN  IF drained.c.ackPending THEN drained ELSE SetAckPending(RequestSeize(drained))

Rejected(t) == ClearAckPending(SendS([t EXCEPT !.c.rejectException = TRUE], "REJ", FALSE, FALSE))

SelectivelyRejected(t, f) ==
    [ClearAckPending(SendS(SaveIFrame(t, f), "SREJ", FALSE, t.c.srejCount = 0)) EXCEPT
        !.c.srejCount = @ + 1]

\* An I frame ahead of V(r) in the window.  SREJ names V(r) (#42), and only
\* a gap of one frame, or one while another SREJ is outstanding.
OutOfSequence(t, f) ==
    IF t.c.rejectException THEN t
    ELSE IF t.c.srej /\ (t.c.srejCount > 0 \/ Ahead(t.c.vr, f.ns) = 1)
    THEN SelectivelyRejected(t, f)
    ELSE Rejected(t)

ReceiveI(t, f) ==
    IF f.ns = t.c.vr THEN InSequence(t, f)
    ELSE IF InWindow(t.c, f) THEN OutOfSequence(t, f)
    ELSE t

ConnectedOn(t, f) ==
    CASE f.kind = "I" -> ReceiveI(CheckIFrameAcknowledged(t, f.nr), f)
      [] f.kind = "RR" -> CheckIFrameAcknowledged(CheckNeedForResponse(t, f), f.nr)
      [] f.kind = "REJ" -> Resent(InvokeRetransmission(StopT1(VaAssignNr(t, f.nr)), f.nr))
      [] f.kind = "SREJ" ->
           Resent(EmitOldIFrame(IF f.pf THEN VaAssignNr(t, f.nr) ELSE t, f.nr, TRUE))

\* A response with F = 1 answers the enquiry.
Answered(t, f) ==
    LET acked == StopT1(VaAssignNr(t, f.nr))
    IN  IF acked.c.va = acked.c.vs THEN Enter(AssignRC(StartT3(acked), 0), "Connected")
        ELSE IF f.kind = "SREJ" THEN Resent(EmitOldIFrame(acked, f.nr, TRUE))
        ELSE SetAckPending(StartT1(StopT3(InvokeRetransmission(acked, f.nr))))

TimerRecoveryOn(t, f) ==
    CASE f.kind = "I" -> ReceiveI(VaAssignNr(t, f.nr), f)
      [] ~f.cmd /\ f.pf -> Answered(t, f)
      [] f.kind = "RR" /\ (f.cmd \/ ~f.pf) -> VaAssignNr(CheckNeedForResponse(t, f), f.nr)
      [] f.kind = "REJ" /\ ~f.pf -> Resent(InvokeRetransmission(VaAssignNr(t, f.nr), f.nr))
      [] f.kind = "SREJ" /\ ~f.pf -> Resent(EmitOldIFrame(t, f.nr, TRUE))

\* DL-DISCONNECT indication.
Disconnected(t) ==
    [t EXCEPT !.c.state = "Disconnected", !.c.queue = <<>>, !.c.t1 = FALSE, !.c.t3 = FALSE]

\* N_r_Error_Recovery: the link is established again, which is not modelled.
NrErrorRecovery(t) ==
    [t EXCEPT !.c.state = "AwaitingConnection", !.c.t1 = FALSE, !.c.t3 = FALSE]

DM(pf) == Supervisory("DM", FALSE, pf, 0)

\* Which arm a received frame takes.
OnFrame(t, f) ==
    CASE t.c.state = "Disconnected" -> IF f.cmd THEN Sending(t, DM(f.pf)) ELSE t
      [] t.c.state = "AwaitingConnection" -> t
      [] f.kind = "DM" -> Disconnected(t)
      [] ~ValidNr(t.c, f) -> NrErrorRecovery(t)
      [] t.c.state = "Connected" -> ConnectedOn(t, f)
      [] t.c.state = "TimerRecovery" -> TimerRecoveryOn(t, f)

OnT1(t) ==
    IF t.c.state = "Connected" THEN Enter(TransmitEnquiry(AssignRC(t, 1)), "TimerRecovery")
    ELSE IF t.c.rc = N2 THEN Disconnected(Sending(t, DM(FALSE)))
    ELSE TransmitEnquiry(AssignRC(t, t.c.rc + 1))

OnT3(t) == Enter(TransmitEnquiry(AssignRC(t, 0)), "TimerRecovery")

PopIFrame(t, data) ==
    LET sent == ClearAckPending([EmitIFrame(t, data) EXCEPT !.c.vs = Succ(@)])
    IN  IF t.c.t1 THEN sent ELSE StartT1(StopT3(sent))

OnSeizeConfirm(t) ==
    IF t.c.ackPending THEN ClearAckPending(SendS(t, "RR", FALSE, FALSE)) ELSE t

-----------------------------------------------------------------------------
(* The runtime (session.rs, manager.rs). *)

\* dispatch_event: progress is noted for the next T1 expiry.
Noted(before, t) == IF t.c.va = before.va THEN t ELSE [t EXCEPT !.c.progressed = TRUE]

CanTransmit(c) ==
    /\ c.state \in {"Connected", "TimerRecovery"}
    /\ OutstandingCount(c) < EffectiveWindow(c)

\* drain_i_frame_queue
Drained(t) ==
    FoldLeft(LAMBDA u, i : IF u.c.queue # <<>> /\ CanTransmit(u.c)
                           THEN PopIFrame([u EXCEPT !.c.queue = Tail(@), !.inline = FALSE],
                                          Head(u.c.queue))
                           ELSE u,
             t, t.c.queue)

\* post: the transition, the drain and, if the channel is clear, the grant of a
\* requested seize.
Posted(before, t, clear) ==
    LET done == Drained(Noted(before, t))
        granted == [done EXCEPT !.c.seizing = FALSE, !.inline = FALSE]
    IN  IF clear /\ done.c.seizing THEN Drained(OnSeizeConfirm(granted)) ELSE done

\* Mutant: acknowledged progress does not reset the retry counter.
RatchetedRC(c) == [c EXCEPT !.t1 = FALSE, !.progressed = FALSE]

\* T1 has fired: an expiry after progress is the first of a new run (#9).
ClampedRC(c) ==
    [c EXCEPT !.rc = IF c.progressed /\ @ > 1 THEN 1 ELSE @, !.t1 = FALSE, !.progressed = FALSE]

DataRequest(c, data, clear) == Posted(c, [Tx(c) EXCEPT !.c.queue = Append(@, data)], clear)
Received(c, f, clear) == Posted(c, OnFrame(Tx(c), f), clear)
T1Expiry(c, clear) == Posted(c, OnT1(Tx(ClampedRC(c))), clear)
T3Expiry(c, clear) == Posted(c, OnT3(Tx([c EXCEPT !.t3 = FALSE])), clear)
=============================================================================
