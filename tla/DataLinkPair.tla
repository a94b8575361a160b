---------------------------- MODULE DataLinkPair ----------------------------
(***************************************************************************)
(* The two ends of an AX.25 connection and the radio between them, which   *)
(* keeps the order of frames but may lose any.  T1 expires when nothing is *)
(* on its way any more or, too early, while something is.                  *)
(***************************************************************************)
EXTENDS DataLink

Ends == {"A", "B"}
Peer == [e \in Ends |-> IF e = "A" THEN "B" ELSE "A"]

CONSTANT Scenarios  \* what may happen; one is chosen

\* srej: the reject scheme the link agreed on.  The others are bounds: frames
\* written per end, frames lost, T1 expiries too early, T3 expiries, and calls
\* that find the channel busy.
ASSUME ScenariosAssumption ==
    Scenarios \subseteq [srej : BOOLEAN, writes : [Ends -> Nat], loss : Nat,
                         early : Nat, idle : Nat, busy : Nat]

VARIABLES
    link,       \* per end: its session context
    air,        \* per end: the frames on their way to it
    written,    \* per end: the data its user sent
    delivered,  \* per end: the data indicated to its user
    fails,      \* per end: T1 expiries since V(a) last advanced
    scenario,   \* the scenario chosen
    spent       \* how much of its faults is used up

vars == <<link, air, written, delivered, fails, scenario, spent>>

Init ==
    /\ scenario \in Scenarios
    /\ link = [e \in Ends |-> Fresh(scenario.srej)]
    /\ air = [e \in Ends |-> <<>>]
    /\ written = [e \in Ends |-> <<>>]
    /\ delivered = [e \in Ends |-> <<>>]
    /\ fails = [e \in Ends |-> 0]
    /\ spent = [loss |-> 0, early |-> 0, idle |-> 0, busy |-> 0]

\* End e made a call, for which `clear' is carrier_is_clear and result[clear]
\* the outcome; `rest' is still on its way to e.
Call(e, result, rest) ==
    \E clear \in BOOLEAN :
        LET t == result[clear]
        IN  /\ ~clear => spent.busy < scenario.busy /\ t.c.seizing
            /\ link' = [link EXCEPT ![e] = t.c]
            /\ air' = [air EXCEPT ![e] = rest, ![Peer[e]] = @ \o t.out]
            /\ delivered' = [delivered EXCEPT ![e] = @ \o t.up]
            /\ spent' = [spent EXCEPT !.busy = IF clear THEN @ ELSE @ + 1]
    /\ UNCHANGED scenario

Write(e) ==
    /\ link[e].state \in {"Connected", "TimerRecovery"}
    /\ Len(written[e]) < scenario.writes[e]
    /\ LET data == Len(written[e]) + 1
       IN  /\ written' = [written EXCEPT ![e] = Append(@, data)]
           /\ Call(e, [clear \in BOOLEAN |-> DataRequest(link[e], data, clear)], air[e])
    /\ UNCHANGED fails

Deliver(e) ==
    /\ air[e] # <<>>
    /\ Call(e, [clear \in BOOLEAN |-> Received(link[e], Head(air[e]), clear)], Tail(air[e]))
    /\ fails' = [fails EXCEPT ![e] = IF link'[e].va = link[e].va THEN @ ELSE 0]
    /\ UNCHANGED written

Lose(e) ==
    /\ air[e] # <<>>
    /\ spent.loss < scenario.loss
    /\ air' = [air EXCEPT ![e] = Tail(@)]
    /\ spent' = [spent EXCEPT !.loss = @ + 1]
    /\ UNCHANGED <<link, written, delivered, fails, scenario>>

Quiet == \A e \in Ends : air[e] = <<>>

\* T1 fires when nothing is on its way any more.
T1Fires(e) ==
    /\ link[e].t1 /\ Quiet
    /\ Call(e, [clear \in BOOLEAN |-> T1Expiry(link[e], clear)], air[e])
    /\ fails' = [fails EXCEPT ![e] = @ + 1]
    /\ UNCHANGED written

\* T1 fires too early, while the channel is clear.
T1FiresEarly(e) ==
    /\ link[e].t1 /\ ~Quiet
    /\ spent.early < scenario.early
    /\ LET t == T1Expiry(link[e], TRUE)
       IN  /\ link' = [link EXCEPT ![e] = t.c]
           /\ air' = [air EXCEPT ![Peer[e]] = @ \o t.out]
    /\ fails' = [fails EXCEPT ![e] = @ + 1]
    /\ spent' = [spent EXCEPT !.early = @ + 1]
    /\ UNCHANGED <<written, delivered, scenario>>

T3Fires(e) ==
    /\ link[e].state = "Connected" /\ link[e].t3
    /\ spent.idle < scenario.idle
    /\ LET t == T3Expiry(link[e], TRUE)
       IN  /\ link' = [link EXCEPT ![e] = t.c]
           /\ air' = [air EXCEPT ![Peer[e]] = @ \o t.out]
    /\ spent' = [spent EXCEPT !.idle = @ + 1]
    /\ UNCHANGED <<written, delivered, fails, scenario>>

Next ==
    \E e \in Ends :
        \/ Write(e)
        \/ Deliver(e)
        \/ Lose(e)
        \/ T1Fires(e)
        \/ T1FiresEarly(e)
        \/ T3Fires(e)

Spec == Init /\ [][Next]_vars

-----------------------------------------------------------------------------
Up(e) == link[e].state \in {"Connected", "TimerRecovery"}

Data == UNION {1 .. s.writes[e] : s \in Scenarios, e \in Ends}

Stream == INSTANCE StreamService WITH
    Frames <- Data, open <- [e \in Ends |-> Up(e)]

\* The link is the reliable stream layer 3 takes it for: what one end sent is
\* indicated to the other whole, in order and once, whatever the radio loses
\* and whatever is sent again.  A sequence number must never stand for two
\* frames at once (effective_window, IsOutstanding, VrLtNsLtVrPlusK).
ImplementsService == Stream!Spec

\* An end gives up only after N2 T1 expiries in a row without progress, never
\* because the expiries of a working link add up (ack_progress_resets_rc).
GivesUpAfterRetries ==
    [][\A e \in Ends : Up(e) /\ ~Up(e)' /\ fails'[e] > fails[e] => fails'[e] >= N2]_vars

\* No loss, repeat or early timeout shows an end an N(r) it cannot place.  And
\* when nothing is on its way, nothing sent again is due and no end has given
\* up, all that was sent has been indicated and acknowledged, nothing waits in
\* a queue, and an acknowledgement still owed waits for the channel alone.
NothingStuck ==
    /\ \A e \in Ends : link[e].state # "AwaitingConnection"
    /\ Quiet /\ (\A e \in Ends : link[e].state # "Disconnected" /\ ~link[e].t1) =>
         \A e \in Ends :
             /\ link[e].state = "Connected"
             /\ link[e].va = link[e].vs /\ link[e].queue = <<>>
             /\ delivered[Peer[e]] = written[e]
             /\ link[e].ackPending => link[e].seizing

\* Fewer faults than retries never end the link.  (Violated on a link with
\* selective reject: a replay that is lost is never sent again.)
FewLossesHarmless == spent.loss + spent.early < N2 => \A e \in Ends : Up(e)
=============================================================================
