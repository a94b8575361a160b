---------------------------- MODULE StreamService ----------------------------
(***************************************************************************)
(* What a NET/ROM circuit promises its two consumers, and an AX.25 link    *)
(* its layer 3: while an end is open, the frames its peer wrote arrive at  *)
(* it whole, once each and in the order they were written, one or several  *)
(* at a time.  Nothing is promised about frames still on their way when    *)
(* an end closes.                                                          *)
(***************************************************************************)
EXTENDS Naturals, Sequences

CONSTANTS
  Ends,    \* the two ends
  Frames,  \* what can be written in one call
  Peer     \* the other end of each

VARIABLES
  written,    \* per end: the frames its application has written
  delivered,  \* per end: the frames handed to its application
  open        \* per end: is it up?

vars == <<written, delivered, open>>

Init ==
  /\ written = [e \in Ends |-> <<>>]
  /\ delivered = [e \in Ends |-> <<>>]
  /\ open = [e \in Ends |-> TRUE]

Write(e) ==
  /\ open[e]
  /\ \E f \in Frames : written' = [written EXCEPT ![e] = Append(@, f)]
  /\ UNCHANGED <<delivered, open>>

Deliver(e) ==
  /\ open[e]
  /\ \E n \in Len(delivered[e]) + 1 .. Len(written[Peer[e]]) :
       delivered' = [delivered EXCEPT ![e] = SubSeq(written[Peer[e]], 1, n)]
  /\ UNCHANGED <<written, open>>

Close(e) ==
  /\ open[e]
  /\ open' = [open EXCEPT ![e] = FALSE]
  /\ UNCHANGED <<written, delivered>>

Next == \E e \in Ends : Write(e) \/ Deliver(e) \/ Close(e)

Spec == Init /\ [][Next]_vars

=============================================================================
