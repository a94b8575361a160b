--------------------------- MODULE LinkNegotiation ---------------------------
(***************************************************************************)
(* How a dial settles the version of an AX.25 link: XID before the SABM(E) *)
(* or after the UA, refusals, and the timers of both (sdl/manager.rs,      *)
(* sdl/mdl.rs, sdl/capability.rs).  Station A dials station B over a       *)
(* channel that keeps order and may lose frames.  The generated tables are *)
(* not in this repository: what they do with SABM(E), UA, DM, FRMR, DISC   *)
(* and T1 is modelled from the tests that drive them.  Of the parameters   *)
(* XID carries, the modulo and the reject scheme are kept.                 *)
(***************************************************************************)
EXTENDS Naturals, Sequences

CONSTANTS
    Scenarios,   \* what may happen in one behaviour, see Init
    MaxTries     \* N2, and NM201 with it

ASSUME NegotiationAssumption == MaxTries \in Nat \ {0}

VARIABLES
    stn,      \* station -> the slot it keeps for the other
    wire,     \* station -> the frames on their way to it
    cache,    \* what A has learned of B, see Learn
    dialled,  \* the dial in hand: its plan, and what it came to
    left,     \* the dials and the losses still to come
    scen      \* the scenario

vars == <<stn, wire, cache, dialled, left, scen>>

Other(s) == IF s = "A" THEN "B" ELSE "A"

\* A slot just created, or reaped.  deferred is the version of the dial that
\* waits for its probe; offer is what our last XID command said.
Fresh ==
    [link |-> "Disconnected", ext |-> FALSE, srej |-> FALSE, settled |-> FALSE,
     mdl |-> "Ready", rc |-> 0, offer |-> [ext |-> FALSE, srej |-> FALSE],
     deferred |-> "none", tries |-> 0]

Frame(k) == [kind |-> k]
Xid(k, o) == [kind |-> k, offer |-> o]
Result(c, frames) == [slot |-> c, frames |-> frames]

-----------------------------------------------------------------------------
\* mdl.rs

OfferOf(c) == [ext |-> c.ext, srej |-> c.srej]

\* apply_negotiated: the lesser of the two offers on each axis.
ApplyNegotiated(c, ours, theirs) ==
    [c EXCEPT !.ext = ours.ext /\ theirs.ext, !.srej = ours.srej /\ theirs.srej,
              !.settled = TRUE]

ApplyVersion20Defaults(c) == [c EXCEPT !.ext = FALSE, !.srej = FALSE, !.settled = TRUE]

\* The machine opens an exchange, unless one is open.
Negotiate(c) ==
    IF c.mdl = "Negotiating" THEN Result(c, <<>>)
    ELSE Result([c EXCEPT !.mdl = "Negotiating", !.rc = 0, !.offer = OfferOf(c)],
                <<Xid("XidCommand", OfferOf(c))>>)

\* Mutant: a probe nobody answered leaves the dial its SREJ.
RevertNothing(c) == c

\* revert_pre_connect_xid, for a mod-8 dial.
Revert(c) == IF c.deferred = "mod8" THEN [c EXCEPT !.srej = FALSE] ELSE c

\* What respond_pre_session_xid seeds.
Capability(c) == [c EXCEPT !.ext = TRUE, !.srej = TRUE]

\* The responder: merge, and echo what was agreed.
RespondToXid(c, offer) ==
    LET base == IF c.link = "Disconnected" THEN Capability(c) ELSE c
        agreed == ApplyNegotiated(base, OfferOf(base), offer)
    IN  Result(agreed, <<Xid("XidResponse", OfferOf(agreed))>>)

-----------------------------------------------------------------------------
\* The data link

\* DL-CONNECT request in Disconnected, and the SABM(E) it sends.
Establish(c) ==
    Result([c EXCEPT !.link = IF c.ext THEN "AwaitingV22" ELSE "Awaiting",
                     !.tries = 0, !.deferred = "none"],
           <<Frame(IF c.ext THEN "SABME" ELSE "SABM")>>)

Down(c) == Result([c EXCEPT !.link = "Disconnected", !.settled = FALSE], <<>>)

\* FRMR or DM to a SABME: version 2.0 by force, then a SABM.
Degrade(c) ==
    Result([c EXCEPT !.ext = FALSE, !.srej = IF c.ext THEN FALSE ELSE @,
                     !.link = "Awaiting", !.tries = 0], <<Frame("SABM")>>)

\* Mutant: a DM is a DM.
TornDown(c) == Down(c)

\* A DM stands for a FRMR as long as the link is extended.
RefusedByDm(c) == IF c.ext THEN Degrade(c) ELSE Down(c)

\* Set Version 2.0 undoes the scheme of an extended link only, and Set Version
\* 2.2 selects SREJ only where nothing was settled.
SetVersion20(c) == [c EXCEPT !.srej = IF c.ext THEN FALSE ELSE @, !.ext = FALSE]
SetVersion22(c) == [c EXCEPT !.srej = IF c.settled THEN @ ELSE TRUE, !.ext = TRUE]

\* The UA: the link is up, and one established with SABME negotiates now if
\* it has not before.
Confirm(c) ==
    LET up == [c EXCEPT !.link = "Connected"]
    IN  IF c.link = "AwaitingV22" /\ ~c.settled THEN Negotiate(up) ELSE Result(up, <<>>)

\* What the session makes of a frame in each of its states.
OnLinkFrame(c, kind) ==
    CASE c.link = "Disconnected" /\ kind = "SABM" ->
             Result([SetVersion20(c) EXCEPT !.link = "Connected"], <<Frame("UA")>>)
      [] c.link = "Disconnected" /\ kind = "SABME" ->
             Result([SetVersion22(c) EXCEPT !.link = "Connected"], <<Frame("UA")>>)
      [] c.link = "Disconnected" /\ kind = "DISC" -> Result(c, <<Frame("DM")>>)
      [] c.link = "Connected" /\ kind \in {"SABM", "SABME"} -> Result(c, <<Frame("UA")>>)
      [] c.link = "Connected" /\ kind = "DISC" -> Result(Down(c).slot, <<Frame("UA")>>)
      [] c.link = "Connected" /\ kind = "FRMR" -> Establish(c)
      [] c.link \in {"Awaiting", "AwaitingV22"} /\ kind = "UA" -> Confirm(c)
      [] c.link = "AwaitingV22" /\ kind = "FRMR" -> Degrade(c)
      [] c.link = "AwaitingV22" /\ kind = "DM" -> RefusedByDm(c)
      [] c.link \in {"Awaiting", "Releasing", "Connected"} /\ kind = "DM" -> Down(c)
      [] c.link = "Releasing" /\ kind = "UA" -> Down(c)
      [] OTHER -> Result(c, <<>>)

-----------------------------------------------------------------------------
\* manager.rs

SelectDialVersion(c, v22) == [c EXCEPT !.ext = v22, !.srej = v22, !.settled = FALSE]

\* The machine is done: the dial it held back goes out.
Released(c) == IF c.deferred # "none" THEN Establish(c) ELSE Result(c, <<>>)

\* post_with_local: XID commands are answered, and while an exchange is open
\* its answer or its refusal goes to the machine, not to the link.
OnFrame(c, f) ==
    CASE f.kind = "XidCommand" -> RespondToXid(c, f.offer)
      [] f.kind = "XidResponse" /\ c.mdl = "Negotiating" ->
             Released([ApplyNegotiated(c, c.offer, f.offer) EXCEPT !.mdl = "Ready"])
      [] f.kind = "XidResponse" /\ c.mdl = "Ready" -> Result(c, <<>>)
      [] f.kind = "FRMR" /\ c.mdl = "Negotiating" ->
             Released([ApplyVersion20Defaults(c) EXCEPT !.mdl = "Ready"])
      [] OTHER -> OnLinkFrame(c, f.kind)

\* begin_xid_probe or connect_extended, as the plan has it.
Dial(c, plan) ==
    LET chosen == SelectDialVersion(c, plan.v22)
        probe == Negotiate([chosen EXCEPT !.srej = TRUE])
    IN  IF plan.probe
        THEN Result([probe.slot EXCEPT !.deferred = IF plan.v22 THEN "v22" ELSE "mod8"],
                    probe.frames)
        ELSE Establish(chosen)

\* The bounded wait for the probe is over.
ProbeTimeout(c) == Establish(Revert(c))

\* TM201: try again, or give up.
Tm201Expiry(c) ==
    IF c.rc < MaxTries
    THEN Result([c EXCEPT !.rc = @ + 1, !.offer = OfferOf(c)],
                <<Xid("XidCommand", OfferOf(c))>>)
    ELSE LET ready == [c EXCEPT !.mdl = "Ready"]
         IN  IF c.deferred # "none" THEN Establish(Revert(ready)) ELSE Result(ready, <<>>)

T1Expiry(c) ==
    IF c.tries = MaxTries THEN Down(c)
    ELSE Result([c EXCEPT !.tries = @ + 1],
                <<Frame(CASE c.link = "Awaiting" -> "SABM"
                          [] c.link = "AwaitingV22" -> "SABME"
                          [] c.link = "Releasing" -> "DISC")>>)

-----------------------------------------------------------------------------
\* capability.rs

Unknown == "unknown"

\* plan_dial: what is known and fresh, else what the policy hopes for.
PlanDial(policy, fresh) ==
    [v22 |-> IF fresh /\ cache.v22 # Unknown THEN cache.v22 = "yes" ELSE policy = "UserConnect",
     probe |-> ~(fresh /\ cache.xid = "no")]

\* record_outcome: what the dial probed is learned from what it came to.
RecordOutcome(plan, c) ==
    [v22 |-> IF plan.v22 THEN (IF c.ext THEN "yes" ELSE "no") ELSE cache.v22,
     xid |-> IF plan.probe THEN (IF c.srej THEN "yes" ELSE "no") ELSE cache.xid]

-----------------------------------------------------------------------------
\* A scenario: what B is, the policy A dials by, how many dials and losses
\* there are, and whether the timers are longer than every round trip.
Init ==
    /\ scen \in Scenarios
    /\ stn = [s \in {"A", "B"} |-> Fresh]
    /\ wire = [s \in {"A", "B"} |-> <<>>]
    /\ cache = [v22 |-> Unknown, xid |-> Unknown]
    /\ dialled = [plan |-> [v22 |-> FALSE, probe |-> FALSE], answered |-> FALSE, state |-> "none"]
    /\ left = [dials |-> scen.dials, losses |-> scen.losses]

\* Station s is left as r.slot says, and r.frames go out.
Becomes(s, r, channels) ==
    /\ stn' = [stn EXCEPT ![s] = r.slot]
    /\ wire' = [channels EXCEPT ![Other(s)] = @ \o r.frames]

\* What A's dial has come to after a step of A.
Outcome(c) ==
    [dialled EXCEPT !.state =
        CASE @ = "dialling" /\ c.link = "Connected" -> "up"
          [] @ = "dialling" /\ c.link = "Disconnected" /\ c.deferred = "none" -> "failed"
          [] OTHER -> @]

DialOut(fresh) ==
    /\ left.dials > 0 /\ dialled.state # "dialling"
    /\ stn["A"].link = "Disconnected" /\ stn["A"].deferred = "none"
    /\ stn["B"].link = "Disconnected" /\ \A s \in {"A", "B"} : wire[s] = <<>>
    /\ LET plan == PlanDial(scen.policy, fresh)
       IN  /\ Becomes("A", Dial(stn["A"], plan), wire)
           /\ dialled' = [plan |-> plan, answered |-> FALSE, state |-> "dialling"]
    /\ left' = [left EXCEPT !.dials = @ - 1]
    /\ UNCHANGED <<cache, scen>>

\* The host records what the dial came to.
Learn ==
    /\ dialled.state = "up"
    /\ cache' = RecordOutcome(dialled.plan, stn["A"])
    /\ dialled' = [dialled EXCEPT !.state = "learned"]
    /\ UNCHANGED <<stn, wire, left, scen>>

HangUp ==
    /\ dialled.state = "learned" /\ stn["A"].link = "Connected"
    /\ Becomes("A", Result([stn["A"] EXCEPT !.link = "Releasing", !.tries = 0],
                           <<Frame("DISC")>>), wire)
    /\ UNCHANGED <<cache, dialled, left, scen>>

\* Mutant: whatever has no link is given back, a dial that waits included.
ReapWaiting(s) ==
    /\ stn[s].link = "Disconnected" /\ stn[s] # Fresh
    /\ stn' = [stn EXCEPT ![s] = Fresh]
    /\ UNCHANGED <<wire, cache, dialled, left, scen>>

\* reap: a slot with no link, no dial and no exchange is given back.  It does not
\* ask whether parameters are staged there for the SABM(E) to come: a host that
\* reaps after every event would drop them.
Reap(s) ==
    /\ stn[s].link = "Disconnected" /\ stn[s].deferred = "none" /\ stn[s].mdl = "Ready"
    /\ stn[s].settled => scen.eager
    /\ stn[s] # Fresh
    /\ stn' = [stn EXCEPT ![s] = Fresh]
    /\ UNCHANGED <<wire, cache, dialled, left, scen>>

-----------------------------------------------------------------------------
Popped(s) == [wire EXCEPT ![s] = Tail(@)]

Receive(s) ==
    /\ wire[s] # <<>> /\ (s = "B" => scen.peer.kind = "same")
    /\ LET f == Head(wire[s])
           r == OnFrame(stn[s], f)
       IN  /\ Becomes(s, r, Popped(s))
           /\ dialled' = IF s = "A" THEN [Outcome(r.slot) EXCEPT
                              !.answered = @ \/ f.kind = "XidResponse"] ELSE dialled
    /\ UNCHANGED <<cache, left, scen>>

\* A peer that is not this program, and how it answers what it does not know:
\* an XID, and with a peer of version 2.0 a SABME.
ForeignReceive ==
    /\ wire["B"] # <<>> /\ scen.peer.kind = "foreign"
    /\ LET kind == Head(wire["B"]).kind
           answer == IF kind = "XidCommand" THEN scen.peer.xid ELSE scen.peer.sabme
       IN  Becomes("B",
               IF kind = "XidCommand" \/ (kind = "SABME" /\ answer # "UA")
               THEN Result(stn["B"], IF answer = "silent" THEN <<>> ELSE <<Frame(answer)>>)
               ELSE OnLinkFrame(stn["B"], kind), Popped("B"))
    /\ UNCHANGED <<cache, dialled, left, scen>>

Lose(s) ==
    /\ wire[s] # <<>> /\ left.losses > 0
    /\ wire' = Popped(s)
    /\ left' = [left EXCEPT !.losses = @ - 1]
    /\ UNCHANGED <<stn, cache, dialled, scen>>

\* With patient timers, nothing expires while an answer may still come.
MayExpire == scen.patient => \A s \in {"A", "B"} : wire[s] = <<>>

Expire(s, r) ==
    /\ MayExpire
    /\ Becomes(s, r, wire)
    /\ dialled' = IF s = "A" THEN Outcome(r.slot) ELSE dialled
    /\ UNCHANGED <<cache, left, scen>>

\* The handlers of the probe and of TM201 look the slot up by the peer alone,
\* so that they miss the dial's slot behind an older one of the same peer.
ProbeExpires ==
    /\ stn["A"].deferred # "none" /\ scen.alone
    /\ Expire("A", ProbeTimeout(stn["A"]))

Tm201Expires(s) ==
    /\ stn[s].mdl = "Negotiating" /\ (s = "A" => scen.alone)
    /\ Expire(s, Tm201Expiry(stn[s]))

T1Expires(s) ==
    /\ stn[s].link \in {"Awaiting", "AwaitingV22", "Releasing"}
    /\ Expire(s, T1Expiry(stn[s]))

Step ==
    \/ \E s \in {"A", "B"} : Receive(s) \/ Tm201Expires(s) \/ T1Expires(s)
    \/ ForeignReceive \/ ProbeExpires

Next ==
    \/ Step
    \/ \E fresh \in BOOLEAN : DialOut(fresh)
    \/ Learn \/ HangUp
    \/ \E s \in {"A", "B"} : Reap(s) \/ Lose(s)

Spec == Init /\ [][Next]_vars

\* Frames arrive and timers run out.
FairSpec == Spec /\ WF_vars(Step)
-----------------------------------------------------------------------------
Links == {"Disconnected", "Awaiting", "AwaitingV22", "Connected", "Releasing"}

\* Every variable stays within its domain.
TypeOK ==
    /\ \A s \in {"A", "B"} :
           /\ stn[s].link \in Links /\ stn[s].mdl \in {"Ready", "Negotiating"}
           /\ stn[s].deferred \in {"none", "mod8", "v22"}
           /\ {stn[s].rc, stn[s].tries} \subseteq 0..MaxTries
    /\ dialled.state \in {"none", "dialling", "up", "learned", "failed"}

Up == stn["A"].link = "Connected" /\ stn["B"].link = "Connected"
Quiet == \A s \in {"A", "B"} : wire[s] = <<>> /\ stn[s].mdl = "Ready"

\* Once both ends are up and no exchange is open they count frames by the same
\* modulo and recover by the same scheme, whatever was lost on the way there, if
\* the timers outlast the round trip.
SameScheme ==
    Up /\ Quiet /\ scen.patient /\ scen.peer.kind = "same" =>
        stn["A"].ext = stn["B"].ext /\ stn["A"].srej = stn["B"].srej

\* Nobody puts SREJ on a mod-8 link whose peer did not answer the XID.
NeverUnilateral ==
    stn["A"].link = "Connected" /\ ~stn["A"].ext /\ ~dialled.answered => ~stn["A"].srej

SchemeAgreed == SameScheme /\ NeverUnilateral

\* A peer that takes a SABM is reached: whichever way it refuses the XID and the
\* SABME, with nothing lost and patient timers the dial comes up.
NoFalseRefusal == scen.patient /\ scen.losses = 0 => dialled.state # "failed"

\* A dial ends: the link comes up or the dial fails, however the exchange that
\* it waited for went.
DialResolves == (dialled.state = "dialling") ~> (dialled.state # "dialling")

\* "So the peer is learned a non-answerer": what the cache holds of XID after a
\* dial is whether the peer answered one.
LearnedTruly ==
    dialled.state = "learned" /\ dialled.plan.probe => (cache.xid = "yes" => dialled.answered)
=============================================================================
