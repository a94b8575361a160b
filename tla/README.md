# A TLA+ model of pico-node

pico-node is a packet-radio node for the Raspberry Pi Pico W. Its portable part,
`crates/ax25-node-core`, holds the protocols (AX.25 connected mode over the
generated SDL tables, KISS and the NinoTNC extensions, NET/ROM with its routing
table, INP3 time routing and L4 virtual circuits); `crates/ax25-node-fw` is the
Embassy firmware around it. This directory holds TLA+ modules for the parts
where ordering, loss, timeouts and restarts decide whether the node is correct,
the TLC configurations that check them, and TLAPS proofs.

Source paths below leave out `src/`; `NC` is `crates/ax25-node-core/src`, `FW` is
`crates/ax25-node-fw/src`.

## 1. Inventory

The node is one cooperative program. `FW/node.rs` runs a single task that owns
the routing table, the circuit tables and the AX.25 sessions, and feeds them
from its ports and timers; nothing in `NC` starts a thread or a timer of its
own ("sans-io": handlers take an input and a clock value and leave datagrams and
events to be collected). Other tasks (telnet, HTTP, the serial port) share its
executor and meet it in statics. Concurrency is therefore between *nodes*,
between the calls of *different actors* on one node (radio input, timers,
users), between *tasks* where one of them awaits, and between the node and its
flash or its TNC. The radio loses, repeats and delays.

| Component | State it keeps | Operations | Hard behaviour | What makes it correct |
|---|---|---|---|---|
| L4 circuit (`NC/netrom/transport/circuit.rs`) | V(s), V(r), V(a), queue, list in flight with retry counts and due times, reassembly buffer, choke both ways, control timer | connect, send, disconnect, accept, refuse, one handler per datagram, tick, delivery drained | one-octet wraparound, selective reject and go-back, retransmissions from two causes sharing one budget, choke edges | frames arrive whole, once, in order; an acknowledgement means receipt; the window and the budget hold; nothing waits for ever |
| L4 circuit manager (`circuit_manager.rs`) | table of circuits by key, key counter, incoming list, outbox | open, mint, accept, refuse, demultiplex, collect, tick | equal keys at both ends, repeated Connect Requests, a full table, restart | unique keys, one circuit per request, streams pair up, every request answered |
| Connector (`connector.rs`) | interlinks, pending first datagrams | connect, write, disconnect, on_interlink_data, tick, drain | datagrams for an interlink not yet up; a next hop that changes under a circuit | each datagram leaves by a usable neighbour, or its circuit ends |
| Forwarding (`forwarding.rs`) | none (reads the table) | decide_forward | TTL, loop guard, no way back, tables that change between two hops | never to the sender, never for ever, no node twice |
| Routing table (`routing/table.rs`, `quality.rs`, `options.rs`) | destinations with up to three routes, neighbours, recently withdrawn | ingest (NODES), ingest_rif (INP3), sweep, mark_neighbour_down, drain, build_advertisement, build_rif | two metrics on one slot and one aging counter, caps and eviction, mutual refresh between nodes | what is dead is forgotten, what is withdrawn is told, the best route is never displaced by a worse |
| INP3 engine (`transport/inp3_engine.rs`) | probe state and smoothed time per neighbour | observe, on_l3rtt, tick | lost, late or unsolicited reflections | a live neighbour is measured, a dead one is dropped |
| INP3 update scheduler (`transport/inp3_update_scheduler.rs`) | pending withdrawals and changes, cadence | mark, tick, take intents | withdrawal at once, improvement debounced, periodic | every target hears of every withdrawal |
| NODES originator (`originator.rs`) | none | broadcast_nodes | split into frames of 11 entries | advertises what the table holds, once |
| Wire codecs (`netrom/wire`, `ax25`, `kiss`, `crc.rs`) | decoder position only | encode, decode | truncated input | decode after encode is the identity |
| L4 compression (`compression.rs`, `deflate.rs`) | none | deflate, inflate | bounds | inflate after deflate is the identity |
| SDL session runtime (`NC/sdl`) | per session: V(s), V(a), V(r), retries, flags, queue, frames kept and stored, timers | dispatch over generated tables, drain the queue, grant a seize | wraparound at 8, replays and polls crossing acknowledgements, retries over the life of a link, acknowledgements that wait for the channel | a reliable stream; only a dead link is given up; nothing is left owing when all is quiet |
| SDL manager and MDL (`sdl/manager.rs`, `sdl/mdl.rs`, `sdl/capability.rs`) | slots by (local, peer), probe state, capability cache | data-link events, dial plans, XID, T1 and TM201, reap | a dial that waits for a probe, refusals that mean different things in different states, late answers, expiry handlers that look a session up by peer alone | both ends count and recover alike; a reachable peer is reached; a dial ends |
| Node task (`FW/node.rs`, `conns.rs`, `session.rs`, `relay.rs`) | peers, circuits, follow-up work, relay statics, cadences | housekeeping, frames, timers, console, bridge, telnet relay | cross-connects torn down from either end, two tables that must agree, a second task that awaits | no session leaked, bridges paired, every user gets an end to its wait |
| Persistence (`FW/netrom_store.rs`, `config_store.rs`, `config.rs`) | two flash sectors each with generation and CRC | save, load, SET, web forms | power loss while writing, a write that fails or goes wrong silently, a save refused | the newest intact record wins; what was acknowledged is found after a reboot |
| OTA and bootloader (`FW/ota.rs`, `tnc_image.rs`, `ax25-node-bootloader`) | staged image, boot state | upload, swap, trial boot, rollback | power loss, a failing trial, two users of one flash region | always a bootable image |
| NinoTNC (`NC/kiss/ninotnc`, `FW/tnc.rs`, `FW/ports`) | hex stager, flasher dialogue, staged header, link state, settings, mode change under way | upload, update, settings, reports | answers out of step, a TNC left in its bootloader, an upload while an update runs, a SETHW that is never answered | the TNC is never given the wrong or a damaged image; a refusal leaves it working; the settings chosen are those it runs with |
| KISS serial, ACKMODE, reconnect, KISS over TCP (`NC/kiss`, `FW/ports`) | outstanding tags, back-off | send, echo, timeout, reconnect | an echo racing its timeout | each frame released once |
| Tait radio, tuning (`NC/radio`, `NC/tune`) | dialogue state | query, sweep | answers out of step | an answer belongs to its request |
| Console, monitor, APRS, network and web services, display and sensors | session text, sockets | parse, print | I/O | - |

Interactions: ports hand frames to the sessions; a session's NET/ROM payload
goes to `Inp3Host` (route updates and probes) and otherwise to the connector,
which demultiplexes into the circuit manager or forwards by the routing table;
what the handlers leave in their outboxes goes back through the sessions. The
table hears NODES broadcasts before address filtering. Housekeeping (every 10 s)
saves the table, ticks the circuits, runs an INP3 round, sweeps, and broadcasts,
in that order. `PROJECT.json` lists all 29 components with their status, and the
hazards with the properties that cover each.

## 2. Modules

| Module | Stands for | Built on |
|---|---|---|
| `NetRomCircuit` | `circuit.rs` as pure functions: a circuit record and a call give a new record, the datagrams sent, the events raised | - |
| `CircuitEnd` | one circuit, any caller, a peer that may send any datagram | `NetRomCircuit` |
| `CircuitPair` | two circuits, a datagram network, the users' calls | `NetRomCircuit` |
| `StreamService` | abstract: two frame streams, each read a prefix of what was written; refined by `CircuitPair` and by `DataLinkPair` | - |
| `CircuitManager` | the circuit tables of the nodes, key allocation, minting, restart | `NetRomCircuit` |
| `RoutingTable` | `table.rs` as pure operators on a table record | - |
| `RoutingNode` | one node's table, its neighbours, INP3 rounds, flash, reboot | `RoutingTable` |
| `RoutingNetwork` | several nodes broadcasting to each other | `RoutingTable` |
| `Inp3Link` | two nodes' INP3 engines, schedulers and rounds over an interlink that delays, drops and returns | - |
| `DataLink` | one end of an established AX.25 link: context, verbs, guards, queue and retries of the session runtime, the manager's `post` | - |
| `DataLinkPair` | two such ends and the radio between them | `DataLink` |
| `LinkNegotiation` | a dial between two session managers: the plan, XID before or after the SABM(E), refusals, timers, the capability cache | - |
| `NodeLinks` | the node task's peer and circuit tables with the session manager behind them, cross-connects, the telnet relay | - |
| `DurableStore` | abstract: a register that survives power loss | - |
| `FlashStore` | the configuration and route stores: two sectors each, save step by step, power cut anywhere | refines `DurableStore` |
| `TncFlasher` | `hex.rs` and `flash.rs` as pure operators: a stager or flasher and a line, a byte or a deadline give a new one and what to do | - |
| `TncModeSetter` | `mode_set.rs` as pure operators: a change of mode and a report or a deadline | - |
| `NinoTnc` | the serial task, the HTTP tasks and the TNC: settings, upload, staging in APPDATA, update | `TncFlasher`, `TncModeSetter` |
| `CircuitEndProofs`, `CircuitPairProofs`, `CircuitManagerProofs`, `NodeLinksProofs`, `NinoTncProofs`, `FlashStoreProofs`, `Inp3LinkProofs`, `RoutingNodeProofs` | theorems about the module each is named after | that module, TLAPS |
| `MC...` | what TLC needs: scenarios, topologies, model values | the module named |

**Circuits.** A circuit is one record; its fields carry the source's names.
Sequence positions are kept *unwrapped* (`pos`, `vs`, `vr`, `va`) and wrapped to
`SeqSpace` whenever they go into a datagram or are compared with one
(`Wire`, `SeqAcked`, `Mod256After`), which is where the code's one octet can
mislead it. `SeqSpace` is 256 in the code; every comparison scales with it.
Handlers return `[c, out, ev]`, the record after every call the handler makes
(for instance `OnInformation` includes absorbing the acknowledgement, the
selective or negative acknowledgement, delivery, the choke edge and the pump).
Clocks are abstracted to *which timers are due*: `Tick` takes the due set as its
argument, and the modules decide when something may be due. Payload octets are
numbered fragments; the optional compression is off, as in the firmware.
`CircuitPair` keeps a sequence of datagrams per direction and actions to lose,
duplicate or deliver out of turn, each with a budget. Its constant `Scenarios`
is a set of records that say who writes, who hangs up, which faults may happen
and how often; `Init` picks one, so one run covers several small situations
instead of the product of all of them. `CircuitManager` does the same with
openers, refusals and restarts; its `asked` is history, the circuits of a peer a node
has ever minted one for. "Patient" timers in `CircuitPair` expire only
when neither the datagram nor its answer is still under way, "impatient" ones
whenever they like.

**Routing.** A table is a record of routes, neighbours and the withdrawn set. A
destination is known exactly if a route to it is kept, so it has no entry of its own.
Callsigns are naturals because ties are broken by callsign order. `Ingest` and
`IngestRif` take the entries of a broadcast in order (`Learn`, `LearnRip`), because caps
make the order matter; like the replay of the flash record they are recursive functions,
which the proofs can reason about. `RoutingNode` adds three bookkeeping variables that
the code does not have: `silence` (sweeps since a neighbour was heard), `told` (what
each fan-out target was told last) and `slipped` (time routes a NODES broadcast took,
see section 6). In `RoutingNetwork` an interval is sweep, broadcast and ingest in one
step: receivers ingest a frame as they decode it, and a delayed frame is the same as a
later interval. Who hears whom is one of the `Topologies`. The gateway outside the
modelled nodes stands for everything behind it; it advertises one far destination until
it dies.

**INP3.** `Inp3Link` has the engine's entry for the peer (`known`, `sent`,
`silent`, `measured`, `capable`, `awaiting`), the scheduler's age, and of the
table only what the overlay tells about: one destination at each end, `held`,
just withdrawn (`gone`) and believed by the peer (`belief`). `Round` is the whole
of `Inp3Host::tick_round`, in the order of the code: the targets are read first,
then the engine resets and probes, the scheduler decides, the withdrawn set is
drained, whatever happens to the frames. `HearL3Rtt`, `HearRif` and `HearL4` are
`dispatch_inbound`. Time is in housekeeping ticks; only ages are kept, and cut
off where they stop making a difference. `lost` and `covered` are bookkeeping.

**AX.25 links.** `DataLink` is one session between establishment and release. An
operator takes a *transition in progress* (`tx.rs`'s `Tx`: the context, what was
sent and indicated, whether a frame was replayed inline) to the next, so that an
arm reads as the chain of verbs it is. Four layers, as in the code:

* the *context* (`context.rs`): `Fresh`, window, outstanding range, pruning;
* the *verbs* (`dispatch.rs`) and guards (`guard.rs`): `SendS`, `VaAssignNr`,
  `EmitIFrame`, `EmitOldIFrame` with its once-per-advance guard, `SetAckPending`
  with the exception for inline replays, `SaveIFrame`, `RetrieveStored`, `InWindow`;
* the *tables*: which verbs a transition strings together is generated code of
  the crate `ax25sdl`, not in this repository. The pages Connected (figure C4.4)
  and Timer Recovery (C4.5) and the subroutines (C4.7) are marked external and
  written from what this repository says of them: the comments of `dispatch.rs`
  (which arms replay inline and carry StopT3 and StartT1 themselves, the partial
  acknowledgement arms, the tail of the SREJ arms, the drain loops), of `guard.rs`
  (the window, the compound guard of Enquiry Response) and of `quirks.rs`, and the
  event by event expectations of `tests.rs` and `harness_tests.rs`. All quirks
  are at their default;
* the *runtime* (`session.rs`, `manager.rs`): `ClampedRC` before a T1 expiry,
  `Noted` after a transition, `Drained`, and `Posted`, which grants a requested
  seize if the carrier is clear.

`DataLinkPair` puts two ends on a radio that keeps the order of frames and loses
any of them. T1 expires when nothing is on its way any more, or too early; T3
when the link is idle; `fails` counts the T1 expiries of an end since it was last
acknowledged anything. The modulo is 4 for 8 or 128 and all comparisons scale with
it. Left out: busy conditions (RNR), I frames with P = 1, establishment and
release, and the arithmetic of SRT and T1V, which decides only when T1 expires.
An N(r) that cannot be placed leads to `AwaitingConnection`, where the model stops
and the property says it is never reached.

**Dials.** `LinkNegotiation` keeps a slot per station with the fields that decide
what happens to a dial: `ext` and `srej` (the modulo and the reject scheme),
`settled` (parameters were negotiated), `mdl` and `rc` (the management machine
and its retries), `deferred` (the dial that waits for its probe), `tries`. The
generated tables are not in the repository; `OnLinkFrame` says what the manager's
tests show of them. `Dial` is `begin_xid_probe` or `connect_extended`,
`OnFrame` is `post_with_local` with the interception of XID, FRMR and DM in front
of it, `Tm201Expiry`, `ProbeTimeout` and `T1Expiry` the three timers,
`PlanDial`/`RecordOutcome` the capability cache. The peer is a station of this
program or a *foreign* one, which is silent on XID, refuses it with FRMR or with
DM, and takes or refuses a SABME. Only A dials, and it redials when B's old link
is gone too. The window and frame sizes XID carries are left out: the lesser of
two numbers is taken exactly as the lesser of two flags is.

**The node task.** `NodeLinks` has the peer table, the session manager's slots,
the circuit table and the relay's four statics. `Receive`, `GiveUp`,
`CircuitData` and the others put events in `queue`; `PostOne` posts one to the
session manager, changes the role by the signals that come back, reaps, and
appends follow-ups; `ApplyFollowUp` does them in order (`StartBridge`, `Forward`,
`BridgeEnded`). Nothing new is taken while one of the two lists is not empty, as
in the code, which works through its list before it awaits. The telnet task is
the other actor: `Begin`, `UserLeaves`, `ReadStatus`. The data-link tables,
the circuits and the radio are nondeterministic within what the code provides
for (`Sdl`, `CircuitUp`, `CircuitClosed`): a station without a session may send
frames that make none, a peer may reset its link with data of ours unacknowledged,
and a circuit that is hung up stays in the table, `Closing`, until its Disconnect
is answered or given up. Every link has the node's own call at its end, so a
session is named by its peer. Three variables are history, read by the properties
only: `strays`, the slots whose last frame came to nothing; `muddled`, a leg was
reset or bridged while it belonged to a cross-connect; `overlapped`, the relay was
begun while another was under way.

**Flash.** A sector holds a record or `Invalid`. A save is `Erase`, `Write`,
`Finish`, any of which may fail and end it; a write may also go wrong unnoticed,
which `config_store` finds by reading back and `netrom_store` does not. A torn
write leaves no record, by the CRC. `PowerCut` may come between any two steps.
The console's SET stages any key in RAM, the TNC's settings among them
(`console/service.rs:193`, `config_store.rs:479` and `:791-796`,
`ports/ninotnc.rs:27-28`); the web page sets the TNC's and saves at once. `staged`
is history: TNC settings set at the console are not saved yet.

**The TNC.** `NinoTnc` has three actors: HTTP tasks, the serial task, and the TNC,
which is external and behaves as the comments of `flash.rs` and `mode_set.rs`
describe it. They meet in the flash, in `TncState` and in the command channel
(`cmds`, whose `CmdCapacity` is 4 in the code).

* *Update*: `BeginUpload`, `PushLine`, `PressUpdate`, `TakeFlash` on the HTTP side;
  `BeginUpdate`, one action for each byte and each deadline of
  `BootloaderFlasher`, and `EndUpdate` on the serial side. A firmware file is a
  sequence of kinds of line (data, the two fingerprints, end of file, malformed),
  so that what `HexStager` accepts is decided by the model as by the code. A
  state's deadline may pass whenever its line is quiet, and if an answer was still
  due that costs a fault. Both HTTP tasks may receive an image at the same time, and
  then wipe and overwrite what the other has stored. `clean` marks an update that met
  nothing unusual, `raced` that one was begun while an upload was still storing.
* *Settings*: `PostMode` and `PostParams` save and queue; `SetMode` and `SetParams`
  take them up; `HearReport` is the report handler with `on_report` behind it, which
  sends the saved settings when the firmware becomes known to be supported;
  `SetterDeadline` drives `ModeSetter`, whose SETHW nobody answers. The five KISS
  parameters are one value. The TNC may reset its parameters when its mode is set,
  may ignore a SETHW (a fault), and ignores every one if its DIP switches say so.
  `forgot` marks a TNC that has started its firmware again, by a power cut or by the
  bootloader's reset, since its settings were sent: the node sends them only when
  the firmware becomes supported, so they are not sent again until an update, a
  change or a restart.

## 3. Runs

| Run | Question | Instance | Distinct states |
|---|---|---|---|
| `MCCircuitEnd` | does one end keep its books whatever the peer sends, and does every wait end? | `SeqSpace` 6, window 2, one retry, choke at 1; at most 3 fragments sent, 2 received, 2 undelivered | 29,160 |
| `MCCircuitPair` | delivery, acknowledgements, hangup between two ends | `SeqSpace` 8, window 2, one retry; scenarios `Lossy`, `TwoWay`, `Wrapping`, `Reordered`, `Patient`, `SameKeys`, `Crossing` | 770,210 |
| `MCCircuitPairLive` | does everything written arrive, does every choke get released? | `SeqSpace` 6, choke at 1 | 14,636 |
| `MCCircuitManager` | do the tables of two nodes agree? | `SeqSpace` 6, one retry, three keys, at most two circuits per table; scenarios `Faults`, `Crossing`, `Wrapping`, `Full`, `Restarting` | 1.95 million |
| `MCRoutingNode` | one table among NODES and INP3 neighbours | three neighbours and a far node; two routes per destination, three destinations, OBSINIT 2; scenarios `Quality` (with a reboot) and `Times` | 160,870 |
| `MCRoutingNetwork` | loops and dead destinations among three nodes with arbitrary loss | a line and a ring; OBSINIT 3, OBSMIN 2, path quality 192, MINQUAL 0 | 473,540 |
| `MCInp3Link` | do probing and withdrawals survive delay, drops and restarts? | cadence 1, window 3, refresh 2 ticks; frames take up to 1; one drop or restart | 598,151 |
| `MCDataLink` | is an established AX.25 link a reliable stream, and what ends it? | modulo 4, k = 4, N2 = 2; go back N and selective reject; four frames against one with two losses and an early T1, two against two with a loss, an idle T3 and a busy channel | 427,725 |
| `MCLinkNegotiation` | do both ends agree on what a dial negotiated, does every dial end? | two dials; a peer of this program with up to 2 losses, 8 kinds of foreign peer with up to 1; N2 = 2 | 554,934 |
| `MCNodeLinks` | do the node's tables, cross-connects and relay stay consistent? | a user, a neighbour and a target station, one routed target; two session slots, one circuit; stations without a session send SABM, UA and DM; scenarios `Users`, `Relayed`, `RelayedFar`, `TwoTargets` | 289,317 |
| `MCFlashStore` | what survives power cuts and failed writes? | two values of each setting, two tables of routes; 4 generations, one silent bad write; the console stages both | 3.25 million |
| `MCNinoTnc` | can an update brick or strand the TNC? does the TNC run with the settings chosen? does the serial task always come back? | two HTTP tasks, images of 2 and 3 lines, two broken files, two values of the parameters, modes 0, 1 and 15, three attempts; five scenarios of the update, one of them with two uploads at a time, five of the settings, three of both | 798,133 |

Each takes between a few seconds and three minutes with two workers.

**Properties.** Every module's comment above a property says which code it is
about; `PROJECT.json` names for each one a plausible bug that the same run finds.

* `MCCircuitEnd`: `NoMissedPump` (no handler opens the window and forgets to
  send); `RetryBudget` (tick looks at the oldest fragment only, and that is
  enough); under fairness `ExchangesResolve` (a control exchange and a fragment in
  flight are each answered or given up).
* `MCCircuitPair`: `AckMeansReceived`; `LossNeverTimesOut` (one loss never costs
  a circuit whose window is at most one more than its retries; TLC refutes it with a
  second loss, a duplicate or an overtaking datagram, each of which charges the
  retry count once more); `HangupIsAnswered` (within the retry budget of losses: the
  peer is no longer up when the end that hung up is done, and that end timed out only
  if the peer had forgotten a circuit whose two keys differ); `ImplementsService`, the
  refinement of `StreamService`.
  `MCCircuitPairLive`: `EventuallyDelivered` (unless an end goes down or stays
  choked) and `ChokeReleased` (while nothing is lost).
* `MCCircuitManager`: `InboundOnce` (one circuit per Connect Request, however
  often it arrives while that circuit lives); `PairAgrees` and `SingleSource` (a frame
  is read on the circuit it was written on), as long as `KeysHold`: no node has
  restarted, no key has come round, and no Connect Request came again after the
  circuit it had minted was gone. The run's `Faults` does reach that last case, and
  section 6 shows what becomes of the streams in it; `OpenAnswered` (when nothing
  is under way no originator waits for an answer that was never sent, at the cap
  included, until the keys come round).
* `MCRoutingNode`: `RoutesSound`, `SilentForgotten`, `WithdrawalsTold`.
  `MCRoutingNetwork`: `NoForwardingLoop`, where the nodes hear each other in no ring;
  under fairness `DeadForgotten`, everywhere, with one exception it states: in a ring a
  dead destination may stay at a quality that `combine` rounds back up to itself
  (`Undying`; 2 at a path quality of 192) and that MINQUAL lets through, as its
  default of 0 does.
* `MCInp3Link`: `OneInFlight` (a second probe, or one nobody awaits any more, is
  never under way); `DownOnlyAfterLoss`; `LossIsTold` (the withdrawn set is
  drained once: that round must have told every peer that had been told of the
  route); under fairness `RoutesArrive`.
* `MCDataLink`: `ImplementsService`, the refinement of `StreamService`, which the
  clamp of the window on selective reject links is needed for; `GivesUpAfterRetries`
  (only N2 expiries in a row without progress end a link); `NothingStuck` (no
  N(r) ever out of place, and once all is quiet everything is delivered and
  acknowledged). Faults are finite, so every behaviour becomes quiet, and
  `NothingStuck` says what it comes to: it stands for liveness, which TLC cannot
  check here in reasonable time.
* `MCLinkNegotiation`: `SchemeAgreed` (same modulo and same reject scheme at both
  ends, and no SREJ towards a peer that never answered the XID);
  `NoFalseRefusal` (whichever way a peer refuses XID and SABME, the dial comes
  up); `DialResolves`.
* `MCNodeLinks`: `SlotsMatchSessions` (the only slots without a session are those of
  strays); `BridgesPaired`, until the legs are muddled up; `RelayAttended`, unless
  relays overlap; under fairness `OnwardSettles`, with the condition of
  `BridgesPaired`. The run reaches the strays, the muddles and the overlaps; section 6
  says what the code promises of them.
* `MCFlashStore`: `ConfigDurable`, the refinement of `DurableStore`;
  `OkMeansStored`, of every answer but the one about settings that were staged
  when it was given; `RoutesSurvive`.
* `MCNinoTnc`: `NeverBricked` and `CleanUpdateCompletes`, with two uploads at a time,
  unless an update is begun while one of them is still storing; `RefusalRestores`;
  `SettingsInForce` (once the serial task is done, the TNC runs with the settings
  the node works with, or the page says why not; not claimed after an update that
  failed, which drops the change of mode under way, and of mode 15 only in
  `ParamsOutliveModes` of section 6); under fairness `SerialWorkEnds`. One case of
  `SettingsInForce` is no reassurance: after two faults the page may say that a mode
  is applied which the TNC does not run. `ModeSetter` asks for a report when the
  change has settled; if the TNC has not read the SETHW by then, a report from before
  it that names the same mode (asked for, or a beacon) passes for the answer, and if
  the TNC then ignores the SETHW nobody notices. `Hasty` reaches this: the mode is
  chosen while another change is still on the line.

**Why the bounds are enough.** Window 2 with one retry is the smallest setting in which
one fragment is retried while a younger one is not, and in which retransmission of a
suffix differs from retransmission of the list. `SeqSpace` 6 and 8 are the smallest that
are larger than twice the window plus the reordering in play, as 256 is for the code's
windows; `Wrapping` sends past the wraparound. Three keys and two circuits make the key
counter collide and the table fill. Two routes per destination and three neighbours make
eviction happen; three destinations for four candidates make the destination list fill;
OBSINIT 2 and 3 make refreshed and unrefreshed routes differ by one sweep. A line of
three is the smallest network in which a node has a neighbour on each side of it, and a
ring of three the smallest in which what a node taught comes back to it. In `MCDataLink`
four frames exceed the window and go around the modulo of 4; k = 4 is cut to 3 on a go
back N link and to 2 on a selective reject one, so that both caps of the window bite;
two losses lose a frame and its replay. In `MCInp3Link` the window is longer than the
longest round trip plus a probe, and shorter than two lost probes, as 180 s is for
probes every 60 s; a drop and a restart each meet every state. N2 = 2 separates a first,
a second and a last try, and two dials make the second one use what the first has
learned. One circuit and two session slots fill both tables, so that every "no room"
answer is taken. Four generations use each sector twice. An image of three lines has a
first, a middle and a last line; two HTTP tasks, as many as the code has, let two images
be received at once and an update be pressed during an upload; three attempts are the
code's own, and three ignored ones use them up; a channel of one command is full when it
holds one. `CHECK_DEADLOCK FALSE` is set where a bounded supply of events (faults,
writes, opens, reboots, dials) runs out.

**Fairness.** `MCCircuitEnd` assumes that the connector's tick goes on (`TickDue`)
and nothing of the peer. `CircuitPair!FairSpec` assumes that a datagram not lost
is delivered, that a timer due expires, and that the host drains what was
delivered: the firmware's housekeeping calls `connector.tick` every 10 s, the
AX.25 session below an interlink delivers or reports failure, and
`after_manager` drains in the same call. `RoutingNetwork!FairSpec` assumes each
node's housekeeping tick and nothing of the radio. It is stated on `ticked`, the
node that broadcast last: `Interval(n)` is always enabled, so weak fairness of
it and of `ticked' = n` ask the same. `Inp3Link` assumes the housekeeping tick,
the link layer's delivery and that an interlink that dropped is dialled again
(`ensure_interlinks` does that on every tick); `RoutesArrive` has the traffic it
needs as its hypothesis. `LinkNegotiation` assumes that frames not lost arrive
and timers run out, nothing of the users. `NodeLinks` assumes that the node works
off its lists; that a link which is neither up nor idle gives up in the end (T1
is armed and N2 is finite; strong fairness, because frames in between re-arm the
timer but come slower than the node takes an expired one); and the same of a
circuit with its own retries. `NinoTnc` assumes that the serial task is woken
by commands, bytes and deadlines, and that the TNC reads its line. The remaining
specifications have safety properties only.

## 4. What is proved

Each theorem holds for every value of the constants its module's `ASSUME`s allow.
A theorem with a hypothesis of its own states it as `ASSUME`. A condition on what has
happened so far is part of the property and named in the last column; where the
property is false without it, section 6 names the configuration that shows so.

| Theorem | Property | Hypothesis, or condition in the property |
|---|---|---|
| `CircuitEndProofs!EndNoMissedPump`, `EndRetryBudget` and five more | `NoMissedPump`, `RetryBudget`, type, window, life cycle, choke, buffer | - |
| `CircuitPairProofs!AcknowledgedIsReceived`, `CircuitsServe` | `AckMeansReceived`, `ImplementsService` | the network keeps the order of datagrams |
| `CircuitManagerProofs!MintedOnce`, `AnswersComeBack` | `InboundOnce`, `OpenAnswered` | - ; no key has come round |
| `NodeLinksProofs!SlotsAndSessions` | `SlotsMatchSessions` | but for the strays |
| `NodeLinksProofs!RelayIsAttended` | `RelayAttended` | until relays overlap |
| `NodeLinksProofs!BridgesStayPaired` | `BridgesPaired` | until legs are muddled up |
| `NinoTncProofs!RefusalsRestore` | `RefusalRestores` | - |
| `NinoTncProofs!NotBricked`, `CleanUpdatesComplete` | `NeverBricked`, `CleanUpdateCompletes` | until an update is begun during an upload |
| `NinoTncProofs!SettingsTakeEffect` | `SettingsInForce` | - |
| `FlashStoreProofs!ConfigIsDurable`, `RoutesAreKept` | `ConfigDurable`, `RoutesSurvive` | - |
| `FlashStoreProofs!SavedIsStored` | `OkMeansStored` | but for the answer about staged settings |
| `Inp3LinkProofs!WithdrawalReachesThePeer` | `LossIsTold` | - |
| `Inp3LinkProofs!OneProbeAtATime`, `ResetOnlyAfterLoss` | `OneInFlight`, `DownOnlyAfterLoss` | `Timely` |
| `RoutingNodeProofs!RoutesAreSound`, `SilentAreForgotten` | `RoutesSound`, `SilentForgotten` | - |
| `RoutingNodeProofs!WithdrawalsAreTold` | `WithdrawalsTold` | - |

**`CircuitEndProofs`** proves for every sequence space, window, retry budget, choke
threshold, reassembly ceiling and set of inputs allowed by `CircuitAssumption`
(`NetRomCircuit`) and `EndAssumption` (`CircuitEnd`) that every behaviour of
`CircuitEnd!Spec` satisfies `TypeOK`, `WindowRespected`, `NoMissedPump`,
`RetryBudget`, `OlderRetriedMore`, `LifecycleCoherent`, `ChokeMatchesBacklog` and
`ReassemblyBounded`. The run checks those of them that are about more than one
piece of state; the others are conjuncts of the invariant and are stated here only.

The inductive invariant is `SoundEnd`: the circuit satisfies `Sound`, that is
`Core` (type, window, budget, list in flight, control timer, nothing held while
not up, choke, buffer) and `Pumped`. The parts need each other. The budget is the
instructive one: `tick` compares only the *oldest* fragment's retry count with
the budget, while negative acknowledgements retransmit suffixes of the list. It
is sound because an older fragment has always been retried at least as often as
a younger one (`OlderRetriedMore`), which holds because, after the
acknowledgement is absorbed, every retransmission starts at or before the oldest
fragment left: lemma `UncoveredIsAtOrAfter`, whose proof needs that what is in
flight lies within a window of V(s) and that the window is at most half the
sequence space. The proof goes operator by operator: one lemma per
helper (`Pump`, `AbsorbAck`, `RetransmitFrom`, `Close`, ...) says what it preserves
and establishes, one lemma per handler composes them, and the step lemma has one
case per action of `Next`.

**`CircuitPairProofs`** proves the two-ended safety of the L4 stream for every
sequence space, window, fragment size, set of scenarios and bound: on a network
that keeps the order of datagrams (`InOrder`: no scenario lets one overtake
another) an acknowledgement is never taken for more than the peer has received,
and the pair implements `StreamService`. Losses, duplicates, choking, hangups,
retransmissions at any moment and any number of wraparounds are in. The order is
what the code relies on: an interlink is an AX.25 connection, which delivers in
order, and datagrams can overtake each other only when a route changes under a
circuit; the scenario `Reordered` of the run looks at that for small instances, and
section 6 says what goes wrong when a datagram is late by half the sequence space.

The inductive invariant is `Streams`: the types, and for each direction a `Flow`.
What the sender's frames are cut into is one sequence F of fragments, with the
boundaries of the frames in it (`Boundaries`), and a is the position up to which
the sender knows F acknowledged:

* a <= V(r) <= V(s) <= a + `MaxWindow`;
* the sender holds in flight exactly the fragments of F from a to V(s), and the
  rest of F in its queue (`SendSide`, `Window`);
* every Information datagram on its way carries a position of F below V(s), not
  more than a window behind V(r) nor, for the later of two, a window behind the
  earlier (`Carried`);
* the acknowledgements on their way are ascending, between a and V(r)
  (`Acknowledged`);
* what the receiver handed on is a prefix of the frames written, and what it
  reassembles is the fragments of the next frame up to V(r) (`Progress`).

Each part is what another rests on. The receiver compares one octet with V(r),
so it takes a duplicate for new unless what is on its way stays within half the
sequence space (`WireInjective`); the sender's `seq_acked` compares distances, so
an acknowledgement means what it says only between a and V(s)
(`CoversWhatIsBefore`); and neither bound survives a step unless the sender holds
exactly the window, since a retransmission sends what it holds. `StreamsStep` has
a case per action and shows with the invariant what the abstract service saw of
the step, so that the refinement follows from the same cases.

**`CircuitManagerProofs`** proves `InboundOnce` for any nodes, key space, caps and
faults, restarts and refusals included (`MintedOnce`): while a circuit minted for
a Connect Request lives, no copy of the request mints another. The invariant is
the property with the shape of the tables; a call on a circuit deregisters its
entry or leaves one that names the same peer, and `on_packet` mints only where no
entry names the requester.

`AnswersComeBack` proves `OpenAnswered` for any nodes, cap, key space and bounds:
as long as no node has minted more circuits than there are keys (`KeysFresh`, part
of the property) and nothing was lost or restarted, no originator is left with
silence, whatever is duplicated, refused, hung up, timed out or turned away at the
cap. The invariant is `Ledger`. Its part `Books` says who knows a key: keys are
handed out in order, and a datagram, a table entry or a circuit awaiting its host
names a key only if its node handed it out for a circuit to that node (`Owned`)
and has told it (`Told`). Without it a datagram meant for an earlier circuit
could close a later one, and TLC finds that it does once keys are used again
(section 6). Its part `AnswersDue` says where the answer is that a connecting circuit
waits for: on its way (`Replied`), with the host of the peer (`Undecided`), or due
to a request on its way to a peer that holds no circuit for it (`Asking`). The
lemmas on `NetRomCircuit` (`Call` and those that follow) say of every call of a
circuit which datagrams it may send in which state and that its two keys stay
what they were; `Attends` is what is asked of a step, of any node, for no answer
to be forgotten.

**`NodeLinksProofs`** proves the three safety properties of `NodeLinks` for any
stations, frames, lines, slots and circuits: strays, resets with data unacknowledged,
circuits that linger and several connects in one delivery are all in. `Inv`
(theorem `Invariant`) says: a session has a slot and no station has two; one leg at
most is the relay's; an event that may end a session is alone in the queue, with no
follow-up waiting (`Calm`), so that no event reaches a slot that was given out again;
a stray has no session, and any other slot without one has an event in the queue that
makes it, makes it a stray or gives it back (`Fed`). From it follow, the last two with a
strengthening each:

* `SlotsMatchSessions`: when nothing is queued, `Fed` leaves the strays only.
* `RelayAttended`: `Relayed` adds that there is one relay leg at most, closing circuits
  counted (`OnlyRelay`), and what the four statics say while it is there
  (`Attending`), as long as no two relays have overlapped.
* `BridgesPaired`: `Paired` says, as long as no legs were muddled up, that a leg is
  named by none but the leg it names, that the leg it names also names it, except
  while the end of one is still to be told to the other or a circuit is closing
  (`Bonds`); and of the follow-ups still waiting which may come together and whose
  they are (`Awaiting`, `Asking`).

**`NinoTncProofs`** proves the safety of firmware updates and of the settings for any
files, tasks, modes, number of attempts and bounds. `TypeCorrect` is the shape of the
state. `RefusalRestores` holds for any number of uploaders and any loss
(`RefusalsRestore`): after a refusal the last thing on the line that matters is a reset,
or nothing has been sent that could leave the firmware (`Restored`). Until an update is
begun during an upload (`raced`), `FilesOK` says that what is queued and written belongs
to one whole image for the chip named in its header, whoever uploads what in between: an
image that two uploads have mixed does not read back as its header says, and while an
update writes nobody starts an upload. `LineOK` says that every record on the line
follows the one before it or a request for the version, which makes the bootloader start
afresh; hence `NotBricked`, although an answer may be lost, late or taken for another.
`CleanUpdatesComplete` adds `InStep`: as long as nothing unusual happens, the state of
the flasher determines what is on the two lines, so that no deadline passes while an
answer is due and the update ends in `Updated`, from whatever state the TNC was left in.
What an upload that is still storing does to an update is in section 6.

`SettingsTakeEffect` needs to know what the TNC will run when it has read its line.
`SettingsInv` says it for the states in which the node may rely on what it has sent
(`Reliable`: the link is supported, the TNC has not started its old firmware again,
no update has failed) and the TNC listens (`~Stuck`). The parameters: they are the
last of their kind on the line, or the TNC has them and nothing on the line takes
them away, or a change of mode is in flight, which sends them when it ends
(`ParamsKept`). The mode, while a change is in flight (`Trying`): every attempt but
the one under way has cost a fault; the one under way is on its way, or has been
ignored and has cost its own (`Settles`), or a report is awaited. Then either it
settled too soon, at the price of a fault, and a report may be older than it
(`TooSoon`), or the TNC has taken everything in, what it reports is what it runs,
and a request or a report is under way unless a fault has lost it (`InTime`). After
the change (`Tried`) the page has the reason, or the mode is in force, or two
faults have been met. That reports are the TNC's own, and that switches set to a
mode fix it, is `TrueReports`; that an update that is over has a result, `Ending`.
The proof is by what is asked of the messages on the line (`Clear`, `Due`), with a
lemma for joining, for taking the first one and for each step of the two actors.

**`FlashStoreProofs`** proves for any settings, tables and bounds that
`FlashStore!Spec` keeps its invariant, refines `DurableStore` (theorem
`ConfigIsDurable`) and that what was answered as saved is stored, unless the answer
was about settings the console had only staged (`SavedIsStored`). The
inductive invariant has three parts: the types; the *parity* of the sectors (a
record of generation g lies in sector g mod 2 and no generation is above what RAM
counts, one more while a save is being checked), so that the sector a save erases
is never the one a boot would choose; and the *agreement* of RAM with flash
between saves. Without parity an erase could hit the only good record, and
without agreement the shortcut of `set_tnc_and_save`, which answers from RAM,
could not be trusted: RAM and flash agree on the TNC's settings unless some are
`staged`. `RoutesAreKept` is about the other store, which does not read
back: until an unreported bad write has passed for a good one, the newest routes in
flash are those that the generation counter names and the wear gate compares with
(`Kept`), over every power cut and failed erase.

**`Inp3LinkProofs`** proves the three safety properties of `Inp3Link` from
`LinkAssumption`, for every cadence, window, refresh interval, delay and number of
faults, and with one, both or no advertiser.

* `LossIsTold` holds for all of them (`WithdrawalReachesThePeer`). The invariant
  `Told` adds to the property that what was told to a peer was told to a fan-out
  target, and that it still is one while `covered` says so (`Targeted`). That is
  what the drained snapshot needs: `tick_round` takes the withdrawn set in every
  round, also in rounds that send nothing, and the proof's one interesting case is
  that a round which drains a withdrawal the peer must hear of always sends it. The
  rest is what the peer will hold when frames are appended, taken or aged
  (`QuietFrames`, `GoneFrame`, `FrameHeard`).
* `OneInFlight` and `DownOnlyAfterLoss` are proved under `Timely`: unknown
  capability is probed, and the window is at least the cadence and two delays.
  The default options (60 s, 180 s, optimistic probing) satisfy it as long as a
  frame takes no more than 60 s; `validate` asks only for a window longer than the
  cadence, and section 6 shows what happens outside `Timely`. The
  invariant `Probing` relates clocks to frames: while a node awaits nothing its
  silence is no longer than the time since its last probe (`Quick`), so a probe
  leaves at a silence of at most one cadence; from then on the silence is bounded
  by the cadence and the age of the probe, on its first leg or its second
  (`Awaited`). Hence no reset comes while a probe is on its way, and without a
  reset nothing forgets that it is awaited, so no second one follows (`Single`).

**`RoutingNodeProofs`** proves for any neighbours, callsigns, caps, thresholds, hop
limit and scenarios, with broadcasts, route updates and flash records of any length,
that `RoutingNode!Spec` keeps `TypeOK`, `RoutesSound`, `SilentForgotten` and
`WithdrawalsTold`. The assumptions (`TableAssumption`, `NodeAssumption`) only say
that caps are positive, qualities are octets and callsigns are numbers, our own
not among the neighbours'. The argument has three layers.

* *One entry.* `SoundTable` says what a table is between two entries: a route for
  each pair of destination and neighbour at most, the three caps, and every
  route worth keeping. `PlaceIs` shows that a route that replaces, takes a free slot
  or displaces the worst one leaves such a table, the only place where the caps
  are counted: `BestIs` needs that the tie-break by callsign makes the best and the
  worst unique, and the caps that a displaced route goes to the same destination.
  `UpsertRouteIs`, `UpsertInp3RouteIs` and `WithdrawInp3Is` say what else an entry
  does: it changes routes of its sender only (`Heeds`), and if it came in a RIF, a
  destination that was timed or recorded stays one of the two (`HeedsTimes`). The
  same is shown of `Sweep` and `MarkNeighbourDown`.
* *All entries.* The library's induction theorems take an operator as parameter and
  cannot be used; `NatSetInduction` gets induction over a *set* of numbers from
  the well-foundedness of `<`, and `FoldExists` and `FoldStays` say with it that
  a recursive function over positions exists and that what every step keeps holds
  at the end. `IngestIs`, `IngestRifIs` and `ReplayIs` are their instances.
* *The node.* `Inv` adds three facts to the types. `Aging`: a route's obsolescence
  and its neighbour's silence are at most OBSINIT together, which is why a
  neighbour silent for OBSINIT sweeps has no route. `Followed`: nothing is recorded
  as told to a neighbour that no fan-out reaches, so an interlink that comes up
  starts from nothing. `WithdrawalsTold` is inductive with these: a fan-out tells
  the horizon of all that is recorded and not held again (`BuildRifIs`), after
  which the record may be drained.

## 5. Only model-checked

* *Liveness*, everything under fairness: out of the prover's reach.
* `CircuitPair`: delivery and acknowledgement on a network that reorders
  (scenario `Reordered`); `LossNeverTimesOut` and `HangupIsAnswered`, which count
  retries against faults.
* `CircuitManager`: `PairAgrees` and `SingleSource` need the stream argument of
  `CircuitPairProofs` for every pair of entries and for every earlier life of a key.
* `RoutingNetwork`: `NoForwardingLoop` for every topology without a ring, which needs
  an argument about whole paths.
* `RoutingNode`: `TypeOK`, `RoutesSound`, `SilentForgotten` and `WithdrawalsTold` are
  proved; `RebootKeepsRoutes` is false (section 6).
* `HexStager` over all the lines of a file: `NinoTncProofs` argues about the line
  it is at.
* `DataLinkPair` and its refinement of `StreamService`: the argument would be that
  of `CircuitPairProofs`, with rejects, polls and N2 on top. `LinkNegotiation`:
  planned.

## 6. Disagreements between the code and its documentation

Each has a configuration that reproduces it: one property, stating what a comment
or a document promises, that TLC finds violated. They are run by hand
(`tlc -config MCX.cfg M`, with the `MC` module of the same component) and are not
among the runs of section 3. A `...Disputed.cfg` holds several; one property of it
is left uncommented at a time.

| Configuration | Property | What the code does |
|---|---|---|
| `MCCircuitPairCourtesy` | `HangupAlwaysAnswered` | The answer to a Disconnect Request for an unknown circuit (`circuit_manager.rs:202-224`) copies the request's index and id, which name the receiver's circuit. When the ends have different keys the sender does not recognise it and retries until it times out. The comment promises that the peer settles. |
| `MCCircuitManagerDisputed` | `PairAgreesAfterRestart` | A restarted node allocates keys from zero again; its Connect Request then matches the circuit of its earlier life at the peer, whose counters stay where they were. |
| `MCCircuitManagerDisputed` | `SingleSourceAlways` | A Connect Request delivered again after the circuit it minted has closed mints another that pairs with the live originator in the middle of its stream: frames are acknowledged and lost. |
| `MCCircuitManagerDisputed` | `OpenAnsweredAfterReuse` | The answer to a Disconnect Request for an unknown circuit carries the receiver's own key, so the circuit that hung up stays in its table until its retries are spent. Once keys are used again, a new circuit of the peer with the old key is taken for that one and its Connect Requests are not answered (`circuit_manager.rs:202-204`: "so a half-open peer settles"). |
| `MCRoutingNodeReboot` | `RebootKeepsRoutes` | Stored qualities already contain the neighbour's path quality and the replay multiplies it in again (`netrom_store.rs:256-310`): 192 comes back as 144 even for a direct neighbour, and decays with each further save and reboot until the next broadcast is heard. |
| `MCRoutingNetworkRing` | `DeadAlwaysForgotten` | `combine` rounds to nearest (`quality.rs:36-41`), so 2 x 192 stays 2. With the default MINQUAL of 0, three nodes that hear each other keep a dead destination at quality 2 for ever. |
| `MCInp3Link` with `MaxDelay = 5`, `MaxFaults = 0` | `OneInFlight` | Answers that outlast the reset window: the neighbour is forgotten and probed again while its old reflection is still coming, and is matched to the new probe (`inp3_engine.rs:318`; "at most one in flight", `:138-139`). |
| `MCFlashStoreStaged` | `OkAlwaysStored` | When TNC settings are staged by a SET at the console, saving the same values from the web page answers OK from RAM and writes nothing (`config_store.rs:683`, against `:669-672`): a power cut loses what the page called saved. |
| `MCNinoTncDisputed` | `UsableOnlyWithModem` | An update that failed in the middle of writing marks the port usable again if the link was supported before (`ninotnc.rs:319`), although the TNC sits in its bootloader (`ports/mod.rs:17-20`). |
| `MCNinoTncDisputed` | `SavedIsUsed` | The page saves a mode and then queues it (`tnc.rs:412-418`). If the channel is full or an update begins, the click is answered with an error and the mode stays saved: the node works with the old one until it restarts, then with the refused one. |
| `MCNinoTncDisputed` | `ParamsOutliveModes` | The KISS parameters are sent again after a change of mode that was verified (`ninotnc.rs:592-595`, which says why), and not after mode 15, which `start_mode` finishes by itself (`:600-603`). |
| `MCNinoTncDisputed` | `ShownIsWorkedOn` | `run_update` drops the change of mode under way (`ninotnc.rs:688`) and leaves the page's copy, which shows it as in progress until another one begins. |
| `MCNinoTncDisputed` | `RefusalKeepsSettings` | If that update is then refused with nothing written, the TNC's report finds the link supported already, so that the saved settings are not sent again: the change that was dropped never takes, although the TNC is as it was. |
| `MCNinoTncDisputed` | `NeverBrickedAtAll` | `receive_tnc_image` asks only whether an update is under way (`ota.rs:522`), so that both HTTP tasks may receive an image at once, and an update of the one that is finished may begin while the other is still storing its lines over it (`ota.rs:526`): the TNC is given a mixed image. The read-back before the update ("a damaged store is caught before the TNC is touched", `tnc_image.rs:197-198`) has passed by then. |
| `MCNodeLinksDisputed` | `CapacityReclaimed` | A stray DM or poll from a station without a session takes a peer slot (`node.rs:693`, `:1745`); the session manager frees its side at once and raises nothing (`manager.rs:464-466`), so nothing gives the peer slot back but a later session of that station ("capacity reclaimed", `:1743-1744`). A stray UA is reaped. |
| `MCNodeLinksDisputed` | `RelayIsTheUsers` | The hangup of a relay leaves its circuit in the table until the Disconnect is answered (`node.rs:1084`), and `begin` does not see it: the request channel is empty by then. The end of the old circuit is then signalled to the new user, who is sent back to the prompt, and its own relay starts for nobody (against `relay.rs:9-10`, "one relay at a time", and `:120-124`). |
| `MCNodeLinksDisputed` | `BridgesAlwaysPaired` | A link that its peer resets with our data unacknowledged raises a connect indication, which gives the leg of a cross-connect a role of its own (`node.rs:1819-1845`), and two connect lines in one delivery start two bridges from one leg; the other leg is left in a bridge to nowhere (`:199-200`: at an end "a target is torn down"). |
| `MCDataLinkDisputed` | `FewLossesHarmless` | On a selective reject link a frame that is lost twice, once as sent and once as replayed, is never sent again: `emit_old_i_frame` replays a frame once until V(a) advances (`dispatch.rs:535-544`), which it cannot while that frame is missing. Every poll is answered by another SREJ, which is dropped, until the link ends after N2 of them, although nothing more is lost. Go back N recovers (`MCGoBack`). The guard's own comment is about frames replayed twice, not about this. |
| `MCLinkNegotiationDisputed` | `DialReaches` | An FRMR to the XID that arrives after the probe's wait is over is taken for one to the SABME. The link is degraded once; the peer's DM to the SABME itself then finds it degraded and ends a dial that a peer of version 2.0 would have taken. |
| `MCLinkNegotiationDisputed` | `DialResolves` | The probe and TM201 handlers find a session by its peer alone (`manager.rs:668`, `:695`). If another of the node's calls has an older session with the same peer, the dial's probe is never resolved. |
| `MCLinkNegotiationDisputed` | `SchemeAgreed` | `reap` (`manager.rs:749`) drops a slot that holds only the parameters an XID staged for the SABM(E) to come. A host that reaps after every event, as `node.rs:848` does, loses them. In the firmware this is out of reach because it answers such an XID with DM (`node.rs:669-690`). |
| `MCLinkNegotiationDisputed` | `LearnedTruly` | The cache learns whether a peer answers XID from the reject scheme the link ended with (`capability.rs:158`). A version 2.2 link has SREJ whether or not the XID was answered, so that a silent peer is recorded as answering (against `manager.rs:666`). |

Seen while modelling and not kept as configurations:

* *Circuits*: `seq_acked` looks at the distance to the fragment only, so an
  acknowledgement delayed by more than half the sequence space is misread, and a
  late older acknowledgement moves V(a) back; the release of a choke is one
  datagram that nobody repeats.
* *Routing*: a NODES quality below the floor and an eviction by a NODES route take
  a time metric without recording the withdrawal (`slipped` in `RoutingNode`,
  excluded from `WithdrawalsTold`); a RIF refreshes the aging counter a NODES route
  shares with it; the direct route of `ingest` has no guard against our own
  callsign heard back; `best_route_excluding` returns pure time routes although a
  comment calls them invisible to the quality path; `mark_neighbour_down` has no
  caller in the firmware. On a ring the tables do loop for a while after the
  gateway dies, and only the hop limit and the two guards of `decide_forward`
  stop a datagram then. The connector's `next_hop`
  (`connector.rs:454`) prefers a direct interlink even when it is dead:
  interlinks are never removed.
* *INP3*: an awaited reflection is given up only by the reset of the neighbour;
  after both ends have reset, nobody probes until other NET/ROM traffic makes the
  neighbour known again; the withdrawn set is drained even while the interlink is
  down, so that a peer unreachable in that round is not told; a neighbour reported
  down is only logged.
* *Dials*: when the timers are shorter than the round trip, TM201 goes on after a
  mod-8 probe has been given up (the manager's comment calls that harmless) and a
  late answer sets the reject scheme of one end only; `SameScheme` is therefore
  asked for patient timers.
* *Node task*: a dialled link that its peer resets with our data unacknowledged gets
  the console; a user who connects again while the circuit of its last connect is
  still closing is disconnected when that circuit is gone, because `BridgeEnded` takes
  a leg that is not the initiator of a bridge for a target; `PeerState.local`'s
  comment about the complemented SSID is stale.
* *Flash and updates*: `netrom_store` claims the same discipline as `config_store` and
  does not read back; it holds 64 routes, replays 11 per neighbour, and says it is sized
  above the table's 128 destinations; a table that became empty leaves its old record to
  be restored; `factory_reset` and `erase` have no caller; a refusal on a TNC stranded
  by an earlier update says that it keeps its old firmware; nothing keeps a node update
  from taking the flash in the middle of a TNC update; a TNC that is power-cycled on its
  own runs without its settings (`forgot`).

## 7. Not modelled, and why

* *Wire formats, text and sockets* (codecs, CRC, deflate, console text, monitor,
  APRS, web and telnet servers, display and sensors): no ordering to get
  wrong, and the repository's round-trip and golden tests reach what there is. The
  models take decoded frames.
* *The SDL runtime's transition tables* are generated from another repository and
  are not part of this one. `DataLink` writes two pages down from what this one says
  of them; for the others `LinkNegotiation` and `NodeLinks` say only what the code's
  tests show. Busy conditions, release and re-establishment of a link are outside.
* *Forwarding* (`decide_forward`): `NoForwardingLoop` is about the routes it reads;
  its hop limit, guards and flow buckets are not modelled.
* *The session manager* is modelled for dials, slots, reaping and, on an
  established link, the grant of the carrier; the source of carrier sense and the
  splitting of a stream are not.
* *The node task's* console commands other than connect and bye, its limit of 64
  follow-ups, and its cadences other than the INP3 round and the broadcasts are not.
* *The node's own update*: the swap and the trial boot are an external crate's
  (`embassy-boot`); what of `ota.rs` touches the other stores (taking the flash) is in
  `FlashStore` and `NinoTnc`.
* *KISS over TCP, ACKMODE and reconnect, Tait radio, tuning*: not yet.

## 8. What is left

1. `KissPort`: ACKMODE tags and their timeouts, reconnect with its back-off, the
   decoder across a reconnect; `TuneLink` and `TaitRadio`: request and answer in
   step.
2. `OtaUpdate`: upload, mark, trial, confirm or roll back, with an abstract "always
   a bootable image".
3. Forwarding: a datagram that goes from node to node on `RoutingNetwork` while the
   tables change, the connector's interlink list (a dead direct interlink), and
   circuits over a next hop that changes.
4. `DataLink` with RNR, release and re-establishment, on the tables themselves.
5. Theorems: the lines of a firmware file with the fold lemmas of
   `RoutingNodeProofs`; `SchemeAgreed` of `LinkNegotiation`; `StreamService` for
   `DataLinkPair`.
