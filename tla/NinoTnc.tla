------------------------------- MODULE NinoTnc -------------------------------
(***************************************************************************)
(* The NinoTNC on the node's serial line: its settings, which a click on   *)
(* the web page changes and the serial task sends, and the update of its   *)
(* firmware, from a file uploaded over HTTP into the APPDATA flash region  *)
(* to the TNC's bootloader.  The actors are the HTTP tasks, the serial     *)
(* task and, outside the repository, the TNC.                              *)
(***************************************************************************)
EXTENDS TncFlasher, TncModeSetter, FiniteSets

CONSTANTS
    Http,         \* the HTTP server tasks
    CmdCapacity,  \* commands the channel to the serial task holds
    Params,       \* what a user may set the KISS parameters to
    WantedModes,  \* the modes a user may ask for
    Scenarios     \* the TNC as the node finds it, and the bounds; see below

(***************************************************************************)
(* A scenario names the TNC's chip, whether its firmware is one the node   *)
(* supports, whether its DIP switches leave the mode to software, the      *)
(* settings saved on the node, and the bounds: uploads, updates, faults (a *)
(* lost or garbled reply, a mode change ignored, a TNC slower than a       *)
(* timeout, a power cut of the TNC), noise (what a TNC running KISS sends  *)
(* unasked), changes of the settings and restarts of the node.             *)
(***************************************************************************)
Bounds == {"uploads", "updates", "faults", "noise", "changes", "restarts"}

\* TncSettings: a mode or none, and the KISS parameters, taken together.
NoMode == SetFromKiss + 1
Unset == "unset"
Unused == [mode |-> NoMode, params |-> Unset]
Settings == [mode : WantedModes \cup {NoMode}, params : Params \cup {Unset}]

ASSUME TncAssumption ==
    /\ CmdCapacity \in Nat \ {0}
    /\ WantedModes \subseteq Modes
    /\ Unset \notin Params
    /\ \A s \in Scenarios : /\ s.chip \in Chips
                            /\ {s.supported, s.software} \subseteq BOOLEAN
                            /\ s.saved \in Settings
                            /\ \A b \in Bounds : s[b] \in Nat

VARIABLES
    \* the node's flash
    hdr,        \* the header sector: a header, NoImage or Garbled
    data,       \* the records, by line: what was stored there last
    taken,      \* an upload of node firmware has taken the flash
    saved,      \* the TNC settings in the configuration
    \* RAM
    staged,     \* TncState.staged: the cached header, or Unread
    job,        \* what each HTTP task is doing
    flash,      \* TncState.flash, except the flasher it holds
    fl,         \* the serial task's BootloaderFlasher
    updating,   \* the serial task is inside run_update
    cmds,       \* CMD: the commands queued for the serial task
    link,       \* LinkState, and the chip TncState.status names
    usable,     \* the radio port carries traffic
    settings,   \* the settings the serial task sends
    setter,     \* the change of mode it works on, or NoJob
    shown,      \* TncState.mode_job: the one the page shows
    \* the serial line and the TNC
    tx, rx, tnc,
    \* bounds; whether the update under way has met nothing unusual; whether the
    \* TNC has started its old firmware again since its settings were sent; and
    \* whether an update was begun while an upload was still storing its lines
    scenario, spent, clean, forgot, raced

store == <<hdr, data, taken, staged, job>>
setup == <<settings, setter, shown>>
node == <<store, saved, flash, fl, updating, cmds, link, usable, setup>>
line == <<tx, rx, tnc>>
world == <<scenario, forgot>>
vars == <<node, line, world, spent, clean, raced>>

Garbled == Header(<<"garbled">>, Unknown)
Unread  == Header(<<"unread">>, Unknown)
Erased  == Record(<<>>, 0)
Wreck   == Record(<<"bad">>, 1)
Idle    == [doing |-> "idle"]
Unheard == [supported |-> FALSE, heard |-> FALSE, chip |-> Unknown]

Init ==
    /\ scenario \in Scenarios
    /\ hdr = NoImage /\ data = [k \in 1 .. MaxLines |-> Erased]
    /\ taken = FALSE
    /\ saved = scenario.saved /\ settings = scenario.saved
    /\ setter = NoJob /\ shown = NoJob
    /\ staged = Unread
    /\ job = [h \in Http |-> Idle]
    /\ flash = "Idle" /\ fl = NotRun /\ updating = FALSE /\ cmds = <<>>
    /\ link = Unheard
    /\ usable = FALSE
    /\ tx = <<Send("GetAll")>> /\ rx = <<>>
    /\ tnc = [chip |-> scenario.chip, mode |-> "kiss", intact |-> TRUE,
              supported |-> scenario.supported, got |-> <<>>,
              running |-> 0, stored |-> 0, params |-> Unset]
    /\ spent = [b \in Bounds |-> 0]
    /\ clean = TRUE /\ forgot = FALSE /\ raced = FALSE

Spend(b) == /\ spent[b] < scenario[b]
            /\ spent' = [spent EXCEPT ![b] = @ + 1]

\* tnc::flashing
Flashing == flash = "Starting" \/ (flash = "Flashing" /\ ~Over(fl))

Storing(h) == job[h].doing = "upload"
Receiving == \E h \in Http : Storing(h)

SomeHttpIdle == \E h \in Http : job[h] = Idle

\* tnc_image::staged and tnc::staged_image, which caches it.
StoredHeader == IF taken \/ hdr = Garbled THEN NoImage ELSE hdr
StagedImage == IF staged = Unread THEN StoredHeader ELSE staged

-----------------------------------------------------------------------------
(***************************************************************************)
(* The HTTP tasks.  A request that does not await is one step.             *)
(***************************************************************************)
\* tnc::submit takes a command.
CanSubmit == ~Flashing /\ Len(cmds) < CmdCapacity
Submitted(cmd) == IF CanSubmit THEN Append(cmds, cmd) ELSE cmds

\* require_supported: the last report named firmware the node supports.  What
\* TncState.status says of it is link.supported until an update clears it.
RequireSupported == link.chip # Unknown /\ link.supported

\* set_tnc_and_save, then submit: when the channel refuses the command the
\* page shows an error, and the settings stay saved.
PostSettings(cmd, wanted) ==
    /\ SomeHttpIdle /\ RequireSupported /\ ~taken
    /\ Spend("changes")
    /\ saved' = wanted
    /\ cmds' = Submitted(cmd)
    /\ UNCHANGED <<store, flash, fl, updating, link, usable, setup, line, world, clean,
                   raced>>

PostMode(mode, persist) ==
    PostSettings([op |-> "SetMode", mode |-> mode, persist |-> persist],
                 [saved EXCEPT !.mode = mode])

PostParams(params) ==
    PostSettings([op |-> "SetParams", params |-> params], [saved EXCEPT !.params = params])

PostRefresh ==
    /\ SomeHttpIdle /\ CanSubmit
    /\ Spend("changes")
    /\ cmds' = Submitted(Send("Refresh"))
    /\ UNCHANGED <<store, saved, flash, fl, updating, link, usable, setup, line, world,
                   clean, raced>>

\* The task h has a file f to receive.  `alone': no other upload has written to the
\* store since.
WithUpload(h, f) ==
    [g \in Http |-> IF g = h THEN [doing |-> "upload", file |-> f, at |-> 0,
                                  stager |-> NewStager, alone |-> ~Receiving]
                   ELSE IF Storing(g) THEN [job[g] EXCEPT !.alone = FALSE]
                   ELSE job[g]]

\* receive_tnc_image up to its first await: the stored image is forgotten.  It
\* does not ask whether another task is receiving one.
BeginUpload(h, f) ==
    /\ job[h] = Idle /\ ~Flashing /\ ~taken
    /\ Spend("uploads")
    /\ hdr' = NoImage /\ staged' = NoImage
    /\ job' = WithUpload(h, f)
    /\ UNCHANGED <<data, taken, saved, flash, fl, updating, cmds, link, usable, setup,
                   line, world, clean, raced>>

\* The header is programmed and not erased first.
Programmed(header) == IF hdr \in {NoImage, header} THEN header ELSE Garbled

\* Line k goes into the store.  A writer erases the sectors it comes to: two uploads
\* at a time wipe and overwrite what the other one has stored.
StoreLine(j, k) ==
    \E lost \in IF j.alone THEN {{}} ELSE SUBSET (1 .. MaxLines), left \in {Erased, Wreck} :
        data' = [i \in 1 .. MaxLines |-> IF i \in lost THEN left
                                       ELSE IF i = k THEN Record(j.file, k) ELSE data[i]]

\* One more line off the socket; with the last one the file is finished and
\* committed before the task awaits anything again.
PushLine(h) ==
    /\ Storing(h)
    /\ LET j == job[h]
           k == j.at + 1
           s == EndLine(j.stager, j.file[k], k <= MaxLines /\ ~taken)
           last == k = Len(j.file)
           commit == last /\ Accepted(s)
           header == Header(j.file, s.target)
       IN  /\ IF s.refused THEN UNCHANGED data ELSE StoreLine(j, k)
           /\ hdr' = IF commit THEN Programmed(header) ELSE hdr
           /\ staged' = IF commit THEN header ELSE staged
           /\ job' = [job EXCEPT ![h] = IF last THEN Idle
                                        ELSE [j EXCEPT !.at = k, !.stager = s]]
    /\ UNCHANGED <<taken, saved, flash, fl, updating, cmds, link, usable, setup, line,
                   world, spent, clean, raced>>

CutShort(h) ==
    /\ Storing(h)
    /\ job' = [job EXCEPT ![h] = Idle]
    /\ UNCHANGED <<hdr, data, taken, saved, staged, flash, fl, updating, cmds, link,
                   usable, setup, line, world, spent, clean, raced>>

\* post_update, served by a task that is not reading an upload.
PressUpdate ==
    /\ SomeHttpIdle
    /\ StagedImage # NoImage /\ CanSubmit
    /\ Spend("updates")
    /\ staged' = StagedImage
    /\ cmds' = Submitted(Send("UpdateFirmware")) /\ flash' = "Starting"
    /\ UNCHANGED <<hdr, data, taken, saved, job, fl, updating, link, usable, setup, line,
                   world, clean, raced>>

\* POST /firmware: take_flash_for_ota does not ask whether the TNC is being
\* flashed, and however the upload goes the node restarts.
TakeFlash(h) ==
    /\ job[h] = Idle /\ ~taken
    /\ spent.restarts < scenario.restarts
    /\ job' = [job EXCEPT ![h] = [doing |-> "ota"]]
    /\ taken' = TRUE /\ clean' = FALSE
    /\ UNCHANGED <<hdr, data, saved, staged, flash, fl, updating, cmds, link, usable,
                   setup, line, world, spent, raced>>

\* sys_reset, or a power cut: RAM goes, flash stays, GETALL is asked again.
Restart ==
    /\ Spend("restarts")
    /\ taken' = FALSE /\ staged' = Unread /\ job' = [h \in Http |-> Idle]
    /\ flash' = "Idle" /\ fl' = NotRun /\ updating' = FALSE /\ cmds' = <<>>
    /\ link' = Unheard
    /\ usable' = FALSE
    /\ settings' = saved /\ setter' = NoJob /\ shown' = NoJob
    /\ tx' = <<Send("GetAll")>> /\ rx' = <<>>
    /\ forgot' = FALSE
    /\ UNCHANGED <<hdr, data, saved, tnc, scenario, clean, raced>>

-----------------------------------------------------------------------------
(***************************************************************************)
(* The serial task while it runs KISS.                                     *)
(***************************************************************************)
\* send_params: each parameter that is set.
SendParams(s) ==
    IF s.params = Unset THEN <<>> ELSE <<[op |-> "Params", params |-> s.params]>>

\* apply_saved: the parameters, then the mode.  It is called when link.supported
\* has just become TRUE, so start_mode has no reason to refuse.
Applied == IF settings.mode = NoMode THEN Moved(NoJob, <<>>)
           ELSE StartMode(settings.mode, FALSE)

\* advance_mode and start_mode: the change of mode the task goes on with.
Working(moved) == IF InFlight(moved.job) THEN moved.job ELSE NoJob

\* advance_mode: nothing the TNC might reset on a change of mode is left behind.
AfterMode(moved) == IF InFlight(moved.job) THEN <<>> ELSE SendParams(settings)

Advance(moved) ==
    /\ setter' = Working(moved) /\ shown' = moved.job
    /\ tx' = tx \o moved.sends \o AfterMode(moved)

\* A command that changes a setting is kept for later while the TNC is not
\* known to run firmware the node supports.
SetMode ==
    /\ ~updating /\ cmds # <<>> /\ Head(cmds).op = "SetMode"
    /\ LET started == StartMode(Head(cmds).mode, Head(cmds).persist)
       IN  /\ settings' = [settings EXCEPT !.mode = Head(cmds).mode]
           /\ IF link.supported
              THEN /\ setter' = Working(started) /\ shown' = started.job
                   /\ tx' = tx \o started.sends
              ELSE UNCHANGED <<setter, shown, tx>>
    /\ cmds' = Tail(cmds)
    /\ UNCHANGED <<store, saved, flash, fl, updating, link, usable, rx, tnc, world,
                   spent, clean, raced>>

SetParams ==
    /\ ~updating /\ cmds # <<>> /\ Head(cmds).op = "SetParams"
    /\ settings' = [settings EXCEPT !.params = Head(cmds).params]
    /\ tx' = IF link.supported THEN tx \o SendParams(settings') ELSE tx
    /\ cmds' = Tail(cmds)
    /\ UNCHANGED <<store, saved, flash, fl, updating, link, usable, setter, shown, rx,
                   tnc, world, spent, clean, raced>>

Refresh ==
    /\ ~updating /\ cmds # <<>> /\ Head(cmds).op = "Refresh"
    /\ tx' = Append(tx, Send("GetAll"))
    /\ cmds' = Tail(cmds)
    /\ UNCHANGED <<store, saved, flash, fl, updating, link, usable, setup, rx, tnc,
                   world, spent, clean, raced>>

\* The change of mode reaches its deadline; a byte or a command that waits wins.
SetterDeadline ==
    /\ ~updating /\ InFlight(setter) /\ rx = <<>> /\ cmds = <<>>
    /\ IF tx = <<>> THEN UNCHANGED <<spent, clean>> ELSE Spend("faults") /\ clean' = FALSE
    /\ Advance(OnSetterTime(setter))
    /\ UNCHANGED <<store, saved, flash, fl, updating, cmds, link, usable, settings, rx,
                   tnc, world, raced>>

IsReport(m) == m.b \in {"new", "old"}

\* A frame from the TNC that is no report changes nothing here.
HearOther ==
    /\ ~updating /\ rx # <<>> /\ ~IsReport(Head(rx))
    /\ rx' = Tail(rx)
    /\ UNCHANGED <<node, tx, tnc, world, spent, clean, raced>>

BecomesSupported(r) == r.supported /\ ~link.supported

\* A report: first it is shown to the change of mode in flight, which there is
\* only while the firmware is known to be supported, then to on_report.
HearReport ==
    /\ ~updating /\ rx # <<>> /\ IsReport(Head(rx))
    /\ rx' = Tail(rx)
    /\ LET r == Head(rx)
       IN  /\ link' = [supported |-> r.supported, heard |-> TRUE, chip |-> r.chip]
           /\ usable' = r.supported
           /\ IF BecomesSupported(r)
              THEN /\ tx' = tx \o SendParams(settings) \o Applied.sends
                   /\ setter' = Working(Applied)
                   /\ shown' = IF settings.mode = NoMode THEN shown ELSE Applied.job
                   /\ forgot' = FALSE
              ELSE /\ IF InFlight(setter) THEN Advance(OnStatus(setter, r))
                      ELSE UNCHANGED <<setter, shown, tx>>
                   /\ UNCHANGED forgot
    /\ UNCHANGED <<store, saved, flash, fl, updating, cmds, settings, tnc, scenario,
                   spent, clean, raced>>

AskAgain ==
    /\ ~updating /\ ~link.heard /\ tx = <<>> /\ rx = <<>>
    /\ tx' = <<Send("GetAll")>>
    /\ UNCHANGED <<node, rx, tnc, world, spent, clean, raced>>

-----------------------------------------------------------------------------
(***************************************************************************)
(* The serial task inside run_update.                                      *)
(***************************************************************************)
\* LineReader::next_line: the record that lies there now, if one does.
NextLine(i) == IF taken \/ data[i + 1] = Erased THEN Erased ELSE data[i + 1]

\* perform: at most a write, or one line from the store.  What is discarded is
\* left to the caller.
Perform(s) ==
    IF s.sends = <<>> \/ s.sends[1].op # "SendLine"
    THEN fl' = s.fl /\ tx' = tx \o s.sends
    ELSE LET record == NextLine(s.sends[1].index)
         IN  IF record = Erased
             THEN fl' = FailWriting(s.fl, "ImageUnreadable").fl /\ UNCHANGED tx
             ELSE fl' = s.fl /\ tx' = Append(tx, [op |-> "Line", line |-> record])

\* Mutant: the image is not read back against its header.
RefusedUnread(image) ==
    image = NoImage \/ taken \/ link.chip \notin {Unknown, image.target}

\* The image is damaged, or the TNC has said it has the other chip.
Refused(image) ==
    \/ image = NoImage
    \/ taken
    \/ \E k \in 1 .. Len(image.file) : data[k] # Record(image.file, k)
    \/ link.chip \notin {Unknown, image.target}

\* An update that starts drops the change of mode; the page goes on showing it.
BeginUpdate ==
    /\ ~updating /\ cmds # <<>> /\ Head(cmds).op = "UpdateFirmware"
    /\ cmds' = Tail(cmds)
    /\ staged' = StagedImage
    /\ IF Refused(StagedImage)
       THEN /\ flash' = "Idle" /\ usable' = link.supported
            /\ UNCHANGED <<fl, updating, setter, tx, rx, clean, raced>>
       ELSE /\ Perform(Start(StagedImage)) /\ rx' = <<>>
            /\ flash' = "Flashing" /\ updating' = TRUE /\ usable' = FALSE
            /\ setter' = NoJob
            /\ clean' = ~taken /\ raced' = (raced \/ Receiving)
    /\ UNCHANGED <<hdr, data, taken, saved, job, link, settings, shown, tnc, world, spent>>

ReadByte(long) ==
    /\ updating /\ ~Over(fl) /\ rx # <<>>
    /\ Perform(OnByte(fl, Head(rx).b, long))
    /\ rx' = Tail(rx)
    /\ clean' = (clean /\ ~long)
    /\ UNCHANGED <<store, saved, flash, updating, cmds, link, usable, setup, tnc, world,
                   spent, raced>>

\* A byte that is waiting wins against the timer.  A timer that runs out while
\* the TNC still has something to answer is a fault.
Timeout ==
    /\ updating /\ ~Over(fl) /\ rx = <<>>
    /\ IF tx = <<>> THEN UNCHANGED <<spent, clean>> ELSE Spend("faults") /\ clean' = FALSE
    /\ Perform(OnTime(fl))
    /\ rx' = IF OnTime(fl).discard THEN <<>> ELSE rx
    /\ UNCHANGED <<store, saved, flash, updating, cmds, link, usable, setup, tnc, world,
                   raced>>

\* Mutant: the task takes the TNC for the one it knew before the update.
AfterUpdateAsBefore(kind) == [link EXCEPT !.chip = Unknown]

\* TncState.status is cleared; after a success LinkState is that of a start.
AfterUpdate(kind) == IF kind = "Updated" THEN Unheard ELSE [link EXCEPT !.chip = Unknown]

\* The rest of run_update, and what the task's loop does with its result.
EndUpdate ==
    /\ updating /\ Over(fl)
    /\ updating' = FALSE
    /\ link' = AfterUpdate(fl.kind)
    /\ usable' = link'.supported
    /\ tx' = IF fl.line > 0 THEN tx ELSE Append(tx, Send("GetAll"))
    /\ UNCHANGED <<store, saved, flash, fl, cmds, setup, rx, tnc, world, spent, clean,
                   raced>>

-----------------------------------------------------------------------------
(***************************************************************************)
(* The TNC, as flash.rs and mode_set.rs describe it.                       *)
(***************************************************************************)
Version == IF tnc.chip = "EP256" THEN "v" ELSE "V"
Say(b) == [b |-> b]
Report == [b |-> IF tnc.supported THEN "new" ELSE "old", supported |-> tnc.supported,
           chip |-> tnc.chip, mode |-> tnc.running, software |-> scenario.software]

Whole(lines) == \E f \in Images : MadeFor(f, tnc.chip) /\ lines = Records(f)

\* It starts with the mode it has stored and its own parameters.
Started(t) == [t EXCEPT !.mode = "kiss", !.running = t.stored, !.params = Unset]

\* SETHW to mode 15 leaves it at the mode it has stored.
WithMode(m, params) ==
    [tnc EXCEPT !.stored = IF m.persist /\ m.mode # SetFromKiss THEN m.mode ELSE @,
                !.running = IF m.mode = SetFromKiss THEN tnc.stored ELSE m.mode,
                !.params = params]

Same == [tnc |-> tnc, says |-> <<>>]

\* What each thing the node sends does to the TNC, and its answer.
Answer(m) ==
    LET got == Append(tnc.got, m.line)
        last == m.line.file[m.line.k] = "eof"
        after == [tnc EXCEPT !.intact = FALSE, !.got = got]
    IN  CASE tnc.mode = "kiss" /\ m.op = "GetAll" -> [Same EXCEPT !.says = <<Report>>]
          [] tnc.mode = "kiss" /\ m.op = "Params" -> [Same EXCEPT !.tnc.params = m.params]
          [] tnc.mode = "kiss" /\ m.op = "Entry" ->
               [tnc |-> [tnc EXCEPT !.mode = "boot", !.got = <<>>], says |-> <<Say("K")>>]
          [] tnc.mode = "boot" /\ m.op = "Reset" ->
               IF tnc.intact THEN [Same EXCEPT !.tnc = Started(tnc)]
               ELSE [Same EXCEPT !.says = <<Say("K")>>]
          [] tnc.mode = "boot" /\ m.op = "Version" ->
               [tnc |-> [tnc EXCEPT !.got = <<>>], says |-> <<Say(Version)>>]
          [] tnc.mode = "boot" /\ m.op = "Line" ->
               IF ~last THEN [tnc |-> after, says |-> <<Say("K")>>]
               ELSE [tnc |-> IF Whole(got)
                             THEN Started([after EXCEPT !.intact = TRUE, !.supported = TRUE])
                             ELSE [after EXCEPT !.mode = "dead", !.supported = TRUE],
                     says |-> <<Say("Z")>>]
          [] OTHER -> Same

\* What is not a change of mode; its answer may be lost or garbled.
TncAnswers ==
    /\ tx # <<>> /\ Head(tx).op # "SetHw"
    /\ LET answer == Answer(Head(tx))
       IN  /\ tnc' = answer.tnc
           /\ forgot' = (forgot \/ (Head(tx).op = "Reset" /\ answer.tnc # tnc))
           /\ \/ rx' = rx \o answer.says /\ UNCHANGED <<spent, clean>>
              \/ /\ answer.says # <<>>
                 /\ Spend("faults") /\ clean' = FALSE
                 /\ rx' \in {rx, Append(rx, Say("N"))}
    /\ tx' = Tail(tx)
    /\ UNCHANGED <<node, scenario, raced>>

\* SETHW, which it does not answer.  It obeys only with its DIP switches at
\* 1111, may take the occasion to reset its parameters, and may ignore it.
TncSetsMode ==
    /\ tx # <<>> /\ Head(tx).op = "SetHw"
    /\ IF tnc.mode = "kiss" /\ tnc.supported /\ scenario.software
       THEN \/ /\ \E params \in {tnc.params, Unset} : tnc' = WithMode(Head(tx), params)
               /\ UNCHANGED <<spent, clean>>
            \/ Spend("faults") /\ clean' = FALSE /\ UNCHANGED tnc
       ELSE UNCHANGED <<tnc, spent, clean>>
    /\ tx' = Tail(tx)
    /\ UNCHANGED <<node, rx, world, raced>>

\* Traffic, or a beacon, which only a TNC running KISS sends.
Noise(m) ==
    /\ tnc.mode = "kiss"
    /\ Spend("noise") /\ clean' = FALSE
    /\ rx' = Append(rx, m)
    /\ UNCHANGED <<node, tx, tnc, world, raced>>

\* The node answers a byte sooner than a TNC restarts: a cut with an answer still
\* unread is a cut after the node's next write, which is lost with the rest.
TncPowerCut ==
    /\ rx = <<>>
    /\ Spend("faults") /\ clean' = FALSE
    /\ tnc.mode # "dead"
    /\ tnc' = IF tnc.intact THEN [Started(tnc) EXCEPT !.got = <<>>]
              ELSE [tnc EXCEPT !.mode = "boot", !.got = <<>>]
    /\ forgot' = TRUE
    /\ tx' = <<>>
    /\ UNCHANGED <<node, rx, scenario, raced>>

Strays == {Say("K"), Say("x"), Report}

SerialTask ==
    \/ SetMode \/ SetParams \/ Refresh \/ SetterDeadline
    \/ HearReport \/ HearOther \/ AskAgain
    \/ BeginUpdate \/ Timeout \/ EndUpdate
    \/ \E long \in BOOLEAN : ReadByte(long)

Next ==
    \/ SerialTask
    \/ TncAnswers \/ TncSetsMode
    \/ \E m \in WantedModes, persist \in BOOLEAN : PostMode(m, persist)
    \/ \E p \in Params : PostParams(p)
    \/ PostRefresh
    \/ \E h \in Http, f \in Files : BeginUpload(h, f)
    \/ \E h \in Http : PushLine(h) \/ CutShort(h) \/ TakeFlash(h)
    \/ PressUpdate \/ Restart
    \/ \E m \in Strays : Noise(m)
    \/ TncPowerCut

\* The serial task is woken by every command, byte and deadline; the TNC reads
\* its line.
Spec ==
    /\ Init /\ [][Next]_vars
    /\ WF_vars(SetMode) /\ WF_vars(SetParams) /\ WF_vars(Refresh)
    /\ WF_vars(SetterDeadline)
    /\ WF_vars(BeginUpdate) /\ WF_vars(Timeout) /\ WF_vars(EndUpdate)
    /\ WF_vars(HearReport) /\ WF_vars(HearOther)
    /\ WF_vars(\E long \in BOOLEAN : ReadByte(long))
    /\ WF_vars(TncAnswers) /\ WF_vars(TncSetsMode)

-----------------------------------------------------------------------------
\* The bootloader is given lines made for its own chip only, and starts no
\* firmware that is not whole and in order: "A wrong-chip file is refused before
\* anything is written" (docs/HARDWARE-NINOBLE.md).
NotBrickedNow ==
    /\ tnc.mode # "dead"
    /\ \A k \in 1 .. Len(tnc.got) : MadeFor(tnc.got[k].file, tnc.chip)

\* So it is whatever was uploaded before, at the same time as something else too,
\* and whatever is uploaded meanwhile; unless an update was begun while an upload
\* was still storing its lines, which goes on overwriting what the update reads.
NeverBricked == ~raced => NotBrickedNow

\* An update with the right file that meets no fault succeeds, from whichever
\* state an earlier update, a restart or a power cut left the TNC in: the
\* stranded probe, the flush and the replies to lines stay in step.  The same
\* condition holds: no update was begun during an upload.
CleanUpdateCompletes ==
    updating /\ Over(fl) /\ clean /\ ~raced /\ fl.image.target = tnc.chip
        => fl.kind = "Updated" /\ tnc.mode = "kiss"

\* An update that failed with nothing written leaves a TNC that still has its
\* firmware running it, once the TNC has taken in what it was sent
\* (fail_before_writing: "tell the TNC to go back to its old firmware").
RefusalRestores ==
    NothingWritten(fl) /\ fl.kind \notin {"None", "SerialNeverQuiet"}
        /\ tnc.intact /\ tx = <<>>
        => tnc.mode = "kiss"

Settled == ~updating /\ cmds = <<>> /\ ~InFlight(setter) /\ tx = <<>> /\ rx = <<>>

\* The settings the node works with are those of the TNC once the serial task
\* has nothing left to do, unless the TNC has started its old firmware again since
\* they were sent or the page says why not.  A change of mode that meets fewer
\* faults than it has attempts takes; but with two of them it may be shown as
\* applied on a report from before it, when it has settled before the TNC reads
\* it and the TNC then ignores it.
InForce ==
    Settled /\ link.supported /\ tnc.mode = "kiss" /\ ~forgot /\ settings.mode # SetFromKiss
        => /\ settings.params \in {Unset, tnc.params}
           /\ \/ settings.mode \in {NoMode, tnc.running}
              \/ ~scenario.software /\ shown.phase = "DipNotSoftware"
              \/ spent.faults >= Attempts /\ shown.phase = "NotApplied"
              \/ spent.faults >= 2 /\ shown.phase = "Applied"

\* They are in force after a start, a change and an update alike, until an update
\* fails: that drops the change of mode under way.
SettingsInForce == fl.kind \in {"None", "Updated"} => InForce

\* The serial task comes back from an update and from a change of mode: until
\* an update ends, uploads and every other command are refused.
SerialWorkEnds == (Flashing ~> ~Flashing) /\ (InFlight(setter) ~> ~InFlight(setter))

\* A port is marked usable only when its modem can carry traffic (ports/mod.rs).
UsableOnlyWithModem == usable /\ tx = <<>> /\ rx = <<>> => tnc.mode = "kiss"

\* "Saves the mode on the node (re-applied at every boot, RAM-only) and queues
\* the change" (tnc.rs, post_mode): what is saved is what the node works with.
SavedIsUsed == Settled => saved = settings

\* "Re-send the KISS parameters, so nothing the TNC might reset on a mode change
\* is left behind" (ports/ninotnc.rs, advance_mode): also after mode 15.
ParamsOutliveModes ==
    Settled /\ link.supported /\ tnc.mode = "kiss" /\ ~forgot
        => settings.params \in {Unset, tnc.params}

\* The page does not go on showing a change of mode that nobody works on.
ShownIsWorkedOn == InFlight(shown) => setter = shown

\* An update that leaves the TNC as it was leaves it its settings (run_update:
\* a failure with nothing written asks the TNC for its report, as a start does).
RefusalKeepsSettings == NothingWritten(fl) => InForce

\* "re-checking the whole image against the header before the TNC is touched"
\* (tnc_image.rs: a damaged store is caught), with every upload that goes on:
\* NotBrickedNow without its condition.
NeverBrickedAtAll == NotBrickedNow
=============================================================================
