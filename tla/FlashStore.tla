------------------------------ MODULE FlashStore ------------------------------
(***************************************************************************)
(* The two stores in the node's flash: the configuration record and the    *)
(* NET/ROM routes, each in a pair of sectors written in turn with a rising *)
(* generation number and a CRC.  Everything runs in one critical section,  *)
(* so only a power cut comes between the steps of a save.                  *)
(***************************************************************************)
EXTENDS Integers

CONSTANTS
    TncSettings,   \* the NinoTNC's settings, a part of the configuration
    Rest,          \* the rest of the configuration
    Tables,        \* the routes snapshot() finds; EmptyTable among them
    EmptyTable,
    DefaultTnc, DefaultRest,
    MaxGeneration, \* bound on the generations, u32 in the code
    MaxBad         \* bound on writes that go wrong and are not reported

Configs == [tnc : TncSettings, rest : Rest]

CONSTANT Nothing

ASSUME FlashAssumption ==
    /\ DefaultTnc \in TncSettings /\ DefaultRest \in Rest
    /\ EmptyTable \in Tables
    /\ Nothing \notin Configs \cup Tables
    /\ MaxGeneration \in Nat /\ MaxBad \in Nat

VARIABLES
    sector,      \* per store, per slot: the record there, or Invalid
    up,          \* the node has power and has booted
    taken,       \* OTA has taken the flash driver
    generation,  \* ConfigService.generation and .netrom_generation
    pending,     \* ConfigService.pending
    content,     \* ConfigService.netrom_content_crc, as what it was computed over
    table,       \* the routes in the node's table
    job,         \* the save in progress
    \* for the properties
    reply,       \* what the last set_tnc_and_save or SAVE said
    bad,         \* writes gone wrong so far
    spoilt,      \* a bad write of routes was taken for a good one
    staged       \* TNC settings the console SET are not saved yet

ram == <<generation, pending, content, table>>
vars == <<sector, up, taken, ram, job, reply, bad, spoilt, staged>>

Stores == {"config", "routes"}
Slots == {0, 1}          \* SECTOR_A and SECTOR_B
Factory == [tnc |-> DefaultTnc, rest |-> DefaultRest]

\* What read_sector makes of an erased or torn sector: no record.
Invalid == [generation |-> 0, value |-> Nothing]

\* A record whose CRC matches.
Rec(g, v) == [generation |-> g, value |-> v]

\* load: the higher generation, A on a tie; Invalid when neither is valid.
Load(pair) ==
    IF pair[0].generation >= pair[1].generation THEN pair[0] ELSE pair[1]

\* Mutant: every generation goes to the same sector.
SlotFixed(g) == 0

Slot(g) == g % 2

\* The configuration a boot starts from.
Found == IF Load(sector["config"]).value = Nothing THEN Factory
         ELSE Load(sector["config"]).value

NoJob == [phase |-> "idle", store |-> "config", by |-> "none", value |-> Nothing,
          before |-> DefaultTnc]
\* An answer, and whether it was about settings only staged.
Said(ok, tnc, rest) == [ok |-> ok, tnc |-> tnc, rest |-> rest, staged |-> FALSE]
NoReply == Said(FALSE, Nothing, Nothing)

Target == Slot(generation[job.store] + 1)
ReadsBack == job.store = "config"

Init ==
    /\ sector = [s \in Stores |-> [i \in Slots |-> Invalid]]
    /\ up = FALSE /\ taken = FALSE
    /\ generation = [s \in Stores |-> 0]
    /\ pending = Factory /\ content = Nothing /\ table = EmptyTable
    /\ job = NoJob /\ reply = NoReply
    /\ bad = 0 /\ spoilt = FALSE /\ staged = FALSE

Running == up /\ job.phase = "idle"

-----------------------------------------------------------------------------
\* Mutant: the routes' generation is left at what ConfigService::new gives it.
BootCountingAfresh ==
    /\ ~up /\ up' = TRUE /\ staged' = FALSE
    /\ generation' = [config |-> Load(sector["config"]).generation, routes |-> 0]
    /\ pending' = Found /\ content' = Nothing
    /\ table' = IF Load(sector["routes"]).value = Nothing THEN EmptyTable
                ELSE Load(sector["routes"]).value
    /\ UNCHANGED <<sector, taken, job, reply, bad, spoilt>>

\* ConfigService::new and netrom_load.
Boot ==
    /\ ~up /\ up' = TRUE /\ staged' = FALSE
    /\ generation' = [s \in Stores |-> Load(sector[s]).generation]
    /\ pending' = Found
    /\ content' = Nothing
    /\ table' = IF Load(sector["routes"]).value = Nothing THEN EmptyTable
                ELSE Load(sector["routes"]).value
    /\ UNCHANGED <<sector, taken, job, reply, bad, spoilt>>

\* The power fails, or the node resets itself, between any two steps.
PowerCut ==
    /\ up /\ up' = FALSE /\ taken' = FALSE
    /\ job' = NoJob
    /\ UNCHANGED <<sector, ram, reply, bad, spoilt, staged>>

\* take_flash_for_ota: every save fails until the node restarts.
TakeFlash ==
    /\ Running /\ ~taken /\ taken' = TRUE
    /\ UNCHANGED <<sector, up, ram, job, reply, bad, spoilt, staged>>

\* Console SET: staged in RAM only.
SetField ==
    /\ Running /\ ~taken
    /\ \/ \E t \in TncSettings : /\ pending' = [pending EXCEPT !.tnc = t]
                                  /\ staged' = (staged \/ t # pending.tnc)
       \/ \E r \in Rest : pending' = [pending EXCEPT !.rest = r] /\ UNCHANGED staged
    /\ reply' = NoReply
    /\ UNCHANGED <<sector, up, taken, generation, content, table, job, bad, spoilt>>

StartSave(store, by, value, before) ==
    /\ generation[store] < MaxGeneration
    /\ job' = [phase |-> "erase", store |-> store, by |-> by, value |-> value,
               before |-> before]

\* Console SAVE, and the web forms that end in one.
SaveConfig ==
    /\ Running
    /\ IF taken THEN reply' = Said(FALSE, pending.tnc, pending.rest) /\ UNCHANGED job
       ELSE StartSave("config", "save", pending, pending.tnc) /\ reply' = NoReply
    /\ UNCHANGED <<sector, up, taken, ram, bad, spoilt, staged>>

\* set_tnc_and_save: nothing is written when the settings do not change.
SetTncAndSave(t) ==
    /\ Running
    /\ IF taken
       THEN reply' = Said(FALSE, t, Nothing) /\ UNCHANGED <<job, pending>>
       ELSE IF t = pending.tnc
       THEN reply' = [Said(TRUE, t, Nothing) EXCEPT !.staged = staged] /\ UNCHANGED <<job, pending>>
       ELSE /\ pending' = [pending EXCEPT !.tnc = t]
            /\ StartSave("config", "tnc", [pending EXCEPT !.tnc = t], pending.tnc)
            /\ reply' = NoReply
    /\ UNCHANGED <<sector, up, taken, generation, content, table, bad, spoilt, staged>>

Relearn(t) ==
    /\ Running
    /\ table' = t
    /\ UNCHANGED <<sector, up, taken, generation, pending, content, job, reply, bad, spoilt, staged>>

\* netrom_save, on a timer: an empty table is not written, and neither is one
\* equal to the last this boot wrote.
SaveRoutes ==
    /\ Running /\ ~taken
    /\ table \notin {EmptyTable, content}
    /\ StartSave("routes", "timer", table, DefaultTnc)
    /\ UNCHANGED <<sector, up, taken, ram, reply, bad, spoilt, staged>>

-----------------------------------------------------------------------------
(***************************************************************************)
(* The steps of a save.  A step that fails reports it and ends the save.   *)
(***************************************************************************)
\* Mutant: settings that could not be saved stay in the pending copy.
EndJobKeepingTnc(ok) ==
    /\ job' = NoJob
    /\ reply' = CASE job.store = "routes" -> reply
                  [] job.by = "tnc" -> Said(ok, job.value.tnc, Nothing)
                  [] OTHER -> Said(ok, job.value.tnc, job.value.rest)
    /\ staged' = (staged /\ ~(ok /\ job.store = "config"))
    /\ UNCHANGED pending

EndJob(ok) ==
    /\ job' = NoJob
    /\ reply' = CASE job.store = "routes" -> reply
                  [] job.by = "tnc" -> Said(ok, job.value.tnc, Nothing)
                  [] OTHER -> Said(ok, job.value.tnc, job.value.rest)
    /\ pending' = IF job.by = "tnc" /\ ~ok THEN [pending EXCEPT !.tnc = job.before]
                  ELSE pending
    /\ staged' = (staged /\ ~(ok /\ job.store = "config"))

Put(record) ==
    sector' = [sector EXCEPT ![job.store] = [@ EXCEPT ![Target] = record]]

Erase ==
    /\ job.phase = "erase"
    /\ Put(Invalid)
    /\ \/ job' = [job EXCEPT !.phase = "write"] /\ UNCHANGED <<reply, pending, staged>>
       \/ EndJob(FALSE)
    /\ UNCHANGED <<up, taken, generation, content, table, bad, spoilt>>

Write ==
    /\ job.phase = "write"
    /\ Put(Rec(generation[job.store] + 1, job.value))
    /\ job' = [job EXCEPT !.phase = "check"]
    /\ UNCHANGED <<up, taken, ram, reply, bad, spoilt, staged>>

\* The driver reports an error, or the record is wrong and nothing is said.
WriteGoesWrong ==
    /\ job.phase = "write"
    /\ \/ EndJob(FALSE) /\ UNCHANGED bad
       \/ /\ bad < MaxBad /\ bad' = bad + 1
          /\ job' = [job EXCEPT !.phase = "check"]
          /\ UNCHANGED <<reply, pending, staged>>
    /\ UNCHANGED <<sector, up, taken, generation, content, table, spoilt>>

Landed == sector[job.store][Target].generation = generation[job.store] + 1

\* The generation advances when the record reads back (config_store) or when
\* the write reported no error (netrom_store).
Finish ==
    /\ job.phase = "check"
    /\ LET ok == ReadsBack => Landed
       IN  /\ generation' = [generation EXCEPT ![job.store] = IF ok THEN @ + 1 ELSE @]
           /\ content' = IF job.store = "routes" THEN job.value ELSE content
           /\ EndJob(ok)
    /\ spoilt' = (spoilt \/ ~(ReadsBack \/ Landed))
    /\ UNCHANGED <<sector, up, taken, table, bad>>

Next ==
    \/ Boot \/ PowerCut \/ TakeFlash
    \/ SetField \/ SaveConfig \/ SaveRoutes
    \/ \E t \in TncSettings : SetTncAndSave(t)
    \/ \E t \in Tables : Relearn(t)
    \/ Erase \/ Write \/ WriteGoesWrong \/ Finish

Spec == Init /\ [][Next]_vars

-----------------------------------------------------------------------------
\* A boot finds the configuration saved last: an erase never reaches the only
\* good record, whatever is cut off, fails or goes wrong ("a torn write can
\* never lose the previous config", config_store.rs).
SavingConfig == job.phase # "idle" /\ job.store = "config"

Durable == INSTANCE DurableStore WITH
    Values  <- Configs,
    saved   <- Load(sector["config"]).value,
    attempt <- IF SavingConfig THEN job.value ELSE Nothing,
    landed  <- SavingConfig /\ job.phase = "check" /\ Landed

ConfigDurable == Durable!Spec

ReplyStored ==
    /\ Found.tnc = reply.tnc
    /\ reply.rest # Nothing => Found.rest = reply.rest

\* What a save called saved, a boot finds: SAVE, the web forms and the TNC page
\* answer from RAM, and only a record in flash survives.  The one exception is the
\* TNC page told to save just what the console has staged: "nothing changed", it
\* says, although nothing is stored.
OkMeansStored == reply.ok /\ ~reply.staged => ReplyStored

\* What set_tnc_and_save says of itself: it returns "the saved settings".
OkAlwaysStored == reply.ok => ReplyStored

\* As long as no bad write has passed for a good one, the newest routes in flash
\* are those the generation counter names and the wear gate compares with: what
\* it does not write again, a boot finds.
RoutesSurvive ==
    up /\ ~spoilt /\ ~(job.store = "routes" /\ job.phase = "check") =>
        /\ Load(sector["routes"]).generation = generation["routes"]
        /\ content # Nothing => Load(sector["routes"]).value = content
=============================================================================
