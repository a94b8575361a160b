----------------------------- MODULE TncFlasher ------------------------------
(***************************************************************************)
(* The two machines of flash.rs that update a NinoTNC's firmware, without  *)
(* input or output of their own: HexStager checks a file line by line as   *)
(* it is uploaded, BootloaderFlasher writes it through the TNC's           *)
(* bootloader.                                                             *)
(***************************************************************************)
EXTENDS Naturals, Sequences

CONSTANTS
    Files,       \* the files offered: sequences of kinds of line
    MaxLines     \* lines APPDATA holds

Chips == {"EP256", "EP512"}
Kinds == {"data", "fp256", "fp512", "eof", "bad"}

ASSUME FileAssumption == Files \subseteq Seq(Kinds) \ {<<>>} /\ MaxLines \in Nat

Unknown == "unknown"

-----------------------------------------------------------------------------
(***************************************************************************)
(* HexStager: every line is checked as it comes; the file as a whole once  *)
(* it has ended.                                                           *)
(***************************************************************************)
Fingerprint(kind) ==
    CASE kind = "fp256" -> "EP256" [] kind = "fp512" -> "EP512" [] OTHER -> Unknown

NewStager == [target |-> Unknown, lastWasEof |-> FALSE, lines |-> 0, refused |-> FALSE]

EndLine(s, kind, room) ==
    IF s.refused \/ s.lastWasEof \/ kind = "bad" \/ ~room
    THEN [s EXCEPT !.refused = TRUE]
    ELSE [target |-> IF s.target = Unknown THEN Fingerprint(kind) ELSE s.target,
          lastWasEof |-> kind = "eof", lines |-> s.lines + 1, refused |-> FALSE]

\* finish: what makes the file an image.
Accepted(s) == ~s.refused /\ s.lines > 0 /\ s.lastWasEof /\ s.target # Unknown

\* StagedImage, the header of a stored file.
Header(f, chip) == [file |-> f, target |-> chip]
NoImage == Header(<<>>, Unknown)

Record(f, k) == [file |-> f, k |-> k]
Records(f) == [k \in 1 .. Len(f) |-> Record(f, k)]

\* What the stager is to let through: a file that fits, with every line in order
\* and its end-of-file record last, for the chip its first fingerprint names.
MadeFor(f, chip) ==
    \E k \in 1 .. Len(f) : /\ Fingerprint(f[k]) = chip /\ chip # Unknown
                         /\ \A j \in 1 .. (k - 1) : Fingerprint(f[j]) = Unknown
Images ==
    {f \in Files : /\ Len(f) <= MaxLines /\ f[Len(f)] = "eof"
                  /\ \A k \in 1 .. Len(f) : f[k] # "bad" /\ (f[k] = "eof" => k = Len(f))
                  /\ \E chip \in Chips : MadeFor(f, chip)}

-----------------------------------------------------------------------------
(***************************************************************************)
(* BootloaderFlasher.  A handler returns the flasher and what to put on    *)
(* the line.  The instant a deadline passes is left open.                  *)
(***************************************************************************)
Send(op) == [op |-> op]
SendLine(i) == [op |-> "SendLine", index |-> i]
Step(f, sends) == [fl |-> f, discard |-> FALSE, sends |-> sends]
Discarding(f, sends) == [fl |-> f, discard |-> TRUE, sends |-> sends]

NotRun == [st |-> "Done", kind |-> "None", line |-> 0, round |-> 0, index |-> 0,
           written |-> 0, image |-> NoImage]

Start(image) ==
    Discarding([NotRun EXCEPT !.st = "Drain", !.image = image], <<>>)

At(f, st) == [f EXCEPT !.st = st]

BeginFillFlush(f) == Step([At(f, "FillFlush") EXCEPT !.round = 0], <<Send("GetAll")>>)

\* Mutant: the TNC is not told to go back to its firmware.
FailBeforeWritingSilently(f, kind) == Step([At(f, "Done") EXCEPT !.kind = kind], <<>>)

\* Only the refusals that have heard a version wait for the reset to settle.
FailBeforeWriting(f, kind) ==
    Step([At(f, IF kind \in {"VersionUnsupported", "ChipMismatch"}
                THEN "AbortSettle" ELSE "Done") EXCEPT !.kind = kind],
         IF kind = "SerialNeverQuiet" THEN <<>> ELSE <<Send("Reset")>>)

FailWriting(f, kind) ==
    Step([At(f, "Done") EXCEPT !.kind = kind, !.line = f.index + 1], <<>>)

OnLineReply(f, b) ==
    LET counted == [f EXCEPT !.written = @ + 1]
    IN  CASE b = "K" /\ f.index + 1 < Len(f.image.file)
               -> Step([counted EXCEPT !.index = @ + 1], <<SendLine(f.index + 1)>>)
          [] b = "K" /\ f.index + 1 >= Len(f.image.file)
               -> FailWriting(counted, "EndedWithoutCompletion")
          [] b = "Z" -> Step([At(counted, "Done") EXCEPT !.kind = "Updated"], <<>>)
          [] OTHER -> FailWriting(f, "LineRejected")

ChipOf(b) == CASE b = "v" -> "EP256" [] b = "V" -> "EP512" [] OTHER -> Unknown

OnVersion(f, b) ==
    CASE b = "K" -> Step(f, <<>>)
      [] ChipOf(b) = f.image.target -> Step(At(f, "Line"), <<SendLine(0)>>)
      [] b # "K" /\ ChipOf(b) = Unknown -> FailBeforeWriting(f, "VersionUnsupported")
      [] OTHER -> FailBeforeWriting(f, "ChipMismatch")

\* Mutant: a bootloader an earlier update left running is not recognised.
OnByteIgnoringStranded(f, b, long) ==
    CASE f.st \in {"Drain", "Redrain"} ->
           IF long THEN FailBeforeWriting(f, "SerialNeverQuiet") ELSE Step(f, <<>>)
      [] f.st = "StrandedProbe" -> BeginFillFlush(f)
      [] f.st = "AwaitReady" /\ b = "K" -> Step(At(f, "AwaitVersion"), <<Send("Version")>>)
      [] f.st = "AwaitVersion" -> OnVersion(f, b)
      [] f.st = "Line" -> OnLineReply(f, b)
      [] OTHER -> Step(f, <<>>)

\* `long': the line has been draining for longer than drain_abort_ms.
OnByte(f, b, long) ==
    CASE f.st \in {"Drain", "Redrain"} ->
           IF long THEN FailBeforeWriting(f, "SerialNeverQuiet") ELSE Step(f, <<>>)
      [] f.st = "StrandedProbe" ->
           IF b = "K" THEN Step(At(f, "AwaitVersion"), <<Send("Version")>>)
           ELSE BeginFillFlush(f)
      [] f.st = "AwaitReady" /\ b = "K" -> Step(At(f, "AwaitVersion"), <<Send("Version")>>)
      [] f.st = "AwaitVersion" -> OnVersion(f, b)
      [] f.st = "Line" -> OnLineReply(f, b)
      [] OTHER -> Step(f, <<>>)

\* Mutant: the drain has no deadline of its own, it waits to hear something.
OnTimeDrainingOn(f) ==
    CASE f.st \in {"Drain", "StrandedProbe"} -> Step(f, <<>>)
      [] f.st = "FillFlush" ->
           IF f.round + 1 < 3
           THEN Discarding([f EXCEPT !.round = @ + 1], <<Send("GetAll")>>)
           ELSE Discarding(At(f, "Redrain"), <<>>)
      [] f.st = "Redrain" -> Step(At(f, "AwaitReady"), <<Send("Entry")>>)
      [] f.st = "AwaitReady" -> FailBeforeWriting(f, "BootloaderEntryTimeout")
      [] f.st = "AwaitVersion" -> FailBeforeWriting(f, "VersionUnreadable")
      [] f.st = "Line" -> FailWriting(f, "NoResponse")
      [] f.st = "AbortSettle" -> Step(At(f, "Done"), <<>>)
      [] OTHER -> Step(f, <<>>)

OnTime(f) ==
    CASE f.st = "Drain" -> Step(At(f, "StrandedProbe"), <<Send("Reset")>>)
      [] f.st = "StrandedProbe" -> BeginFillFlush(f)
      [] f.st = "FillFlush" ->
           IF f.round + 1 < 3
           THEN Discarding([f EXCEPT !.round = @ + 1], <<Send("GetAll")>>)
           ELSE Discarding(At(f, "Redrain"), <<>>)
      [] f.st = "Redrain" -> Step(At(f, "AwaitReady"), <<Send("Entry")>>)
      [] f.st = "AwaitReady" -> FailBeforeWriting(f, "BootloaderEntryTimeout")
      [] f.st = "AwaitVersion" -> FailBeforeWriting(f, "VersionUnreadable")
      [] f.st = "Line" -> FailWriting(f, "NoResponse")
      [] f.st = "AbortSettle" -> Step(At(f, "Done"), <<>>)
      [] OTHER -> Step(f, <<>>)

Over(f) == f.st = "Done"
NothingWritten(f) == Over(f) /\ f.kind # "Updated" /\ f.line = 0
=============================================================================
