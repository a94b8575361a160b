---------------------------- MODULE NinoTncProofs ----------------------------
(***************************************************************************)
(* The update of a NinoTNC's firmware, for every set of files, TNCs and    *)
(* bounds.  The argument follows the line between the node and the TNC:    *)
(* every record queued on it comes right after the one before it or after  *)
(* a request for the version, which makes the bootloader start afresh; and *)
(* while an update writes, nobody uploads, unless one was at it when the   *)
(* update began (raced).  Then the settings: a change of mode, the         *)
(* parameters behind it, and the reports that tell of it.                  *)
(***************************************************************************)
EXTENDS NinoTnc, TLAPS

Constants == /\ FileAssumption /\ TncAssumption /\ AttemptsAssumption

-----------------------------------------------------------------------------
(***************************************************************************)
(* Sequences of anything.                                                  *)
(***************************************************************************)
Sequence(s) == s \in Seq({s[n] : n \in 1 .. Len(s)})

\* Every sequence of some set is one of the set of its elements.
LEMMA IsSequence ==
    ASSUME NEW S, NEW f \in Seq(S)
    PROVE  Sequence(f)
<1> DEFINE R == {f[k] : k \in 1 .. Len(f)}
<1>1. Len(f) \in Nat /\ f \in [1 .. Len(f) -> S]
  OBVIOUS
<1>2. f \in [1 .. Len(f) -> R]
  BY <1>1
<1> HIDE DEF R
<1>3. f \in Seq(R)
  BY <1>1, <1>2
<1> QED
  BY <1>3 DEF Sequence, R

\* What an appended element does to a sequence of anything.
LEMMA AppendIs ==
    ASSUME NEW s, NEW m, Sequence(s)
    PROVE  /\ Sequence(Append(s, m)) /\ Len(Append(s, m)) = Len(s) + 1
           /\ \A k \in 1 .. Len(s) : Append(s, m)[k] = s[k]
           /\ Append(s, m)[Len(s) + 1] = m
           /\ Append(s, m) # <<>> /\ s \o <<m>> = Append(s, m)
<1> DEFINE S == {s[n] : n \in 1 .. Len(s)} \cup {m}
<1>1. s \in Seq(S)
  <2>1. s \in Seq({s[n] : n \in 1 .. Len(s)})
    BY DEF Sequence
  <2> DEFINE T == {s[n] : n \in 1 .. Len(s)}
  <2>2. T \subseteq S
    OBVIOUS
  <2> HIDE DEF S, T
  <2>3. s \in Seq(T) => s \in Seq(S)
    BY <2>2
  <2> QED
    BY <2>1, <2>3 DEF T
<1>2. m \in S
  OBVIOUS
<1> HIDE DEF S
<1>3. /\ Append(s, m) \in Seq(S) /\ Len(Append(s, m)) = Len(s) + 1 /\ Len(s) \in Nat
      /\ \A k \in 1 .. Len(s) : Append(s, m)[k] = s[k]
      /\ Append(s, m)[Len(s) + 1] = m
      /\ Append(s, m) # <<>> /\ s \o <<m>> = Append(s, m)
  BY <1>1, <1>2
<1>4. Sequence(Append(s, m))
  BY <1>3, IsSequence
<1> QED
  BY <1>3, <1>4

\* What a joined sequence holds.
LEMMA JoinIs ==
    ASSUME NEW s, NEW t, Sequence(s), Sequence(t)
    PROVE  /\ Sequence(s \o t) /\ Len(s \o t) = Len(s) + Len(t)
           /\ Len(s) \in Nat /\ Len(t) \in Nat
           /\ \A k \in 1 .. Len(s) : (s \o t)[k] = s[k]
           /\ \A k \in 1 .. Len(t) : (s \o t)[Len(s) + k] = t[k]
           /\ \A k \in 1 .. Len(s \o t) :
                 \/ k \in 1 .. Len(s)
                 \/ k - Len(s) \in 1 .. Len(t) /\ (s \o t)[k] = t[k - Len(s)]
<1> DEFINE A == {s[n] : n \in 1 .. Len(s)}
           B == {t[n] : n \in 1 .. Len(t)}
           S == A \cup B
<1>1. s \in Seq(A) /\ t \in Seq(B) /\ A \subseteq S /\ B \subseteq S
  BY DEF Sequence
<1> HIDE DEF A, B, S
<1>2. s \in Seq(S) /\ t \in Seq(S)
  BY <1>1
<1>3. /\ s \o t \in Seq(S) /\ Len(s \o t) = Len(s) + Len(t)
      /\ Len(s) \in Nat /\ Len(t) \in Nat
      /\ \A k \in 1 .. Len(s) + Len(t) :
            (s \o t)[k] = IF k <= Len(s) THEN s[k] ELSE t[k - Len(s)]
  BY <1>2
<1>4. Sequence(s \o t)
  BY <1>3, IsSequence
<1>5. /\ \A k \in 1 .. Len(s) : (s \o t)[k] = s[k]
      /\ \A k \in 1 .. Len(t) : (s \o t)[Len(s) + k] = t[k]
  BY <1>3
<1>6. \A k \in 1 .. Len(s \o t) :
         \/ k \in 1 .. Len(s)
         \/ k - Len(s) \in 1 .. Len(t) /\ (s \o t)[k] = t[k - Len(s)]
  BY <1>3
<1> QED
  BY <1>3, <1>4, <1>5, <1>6

\* What is left when the first element is taken.
LEMMA TailIs ==
    ASSUME NEW s, Sequence(s), s # <<>>
    PROVE  /\ Sequence(Tail(s)) /\ Len(s) \in Nat \ {0} /\ Len(Tail(s)) = Len(s) - 1
           /\ \A k \in 1 .. Len(s) - 1 : Tail(s)[k] = s[k + 1]
           /\ Head(s) = s[1]
<1> DEFINE S == {s[n] : n \in 1 .. Len(s)}
<1>1. s \in Seq(S)
  BY DEF Sequence
<1> HIDE DEF S
<1>2. /\ Tail(s) \in Seq(S) /\ Len(s) \in Nat \ {0} /\ Len(Tail(s)) = Len(s) - 1
      /\ \A k \in 1 .. Len(s) - 1 : Tail(s)[k] = s[k + 1]
      /\ Head(s) = s[1]
  BY <1>1
<1>3. Sequence(Tail(s))
  BY <1>2, IsSequence
<1> QED
  BY <1>2, <1>3

\* The shortest sequences.
LEMMA ShortIs ==
    /\ Sequence(<<>>) /\ Len(<<>>) = 0
    /\ \A m : Sequence(<<m>>) /\ Len(<<m>>) = 1 /\ <<m>>[1] = m /\ <<m>> # <<>>
              /\ Tail(<<m>>) = <<>> /\ Head(<<m>>) = m
    /\ \A s : Sequence(s) => /\ Len(s) \in Nat /\ s \o <<>> = s /\ (s = <<>> <=> Len(s) = 0)
                             /\ <<>> \o s = s
<1>1. Sequence(<<>>) /\ Len(<<>>) = 0
  <2>1. <<>> \in Seq({}) /\ Len(<<>>) = 0
    OBVIOUS
  <2> QED
    BY <2>1, IsSequence
<1>2. ASSUME NEW m
      PROVE  Sequence(<<m>>) /\ Len(<<m>>) = 1 /\ <<m>>[1] = m /\ <<m>> # <<>>
             /\ Tail(<<m>>) = <<>> /\ Head(<<m>>) = m
  <2>1. /\ <<m>> \in Seq({m}) /\ Len(<<m>>) = 1 /\ <<m>>[1] = m /\ <<m>> # <<>>
        /\ Tail(<<m>>) = <<>> /\ Head(<<m>>) = m
    OBVIOUS
  <2> QED
    BY <2>1, IsSequence
<1>3. ASSUME NEW s, Sequence(s)
      PROVE  /\ Len(s) \in Nat /\ s \o <<>> = s /\ (s = <<>> <=> Len(s) = 0)
             /\ <<>> \o s = s
  <2> DEFINE S == {s[n] : n \in 1 .. Len(s)}
  <2>1. s \in Seq(S)
    BY <1>3 DEF Sequence
  <2> HIDE DEF S
  <2> QED
    BY <2>1
<1> QED
  BY <1>1, <1>2, <1>3

-----------------------------------------------------------------------------
(***************************************************************************)
(* The shape of the state.                                                 *)
(***************************************************************************)
Headers == [file : Files \cup {<<>>, <<"garbled">>, <<"unread">>},
            target : Chips \cup {Unknown}]

States == {"Drain", "StrandedProbe", "FillFlush", "Redrain", "AwaitReady", "AwaitVersion",
           "Line", "AbortSettle", "Done"}

\* Why an update may fail before its first record is sent, and after.
Refusals == {"BootloaderEntryTimeout", "VersionUnreadable", "VersionUnsupported",
             "ChipMismatch"}
Failures == {"EndedWithoutCompletion", "LineRejected", "NoResponse", "ImageUnreadable"}
Outcomes == {"None", "SerialNeverQuiet", "Updated"} \cup Refusals \cup Failures

Flashers == [st : States, kind : Outcomes, line : Nat, round : Nat, index : Nat,
             written : Nat, image : Headers]

Stagers == [target : Chips \cup {Unknown}, lastWasEof : BOOLEAN, lines : Nat,
            refused : BOOLEAN]

Uploads == [doing : {"upload"}, file : Files, at : Nat, stager : Stagers, alone : BOOLEAN]
Jobs == {Idle, [doing |-> "ota"]} \cup Uploads

\* The TNC is a record with these fields, whatever its settings are.
IsTnc(t) ==
    /\ t = [chip |-> t.chip, mode |-> t.mode, intact |-> t.intact,
            supported |-> t.supported, got |-> t.got, running |-> t.running,
            stored |-> t.stored, params |-> t.params]
    /\ t.chip \in Chips /\ t.mode \in {"kiss", "boot", "dead"} /\ t.intact \in BOOLEAN
    /\ Sequence(t.got)

WireTypes ==
    /\ Sequence(tx) /\ Sequence(rx)
    /\ IsTnc(tnc)
    /\ fl \in Flashers
    /\ updating \in BOOLEAN /\ (~Over(fl) => updating)

StoreTypes ==
    /\ Sequence(cmds)
    /\ hdr \in Headers /\ staged \in Headers
    /\ job \in [Http -> Jobs]
    /\ data = [k \in 1 .. MaxLines |-> data[k]]

TypeOK == WireTypes /\ StoreTypes

-----------------------------------------------------------------------------
(***************************************************************************)
(* What the serial task does with a byte or a deadline of an update.       *)
(***************************************************************************)
Silent(f) == fl' = f /\ tx' = tx
Says(f, op) == fl' = f /\ tx' = Append(tx, Send(op))

\* A record of the store goes out, or is not there.
SendsLine(f, i) ==
    \/ /\ ~taken /\ data[i + 1] # Erased
       /\ fl' = f /\ tx' = Append(tx, [op |-> "Line", line |-> data[i + 1]])
    \/ /\ taken \/ data[i + 1] = Erased
       /\ Silent([f EXCEPT !.st = "Done", !.kind = "ImageUnreadable", !.line = f.index + 1])

\* Performing nothing.
LEMMA PerformNothing ==
    ASSUME Sequence(tx), NEW s, s.sends = <<>>, Perform(s)
    PROVE  Silent(s.fl)
BY ShortIs DEF Perform, Silent

\* Performing a write.
LEMMA PerformSend ==
    ASSUME Sequence(tx), NEW s, NEW op, op # "SendLine", s.sends = <<Send(op)>>, Perform(s)
    PROVE  Says(s.fl, op)
<1>1. s.sends # <<>> /\ s.sends[1].op = op
  BY DEF Send
<1>2. fl' = s.fl /\ tx' = tx \o <<Send(op)>>
  BY <1>1 DEF Perform
<1>3. tx \o <<Send(op)>> = Append(tx, Send(op))
  BY AppendIs
<1> QED
  BY <1>2, <1>3 DEF Says

\* Performing a line of the image.
LEMMA PerformLine ==
    ASSUME Sequence(tx), NEW s, NEW i, s.sends = <<SendLine(i)>>, Perform(s)
    PROVE  SendsLine(s.fl, i)
<1>1. s.sends # <<>> /\ s.sends[1].op = "SendLine" /\ s.sends[1].index = i
  BY DEF SendLine
<1>2. IF NextLine(i) = Erased
      THEN fl' = FailWriting(s.fl, "ImageUnreadable").fl /\ tx' = tx
      ELSE fl' = s.fl /\ tx' = Append(tx, [op |-> "Line", line |-> NextLine(i)])
  BY <1>1 DEF Perform
<1>3. FailWriting(s.fl, "ImageUnreadable").fl
      = [s.fl EXCEPT !.st = "Done", !.kind = "ImageUnreadable", !.line = s.fl.index + 1]
  BY DEF FailWriting, Step, At
<1>4. NextLine(i) = IF taken \/ data[i + 1] = Erased THEN Erased ELSE data[i + 1]
  BY DEF NextLine
<1> QED
  BY <1>2, <1>3, <1>4 DEF SendsLine, Silent

\* The flasher before any line has been answered.
BytesBefore(b, long) ==
    \/ /\ fl.st \in {"Drain", "Redrain"} /\ ~long /\ Silent(fl)
    \/ /\ fl.st \in {"Drain", "Redrain"} /\ long
       /\ Silent([fl EXCEPT !.st = "Done", !.kind = "SerialNeverQuiet"])
    \/ /\ fl.st \in {"StrandedProbe", "AwaitReady"} /\ b = "K"
       /\ Says([fl EXCEPT !.st = "AwaitVersion"], "Version")
    \/ /\ fl.st = "StrandedProbe" /\ b # "K"
       /\ Says([fl EXCEPT !.st = "FillFlush", !.round = 0], "GetAll")
    \/ /\ fl.st = "AwaitReady" /\ b # "K" /\ Silent(fl)
    \/ /\ fl.st \in {"FillFlush", "AbortSettle", "Done"} /\ Silent(fl)

ByteOfVersion(b) ==
    /\ fl.st = "AwaitVersion"
    /\ \/ b = "K" /\ Silent(fl)
       \/ ChipOf(b) = fl.image.target /\ SendsLine([fl EXCEPT !.st = "Line"], 0)
       \/ /\ b # "K" /\ (ChipOf(b) = fl.image.target => ChipOf(b) = Unknown)
          /\ \E kind \in {"VersionUnsupported", "ChipMismatch"} :
                Says([fl EXCEPT !.st = "AbortSettle", !.kind = kind], "Reset")

ByteOfLine(b) ==
    /\ fl.st = "Line"
    /\ \/ /\ b = "K" /\ fl.index + 1 < Len(fl.image.file)
          /\ SendsLine([fl EXCEPT !.written = @ + 1, !.index = @ + 1], fl.index + 1)
       \/ /\ b = "K" /\ ~(fl.index + 1 < Len(fl.image.file))
          /\ Silent([fl EXCEPT !.written = @ + 1, !.st = "Done",
                               !.kind = "EndedWithoutCompletion", !.line = fl.index + 1])
       \/ /\ b = "Z"
          /\ Silent([fl EXCEPT !.written = @ + 1, !.st = "Done", !.kind = "Updated"])
       \/ /\ b \notin {"K", "Z"}
          /\ Silent([fl EXCEPT !.st = "Done", !.kind = "LineRejected",
                               !.line = fl.index + 1])

\* A byte is one of these steps.
LEMMA OnByteIs ==
    ASSUME TypeOK, Constants, NEW b, NEW long \in BOOLEAN, Perform(OnByte(fl, b, long))
    PROVE  BytesBefore(b, long) \/ ByteOfVersion(b) \/ ByteOfLine(b)
<1> USE DEF At, Step
<1>1. Sequence(tx) /\ fl \in Flashers /\ fl.st \in States /\ fl.index \in Nat
  BY DEF TypeOK, WireTypes, Flashers
<1>2. CASE fl.st \in {"Drain", "Redrain"} /\ long
  <2>1. OnByte(fl, b, long) = FailBeforeWriting(fl, "SerialNeverQuiet")
    BY <1>2 DEF OnByte
  <2>2. /\ OnByte(fl, b, long).sends = <<>>
        /\ OnByte(fl, b, long).fl = [fl EXCEPT !.st = "Done", !.kind = "SerialNeverQuiet"]
    BY <1>1, <2>1 DEF FailBeforeWriting, Flashers
  <2> QED
    BY <1>1, <1>2, <2>2, PerformNothing DEF BytesBefore
<1>3. CASE fl.st \in {"Drain", "Redrain"} /\ ~long
  <2>1. OnByte(fl, b, long) = Step(fl, <<>>)
    BY <1>3 DEF OnByte
  <2> QED
    BY <1>1, <1>3, <2>1, PerformNothing DEF BytesBefore
<1>4. CASE fl.st \in {"StrandedProbe", "AwaitReady"} /\ b = "K"
  <2>1. OnByte(fl, b, long) = Step(At(fl, "AwaitVersion"), <<Send("Version")>>)
    <3>1. CASE fl.st = "StrandedProbe"
      BY <1>4, <3>1 DEF OnByte
    <3>2. CASE fl.st = "AwaitReady"
      BY <1>4, <3>2 DEF OnByte
    <3> QED
      BY <1>4, <3>1, <3>2
  <2> QED
    BY <1>1, <1>4, <2>1, PerformSend DEF BytesBefore
<1>5. CASE fl.st = "StrandedProbe" /\ b # "K"
  <2>1. OnByte(fl, b, long) = BeginFillFlush(fl)
    BY <1>5 DEF OnByte
  <2>2. /\ OnByte(fl, b, long).sends = <<Send("GetAll")>>
        /\ OnByte(fl, b, long).fl = [fl EXCEPT !.st = "FillFlush", !.round = 0]
    BY <1>1, <2>1 DEF BeginFillFlush, Flashers
  <2> QED
    BY <1>1, <1>5, <2>2, PerformSend DEF BytesBefore
<1>6. CASE \/ fl.st = "AwaitReady" /\ b # "K"
           \/ fl.st \in {"FillFlush", "AbortSettle", "Done"}
  <2>1. OnByte(fl, b, long) = Step(fl, <<>>)
    BY <1>6 DEF OnByte
  <2> QED
    BY <1>1, <1>6, <2>1, PerformNothing DEF BytesBefore
<1>7. CASE fl.st = "AwaitVersion"
  <2>1. OnByte(fl, b, long) = OnVersion(fl, b)
    BY <1>7 DEF OnByte
  <2>2. CASE OnVersion(fl, b) = Step(fl, <<>>) /\ b = "K"
    BY <1>1, <1>7, <2>1, <2>2, PerformNothing DEF ByteOfVersion
  <2>3. CASE OnVersion(fl, b) = Step(At(fl, "Line"), <<SendLine(0)>>)
             /\ ChipOf(b) = fl.image.target
    BY <1>1, <1>7, <2>1, <2>3, PerformLine DEF ByteOfVersion
  <2>4. ASSUME NEW kind \in {"VersionUnsupported", "ChipMismatch"},
               OnVersion(fl, b) = FailBeforeWriting(fl, kind),
               b # "K", ChipOf(b) = fl.image.target => ChipOf(b) = Unknown
        PROVE  ByteOfVersion(b)
    <3>1. /\ OnByte(fl, b, long).sends = <<Send("Reset")>>
          /\ OnByte(fl, b, long).fl = [fl EXCEPT !.st = "AbortSettle", !.kind = kind]
      BY <1>1, <2>1, <2>4 DEF FailBeforeWriting, Flashers
    <3>2. Says([fl EXCEPT !.st = "AbortSettle", !.kind = kind], "Reset")
      BY <1>1, <3>1, PerformSend
    <3> QED
      BY <1>7, <2>4, <3>2 DEF ByteOfVersion
  <2>5. CASE b = "K"
    <3>1. \/ OnVersion(fl, b) = Step(fl, <<>>)
          \/ /\ OnVersion(fl, b) = Step(At(fl, "Line"), <<SendLine(0)>>)
             /\ ChipOf(b) = fl.image.target
      BY <2>5 DEF OnVersion
    <3> QED
      BY <2>2, <2>3, <2>5, <3>1
  <2>6. CASE b # "K" /\ ChipOf(b) = fl.image.target /\ ChipOf(b) # Unknown
    BY <2>3, <2>6 DEF OnVersion
  <2>7. CASE b # "K" /\ ChipOf(b) = fl.image.target /\ ChipOf(b) = Unknown
    <3>1. \/ OnVersion(fl, b) = Step(At(fl, "Line"), <<SendLine(0)>>)
          \/ OnVersion(fl, b) = FailBeforeWriting(fl, "VersionUnsupported")
      BY <2>7 DEF OnVersion
    <3> QED
      BY <2>3, <2>4, <2>7, <3>1
  <2>8. CASE b # "K" /\ ChipOf(b) # fl.image.target
    <3>1. \E kind \in {"VersionUnsupported", "ChipMismatch"} :
             OnVersion(fl, b) = FailBeforeWriting(fl, kind)
      BY <2>8 DEF OnVersion
    <3> QED
      BY <2>4, <2>8, <3>1
  <2> QED
    BY <2>5, <2>6, <2>7, <2>8
<1>8. CASE fl.st = "Line"
  <2> DEFINE counted == [fl EXCEPT !.written = @ + 1]
             room == fl.index + 1 < Len(fl.image.file)
  <2>0. /\ Len(fl.image.file) \in Nat /\ counted.index = fl.index
        /\ (fl.index + 1 >= Len(fl.image.file)) = ~room
    BY <1>1 DEF Flashers, Headers, Constants, FileAssumption, Kinds
  <2>1. OnByte(fl, b, long) = OnLineReply(fl, b)
    BY <1>8 DEF OnByte
  <2>2. CASE b = "K" /\ fl.index + 1 < Len(fl.image.file)
    <3>1. OnLineReply(fl, b)
          = Step([counted EXCEPT !.index = @ + 1], <<SendLine(fl.index + 1)>>)
      BY <2>0, <2>2 DEF OnLineReply
    <3>2. /\ OnByte(fl, b, long).sends = <<SendLine(fl.index + 1)>>
          /\ OnByte(fl, b, long).fl = [fl EXCEPT !.written = @ + 1, !.index = @ + 1]
      BY <1>1, <2>1, <3>1 DEF Flashers
    <3> QED
      BY <1>1, <1>8, <2>2, <3>2, PerformLine DEF ByteOfLine
  <2>3. CASE b = "K" /\ ~(fl.index + 1 < Len(fl.image.file))
    <3>1. OnLineReply(fl, b) = FailWriting(counted, "EndedWithoutCompletion")
      BY <2>0, <2>3 DEF OnLineReply
    <3>2. /\ OnByte(fl, b, long).sends = <<>>
          /\ OnByte(fl, b, long).fl
             = [fl EXCEPT !.written = @ + 1, !.st = "Done",
                          !.kind = "EndedWithoutCompletion", !.line = fl.index + 1]
      BY <1>1, <2>0, <2>1, <3>1 DEF Flashers, FailWriting
    <3> QED
      BY <1>1, <1>8, <2>3, <3>2, PerformNothing DEF ByteOfLine
  <2>4. CASE b = "Z"
    <3>1. OnLineReply(fl, b) = Step([At(counted, "Done") EXCEPT !.kind = "Updated"], <<>>)
      BY <2>4 DEF OnLineReply
    <3>2. /\ OnByte(fl, b, long).sends = <<>>
          /\ OnByte(fl, b, long).fl
             = [fl EXCEPT !.written = @ + 1, !.st = "Done", !.kind = "Updated"]
      BY <1>1, <2>1, <3>1 DEF Flashers
    <3> QED
      BY <1>1, <1>8, <2>4, <3>2, PerformNothing DEF ByteOfLine
  <2>5. CASE b \notin {"K", "Z"}
    <3>1. OnLineReply(fl, b) = FailWriting(fl, "LineRejected")
      BY <2>5 DEF OnLineReply
    <3>2. /\ OnByte(fl, b, long).sends = <<>>
          /\ OnByte(fl, b, long).fl
             = [fl EXCEPT !.st = "Done", !.kind = "LineRejected", !.line = fl.index + 1]
      BY <1>1, <2>1, <3>1 DEF Flashers, FailWriting
    <3> QED
      BY <1>1, <1>8, <2>5, <3>2, PerformNothing DEF ByteOfLine
  <2> QED
    BY <2>2, <2>3, <2>4, <2>5
<1> QED
  BY <1>1, <1>2, <1>3, <1>4, <1>5, <1>6, <1>7, <1>8 DEF States

\* A deadline is one of these.
Deadline ==
    \/ fl.st = "Drain" /\ Says([fl EXCEPT !.st = "StrandedProbe"], "Reset")
    \/ fl.st = "StrandedProbe" /\ Says([fl EXCEPT !.st = "FillFlush", !.round = 0], "GetAll")
    \/ /\ fl.st = "FillFlush"
       /\ \/ Says([fl EXCEPT !.round = @ + 1], "GetAll")
          \/ Silent([fl EXCEPT !.st = "Redrain"])
    \/ fl.st = "Redrain" /\ Says([fl EXCEPT !.st = "AwaitReady"], "Entry")
    \/ /\ fl.st = "AwaitReady"
       /\ Says([fl EXCEPT !.st = "Done", !.kind = "BootloaderEntryTimeout"], "Reset")
    \/ /\ fl.st = "AwaitVersion"
       /\ Says([fl EXCEPT !.st = "Done", !.kind = "VersionUnreadable"], "Reset")
    \/ /\ fl.st = "Line"
       /\ Silent([fl EXCEPT !.st = "Done", !.kind = "NoResponse", !.line = fl.index + 1])
    \/ fl.st = "AbortSettle" /\ Silent([fl EXCEPT !.st = "Done"])
    \/ fl.st = "Done" /\ Silent(fl)

LEMMA OnTimeIs ==
    ASSUME TypeOK, Perform(OnTime(fl))
    PROVE  Deadline
<1> USE DEF At, Step, Discarding
<1>1. Sequence(tx) /\ fl \in Flashers /\ fl.st \in States /\ fl.index \in Nat
  BY DEF TypeOK, WireTypes, Flashers
<1>2. CASE fl.st = "Drain"
  <2>1. OnTime(fl) = Step(At(fl, "StrandedProbe"), <<Send("Reset")>>)
    BY <1>2 DEF OnTime
  <2> QED
    BY <1>1, <1>2, <2>1, PerformSend DEF Deadline
<1>3. CASE fl.st = "StrandedProbe"
  <2>1. OnTime(fl) = BeginFillFlush(fl)
    BY <1>3 DEF OnTime
  <2>2. /\ OnTime(fl).sends = <<Send("GetAll")>>
        /\ OnTime(fl).fl = [fl EXCEPT !.st = "FillFlush", !.round = 0]
    BY <1>1, <2>1 DEF BeginFillFlush, Flashers
  <2> QED
    BY <1>1, <1>3, <2>2, PerformSend DEF Deadline
<1>4. CASE fl.st = "FillFlush"
  <2>1. \/ OnTime(fl) = Discarding([fl EXCEPT !.round = @ + 1], <<Send("GetAll")>>)
        \/ OnTime(fl) = Discarding(At(fl, "Redrain"), <<>>)
    BY <1>4 DEF OnTime
  <2>2. CASE OnTime(fl) = Discarding([fl EXCEPT !.round = @ + 1], <<Send("GetAll")>>)
    BY <1>1, <1>4, <2>2, PerformSend DEF Deadline
  <2>3. CASE OnTime(fl) = Discarding(At(fl, "Redrain"), <<>>)
    BY <1>1, <1>4, <2>3, PerformNothing DEF Deadline
  <2> QED
    BY <2>1, <2>2, <2>3
<1>5. CASE fl.st = "Redrain"
  <2>1. OnTime(fl) = Step(At(fl, "AwaitReady"), <<Send("Entry")>>)
    BY <1>5 DEF OnTime
  <2> QED
    BY <1>1, <1>5, <2>1, PerformSend DEF Deadline
<1>6. CASE fl.st = "AwaitReady"
  <2>1. OnTime(fl) = FailBeforeWriting(fl, "BootloaderEntryTimeout")
    BY <1>6 DEF OnTime
  <2>2. /\ OnTime(fl).sends = <<Send("Reset")>>
        /\ OnTime(fl).fl = [fl EXCEPT !.st = "Done", !.kind = "BootloaderEntryTimeout"]
    BY <1>1, <2>1 DEF FailBeforeWriting, Flashers
  <2> QED
    BY <1>1, <1>6, <2>2, PerformSend DEF Deadline
<1>7. CASE fl.st = "AwaitVersion"
  <2>1. OnTime(fl) = FailBeforeWriting(fl, "VersionUnreadable")
    BY <1>7 DEF OnTime
  <2>2. /\ OnTime(fl).sends = <<Send("Reset")>>
        /\ OnTime(fl).fl = [fl EXCEPT !.st = "Done", !.kind = "VersionUnreadable"]
    BY <1>1, <2>1 DEF FailBeforeWriting, Flashers
  <2> QED
    BY <1>1, <1>7, <2>2, PerformSend DEF Deadline
<1>8. CASE fl.st = "Line"
  <2>1. OnTime(fl) = FailWriting(fl, "NoResponse")
    BY <1>8 DEF OnTime
  <2>2. /\ OnTime(fl).sends = <<>>
        /\ OnTime(fl).fl = [fl EXCEPT !.st = "Done", !.kind = "NoResponse",
                                      !.line = fl.index + 1]
    BY <1>1, <2>1 DEF FailWriting, Flashers
  <2> QED
    BY <1>1, <1>8, <2>2, PerformNothing DEF Deadline
<1>9. CASE fl.st = "AbortSettle"
  <2>1. OnTime(fl) = Step(At(fl, "Done"), <<>>)
    BY <1>9 DEF OnTime
  <2> QED
    BY <1>1, <1>9, <2>1, PerformNothing DEF Deadline
<1>10. CASE fl.st = "Done"
  <2>1. OnTime(fl) = Step(fl, <<>>)
    BY <1>10 DEF OnTime
  <2> QED
    BY <1>1, <1>10, <2>1, PerformNothing DEF Deadline
<1> QED
  BY <1>1, <1>2, <1>3, <1>4, <1>5, <1>6, <1>7, <1>8, <1>9, <1>10 DEF States

-----------------------------------------------------------------------------
(***************************************************************************)
(* What the serial task sends while it runs KISS: nothing a bootloader     *)
(* would take for a part of an update.                                     *)
(***************************************************************************)
Talk == {"GetAll", "SetHw", "Params"}
Chat(s) == Sequence(s) /\ \A k \in 1 .. Len(s) : s[k].op \in Talk

\* u is t, and more talk.
Extends(t, u) ==
    /\ Sequence(u) /\ Len(t) <= Len(u)
    /\ \A k \in 1 .. Len(t) : u[k] = t[k]
    /\ \A k \in Len(t) + 1 .. Len(u) : u[k].op \in Talk

LEMMA ExtendsItself ==
    ASSUME NEW t, Sequence(t)
    PROVE  Extends(t, t)
BY ShortIs DEF Extends

LEMMA ExtendsMore ==
    ASSUME NEW t, NEW u, NEW s, Sequence(t), Extends(t, u), Chat(s)
    PROVE  Extends(t, u \o s)
<1>1. /\ Sequence(t) /\ Sequence(u) /\ Sequence(s)
      /\ Len(t) \in Nat /\ Len(u) \in Nat /\ Len(s) \in Nat
  BY ShortIs DEF Extends, Chat
<1>2. Sequence(u \o s) /\ Len(t) <= Len(u \o s)
  BY <1>1, JoinIs DEF Extends
<1>3. \A k \in 1 .. Len(t) : (u \o s)[k] = t[k]
  BY <1>1, JoinIs DEF Extends
<1>4. ASSUME NEW k \in Len(t) + 1 .. Len(u \o s)
      PROVE  (u \o s)[k].op \in Talk
  <2>1. k \in 1 .. Len(u \o s) /\ Len(u \o s) \in Nat
    BY <1>1, JoinIs
  <2>2. CASE k \in 1 .. Len(u)
    BY <1>1, <2>2, JoinIs DEF Extends
  <2>3. CASE k \notin 1 .. Len(u)
    BY <1>1, <2>1, <2>3, JoinIs DEF Chat
  <2> QED
    BY <2>2, <2>3
<1> QED
  BY <1>2, <1>3, <1>4 DEF Extends

LEMMA ExtendsAppended ==
    ASSUME NEW t, NEW m, Sequence(t), m.op \in Talk
    PROVE  Extends(t, Append(t, m))
BY AppendIs, ShortIs DEF Extends

\* Everything a change of mode or of the parameters sends is talk.
LEMMA SetterChats ==
    /\ \A s : Chat(SendParams(s))
    /\ \A mode, persist : Chat(StartMode(mode, persist).sends)
    /\ \A j : Chat(OnSetterTime(j).sends)
    /\ \A j, r : Chat(OnStatus(j, r).sends)
    /\ Chat(Applied.sends)
    /\ \A moved : Chat(AfterMode(moved))
<1>1. Chat(<<>>) /\ \A m : m.op \in Talk => Chat(<<m>>)
  BY ShortIs DEF Chat
<1>2. ASSUME NEW s
      PROVE  Chat(SendParams(s))
  BY <1>1 DEF SendParams, Talk
<1>3. ASSUME NEW mode, NEW persist
      PROVE  Chat(StartMode(mode, persist).sends)
  BY <1>1 DEF StartMode, Moved, SetHw, Talk
<1>4. ASSUME NEW j
      PROVE  Chat(NextAttempt(j).sends)
  <2>1. NextAttempt(j).sends = <<>> \/ \E i : NextAttempt(j).sends = <<SetHw(i)>>
    BY DEF NextAttempt, Moved, Ended
  <2>2. \A i : SetHw(i).op \in Talk
    BY DEF SetHw, Talk
  <2> QED
    BY <1>1, <2>1, <2>2
<1>5. ASSUME NEW j
      PROVE  Chat(OnSetterTime(j).sends)
  <2>1. CASE j.phase = "Settling"
    BY <1>1, <2>1 DEF OnSetterTime, Moved, Talk
  <2>2. CASE j.phase = "AwaitingReadback"
    BY <1>4, <2>2 DEF OnSetterTime
  <2>3. CASE j.phase \notin {"Settling", "AwaitingReadback"}
    BY <1>1, <2>3 DEF OnSetterTime, Moved
  <2> QED
    BY <2>1, <2>2, <2>3
<1>6. ASSUME NEW j, NEW r
      PROVE  Chat(OnStatus(j, r).sends)
  <2> DEFINE heard == j.phase = "AwaitingReadback"
             same == r.mode = j.mode
  <2>0. \A o : Ended(j, o).sends = <<>>
    BY DEF Ended, Moved
  <2>1. CASE ~heard
    BY <1>1, <2>1 DEF OnStatus, Moved
  <2>2. CASE heard /\ ~r.supported
    BY <1>1, <2>0, <2>2 DEF OnStatus
  <2>3. CASE heard /\ r.supported /\ same
    BY <1>1, <2>0, <2>3 DEF OnStatus
  <2>4. CASE heard /\ r.supported /\ ~same /\ ~r.software
    BY <1>1, <2>0, <2>4 DEF OnStatus
  <2>5. CASE heard /\ r.supported /\ ~same /\ r.software
    BY <1>4, <2>5 DEF OnStatus
  <2> QED
    BY <2>1, <2>2, <2>3, <2>4, <2>5
<1>7. Chat(Applied.sends)
  BY <1>1, <1>3 DEF Applied, Moved
<1>8. ASSUME NEW moved
      PROVE  Chat(AfterMode(moved))
  BY <1>1, <1>2 DEF AfterMode
<1> QED
  BY <1>2, <1>3, <1>5, <1>6, <1>7, <1>8

\* A step of the serial task that is none of an update.
Chatter ==
    /\ Over(fl) /\ updating' = FALSE
    /\ UNCHANGED <<fl, tnc, hdr, data, taken, staged, job, flash>>
    /\ Extends(tx, tx')
    /\ rx' = rx \/ (rx # <<>> /\ rx' = Tail(rx))
    /\ cmds' = cmds \/ (cmds # <<>> /\ cmds' = Tail(cmds))

KissStep ==
    \/ SetMode \/ SetParams \/ Refresh \/ SetterDeadline
    \/ HearReport \/ HearOther \/ AskAgain \/ EndUpdate

LEMMA KissChatters ==
    ASSUME TypeOK, KissStep
    PROVE  Chatter
<1> USE DEF store, setup, node, line, world
<1>1. Sequence(tx) /\ updating \in BOOLEAN /\ (~updating => Over(fl))
  BY DEF TypeOK, WireTypes
<1>2. Extends(tx, tx)
  BY <1>1, ExtendsItself
<1>3. ASSUME NEW s, Chat(s)
      PROVE  Extends(tx, tx \o s)
  BY <1>1, <1>2, <1>3, ExtendsMore
<1>4. ASSUME NEW moved, Chat(moved.sends), Advance(moved)
      PROVE  Extends(tx, tx')
  <2>1. Extends(tx, tx \o moved.sends)
    BY <1>3, <1>4
  <2>2. Extends(tx, tx \o moved.sends \o AfterMode(moved))
    BY <1>1, <2>1, ExtendsMore, SetterChats
  <2> QED
    BY <1>4, <2>2 DEF Advance
<1>5. CASE SetMode
  <2>1. Extends(tx, tx')
    <3>1. CASE link.supported
      BY <1>3, <1>5, <3>1, SetterChats DEF SetMode
    <3>2. CASE ~link.supported
      BY <1>2, <1>5, <3>2 DEF SetMode
    <3> QED
      BY <3>1, <3>2
  <2> QED
    BY <1>1, <1>5, <2>1 DEF SetMode, Chatter
<1>6. CASE SetParams
  <2>1. Extends(tx, tx')
    <3>1. CASE link.supported
      BY <1>3, <1>6, <3>1, SetterChats DEF SetParams
    <3>2. CASE ~link.supported
      BY <1>2, <1>6, <3>2 DEF SetParams
    <3> QED
      BY <3>1, <3>2
  <2> QED
    BY <1>1, <1>6, <2>1 DEF SetParams, Chatter
<1>7. CASE Refresh
  <2>1. Send("GetAll").op \in Talk
    BY DEF Send, Talk
  <2>2. Extends(tx, tx')
    BY <1>1, <1>7, <2>1, ExtendsAppended DEF Refresh
  <2> QED
    BY <1>1, <1>7, <2>2 DEF Refresh, Chatter
<1>8. CASE SetterDeadline
  <2>1. Advance(OnSetterTime(setter))
    BY <1>8 DEF SetterDeadline
  <2>2. Extends(tx, tx')
    BY <1>4, <2>1, SetterChats
  <2> QED
    BY <1>1, <1>8, <2>2 DEF SetterDeadline, Chatter
<1>9. CASE HearReport
  <2> DEFINE r == Head(rx)
  <2>1. Extends(tx, tx')
    <3>1. CASE BecomesSupported(r)
      <4>1. tx' = tx \o SendParams(settings) \o Applied.sends
        BY <1>9, <3>1 DEF HearReport
      <4>2. Extends(tx, tx \o SendParams(settings))
        BY <1>3, SetterChats
      <4>3. Extends(tx, tx \o SendParams(settings) \o Applied.sends)
        BY <1>1, <4>2, ExtendsMore, SetterChats
      <4> QED
        BY <4>1, <4>3
    <3>2. CASE ~BecomesSupported(r) /\ InFlight(setter)
      <4>1. Advance(OnStatus(setter, r))
        BY <1>9, <3>2 DEF HearReport
      <4> QED
        BY <1>4, <4>1, SetterChats
    <3>3. CASE ~BecomesSupported(r) /\ ~InFlight(setter)
      BY <1>2, <1>9, <3>3 DEF HearReport
    <3> QED
      BY <3>1, <3>2, <3>3
  <2> QED
    BY <1>1, <1>9, <2>1 DEF HearReport, Chatter
<1>10. CASE HearOther
  BY <1>1, <1>2, <1>10 DEF HearOther, Chatter
<1>11. CASE AskAgain
  <2>1. tx = <<>> /\ tx' = <<Send("GetAll")>>
    BY <1>11 DEF AskAgain
  <2>2. Extends(tx, tx')
    <3>1. Chat(<<Send("GetAll")>>)
      BY ShortIs DEF Chat, Talk, Send
    <3>2. tx \o <<Send("GetAll")>> = tx'
      BY <2>1, ShortIs
    <3> QED
      BY <1>3, <3>1, <3>2
  <2> QED
    BY <1>1, <1>11, <2>2 DEF AskAgain, Chatter
<1>12. CASE EndUpdate
  <2>1. Send("GetAll").op \in Talk
    BY DEF Send, Talk
  <2>2. Extends(tx, tx')
    <3>1. CASE fl.line > 0
      BY <1>2, <1>12, <3>1 DEF EndUpdate
    <3>2. CASE ~(fl.line > 0)
      BY <1>1, <1>12, <2>1, <3>2, ExtendsAppended DEF EndUpdate
    <3> QED
      BY <3>1, <3>2
  <2> QED
    BY <1>12, <2>2 DEF EndUpdate, Chatter
<1> QED
  BY <1>5, <1>6, <1>7, <1>8, <1>9, <1>10, <1>11, <1>12 DEF KissStep

-----------------------------------------------------------------------------
(***************************************************************************)
(* What the TNC does with what it is sent.                                 *)
(***************************************************************************)
TncBecomes(mode, intact, got) ==
    /\ IsTnc(tnc')
    /\ tnc'.chip = tnc.chip /\ tnc'.mode = mode /\ tnc'.intact = intact /\ tnc'.got = got

TncStays == TncBecomes(tnc.mode, tnc.intact, tnc.got)

\* An answer arrives, or is lost or garbled.
Replied(says) ==
    \/ rx' = rx \o says /\ clean' = clean
    \/ /\ says # <<>> /\ clean' = FALSE
       /\ rx' \in {rx, Append(rx, Say("N"))}

\* A record of the image, which the TNC starts after the last one.
Answered(r) ==
    LET got == Append(tnc.got, r)
        last == r.file[r.k] = "eof"
    IN  \/ /\ ~last
           /\ TncBecomes("boot", FALSE, got) /\ Replied(<<Say("K")>>)
        \/ /\ last /\ Whole(got)
           /\ TncBecomes("kiss", TRUE, got) /\ Replied(<<Say("Z")>>)
        \/ /\ last /\ ~Whole(got)
           /\ TncBecomes("dead", FALSE, got) /\ Replied(<<Say("Z")>>)

AnswerTo(m) ==
    \/ /\ tnc.mode = "kiss" /\ m.op = "GetAll"
       /\ TncStays /\ Replied(<<Report>>)
    \/ /\ tnc.mode = "kiss" /\ m.op = "Entry"
       /\ TncBecomes("boot", tnc.intact, <<>>) /\ Replied(<<Say("K")>>)
    \/ /\ tnc.mode = "boot" /\ m.op = "Reset" /\ tnc.intact
       /\ TncBecomes("kiss", tnc.intact, tnc.got) /\ Replied(<<>>)
    \/ /\ tnc.mode = "boot" /\ m.op = "Reset" /\ ~tnc.intact
       /\ TncStays /\ Replied(<<Say("K")>>)
    \/ /\ tnc.mode = "boot" /\ m.op = "Version"
       /\ TncBecomes("boot", tnc.intact, <<>>) /\ Replied(<<Say(Version)>>)
    \/ /\ tnc.mode = "boot" /\ m.op = "Line" /\ Answered(m.line)
    \/ /\ tnc.mode = "kiss" => m.op \notin {"GetAll", "Entry"}
       /\ tnc.mode = "boot" => m.op \notin {"Reset", "Version", "Line"}
       /\ TncStays /\ Replied(<<>>)

\* A change of fields leaves a TNC a TNC.
LEMMA TncFields ==
    ASSUME NEW t, IsTnc(t), NEW mode \in {"kiss", "boot", "dead"}, NEW intact \in BOOLEAN,
           NEW got, Sequence(got), NEW sup, NEW running, NEW stored, NEW params,
           NEW u, u = [chip |-> t.chip, mode |-> mode, intact |-> intact, supported |-> sup,
                       got |-> got, running |-> running, stored |-> stored,
                       params |-> params]
    PROVE  IsTnc(u)
BY DEF IsTnc

LEMMA AnswerIs ==
    ASSUME TypeOK, TncAnswers
    PROVE  AnswerTo(Head(tx))
<1> DEFINE m == Head(tx)
           answer == Answer(m)
<1>1. /\ IsTnc(tnc) /\ tnc' = answer.tnc
      /\ tnc.mode \in {"kiss", "boot", "dead"}
      /\ Sequence(<<>>)
      /\ \/ rx' = rx \o answer.says /\ clean' = clean
         \/ /\ answer.says # <<>> /\ clean' = FALSE
            /\ rx' \in {rx, Append(rx, Say("N"))}
  BY ShortIs DEF TypeOK, WireTypes, TncAnswers, IsTnc
<1>2. ASSUME NEW says, answer.says = says
      PROVE  Replied(says)
  BY <1>1, <1>2 DEF Replied
<1>3. Same.tnc = tnc /\ Same.says = <<>>
  BY DEF Same
<1>4. ASSUME answer.tnc = tnc
      PROVE  TncStays
  BY <1>1, <1>4 DEF TncStays, TncBecomes
<1>5. CASE tnc.mode = "kiss" /\ m.op = "GetAll"
  <2>1. answer = [Same EXCEPT !.says = <<Report>>]
    BY <1>5 DEF Answer
  <2>2. answer.tnc = tnc /\ answer.says = <<Report>>
    BY <2>1 DEF Same
  <2> QED
    BY <1>2, <1>4, <1>5, <2>2 DEF AnswerTo
<1>6. CASE tnc.mode = "kiss" /\ m.op = "Params"
  <2>1. answer = [Same EXCEPT !.tnc.params = m.params]
    BY <1>6 DEF Answer
  <2>2. answer.tnc = [tnc EXCEPT !.params = m.params] /\ answer.says = <<>>
    BY <2>1 DEF Same
  <2>3. TncStays
    BY <1>1, <2>2 DEF TncStays, TncBecomes, IsTnc
  <2> QED
    BY <1>2, <1>6, <2>2, <2>3 DEF AnswerTo
<1>7. CASE tnc.mode = "kiss" /\ m.op = "Entry"
  <2>1. /\ answer.tnc = [tnc EXCEPT !.mode = "boot", !.got = <<>>]
        /\ answer.says = <<Say("K")>>
    BY <1>7 DEF Answer
  <2>2. TncBecomes("boot", tnc.intact, <<>>)
    BY <1>1, <2>1 DEF TncBecomes, IsTnc
  <2> QED
    BY <1>2, <1>7, <2>1, <2>2 DEF AnswerTo
<1>8. CASE tnc.mode = "boot" /\ m.op = "Reset" /\ tnc.intact
  <2>1. answer = [Same EXCEPT !.tnc = Started(tnc)]
    BY <1>8 DEF Answer
  <2>2. answer.tnc = Started(tnc) /\ answer.says = <<>>
    BY <2>1 DEF Same
  <2>3. TncBecomes("kiss", tnc.intact, tnc.got)
    BY <1>1, <2>2 DEF TncBecomes, IsTnc, Started
  <2> QED
    BY <1>2, <1>8, <2>2, <2>3 DEF AnswerTo
<1>9. CASE tnc.mode = "boot" /\ m.op = "Reset" /\ ~tnc.intact
  <2>1. answer = [Same EXCEPT !.says = <<Say("K")>>]
    BY <1>9 DEF Answer
  <2>2. answer.tnc = tnc /\ answer.says = <<Say("K")>>
    BY <2>1 DEF Same
  <2> QED
    BY <1>2, <1>4, <1>9, <2>2 DEF AnswerTo
<1>10. CASE tnc.mode = "boot" /\ m.op = "Version"
  <2>1. /\ answer.tnc = [tnc EXCEPT !.got = <<>>]
        /\ answer.says = <<Say(Version)>>
    BY <1>10 DEF Answer
  <2>2. TncBecomes("boot", tnc.intact, <<>>)
    BY <1>1, <1>10, <2>1 DEF TncBecomes, IsTnc
  <2> QED
    BY <1>2, <1>10, <2>1, <2>2 DEF AnswerTo
<1>11. CASE tnc.mode = "boot" /\ m.op = "Line"
  <2> DEFINE got == Append(tnc.got, m.line)
             last == m.line.file[m.line.k] = "eof"
             after == [tnc EXCEPT !.intact = FALSE, !.got = got]
  <2>1. Sequence(got)
    BY <1>1, AppendIs DEF IsTnc
  <2>2. answer = IF ~last THEN [tnc |-> after, says |-> <<Say("K")>>]
                 ELSE [tnc |-> IF Whole(got)
                               THEN Started([after EXCEPT !.intact = TRUE,
                                                          !.supported = TRUE])
                               ELSE [after EXCEPT !.mode = "dead", !.supported = TRUE],
                       says |-> <<Say("Z")>>]
    BY <1>11 DEF Answer
  <2> HIDE DEF answer
  <2>3. CASE ~last
    <3>1. tnc' = after /\ answer.says = <<Say("K")>>
      BY <1>1, <2>2, <2>3
    <3>2. TncBecomes("boot", FALSE, got)
      <4> HIDE DEF got
      <4> QED
        BY <1>1, <1>11, <2>1, <3>1 DEF TncBecomes, IsTnc
    <3>3. Replied(<<Say("K")>>)
      BY <1>2, <3>1
    <3> QED
      BY <1>11, <2>3, <3>2, <3>3 DEF AnswerTo, Answered
  <2>4. CASE last /\ Whole(got)
    <3>1. /\ tnc' = Started([after EXCEPT !.intact = TRUE, !.supported = TRUE])
          /\ answer.says = <<Say("Z")>>
      BY <1>1, <2>2, <2>4
    <3>2. TncBecomes("kiss", TRUE, got)
      <4> HIDE DEF got
      <4> QED
        BY <1>1, <2>1, <3>1 DEF TncBecomes, IsTnc, Started
    <3>3. Replied(<<Say("Z")>>)
      BY <1>2, <3>1
    <3> QED
      BY <1>11, <2>4, <3>2, <3>3 DEF AnswerTo, Answered
  <2>5. CASE last /\ ~Whole(got)
    <3>1. /\ tnc' = [after EXCEPT !.mode = "dead", !.supported = TRUE]
          /\ answer.says = <<Say("Z")>>
      BY <1>1, <2>2, <2>5
    <3>2. TncBecomes("dead", FALSE, got)
      <4> HIDE DEF got
      <4> QED
        BY <1>1, <2>1, <3>1 DEF TncBecomes, IsTnc
    <3>3. Replied(<<Say("Z")>>)
      BY <1>2, <3>1
    <3> QED
      BY <1>11, <2>5, <3>2, <3>3 DEF AnswerTo, Answered
  <2> QED
    BY <2>3, <2>4, <2>5
<1>12. CASE /\ tnc.mode = "kiss" => m.op \notin {"GetAll", "Params", "Entry"}
            /\ tnc.mode = "boot" => m.op \notin {"Reset", "Version", "Line"}
  <2>1. answer = Same
    BY <1>12 DEF Answer
  <2> QED
    BY <1>2, <1>3, <1>4, <1>12, <2>1 DEF AnswerTo
<1> HIDE DEF answer
<1> QED
  BY <1>1, <1>5, <1>6, <1>7, <1>8, <1>9, <1>10, <1>11, <1>12

\* SETHW leaves what an update is about alone.
LEMMA SetsModeIs ==
    ASSUME TypeOK, TncSetsMode
    PROVE  TncStays
<1>1. IsTnc(tnc)
  BY DEF TypeOK, WireTypes
<1>2. tnc' = tnc \/ \E params : tnc' = WithMode(Head(tx), params)
  BY DEF TncSetsMode
<1>3. ASSUME NEW params, tnc' = WithMode(Head(tx), params)
      PROVE  TncStays
  BY <1>1, <1>3 DEF WithMode, TncStays, TncBecomes, IsTnc
<1> QED
  BY <1>1, <1>2, <1>3 DEF TncStays, TncBecomes

LEMMA PowerCutIs ==
    ASSUME TypeOK, TncPowerCut
    PROVE  TncBecomes(IF tnc.intact THEN "kiss" ELSE "boot", tnc.intact, <<>>)
<1>1. IsTnc(tnc) /\ Sequence(<<>>)
  BY ShortIs DEF TypeOK, WireTypes
<1>2. CASE tnc.intact
  BY <1>1, <1>2 DEF TncPowerCut, TncBecomes, IsTnc, Started
<1>3. CASE ~tnc.intact
  BY <1>1, <1>3 DEF TncPowerCut, TncBecomes, IsTnc
<1> QED
  BY <1>2, <1>3

-----------------------------------------------------------------------------
(***************************************************************************)
(* Every step keeps the shape of the state.                                *)
(***************************************************************************)
LEMMA HeadersAreTyped ==
    ASSUME Constants
    PROVE  /\ {NoImage, Garbled, Unread} \subseteq Headers
           /\ \A f \in Files, chip \in Chips \cup {Unknown} : Header(f, chip) \in Headers
           /\ NewStager \in Stagers /\ Idle \in Jobs
           /\ \A f \in Files : f \in Seq(Kinds) /\ f # <<>> /\ Len(f) \in Nat \ {0}
<1>1. \A f \in Files : f \in Seq(Kinds) /\ f # <<>>
  BY DEF Constants, FileAssumption
<1>2. ASSUME NEW f \in Files
      PROVE  Len(f) \in Nat \ {0}
  <2>1. f \in Seq(Kinds) /\ f # <<>>
    BY <1>1
  <2> HIDE DEF Kinds
  <2> QED
    BY <2>1
<1> QED
  BY <1>1, <1>2 DEF Headers, NoImage, Garbled, Unread, Header, NewStager, Stagers, Idle, Jobs

\* Every line read leaves a stager.
LEMMA EndLineTyped ==
    ASSUME NEW s \in Stagers, NEW kind, NEW room \in BOOLEAN
    PROVE  EndLine(s, kind, room) \in Stagers
<1>1. Fingerprint(kind) \in Chips \cup {Unknown}
  BY DEF Fingerprint, Chips
<1>2. CASE s.refused \/ s.lastWasEof \/ kind = "bad" \/ ~room
  BY <1>2 DEF EndLine, Stagers
<1>3. CASE ~(s.refused \/ s.lastWasEof \/ kind = "bad" \/ ~room)
  <2>1. EndLine(s, kind, room)
        = [target |-> IF s.target = Unknown THEN Fingerprint(kind) ELSE s.target,
           lastWasEof |-> kind = "eof", lines |-> s.lines + 1, refused |-> FALSE]
    BY <1>3 DEF EndLine
  <2> QED
    BY <1>1, <2>1 DEF Stagers
<1> QED
  BY <1>2, <1>3

LEMMA StartTyped ==
    ASSUME NEW image \in Headers
    PROVE  /\ Start(image).fl = [NotRun EXCEPT !.st = "Drain", !.image = image]
           /\ Start(image).fl \in Flashers
           /\ Start(image).sends = <<>>
           /\ ~Over(Start(image).fl)
BY DEF Start, Discarding, NotRun, Flashers, States, Outcomes, Over

LEMMA NotRunTyped ==
    ASSUME Constants
    PROVE  NotRun \in Flashers /\ Over(NotRun)
BY HeadersAreTyped DEF NotRun, Flashers, States, Outcomes, Over

\* A flasher with other fields.
LEMMA FlasherFields ==
    ASSUME NEW f \in Flashers, NEW st \in States, NEW kind \in Outcomes
    PROVE  /\ [f EXCEPT !.st = st] \in Flashers
           /\ [f EXCEPT !.st = st, !.round = 0] \in Flashers
           /\ [f EXCEPT !.round = @ + 1] \in Flashers
           /\ [f EXCEPT !.st = st, !.kind = kind] \in Flashers
           /\ [f EXCEPT !.st = st, !.kind = kind, !.line = f.index + 1] \in Flashers
           /\ [f EXCEPT !.written = @ + 1, !.index = @ + 1] \in Flashers
           /\ [f EXCEPT !.written = @ + 1, !.st = st, !.kind = kind] \in Flashers
           /\ [f EXCEPT !.written = @ + 1, !.st = st, !.kind = kind, !.line = f.index + 1]
              \in Flashers
<1>1. f.index + 1 \in Nat /\ f.round + 1 \in Nat /\ f.written + 1 \in Nat
  BY DEF Flashers
<1>2. [f EXCEPT !.st = st] \in Flashers
  BY DEF Flashers
<1>3. [f EXCEPT !.st = st, !.round = 0] \in Flashers
  BY DEF Flashers
<1>4. [f EXCEPT !.round = f.round + 1] \in Flashers
  BY <1>1 DEF Flashers
<1>5. [f EXCEPT !.st = st, !.kind = kind] \in Flashers
  BY DEF Flashers
<1>6. [f EXCEPT !.st = st, !.kind = kind, !.line = f.index + 1] \in Flashers
  BY <1>1 DEF Flashers
<1>7. [f EXCEPT !.written = f.written + 1, !.index = f.index + 1] \in Flashers
  BY <1>1 DEF Flashers
<1>8. [f EXCEPT !.written = f.written + 1, !.st = st, !.kind = kind] \in Flashers
  BY <1>1 DEF Flashers
<1>9. [f EXCEPT !.written = f.written + 1, !.st = st, !.kind = kind, !.line = f.index + 1]
      \in Flashers
  BY <1>1 DEF Flashers
<1> QED
  BY <1>2, <1>3, <1>4, <1>5, <1>6, <1>7, <1>8, <1>9

\* What a byte or a deadline leaves of the flasher and the line.
LEMMA PerformedTyped ==
    ASSUME TypeOK, Constants,
           Deadline \/ \E b, long : BytesBefore(b, long) \/ ByteOfVersion(b) \/ ByteOfLine(b)
    PROVE  fl' \in Flashers /\ Sequence(tx')
<1>1. Sequence(tx) /\ fl \in Flashers /\ fl.index + 1 \in Nat
  BY DEF TypeOK, WireTypes, Flashers
<1>2. ASSUME NEW f \in Flashers, Silent(f)
      PROVE  fl' \in Flashers /\ Sequence(tx')
  BY <1>1, <1>2 DEF Silent
<1>3. ASSUME NEW f \in Flashers, NEW op, Says(f, op)
      PROVE  fl' \in Flashers /\ Sequence(tx')
  BY <1>1, <1>3, AppendIs DEF Says
<1>4. ASSUME NEW f \in Flashers, NEW i, SendsLine(f, i)
      PROVE  fl' \in Flashers /\ Sequence(tx')
  <2>1. [f EXCEPT !.st = "Done", !.kind = "ImageUnreadable", !.line = f.index + 1]
        \in Flashers
    BY FlasherFields DEF States, Outcomes, Failures
  <2>2. CASE fl' = f /\ \E m : tx' = Append(tx, m)
    BY <1>1, <2>2, AppendIs
  <2>3. CASE Silent([f EXCEPT !.st = "Done", !.kind = "ImageUnreadable",
                              !.line = f.index + 1])
    BY <1>1, <2>1, <2>3 DEF Silent
  <2> QED
    BY <1>4, <2>2, <2>3 DEF SendsLine
<1>5. \A st \in States, kind \in Outcomes :
         /\ [fl EXCEPT !.st = st] \in Flashers
         /\ [fl EXCEPT !.st = st, !.kind = kind] \in Flashers
         /\ [fl EXCEPT !.st = st, !.kind = kind, !.line = fl.index + 1] \in Flashers
         /\ [fl EXCEPT !.st = st, !.round = 0] \in Flashers
         /\ [fl EXCEPT !.written = @ + 1, !.st = st, !.kind = kind] \in Flashers
         /\ [fl EXCEPT !.written = @ + 1, !.st = st, !.kind = kind,
                       !.line = fl.index + 1] \in Flashers
  BY <1>1, FlasherFields
<1>6. /\ [fl EXCEPT !.written = @ + 1, !.index = @ + 1] \in Flashers
      /\ [fl EXCEPT !.round = @ + 1] \in Flashers
  <2>1. "Done" \in States /\ "None" \in Outcomes
    BY DEF States, Outcomes
  <2> QED
    BY <1>1, <2>1, FlasherFields
<1>7. CASE Deadline
  BY <1>1, <1>2, <1>3, <1>5, <1>6, <1>7
  DEF Deadline, States, Outcomes, Refusals, Failures
<1>8. ASSUME NEW b, NEW long, BytesBefore(b, long)
      PROVE  fl' \in Flashers /\ Sequence(tx')
  BY <1>1, <1>2, <1>3, <1>5, <1>8 DEF BytesBefore, States, Outcomes
<1>9. ASSUME NEW b, ByteOfVersion(b)
      PROVE  fl' \in Flashers /\ Sequence(tx')
  <2>1. CASE Silent(fl)
    BY <1>1, <1>2, <2>1
  <2>2. CASE SendsLine([fl EXCEPT !.st = "Line"], 0)
    BY <1>4, <1>5, <2>2 DEF States, Outcomes
  <2>3. ASSUME NEW kind \in {"VersionUnsupported", "ChipMismatch"},
               Says([fl EXCEPT !.st = "AbortSettle", !.kind = kind], "Reset")
        PROVE  fl' \in Flashers /\ Sequence(tx')
    BY <1>3, <1>5, <2>3 DEF States, Outcomes, Refusals
  <2> QED
    BY <1>9, <2>1, <2>2, <2>3 DEF ByteOfVersion
<1>10. ASSUME NEW b, ByteOfLine(b)
       PROVE  fl' \in Flashers /\ Sequence(tx')
  BY <1>2, <1>4, <1>5, <1>6, <1>10 DEF ByteOfLine, States, Outcomes, Failures
<1> QED
  BY <1>7, <1>8, <1>9, <1>10

\* The steps of the HTTP tasks leave the line, the TNC and the flasher alone.
HttpStep ==
    \/ \E m \in WantedModes, persist \in BOOLEAN : PostMode(m, persist)
    \/ \E p \in Params : PostParams(p)
    \/ PostRefresh
    \/ \E h \in Http, f \in Files : BeginUpload(h, f)
    \/ \E h \in Http : PushLine(h) \/ CutShort(h) \/ TakeFlash(h)
    \/ PressUpdate

Still == UNCHANGED <<tx, rx, tnc, fl, updating>>

LEMMA HttpIsStill ==
    ASSUME HttpStep
    PROVE  Still
BY DEF HttpStep, Still, PostMode, PostParams, PostSettings, PostRefresh, BeginUpload,
       PushLine, CutShort, TakeFlash, PressUpdate, line

LEMMA SubmittedIs ==
    ASSUME Sequence(cmds), NEW cmd
    PROVE  Sequence(Submitted(cmd))
BY AppendIs DEF Submitted

LEMMA StagedImageTyped ==
    ASSUME StoreTypes, Constants
    PROVE  StagedImage \in Headers
BY HeadersAreTyped DEF StagedImage, StoredHeader, StoreTypes

\* A line of an upload is stored, and with the last one the header.
LEMMA PushLineTyped ==
    ASSUME StoreTypes, Constants, NEW h \in Http, PushLine(h)
    PROVE  StoreTypes'
<1> DEFINE j == job[h]
           k == j.at + 1
           room == k <= MaxLines /\ ~taken
           s == EndLine(j.stager, j.file[k], room)
           last == k = Len(j.file)
           header == Header(j.file, s.target)
<1>1. job \in [Http -> Jobs] /\ j \in Jobs /\ j.doing = "upload" /\ cmds' = cmds
  BY DEF StoreTypes, PushLine, Storing
<1>2. j \in Uploads
  BY <1>1 DEF Jobs, Idle
<1>3. /\ j.stager \in Stagers /\ j.file \in Files /\ j.at \in Nat /\ k \in Nat
      /\ room \in BOOLEAN
  BY <1>2 DEF Uploads
<1>4. s \in Stagers
  BY <1>3, EndLineTyped
<1>5. header \in Headers /\ hdr \in Headers /\ staged \in Headers
  BY <1>3, <1>4, HeadersAreTyped DEF Stagers, StoreTypes
<1>6. /\ hdr' \in {hdr, Programmed(header)} /\ staged' \in {staged, header}
      /\ job' = [job EXCEPT ![h] = IF last THEN Idle ELSE [j EXCEPT !.at = k, !.stager = s]]
  BY DEF PushLine
<1>7. hdr' \in Headers /\ staged' \in Headers
  BY <1>5, <1>6, HeadersAreTyped DEF Programmed
<1>8. job' \in [Http -> Jobs]
  <2> HIDE DEF s
  <2>1. [j EXCEPT !.at = k, !.stager = s] \in Uploads
    BY <1>2, <1>3, <1>4 DEF Uploads
  <2>2. (IF last THEN Idle ELSE [j EXCEPT !.at = k, !.stager = s]) \in Jobs
    BY <2>1 DEF Jobs
  <2> QED
    BY <1>1, <1>6, <2>2
<1>9. data' = [n \in 1 .. MaxLines |-> data'[n]]
  <2>1. data = [n \in 1 .. MaxLines |-> data[n]]
    BY DEF StoreTypes
  <2>2. data' = data \/ StoreLine(j, k)
    BY DEF PushLine
  <2>3. ASSUME NEW lost, NEW left,
               data' = [n \in 1 .. MaxLines |-> IF n \in lost THEN left
                          ELSE IF n = k THEN Record(j.file, k) ELSE data[n]]
        PROVE  data' = [n \in 1 .. MaxLines |-> data'[n]]
    BY <2>3
  <2> HIDE DEF k, j
  <2> QED
    BY <2>1, <2>2, <2>3 DEF StoreLine
<1> QED
  BY <1>1, <1>7, <1>8, <1>9 DEF StoreTypes

LEMMA StoreKept ==
    ASSUME StoreTypes, UNCHANGED <<hdr, staged, job, data>>, Sequence(cmds')
    PROVE  StoreTypes'
BY DEF StoreTypes

\* A task that begins to receive a file, and what the others have done until then.
LEMMA UploadTyped ==
    ASSUME Constants, job \in [Http -> Jobs], NEW h \in Http, NEW f \in Files
    PROVE  /\ WithUpload(h, f) \in [Http -> Jobs]
           /\ \A g \in Http : LET w == WithUpload(h, f)[g] IN
                 /\ w.doing = "upload" /\ g # h =>
                      /\ job[g].doing = "upload"
                      /\ w.file = job[g].file /\ w.at = job[g].at /\ w.stager = job[g].stager
                 /\ g = h => w.file = f /\ w.at = 0 /\ w.stager = NewStager
<1>1. WithUpload(h, f) =
        [g \in Http |-> IF g = h THEN [doing |-> "upload", file |-> f, at |-> 0,
                                       stager |-> NewStager, alone |-> ~Receiving]
                        ELSE IF Storing(g) THEN [job[g] EXCEPT !.alone = FALSE]
                        ELSE job[g]]
  BY DEF WithUpload
<1>2. \A a \in BOOLEAN : [doing |-> "upload", file |-> f, at |-> 0,
                           stager |-> NewStager, alone |-> a] \in Jobs
  BY HeadersAreTyped DEF Jobs, Uploads
<1>3. Receiving \in BOOLEAN
  BY DEF Receiving
<1>4. ASSUME NEW g \in Http, Storing(g)
      PROVE  LET w == [job[g] EXCEPT !.alone = FALSE]
             IN  w \in Jobs /\ w.file = job[g].file /\ w.at = job[g].at
                 /\ w.stager = job[g].stager
  <2>1. job[g] \in Uploads
    BY <1>4 DEF Storing, Jobs, Idle
  <2> QED
    BY <2>1 DEF Jobs, Uploads
<1>5. [doing |-> "upload", file |-> f, at |-> 0, stager |-> NewStager,
       alone |-> ~Receiving] \in Jobs
  BY <1>2, <1>3
<1> QED
  BY <1>1, <1>4, <1>5 DEF Storing

LEMMA HttpTyped ==
    ASSUME TypeOK, Constants, HttpStep
    PROVE  TypeOK'
<1>1. StoreTypes /\ Sequence(cmds)
  BY DEF TypeOK, StoreTypes
<1>2. WireTypes'
  BY HttpIsStill DEF TypeOK, WireTypes, Still, Over
<1> SUFFICES StoreTypes'
  BY <1>2 DEF TypeOK
<1>3. ASSUME NEW cmd, NEW wanted, PostSettings(cmd, wanted)
      PROVE  StoreTypes'
  BY <1>1, <1>3, StoreKept, SubmittedIs DEF PostSettings, store
<1>4. CASE \E m \in WantedModes, persist \in BOOLEAN : PostMode(m, persist)
  BY <1>3, <1>4 DEF PostMode
<1>5. CASE \E p \in Params : PostParams(p)
  BY <1>3, <1>5 DEF PostParams
<1>6. CASE PostRefresh
  BY <1>1, <1>6, StoreKept, SubmittedIs DEF PostRefresh, store
<1>7. ASSUME NEW h \in Http, NEW f \in Files, BeginUpload(h, f)
      PROVE  StoreTypes'
  <2>1. hdr' \in Headers /\ staged' \in Headers
    BY <1>7, HeadersAreTyped DEF BeginUpload
  <2>2. job' = WithUpload(h, f) /\ job \in [Http -> Jobs]
    BY <1>1, <1>7 DEF BeginUpload, StoreTypes
  <2>3. job' \in [Http -> Jobs]
    BY <2>2, UploadTyped
  <2>4. data' = data /\ cmds' = cmds
    BY <1>7 DEF BeginUpload
  <2> QED
    BY <1>1, <2>1, <2>3, <2>4 DEF StoreTypes
<1>8. ASSUME NEW h \in Http, PushLine(h)
      PROVE  StoreTypes'
  BY <1>1, <1>8, PushLineTyped
<1>9. ASSUME NEW h \in Http, CutShort(h) \/ TakeFlash(h)
      PROVE  StoreTypes'
  <2>1. Idle \in Jobs /\ [doing |-> "ota"] \in Jobs
    BY DEF Jobs
  <2>2. job' \in [Http -> Jobs]
    BY <1>1, <1>9, <2>1 DEF CutShort, TakeFlash, StoreTypes
  <2> QED
    BY <1>1, <1>9, <2>2 DEF CutShort, TakeFlash, StoreTypes
<1>10. CASE PressUpdate
  <2>1. staged' \in Headers
    BY <1>1, <1>10, StagedImageTyped DEF PressUpdate
  <2> QED
    BY <1>1, <1>10, <2>1, SubmittedIs DEF PressUpdate, StoreTypes
<1> QED
  BY <1>4, <1>5, <1>6, <1>7, <1>8, <1>9, <1>10 DEF HttpStep

LEMMA RestartTyped ==
    ASSUME TypeOK, Constants, Restart
    PROVE  TypeOK'
<1>1. Sequence(tx') /\ Sequence(rx') /\ Sequence(cmds')
  BY ShortIs DEF Restart
<1>2. tnc' = tnc /\ IsTnc(tnc)
  BY DEF Restart, TypeOK, WireTypes
<1>3. WireTypes'
  BY <1>1, <1>2, NotRunTyped DEF Restart, WireTypes
<1>4. job' \in [Http -> Jobs] /\ staged' \in Headers
  BY HeadersAreTyped DEF Restart
<1> QED
  BY <1>1, <1>3, <1>4 DEF Restart, TypeOK, StoreTypes

\* An update starts, or is refused.
Begun ==
    /\ staged' = StagedImage
    /\ \/ flash' = "Idle" /\ UNCHANGED <<fl, updating, tx, rx>>
       \/ /\ ~Refused(StagedImage)
          /\ flash' = "Flashing" /\ updating' = TRUE
          /\ fl' = Start(StagedImage).fl /\ tx' = tx /\ rx' = <<>>
          /\ clean' = ~taken

LEMMA BeginIs ==
    ASSUME TypeOK, Constants, BeginUpdate
    PROVE  Begun
<1>1. StagedImage \in Headers
  BY StagedImageTyped DEF TypeOK
<1>2. CASE Refused(StagedImage)
  BY <1>2 DEF BeginUpdate, Begun
<1>3. CASE ~Refused(StagedImage)
  <2>1. Perform(Start(StagedImage)) /\ Sequence(tx) /\ Start(StagedImage).sends = <<>>
    BY <1>1, <1>3, StartTyped DEF BeginUpdate, TypeOK, WireTypes
  <2>2. Silent(Start(StagedImage).fl)
    BY <2>1, PerformNothing
  <2> QED
    BY <1>3, <2>2 DEF BeginUpdate, Begun, Silent
<1> QED
  BY <1>2, <1>3

LEMMA SerialTyped ==
    ASSUME TypeOK, Constants, SerialTask
    PROVE  TypeOK'
<1>1. /\ Sequence(tx) /\ Sequence(rx) /\ Sequence(cmds) /\ IsTnc(tnc) /\ StoreTypes
      /\ fl \in Flashers
  BY DEF TypeOK, WireTypes, StoreTypes
<1>2. CASE KissStep
  <2>1. Chatter
    BY <1>2, KissChatters
  <2>2. Sequence(rx') /\ Sequence(cmds')
    BY <1>1, <2>1, TailIs DEF Chatter
  <2>3. StoreTypes'
    BY <1>1, <2>1, <2>2, StoreKept DEF Chatter
  <2>4. Sequence(tx') /\ IsTnc(tnc') /\ fl' \in Flashers /\ updating' = FALSE /\ Over(fl')
    BY <1>1, <2>1 DEF Chatter, Extends
  <2> QED
    BY <2>2, <2>3, <2>4 DEF TypeOK, WireTypes
<1>3. CASE BeginUpdate
  <2>1. Begun /\ Sequence(cmds') /\ UNCHANGED <<hdr, data, job, tnc>>
    BY <1>1, <1>3, BeginIs, TailIs DEF BeginUpdate
  <2>2. StagedImage \in Headers
    BY <1>1, StagedImageTyped
  <2>3. StoreTypes'
    BY <1>1, <2>1, <2>2 DEF StoreTypes, Begun
  <2>4. CASE UNCHANGED <<fl, updating, tx, rx>>
    BY <2>1, <2>3, <2>4 DEF TypeOK, WireTypes, Over
  <2>5. CASE updating' = TRUE /\ fl' = Start(StagedImage).fl /\ tx' = tx /\ rx' = <<>>
    BY <1>1, <2>1, <2>2, <2>3, <2>5, StartTyped, ShortIs DEF TypeOK, WireTypes
  <2> QED
    BY <2>1, <2>4, <2>5 DEF Begun
<1>4. ASSUME Sequence(tx') /\ fl' \in Flashers, Sequence(rx'), updating,
             UNCHANGED <<updating, tnc, cmds, store>>
      PROVE  TypeOK'
  <2>1. StoreTypes'
    BY <1>1, <1>4, StoreKept DEF store
  <2> QED
    BY <1>1, <1>4, <2>1 DEF TypeOK, WireTypes
<1>5. CASE Timeout
  <2>1. Deadline
    BY <1>5, OnTimeIs DEF Timeout
  <2>2. Sequence(tx') /\ fl' \in Flashers
    BY <2>1, PerformedTyped
  <2>3. Sequence(rx')
    BY <1>1, <1>5, ShortIs DEF Timeout
  <2> QED
    BY <1>4, <1>5, <2>2, <2>3 DEF Timeout
<1>6. ASSUME NEW long \in BOOLEAN, ReadByte(long)
      PROVE  TypeOK'
  <2>1. BytesBefore(Head(rx).b, long) \/ ByteOfVersion(Head(rx).b) \/ ByteOfLine(Head(rx).b)
    BY <1>6, OnByteIs DEF ReadByte
  <2>2. Sequence(tx') /\ fl' \in Flashers
    BY <2>1, PerformedTyped
  <2>3. Sequence(rx')
    BY <1>1, <1>6, TailIs DEF ReadByte
  <2> QED
    BY <1>4, <1>6, <2>2, <2>3 DEF ReadByte
<1> QED
  BY <1>2, <1>3, <1>5, <1>6 DEF SerialTask, KissStep

\* What is not the node's.
TncStep ==
    \/ TncAnswers \/ TncSetsMode
    \/ \E m \in Strays : Noise(m)
    \/ TncPowerCut

LEMMA RepliedTyped ==
    ASSUME Sequence(rx), NEW says, Replied(says), says = <<>> \/ \E m : says = <<m>>
    PROVE  Sequence(rx')
<1>1. Sequence(says)
  BY ShortIs
<1>2. Sequence(rx \o says)
  BY <1>1, JoinIs
<1>3. Sequence(Append(rx, Say("N")))
  BY AppendIs
<1> QED
  BY <1>2, <1>3 DEF Replied

LEMMA TncTyped ==
    ASSUME TypeOK, Constants, TncStep
    PROVE  TypeOK'
<1>1. /\ Sequence(tx) /\ Sequence(rx) /\ Sequence(cmds) /\ IsTnc(tnc) /\ StoreTypes
  BY DEF TypeOK, WireTypes, StoreTypes
<1>2. UNCHANGED <<hdr, staged, job, data, cmds, fl, updating>>
  BY DEF TncStep, TncAnswers, TncSetsMode, Noise, TncPowerCut, node, store
<1>3. StoreTypes'
  BY <1>1, <1>2, StoreKept
<1>4. CASE TncAnswers
  <2>1. AnswerTo(Head(tx))
    BY <1>4, AnswerIs
  <2>2. IsTnc(tnc') /\ \E says : Replied(says) /\ (says = <<>> \/ \E m : says = <<m>>)
    BY <2>1 DEF AnswerTo, Answered, TncStays, TncBecomes
  <2>3. Sequence(rx') /\ Sequence(tx')
    BY <1>1, <1>4, <2>2, RepliedTyped, TailIs DEF TncAnswers
  <2> QED
    BY <1>2, <1>3, <2>2, <2>3 DEF TypeOK, WireTypes, Over
<1>5. CASE TncSetsMode
  <2>1. IsTnc(tnc')
    BY <1>5, SetsModeIs DEF TncStays, TncBecomes
  <2>2. Sequence(tx') /\ rx' = rx
    BY <1>1, <1>5, TailIs DEF TncSetsMode
  <2> QED
    BY <1>2, <1>3, <2>1, <2>2 DEF TypeOK, WireTypes, Over
<1>6. ASSUME NEW m \in Strays, Noise(m)
      PROVE  TypeOK'
  <2>1. Sequence(rx') /\ tx' = tx /\ tnc' = tnc
    BY <1>1, <1>6, AppendIs DEF Noise
  <2> QED
    BY <1>2, <1>3, <2>1 DEF TypeOK, WireTypes, Over
<1>7. CASE TncPowerCut
  <2>1. IsTnc(tnc')
    BY <1>7, PowerCutIs DEF TncBecomes
  <2>2. Sequence(tx') /\ rx' = rx
    BY <1>1, <1>7, ShortIs DEF TncPowerCut
  <2> QED
    BY <1>2, <1>3, <2>1, <2>2 DEF TypeOK, WireTypes, Over
<1> QED
  BY <1>4, <1>5, <1>6, <1>7 DEF TncStep

\* The four kinds of step.
LEMMA NextIs ==
    ASSUME Next
    PROVE  SerialTask \/ TncStep \/ HttpStep \/ Restart
BY DEF Next, TncStep, HttpStep

\* The specification without its fairness.
LEMMA SafetyPart == Spec => Init /\ [][Next]_vars
BY PTL DEF Spec

\* What is on the line are sequences, the flasher is in one of its states and a
\* TNC is a TNC: the shape of the whole state.
THEOREM TypeCorrect == Spec => []TypeOK
<1>1. Constants
  BY FileAssumption, TncAssumption, AttemptsAssumption DEF Constants
<1>2. Init => TypeOK
  <2> SUFFICES ASSUME Init
               PROVE  TypeOK
    OBVIOUS
  <2>1. Sequence(tx) /\ Sequence(rx) /\ Sequence(cmds)
    BY ShortIs DEF Init
  <2>2. IsTnc(tnc)
    BY <1>1, ShortIs DEF Init, IsTnc, Constants, TncAssumption
  <2>3. fl \in Flashers /\ Over(fl) /\ updating = FALSE
    BY <1>1, NotRunTyped DEF Init
  <2>4. hdr \in Headers /\ staged \in Headers /\ job \in [Http -> Jobs]
    BY <1>1, HeadersAreTyped DEF Init
  <2>5. data = [k \in 1 .. MaxLines |-> data[k]]
    BY DEF Init
  <2> QED
    BY <2>1, <2>2, <2>3, <2>4, <2>5 DEF TypeOK, WireTypes, StoreTypes
<1>3. TypeOK /\ [Next]_vars => TypeOK'
  <2> SUFFICES ASSUME TypeOK, [Next]_vars
               PROVE  TypeOK'
    OBVIOUS
  <2>1. CASE Next
    BY <1>1, <2>1, NextIs, SerialTyped, TncTyped, HttpTyped, RestartTyped
  <2>2. CASE UNCHANGED vars
    BY <2>2 DEF vars, node, store, setup, line, world, TypeOK, WireTypes, StoreTypes, Over
  <2> QED
    BY <2>1, <2>2
<1> QED
  BY <1>2, <1>3, SafetyPart, PTL

-----------------------------------------------------------------------------
(***************************************************************************)
(* A refused update leaves the TNC its firmware: what the task sent last   *)
(* of all that matters is a reset.                                         *)
(***************************************************************************)
NoEntry(n) == \A m \in n .. Len(tx) : tx[m].op # "Entry"

Restored ==
    \/ \E n \in 1 .. Len(tx) : tx[n].op = "Reset" /\ NoEntry(n + 1)
    \/ NoEntry(1) /\ (tnc.mode = "kiss" \/ ~tnc.intact)

Restoring ==
    /\ tnc.intact => tnc.mode # "dead"
    /\ fl.st \notin {"AbortSettle", "Done"} => fl.kind = "None"
    /\ fl.kind \in Failures => fl.line > 0
    /\ fl.kind \in Refusals => Restored

\* More talk changes nothing of it.
LEMMA RestoredTalking ==
    ASSUME Sequence(tx), Extends(tx, tx'), Restored, tnc' = tnc
    PROVE  Restored'
<1>1. /\ Len(tx) \in Nat /\ Len(tx') \in Nat /\ Len(tx) <= Len(tx')
      /\ \A k \in 1 .. Len(tx) : tx'[k] = tx[k]
      /\ \A k \in Len(tx) + 1 .. Len(tx') : tx'[k].op \notin {"Entry", "Reset"}
  BY ShortIs DEF Extends, Talk
<1>2. ASSUME NEW n \in 1 .. Len(tx) + 1, NoEntry(n)
      PROVE  NoEntry(n)'
  <2>1. ASSUME NEW m \in n .. Len(tx')
        PROVE  tx'[m].op # "Entry"
    BY <1>1, <1>2 DEF NoEntry
  <2> QED
    BY <2>1 DEF NoEntry
<1>3. CASE NoEntry(1) /\ (tnc.mode = "kiss" \/ ~tnc.intact)
  BY <1>1, <1>2, <1>3 DEF Restored
<1>4. ASSUME NEW n \in 1 .. Len(tx), tx[n].op = "Reset", NoEntry(n + 1)
      PROVE  Restored'
  <2>1. NoEntry(n + 1)' /\ n \in 1 .. Len(tx') /\ tx'[n].op = "Reset"
    BY <1>1, <1>2, <1>4
  <2> QED
    BY <2>1 DEF Restored
<1> QED
  BY <1>3, <1>4 DEF Restored

\* A reset that is sent does it.
LEMMA RestoredByReset ==
    ASSUME Sequence(tx), tx' = Append(tx, Send("Reset"))
    PROVE  Restored'
<1>1. /\ Len(tx) \in Nat /\ Len(tx') = Len(tx) + 1
      /\ tx'[Len(tx) + 1].op = "Reset"
  BY AppendIs, ShortIs DEF Send
<1>2. PICK n \in 1 .. Len(tx') : n = Len(tx')
  BY <1>1
<1>3. NoEntry(n + 1)'
  BY <1>1, <1>2 DEF NoEntry
<1>4. tx'[n].op = "Reset"
  BY <1>1, <1>2
<1> QED
  BY <1>3, <1>4 DEF Restored

\* The TNC has taken in the head of the line.
LEMMA RestoredTaking ==
    ASSUME Sequence(tx), tx # <<>>, tx' = Tail(tx), Restored,
           tx[1].op = "Reset" => tnc'.mode = "kiss" \/ ~tnc'.intact,
           tx[1].op # "Entry" /\ (tnc.mode = "kiss" \/ ~tnc.intact)
             => tnc'.mode = "kiss" \/ ~tnc'.intact
    PROVE  Restored'
<1>1. /\ Len(tx) \in Nat \ {0} /\ Len(tx') = Len(tx) - 1
      /\ \A k \in 1 .. Len(tx) - 1 : tx'[k] = tx[k + 1]
  BY TailIs
<1>2. ASSUME NEW n \in 1 .. Len(tx), NoEntry(n + 1)
      PROVE  NoEntry(n)'
  <2>1. ASSUME NEW m \in n .. Len(tx')
        PROVE  tx'[m].op # "Entry"
    <3>1. m \in 1 .. Len(tx) - 1 /\ m + 1 \in n + 1 .. Len(tx)
      BY <1>1
    <3> QED
      BY <1>1, <1>2, <3>1 DEF NoEntry
  <2> QED
    BY <2>1 DEF NoEntry
<1>3. CASE NoEntry(1) /\ (tnc.mode = "kiss" \/ ~tnc.intact)
  <2>1. NoEntry(1 + 1) /\ tx[1].op # "Entry"
    BY <1>1, <1>3 DEF NoEntry
  <2>2. NoEntry(1)'
    BY <1>1, <1>2, <2>1
  <2> QED
    BY <1>3, <2>1, <2>2 DEF Restored
<1>4. ASSUME NEW n \in 1 .. Len(tx), tx[n].op = "Reset", NoEntry(n + 1)
      PROVE  Restored'
  <2>1. NoEntry(n)'
    BY <1>2, <1>4
  <2>2. CASE n = 1
    BY <1>4, <2>1, <2>2 DEF Restored
  <2>3. CASE n > 1
    <3>1. /\ n - 1 \in 1 .. Len(tx') /\ n - 1 \in 1 .. Len(tx) - 1
          /\ tx'[n - 1] = tx[n] /\ (n - 1) + 1 = n
      BY <1>1, <1>4, <2>3
    <3> QED
      BY <1>4, <2>1, <3>1 DEF Restored
  <2> QED
    BY <1>1, <2>2, <2>3
<1> QED
  BY <1>3, <1>4 DEF Restored

\* A step of the update that does not send an entry after a refusal.
LEMMA RestoringFlasher ==
    ASSUME TypeOK, Restoring, tnc' = tnc,
           Deadline \/ \E b, long : BytesBefore(b, long) \/ ByteOfVersion(b) \/ ByteOfLine(b)
    PROVE  Restoring'
<1>1. /\ Sequence(tx) /\ fl \in Flashers /\ fl.index + 1 > 0
      /\ Refusals \cap (Failures \cup {"None", "SerialNeverQuiet", "Updated"}) = {}
      /\ Failures \cap {"None", "SerialNeverQuiet", "Updated"} = {}
  BY DEF TypeOK, WireTypes, Flashers, Refusals, Failures
<1>2. Extends(tx, tx)
  BY <1>1, ExtendsItself
<1>3. CASE Silent(fl)
  BY <1>1, <1>2, <1>3, RestoredTalking DEF Silent, Restoring
<1>4. ASSUME fl'.kind \notin Failures \cup Refusals,
             fl'.st \notin {"AbortSettle", "Done"} => fl'.kind = "None"
      PROVE  Restoring'
  BY <1>4 DEF Restoring
<1>5. ASSUME NEW f, fl' = f, f.kind \in Failures, f.line > 0, f.st = "Done"
      PROVE  Restoring'
  BY <1>1, <1>5 DEF Restoring
<1>6. ASSUME fl'.kind \in Refusals, fl'.st \in {"AbortSettle", "Done"},
             tx' = Append(tx, Send("Reset"))
      PROVE  Restoring'
  BY <1>1, <1>6, RestoredByReset DEF Restoring
<1>7. ASSUME NEW f \in Flashers, NEW i, SendsLine(f, i), f.kind = "None"
      PROVE  Restoring'
  <2>1. CASE fl' = f
    BY <1>1, <1>4, <1>7, <2>1
  <2>2. CASE fl' = [f EXCEPT !.st = "Done", !.kind = "ImageUnreadable", !.line = f.index + 1]
    <3>1. fl'.kind = "ImageUnreadable" /\ fl'.line = f.index + 1 /\ fl'.st = "Done"
          /\ f.index \in Nat
      BY <1>7, <2>2 DEF Flashers
    <3> QED
      BY <1>5, <3>1 DEF Failures
  <2> QED
    BY <1>7, <2>1, <2>2 DEF SendsLine, Silent
<1>8. \A st, kind :
        /\ [fl EXCEPT !.st = st].st = st /\ [fl EXCEPT !.st = st].kind = fl.kind
        /\ [fl EXCEPT !.st = st, !.round = 0].st = st
        /\ [fl EXCEPT !.st = st, !.round = 0].kind = fl.kind
        /\ [fl EXCEPT !.st = st, !.kind = kind].st = st
        /\ [fl EXCEPT !.st = st, !.kind = kind].kind = kind
  BY <1>1 DEF Flashers
<1>9. fl.st \notin {"AbortSettle", "Done"} => fl.kind = "None"
  BY DEF Restoring
<1>10. CASE Deadline
  <2>1. CASE fl.st \in {"Drain", "StrandedProbe", "FillFlush", "Redrain"}
    <3>1. fl'.kind = "None"
      BY <1>1, <1>8, <1>9, <1>10, <2>1 DEF Deadline, Says, Silent, Flashers
    <3> QED
      BY <1>1, <1>4, <3>1
  <2>2. CASE fl.st \in {"AwaitReady", "AwaitVersion"}
    <3>1. PICK kind \in {"BootloaderEntryTimeout", "VersionUnreadable"} :
             Says([fl EXCEPT !.st = "Done", !.kind = kind], "Reset")
      BY <1>10, <2>2 DEF Deadline
    <3>2. fl'.kind = kind /\ fl'.st = "Done" /\ tx' = Append(tx, Send("Reset"))
      BY <1>1, <3>1 DEF Says, Flashers
    <3> QED
      BY <1>6, <3>1, <3>2 DEF Refusals
  <2>3. CASE fl.st = "Line"
    <3>1. fl' = [fl EXCEPT !.st = "Done", !.kind = "NoResponse", !.line = fl.index + 1]
      BY <1>10, <2>3 DEF Deadline, Silent
    <3>2. fl'.kind = "NoResponse" /\ fl'.line = fl.index + 1 /\ fl'.st = "Done"
      BY <1>1, <3>1 DEF Flashers
    <3> QED
      BY <1>1, <1>5, <3>2 DEF Failures
  <2>4. CASE fl.st = "AbortSettle"
    <3>1. /\ fl' = [fl EXCEPT !.st = "Done"] /\ tx' = tx
      BY <1>10, <2>4 DEF Deadline, Silent
    <3>2. fl'.kind = fl.kind /\ fl'.line = fl.line /\ fl'.st = "Done"
      BY <1>1, <3>1 DEF Flashers
    <3> QED
      BY <1>1, <1>2, <3>1, <3>2, RestoredTalking DEF Restoring
  <2>5. CASE fl.st = "Done"
    BY <1>3, <1>10, <2>5 DEF Deadline
  <2> QED
    BY <1>10, <2>1, <2>2, <2>3, <2>4, <2>5 DEF Deadline
<1>11. ASSUME NEW b, NEW long, BytesBefore(b, long)
       PROVE  Restoring'
  <2>1. CASE fl' = [fl EXCEPT !.st = "Done", !.kind = "SerialNeverQuiet"]
    <3>1. fl'.kind = "SerialNeverQuiet" /\ fl'.st = "Done"
      BY <1>1, <2>1 DEF Flashers
    <3> QED
      BY <1>1, <1>4, <3>1
  <2>2. CASE fl.st \in {"StrandedProbe", "AwaitReady"} /\ fl'.kind = fl.kind
    BY <1>1, <1>4, <1>9, <2>2
  <2>3. \/ Silent(fl)
        \/ fl' = [fl EXCEPT !.st = "Done", !.kind = "SerialNeverQuiet"]
        \/ fl.st \in {"StrandedProbe", "AwaitReady"} /\ fl'.kind = fl.kind
    <3>1. /\ [fl EXCEPT !.st = "AwaitVersion"].kind = fl.kind
          /\ [fl EXCEPT !.st = "FillFlush", !.round = 0].kind = fl.kind
      BY <1>1 DEF Flashers
    <3> QED
      BY <1>11, <3>1 DEF BytesBefore, Silent, Says
  <2> QED
    BY <1>3, <2>1, <2>2, <2>3
<1>12. ASSUME NEW b, ByteOfVersion(b)
       PROVE  Restoring'
  <2>1. CASE SendsLine([fl EXCEPT !.st = "Line"], 0)
    <3>1. [fl EXCEPT !.st = "Line"] \in Flashers /\ [fl EXCEPT !.st = "Line"].kind = "None"
      BY <1>1, <1>8, <1>9, <1>12, FlasherFields DEF ByteOfVersion, States, Outcomes
    <3> QED
      BY <1>7, <2>1, <3>1
  <2>2. ASSUME NEW kind \in {"VersionUnsupported", "ChipMismatch"},
               Says([fl EXCEPT !.st = "AbortSettle", !.kind = kind], "Reset")
        PROVE  Restoring'
    BY <1>6, <1>8, <2>2 DEF Says, Refusals
  <2> QED
    BY <1>3, <1>12, <2>1, <2>2 DEF ByteOfVersion
<1>13. ASSUME NEW b, ByteOfLine(b)
       PROVE  Restoring'
  <2>1. fl.kind = "None"
    BY <1>9, <1>13 DEF ByteOfLine
  <2>2. CASE SendsLine([fl EXCEPT !.written = @ + 1, !.index = @ + 1], fl.index + 1)
    <3> DEFINE f == [fl EXCEPT !.written = @ + 1, !.index = @ + 1]
    <3>1. f \in Flashers
      BY <1>1, FlasherFields DEF States, Outcomes
    <3>2. f.kind = "None"
      BY <1>1, <2>1 DEF Flashers
    <3> QED
      BY <1>7, <2>2, <3>1, <3>2
  <2>3. ASSUME NEW kind, fl' = [fl EXCEPT !.written = @ + 1, !.st = "Done", !.kind = kind,
                                          !.line = fl.index + 1], kind \in Failures
        PROVE  Restoring'
    <3>1. fl'.kind = kind /\ fl'.line = fl.index + 1 /\ fl'.st = "Done"
      BY <1>1, <2>3 DEF Flashers
    <3> QED
      BY <1>1, <1>5, <2>3, <3>1
  <2>4. ASSUME NEW kind, fl' = [fl EXCEPT !.st = "Done", !.kind = kind,
                                          !.line = fl.index + 1], kind \in Failures
        PROVE  Restoring'
    <3>1. fl'.kind = kind /\ fl'.line = fl.index + 1 /\ fl'.st = "Done"
      BY <1>1, <2>4 DEF Flashers
    <3> QED
      BY <1>1, <1>5, <2>4, <3>1
  <2>5. CASE fl' = [fl EXCEPT !.written = @ + 1, !.st = "Done", !.kind = "Updated"]
    <3>1. fl'.kind = "Updated" /\ fl'.st = "Done"
      BY <1>1, <2>5 DEF Flashers
    <3> QED
      BY <1>1, <1>4, <3>1
  <2> QED
    BY <1>13, <2>2, <2>3, <2>4, <2>5 DEF ByteOfLine, Silent, Failures
<1> QED
  BY <1>10, <1>11, <1>12, <1>13

LEMMA RestoringTnc ==
    ASSUME TypeOK, Restoring, TncStep
    PROVE  Restoring'
<1>1. Sequence(tx) /\ fl' = fl /\ tnc.mode \in {"kiss", "boot", "dead"} /\ tnc.intact \in BOOLEAN
  BY DEF TncStep, TncAnswers, TncSetsMode, Noise, TncPowerCut, node, TypeOK, WireTypes, IsTnc
<1>2. CASE TncAnswers
  <2>1. AnswerTo(Head(tx)) /\ tx # <<>> /\ tx' = Tail(tx) /\ Head(tx) = tx[1]
    BY <1>1, <1>2, AnswerIs, TailIs DEF TncAnswers
  <2>2. tnc'.intact => tnc'.mode # "dead"
    BY <1>1, <2>1 DEF AnswerTo, Answered, TncStays, TncBecomes, Restoring
  <2>3. tx[1].op = "Reset" => tnc'.mode = "kiss" \/ ~tnc'.intact
    BY <1>1, <2>1 DEF AnswerTo, Answered, TncStays, TncBecomes, Restoring
  <2>4. tx[1].op # "Entry" /\ (tnc.mode = "kiss" \/ ~tnc.intact)
          => tnc'.mode = "kiss" \/ ~tnc'.intact
    BY <1>1, <2>1 DEF AnswerTo, Answered, TncStays, TncBecomes
  <2>5. Restored => Restored'
    BY <1>1, <2>1, <2>3, <2>4, RestoredTaking
  <2> QED
    BY <1>1, <2>2, <2>5 DEF Restoring
<1>3. CASE TncSetsMode
  <2>1. TncStays /\ tx # <<>> /\ tx' = Tail(tx) /\ tx[1].op = "SetHw"
    BY <1>1, <1>3, SetsModeIs, TailIs DEF TncSetsMode
  <2>2. Restored => Restored'
    BY <1>1, <2>1, RestoredTaking DEF TncStays, TncBecomes
  <2> QED
    BY <1>1, <2>1, <2>2 DEF Restoring, TncStays, TncBecomes
<1>4. ASSUME NEW m \in Strays, Noise(m)
      PROVE  Restoring'
  <2>1. Restored => Restored'
    BY <1>1, <1>4, ExtendsItself, RestoredTalking DEF Noise
  <2> QED
    BY <1>1, <1>4, <2>1 DEF Noise, Restoring
<1>5. CASE TncPowerCut
  <2>1. /\ TncBecomes(IF tnc.intact THEN "kiss" ELSE "boot", tnc.intact, <<>>)
        /\ tx' = <<>> /\ Len(tx') = 0
    BY <1>5, PowerCutIs, ShortIs DEF TncPowerCut
  <2>2. NoEntry(1)'
    BY <2>1 DEF NoEntry
  <2>3. Restored'
    BY <1>1, <2>1, <2>2 DEF Restored, TncBecomes
  <2> QED
    BY <1>1, <2>1, <2>3 DEF Restoring, TncBecomes
<1> QED
  BY <1>2, <1>3, <1>4, <1>5 DEF TncStep

\* NotRun and a flasher that starts have refused nothing.
LEMMA FreshFlasher ==
    ASSUME fl' = NotRun \/ \E image : fl' = Start(image).fl
    PROVE  fl'.kind = "None"
<1>1. NotRun.kind = "None"
  BY DEF NotRun
<1>2. \A image : Start(image).fl.kind = "None"
  BY DEF NotRun, Start, Discarding
<1> QED
  BY <1>1, <1>2

\* Whatever happens on the line, at the TNC and to the node, an update that was
\* refused with nothing written leaves a TNC that still has its firmware running
\* it (fail_before_writing).
THEOREM RefusalsRestore == Spec => []RefusalRestores
<1>1. Constants
  BY FileAssumption, TncAssumption, AttemptsAssumption DEF Constants
<1>2. Init => Restoring
  BY DEF Init, NotRun, Restoring, Failures, Refusals
<1>3. TypeOK /\ Restoring /\ [Next]_vars => Restoring'
  <2> SUFFICES ASSUME TypeOK, Restoring, [Next]_vars
               PROVE  Restoring'
    OBVIOUS
  <2>1. Sequence(tx) /\ "None" \notin Failures \cup Refusals
    BY DEF TypeOK, WireTypes, Failures, Refusals
  <2>2. ASSUME UNCHANGED <<tx, tnc, fl>>
        PROVE  Restoring'
    <3>1. Restored => Restored'
      BY <2>1, <2>2, ExtendsItself, RestoredTalking
    <3> QED
      BY <2>2, <3>1 DEF Restoring
  <2>3. CASE HttpStep
    BY <2>2, <2>3, HttpIsStill DEF Still
  <2>4. CASE KissStep
    <3>1. Restored => Restored'
      BY <2>1, <2>4, KissChatters, RestoredTalking DEF Chatter
    <3> QED
      BY <2>4, <3>1, KissChatters DEF Chatter, Restoring
  <2>5. ASSUME fl'.kind = "None", tnc' = tnc
        PROVE  Restoring'
    BY <2>1, <2>5 DEF Restoring
  <2>6. CASE BeginUpdate
    <3>1. Begun /\ tnc' = tnc
      BY <1>1, <2>6, BeginIs DEF BeginUpdate
    <3> QED
      BY <2>2, <2>5, <3>1, FreshFlasher DEF Begun
  <2>7. CASE Restart
    BY <2>5, <2>7, FreshFlasher DEF Restart
  <2>8. CASE Timeout
    BY <2>8, OnTimeIs, RestoringFlasher DEF Timeout
  <2>9. ASSUME NEW long \in BOOLEAN, ReadByte(long)
        PROVE  Restoring'
    <3>1. BytesBefore(Head(rx).b, long) \/ ByteOfVersion(Head(rx).b)
          \/ ByteOfLine(Head(rx).b)
      BY <1>1, <2>9, OnByteIs DEF ReadByte
    <3>2. tnc' = tnc
      BY <2>9 DEF ReadByte
    <3> QED
      BY <3>1, <3>2, RestoringFlasher
  <2>10. CASE TncStep
    BY <2>10, RestoringTnc
  <2>11. CASE UNCHANGED vars
    BY <2>2, <2>11 DEF vars, node, line
  <2> QED
    BY <2>3, <2>4, <2>6, <2>7, <2>8, <2>9, <2>10, <2>11, NextIs DEF SerialTask, KissStep
<1>4. TypeOK /\ Restoring => RefusalRestores
  <2> SUFFICES ASSUME TypeOK, Restoring, NothingWritten(fl),
                      fl.kind \notin {"None", "SerialNeverQuiet"}, tnc.intact, tx = <<>>
               PROVE  tnc.mode = "kiss"
    BY DEF RefusalRestores
  <2>1. fl.kind \in Outcomes /\ fl.kind # "Updated" /\ fl.line = 0
    BY DEF TypeOK, WireTypes, Flashers, NothingWritten
  <2>2. fl.kind \in Refusals
    BY <2>1 DEF Outcomes, Restoring
  <2>3. Restored /\ Len(tx) = 0
    BY <2>2, ShortIs DEF Restoring
  <2> QED
    BY <2>3 DEF Restored
<1> QED
  BY <1>2, <1>3, <1>4, TypeCorrect, SafetyPart, PTL

-----------------------------------------------------------------------------
(***************************************************************************)
(* The image in flash.  Only a file that passed every check has a header,  *)
(* whoever else uploads; and unless an update was begun while an upload    *)
(* was storing its lines, the records of the one under way are its own.    *)
(***************************************************************************)
Fitting == {h \in [file : Images, target : Chips] : MadeFor(h.file, h.target)}

\* What the stager s vouches for once it has read n lines of f and refused none.
Passed(f, n, s) ==
    /\ n <= MaxLines
    /\ \A k \in 1 .. n : f[k] # "bad" /\ (f[k] = "eof" => k = n)
    /\ s.lastWasEof <=> (n > 0 /\ f[n] = "eof")
    /\ \/ s.target = Unknown /\ \A k \in 1 .. n : Fingerprint(f[k]) = Unknown
       \/ MadeFor(f, s.target)

Checked(j) == /\ j.at < Len(j.file)
              /\ ~j.stager.refused => Passed(j.file, j.at, j.stager)

Stored == /\ hdr \in {NoImage, Garbled} \cup Fitting
          /\ staged \in {NoImage, Unread} \cup Fitting

Uploading == \A h \in Http : job[h].doing = "upload" => Checked(job[h])

\* An update is the last thing queued.
Queued ==
    \A n \in 1 .. Len(cmds) :
        cmds[n].op = "UpdateFirmware" => n = Len(cmds) /\ flash = "Starting"

\* The flasher f has its image before it.
HasImage(f) ==
    /\ f.image \in Fitting
    /\ \A k \in 1 .. Len(f.image.file) : data[k] = Record(f.image.file, k)
    /\ f.index < Len(f.image.file)
    /\ f.st # "Line" => f.index = 0

Writing == ~Over(fl) => flash = "Flashing" /\ HasImage(fl) /\ ~Receiving

FilesOK == Stored /\ Uploading /\ Queued /\ Writing

\* One more line that is not refused keeps the stager's word.
LEMMA EndLinePasses ==
    ASSUME NEW f, NEW n \in Nat, n < Len(f), Len(f) \in Nat, MaxLines \in Nat,
           NEW s \in Stagers, ~s.refused => Passed(f, n, s),
           NEW room \in BOOLEAN, room => n + 1 <= MaxLines,
           ~EndLine(s, f[n + 1], room).refused
    PROVE  Passed(f, n + 1, EndLine(s, f[n + 1], room))
<1> DEFINE kind == f[n + 1]
           e == EndLine(s, kind, room)
<1>1. ~(s.refused \/ s.lastWasEof \/ kind = "bad" \/ ~room)
  BY DEF EndLine, Stagers
<1>2. e = [target |-> IF s.target = Unknown THEN Fingerprint(kind) ELSE s.target,
           lastWasEof |-> kind = "eof", lines |-> s.lines + 1, refused |-> FALSE]
  BY <1>1 DEF EndLine
<1>3. Passed(f, n, s) /\ n + 1 <= MaxLines
  BY <1>1
<1>4. \A k \in 1 .. n : f[k] # "bad" /\ f[k] # "eof"
  BY <1>1, <1>3 DEF Passed
<1>5. \A k \in 1 .. n + 1 : f[k] # "bad" /\ (f[k] = "eof" => k = n + 1)
  <2> SUFFICES ASSUME NEW k \in 1 .. n + 1
               PROVE  f[k] # "bad" /\ (f[k] = "eof" => k = n + 1)
    OBVIOUS
  <2>1. k \in 1 .. n \/ k = n + 1
    OBVIOUS
  <2> QED
    BY <1>1, <1>4, <2>1
<1>6. e.lastWasEof <=> (n + 1 > 0 /\ f[n + 1] = "eof")
  <2>1. e.lastWasEof = (f[n + 1] = "eof") /\ n + 1 > 0
    BY <1>2
  <2> HIDE DEF e
  <2> QED
    BY <2>1
<1>7. \/ e.target = Unknown /\ \A k \in 1 .. n + 1 : Fingerprint(f[k]) = Unknown
      \/ MadeFor(f, e.target)
  <2>1. CASE s.target # Unknown
    BY <1>2, <1>3, <2>1 DEF Passed
  <2>2. CASE s.target = Unknown
    <3>1. /\ e.target = Fingerprint(f[n + 1])
          /\ \A k \in 1 .. n : Fingerprint(f[k]) = Unknown
      BY <1>2, <1>3, <2>2 DEF Passed, MadeFor
    <3>2. CASE e.target = Unknown
      <4>1. ASSUME NEW k \in 1 .. n + 1
            PROVE  Fingerprint(f[k]) = Unknown
        <5>1. k \in 1 .. n \/ k = n + 1
          OBVIOUS
        <5> QED
          BY <3>1, <3>2, <5>1
      <4> QED
        BY <3>2, <4>1
    <3>3. CASE e.target # Unknown
      <4>1. n + 1 \in 1 .. Len(f) /\ 1 .. (n + 1) - 1 = 1 .. n
        OBVIOUS
      <4>2. PICK k \in 1 .. Len(f) : k = n + 1
        BY <4>1
      <4>3. Fingerprint(f[k]) = e.target /\ \A j \in 1 .. (k - 1) : Fingerprint(f[j]) = Unknown
        BY <3>1, <4>1, <4>2
      <4> HIDE DEF e
      <4> QED
        BY <3>3, <4>3 DEF MadeFor
    <3> QED
      BY <3>2, <3>3
  <2> QED
    BY <2>1, <2>2
<1> HIDE DEF e
<1>8. Passed(f, n + 1, e)
  BY <1>3, <1>5, <1>6, <1>7 DEF Passed
<1> QED
  BY <1>8 DEF e

\* A file the stager accepts is an image, for the chip it names.
LEMMA AcceptedFits ==
    ASSUME Constants, NEW f \in Files, NEW s \in Stagers, Passed(f, Len(f), s), Accepted(s)
    PROVE  Header(f, s.target) \in Fitting
<1>1. Len(f) \in Nat \ {0}
  BY HeadersAreTyped
<1>2. s.target # Unknown /\ s.lastWasEof /\ s.target \in Chips /\ MadeFor(f, s.target)
  BY DEF Accepted, Stagers, Passed
<1>3. f \in Images
  BY <1>1, <1>2 DEF Images, Passed
<1> QED
  BY <1>2, <1>3 DEF Fitting, Header

\* An image is none of the stand-ins.
LEMMA FittingIs ==
    ASSUME Constants, NEW h \in Fitting
    PROVE  /\ h \notin {NoImage, Garbled, Unread}
           /\ h.file \in Files /\ h.file \in Images /\ Len(h.file) \in Nat \ {0}
           /\ Len(h.file) <= MaxLines /\ h.target \in Chips /\ MadeFor(h.file, h.target)
<1>1. /\ h.file \in Images /\ h.file \in Files /\ h.target \in Chips
      /\ MadeFor(h.file, h.target) /\ Len(h.file) <= MaxLines
  BY DEF Fitting, Images
<1>2. Len(h.file) \in Nat \ {0} /\ h.target # Unknown
  BY <1>1, HeadersAreTyped DEF Chips, Unknown
<1>3. \A f : Header(f, Unknown).target = Unknown
  BY DEF Header
<1> QED
  BY <1>1, <1>2, <1>3 DEF NoImage, Garbled, Unread

\* What is staged, whether it is cached or not.
LEMMA StagedImageIs ==
    ASSUME Constants, Stored
    PROVE  StagedImage \in {NoImage} \cup Fitting
<1>1. NoImage # Unread /\ Garbled # NoImage
  BY DEF NoImage, Unread, Garbled, Header
<1>2. StoredHeader \in {NoImage} \cup Fitting
  BY DEF StoredHeader, Stored
<1> QED
  BY <1>2 DEF StagedImage, Stored

LEMMA SubmittedQueued ==
    ASSUME Sequence(cmds), Queued, NEW cmd, cmd.op # "UpdateFirmware",
           cmds' = Submitted(cmd), flash' = flash
    PROVE  Queued'
<1>1. CASE ~CanSubmit
  BY <1>1 DEF Queued, Submitted
<1>2. CASE CanSubmit
  <2>1. \A n \in 1 .. Len(cmds) : cmds[n].op # "UpdateFirmware"
    BY <1>2 DEF Queued, CanSubmit, Flashing
  <2>2. Len(cmds) \in Nat /\ cmds' = Append(cmds, cmd)
    BY <1>2, ShortIs DEF Submitted
  <2>3. /\ Len(cmds') = Len(cmds) + 1 /\ cmds'[Len(cmds) + 1] = cmd
        /\ \A k \in 1 .. Len(cmds) : cmds'[k] = cmds[k]
    BY <2>2, AppendIs
  <2>4. ASSUME NEW n \in 1 .. Len(cmds')
        PROVE  cmds'[n].op # "UpdateFirmware"
    BY <2>1, <2>2, <2>3
  <2> QED
    BY <2>4 DEF Queued
<1> QED
  BY <1>1, <1>2

\* Nothing that matters to the image has changed.
LEMMA FilesKept ==
    ASSUME FilesOK, UNCHANGED <<hdr, staged, data, flash, fl>>, Queued',
           \A h \in Http : job'[h] = job[h] \/ job'[h].doing # "upload"
    PROVE  FilesOK'
<1>1. Receiving' => Receiving
  BY DEF Receiving, Storing
<1>2. Stored' /\ Writing' /\ Uploading'
  BY <1>1 DEF FilesOK, Stored, Writing, Over, HasImage, Uploading, Checked
<1> QED
  BY <1>1, <1>2 DEF FilesOK

LEMMA BeginUploadFiles ==
    ASSUME Constants, TypeOK, FilesOK, NEW h \in Http, NEW f \in Files, BeginUpload(h, f)
    PROVE  FilesOK'
<1>1. job \in [Http -> Jobs] /\ MaxLines \in Nat /\ Len(f) \in Nat \ {0}
  BY HeadersAreTyped DEF Constants, FileAssumption, TypeOK, StoreTypes
<1>2. /\ job' = WithUpload(h, f)
      /\ hdr' = NoImage /\ staged' = NoImage /\ ~Flashing
      /\ UNCHANGED <<data, flash, fl, cmds>>
  BY DEF BeginUpload
<1>3. Over(fl) /\ Over(fl)'
  BY <1>2 DEF FilesOK, Writing, Flashing, Over
<1>4. Passed(f, 0, NewStager)
  <2>1. NewStager.lastWasEof = FALSE /\ NewStager.target = Unknown
    BY DEF NewStager
  <2>2. NewStager.lastWasEof <=> (0 > 0 /\ f[0] = "eof")
    BY <2>1
  <2>3. 0 <= MaxLines /\ 1 .. 0 = {}
    BY <1>1
  <2> QED
    BY <2>1, <2>2, <2>3 DEF Passed
<1>5. Uploading'
  <2> SUFFICES ASSUME NEW g \in Http, job'[g].doing = "upload"
               PROVE  Checked(job'[g])
    BY DEF Uploading
  <2>1. CASE g = h
    <3>1. job'[g].file = f /\ job'[g].at = 0 /\ job'[g].stager = NewStager
      BY <1>1, <1>2, <2>1, UploadTyped
    <3> QED
      BY <1>1, <1>4, <3>1 DEF Checked
  <2>2. CASE g # h
    <3>1. /\ job[g].doing = "upload" /\ job'[g].file = job[g].file
          /\ job'[g].at = job[g].at /\ job'[g].stager = job[g].stager
      BY <1>1, <1>2, <2>2, UploadTyped
    <3>2. Checked(job[g])
      BY <3>1 DEF FilesOK, Uploading
    <3> QED
      BY <3>1, <3>2 DEF Checked
  <2> QED
    BY <2>1, <2>2
<1> QED
  BY <1>2, <1>3, <1>5 DEF FilesOK, Stored, Queued, Writing

LEMMA PushLineFiles ==
    ASSUME Constants, TypeOK, FilesOK, NEW h \in Http, PushLine(h)
    PROVE  FilesOK'
<1> DEFINE j == job[h]
           k == j.at + 1
           room == k <= MaxLines /\ ~taken
           s == EndLine(j.stager, j.file[k], room)
           last == k = Len(j.file)
           commit == last /\ Accepted(s)
           header == Header(j.file, s.target)
<1>1. /\ job \in [Http -> Jobs] /\ j \in Jobs /\ j.doing = "upload" /\ MaxLines \in Nat
      /\ UNCHANGED <<cmds, flash, fl>>
  BY DEF TypeOK, StoreTypes, PushLine, Storing, Constants, FileAssumption
<1>2. j \in Uploads
  BY <1>1 DEF Jobs, Idle
<1>3. /\ j.stager \in Stagers /\ j.file \in Files /\ j.at \in Nat /\ k \in Nat
      /\ room \in BOOLEAN /\ Len(j.file) \in Nat \ {0}
  BY <1>2, HeadersAreTyped DEF Uploads
<1>4. s \in Stagers
  BY <1>3, EndLineTyped
<1>5. Checked(j) /\ hdr \in {NoImage, Garbled} \cup Fitting
      /\ staged \in {NoImage, Unread} \cup Fitting
  BY <1>1 DEF FilesOK, Uploading, Stored
<1>6. /\ hdr' = (IF commit THEN Programmed(header) ELSE hdr)
      /\ staged' = (IF commit THEN header ELSE staged)
      /\ job' = [job EXCEPT ![h] = IF last THEN Idle ELSE [j EXCEPT !.at = k, !.stager = s]]
  BY DEF PushLine
<1>7. ~s.refused => Passed(j.file, k, s)
  BY <1>1, <1>3, <1>5, EndLinePasses DEF Checked
<1> HIDE DEF s
<1>8. commit => header \in Fitting
  BY <1>3, <1>4, <1>7, AcceptedFits DEF Accepted
<1>9. Programmed(header) \in {header, Garbled}
  BY DEF Programmed
<1> HIDE DEF header
<1>10. Stored'
  BY <1>5, <1>6, <1>8, <1>9 DEF Stored
<1>11. Over(fl) /\ Over(fl)'
  <2>1. Receiving
    BY <1>1 DEF Receiving, Storing
  <2> QED
    BY <1>1, <2>1 DEF FilesOK, Writing, Over
<1>12. Uploading'
  <2> SUFFICES ASSUME NEW g \in Http, job'[g].doing = "upload"
               PROVE  Checked(job'[g])
    BY DEF Uploading
  <2>1. CASE g # h
    <3>1. job'[g] = job[g]
      BY <1>1, <1>6, <2>1
    <3> QED
      BY <3>1 DEF FilesOK, Uploading, Checked
  <2> SUFFICES ASSUME g = h
               PROVE  Checked(job'[h])
    BY <2>1
  <2>2. ~last
    <3>1. CASE last
      <4>1. job'[h] = Idle
        BY <1>1, <1>6, <3>1
      <4> QED
        BY <4>1 DEF Idle
    <3> QED
      BY <3>1
  <2>3. job'[h] = [j EXCEPT !.at = k, !.stager = s]
    BY <1>1, <1>6, <2>2
  <2>4. job'[h].at = k /\ job'[h].stager = s /\ job'[h].file = j.file
    BY <1>2, <2>3 DEF Uploads
  <2>5. k < Len(j.file)
    BY <1>3, <1>5, <2>2 DEF Checked
  <2> HIDE DEF k, j
  <2>6. Checked(job'[h])
    BY <1>7, <2>4, <2>5 DEF Checked
  <2> QED
    BY <2>6
<1> QED
  BY <1>1, <1>10, <1>11, <1>12 DEF FilesOK, Queued, Writing

LEMMA PressFiles ==
    ASSUME Constants, TypeOK, FilesOK, PressUpdate
    PROVE  FilesOK'
<1>1. /\ StagedImage # NoImage /\ CanSubmit /\ staged' = StagedImage /\ flash' = "Starting"
      /\ cmds' = Append(cmds, Send("UpdateFirmware")) /\ Sequence(cmds)
      /\ UNCHANGED <<hdr, data, job, fl>>
  BY DEF PressUpdate, Submitted, TypeOK, StoreTypes
<1>2. Stored'
  BY <1>1, StagedImageIs DEF FilesOK, Stored
<1>3. Uploading'
  BY <1>1 DEF FilesOK, Uploading, Checked
<1>4. Queued'
  <2>1. \A n \in 1 .. Len(cmds) : cmds[n].op # "UpdateFirmware"
    BY <1>1 DEF FilesOK, Queued, CanSubmit, Flashing
  <2>2. /\ Len(cmds) \in Nat /\ Len(cmds') = Len(cmds) + 1
        /\ \A k \in 1 .. Len(cmds) : cmds'[k] = cmds[k]
    BY <1>1, AppendIs, ShortIs
  <2>3. ASSUME NEW n \in 1 .. Len(cmds'), cmds'[n].op = "UpdateFirmware"
        PROVE  n = Len(cmds')
    BY <2>1, <2>2, <2>3
  <2> QED
    BY <1>1, <2>3 DEF Queued
<1>5. Over(fl)'
  BY <1>1 DEF FilesOK, Writing, CanSubmit, Flashing, Over
<1> QED
  BY <1>2, <1>3, <1>4, <1>5 DEF FilesOK, Writing

LEMMA HttpFiles ==
    ASSUME Constants, TypeOK, FilesOK, HttpStep
    PROVE  FilesOK'
<1>1. Sequence(cmds) /\ Queued
  BY DEF TypeOK, StoreTypes, FilesOK
<1>2. ASSUME NEW cmd, NEW wanted, PostSettings(cmd, wanted), cmd.op # "UpdateFirmware"
      PROVE  FilesOK'
  <2>1. Queued'
    BY <1>1, <1>2, SubmittedQueued DEF PostSettings
  <2> QED
    BY <1>2, <2>1, FilesKept DEF PostSettings, store
<1>3. CASE \E m \in WantedModes, persist \in BOOLEAN : PostMode(m, persist)
  BY <1>2, <1>3 DEF PostMode
<1>4. CASE \E p \in Params : PostParams(p)
  BY <1>2, <1>4 DEF PostParams
<1>5. CASE PostRefresh
  <2>1. Queued'
    BY <1>1, <1>5, SubmittedQueued DEF PostRefresh, Send
  <2> QED
    BY <1>5, <2>1, FilesKept DEF PostRefresh, store
<1>6. ASSUME NEW h \in Http, CutShort(h) \/ TakeFlash(h)
      PROVE  FilesOK'
  <2>1. Queued' /\ UNCHANGED <<hdr, staged, data, flash, fl>>
    BY <1>1, <1>6 DEF CutShort, TakeFlash, Queued
  <2>2. \A g \in Http : job'[g] = job[g] \/ job'[g].doing # "upload"
    <3>1. job \in [Http -> Jobs]
      BY DEF TypeOK, StoreTypes
    <3> QED
      BY <1>6, <3>1 DEF CutShort, TakeFlash, Idle
  <2> QED
    BY <2>1, <2>2, FilesKept
<1> QED
  BY <1>3, <1>4, <1>5, <1>6, BeginUploadFiles, PushLineFiles, PressFiles DEF HttpStep

\* A flasher that goes on has its image still.
LEMMA FlasherHasImage ==
    ASSUME TypeOK, FilesOK, ~Over(fl), data' = data, ~Over(fl)',
           Deadline \/ \E b, long : BytesBefore(b, long) \/ ByteOfVersion(b) \/ ByteOfLine(b)
    PROVE  HasImage(fl)'
<1>1. fl \in Flashers /\ HasImage(fl)
  BY DEF TypeOK, WireTypes, FilesOK, Writing
<1>2. fl'.st # "Done"
  BY DEF Over
<1>3. ASSUME fl'.image = fl.image, fl'.index < Len(fl.image.file),
             fl'.st # "Line" => fl'.index = 0
      PROVE  HasImage(fl)'
  BY <1>1, <1>3 DEF HasImage
<1>4. ASSUME NEW st, fl' = [fl EXCEPT !.st = st], fl.st # "Line"
      PROVE  HasImage(fl)'
  <2>1. fl'.image = fl.image /\ fl'.index = fl.index /\ fl.index = 0
    BY <1>1, <1>4 DEF Flashers, HasImage
  <2> QED
    BY <1>1, <1>3, <2>1 DEF HasImage
<1>5. ASSUME NEW st, fl' = [fl EXCEPT !.st = st, !.round = 0], fl.st # "Line"
      PROVE  HasImage(fl)'
  <2>1. fl'.image = fl.image /\ fl'.index = fl.index /\ fl.index = 0
    BY <1>1, <1>5 DEF Flashers, HasImage
  <2> QED
    BY <1>1, <1>3, <2>1 DEF HasImage
<1>6. ASSUME NEW st, NEW kind, fl' = [fl EXCEPT !.st = st, !.kind = kind], fl.st # "Line"
      PROVE  HasImage(fl)'
  <2>1. fl'.image = fl.image /\ fl'.index = fl.index /\ fl.index = 0
    BY <1>1, <1>6 DEF Flashers, HasImage
  <2> QED
    BY <1>1, <1>3, <2>1 DEF HasImage
<1>7. CASE fl' = fl
  BY <1>1, <1>3, <1>7 DEF HasImage
<1>8. CASE Deadline
  <2>1. CASE fl.st = "FillFlush"
    <3>1. CASE fl' = [fl EXCEPT !.round = @ + 1]
      <4>1. fl'.image = fl.image /\ fl'.index = fl.index /\ fl.index = 0
        BY <1>1, <2>1, <3>1 DEF Flashers, HasImage
      <4> QED
        BY <1>1, <1>3, <4>1 DEF HasImage
    <3>2. CASE fl' = [fl EXCEPT !.st = "Redrain"]
      BY <1>4, <2>1, <3>2
    <3> QED
      BY <1>8, <2>1, <3>1, <3>2 DEF Deadline, Says, Silent
  <2>2. CASE fl.st = "Line"
    <3>1. fl' = [fl EXCEPT !.st = "Done", !.kind = "NoResponse", !.line = fl.index + 1]
      BY <1>8, <2>2 DEF Deadline, Silent
    <3>2. fl'.st = "Done"
      BY <1>1, <3>1 DEF Flashers
    <3> QED
      BY <1>2, <3>2
  <2>3. CASE fl.st \notin {"FillFlush", "Line"}
    BY <1>4, <1>5, <1>6, <1>7, <1>8, <2>3 DEF Deadline, Says, Silent
  <2> QED
    BY <2>1, <2>2, <2>3
<1>9. ASSUME NEW b, NEW long, BytesBefore(b, long)
      PROVE  HasImage(fl)'
  BY <1>4, <1>5, <1>6, <1>7, <1>9 DEF BytesBefore, Says, Silent
<1>10. ASSUME NEW f \in Flashers, NEW i, SendsLine(f, i)
       PROVE  fl' = f
  <2>1. CASE fl' = [f EXCEPT !.st = "Done", !.kind = "ImageUnreadable", !.line = f.index + 1]
    <3>1. fl'.st = "Done"
      BY <2>1 DEF Flashers
    <3> QED
      BY <1>2, <3>1
  <2> QED
    BY <1>10, <2>1 DEF SendsLine, Silent
<1>11. ASSUME NEW b, ByteOfVersion(b)
       PROVE  HasImage(fl)'
  <2>1. CASE SendsLine([fl EXCEPT !.st = "Line"], 0)
    <3>1. [fl EXCEPT !.st = "Line"] \in Flashers
      BY <1>1, FlasherFields DEF States, Outcomes
    <3>2. fl' = [fl EXCEPT !.st = "Line"]
      BY <1>10, <2>1, <3>1
    <3> QED
      BY <1>4, <1>11, <3>2 DEF ByteOfVersion
  <2> QED
    BY <1>6, <1>7, <1>11, <2>1 DEF ByteOfVersion, Says, Silent
<1>12. ASSUME NEW b, ByteOfLine(b)
       PROVE  HasImage(fl)'
  <2> DEFINE f == [fl EXCEPT !.written = @ + 1, !.index = @ + 1]
  <2>1. CASE SendsLine(f, fl.index + 1) /\ fl.index + 1 < Len(fl.image.file)
    <3>1. f \in Flashers
      BY <1>1, FlasherFields DEF States, Outcomes
    <3>2. fl' = f
      BY <1>10, <2>1, <3>1
    <3>3. fl'.image = fl.image /\ fl'.index = fl.index + 1 /\ fl'.st = "Line"
      BY <1>1, <1>12, <3>2 DEF Flashers, ByteOfLine
    <3> QED
      BY <1>3, <2>1, <3>3
  <2>2. CASE \/ \E kind, k : fl' = [fl EXCEPT !.written = @ + 1, !.st = "Done",
                                              !.kind = kind, !.line = k]
             \/ \E kind : fl' = [fl EXCEPT !.written = @ + 1, !.st = "Done", !.kind = kind]
             \/ \E kind, k : fl' = [fl EXCEPT !.st = "Done", !.kind = kind, !.line = k]
    BY <1>1, <1>2, <2>2 DEF Flashers
  <2> QED
    BY <1>12, <2>1, <2>2 DEF ByteOfLine, Silent
<1> QED
  BY <1>8, <1>9, <1>11, <1>12

LEMMA SerialFiles ==
    ASSUME Constants, TypeOK, FilesOK, SerialTask, ~raced'
    PROVE  FilesOK'
<1>1. Sequence(cmds) /\ Queued /\ (~updating => Over(fl))
  BY DEF TypeOK, WireTypes, StoreTypes, FilesOK
<1>2. ASSUME cmds # <<>>, cmds' = Tail(cmds), flash' = flash
      PROVE  Queued'
  <2>1. /\ Len(cmds) \in Nat \ {0} /\ Len(cmds') = Len(cmds) - 1
        /\ \A k \in 1 .. Len(cmds) - 1 : cmds'[k] = cmds[k + 1]
    BY <1>1, <1>2, TailIs
  <2>2. ASSUME NEW n \in 1 .. Len(cmds'), cmds'[n].op = "UpdateFirmware"
        PROVE  n = Len(cmds') /\ flash' = "Starting"
    <3>1. n + 1 \in 1 .. Len(cmds) /\ cmds[n + 1].op = "UpdateFirmware"
      BY <2>1, <2>2
    <3>2. n + 1 = Len(cmds) /\ flash = "Starting"
      BY <1>1, <3>1 DEF Queued
    <3>3. n \in Nat /\ Len(cmds') = (n + 1) - 1
      BY <2>1, <3>2
    <3> QED
      BY <1>2, <3>2, <3>3
  <2> QED
    BY <2>2 DEF Queued
<1>3. CASE KissStep
  <2>1. Chatter
    BY <1>3, KissChatters
  <2>2. Queued'
    BY <1>1, <1>2, <2>1 DEF Chatter, Queued
  <2> QED
    BY <2>1, <2>2, FilesKept DEF Chatter
<1>4. CASE BeginUpdate
  <2>1. Begun /\ UNCHANGED <<hdr, data, taken, job>> /\ cmds # <<>>
        /\ cmds' = Tail(cmds) /\ Head(cmds).op = "UpdateFirmware" /\ Over(fl)
    BY <1>1, <1>4, BeginIs DEF BeginUpdate
  <2>2. Head(cmds) = cmds[1] /\ Len(cmds) = 1 /\ flash = "Starting"
    <3>1. Head(cmds) = cmds[1] /\ Len(cmds) \in Nat \ {0}
      BY <1>1, <2>1, TailIs
    <3>2. cmds[1].op = "UpdateFirmware" /\ 1 \in 1 .. Len(cmds)
      BY <2>1, <3>1
    <3>3. 1 = Len(cmds) /\ flash = "Starting"
      BY <1>1, <3>2 DEF Queued
    <3> QED
      BY <3>1, <3>3
  <2>3. Queued'
    <3>1. Len(cmds') = 0
      BY <1>1, <2>1, <2>2, TailIs
    <3> QED
      BY <3>1 DEF Queued
  <2>4. Uploading' /\ Receiving' = Receiving
    BY <2>1 DEF FilesOK, Uploading, Checked, Receiving, Storing
  <2>5. StagedImage \in {NoImage} \cup Fitting /\ staged' = StagedImage
    BY <2>1, StagedImageIs DEF FilesOK, Begun
  <2>6. Stored'
    BY <2>1, <2>5 DEF FilesOK, Stored
  <2>7. Writing'
    <3>1. CASE fl' = fl
      BY <2>1, <3>1 DEF Writing, Over
    <3>2. CASE ~Refused(StagedImage) /\ flash' = "Flashing"
               /\ fl' = Start(StagedImage).fl
      <4>1. StagedImage \in Fitting
            /\ \A k \in 1 .. Len(StagedImage.file) : data[k] = Record(StagedImage.file, k)
        BY <2>5, <3>2 DEF Refused
      <4>2. /\ Start(StagedImage).fl.image = StagedImage
            /\ Start(StagedImage).fl.index = 0
        <5> DEFINE image == StagedImage
        <5> HIDE DEF image
        <5>1. Start(image).fl.image = image /\ Start(image).fl.index = 0
          BY DEF Start, Discarding, NotRun
        <5> QED
          BY <5>1 DEF image
      <4>3. Len(StagedImage.file) \in Nat \ {0}
        BY <4>1, FittingIs
      <4>4. /\ fl'.image \in Fitting /\ fl'.index = 0 /\ data' = data
            /\ \A k \in 1 .. Len(fl'.image.file) : data[k] = Record(fl'.image.file, k)
            /\ 0 < Len(fl'.image.file)
        BY <2>1, <3>2, <4>1, <4>2, <4>3
      <4>5. ~Receiving'
        BY <1>4, <2>4, <3>2 DEF BeginUpdate
      <4> QED
        BY <3>2, <4>4, <4>5 DEF Writing, HasImage
    <3> QED
      BY <2>1, <3>1, <3>2 DEF Begun
  <2> QED
    BY <2>3, <2>4, <2>6, <2>7 DEF FilesOK
<1>5. ASSUME UNCHANGED <<store, flash, cmds>>, ~Over(fl),
             Deadline \/ \E b, long : BytesBefore(b, long) \/ ByteOfVersion(b)
                                      \/ ByteOfLine(b)
      PROVE  FilesOK'
  <2>1. flash = "Flashing" /\ ~Receiving /\ UNCHANGED <<hdr, data, taken, staged, job>>
    BY <1>5 DEF FilesOK, Writing, store
  <2>2. Writing'
    BY <1>5, <2>1, FlasherHasImage DEF Writing, Over, Receiving, Storing
  <2>3. Uploading'
    BY <2>1 DEF FilesOK, Uploading, Checked
  <2> QED
    BY <1>5, <2>1, <2>2, <2>3 DEF FilesOK, Stored, Queued
<1>6. CASE Timeout
  BY <1>5, <1>6, OnTimeIs DEF Timeout
<1>7. ASSUME NEW long \in BOOLEAN, ReadByte(long)
      PROVE  FilesOK'
  <2>1. BytesBefore(Head(rx).b, long) \/ ByteOfVersion(Head(rx).b) \/ ByteOfLine(Head(rx).b)
    BY <1>7, OnByteIs DEF ReadByte
  <2> QED
    BY <1>5, <1>7, <2>1 DEF ReadByte
<1> QED
  BY <1>3, <1>4, <1>6, <1>7 DEF SerialTask, KissStep

\* Whatever the store, the uploads and the restarts do, the image is in order until
\* an update is begun during an upload.
LEMMA FilesStep ==
    ASSUME Constants, TypeOK, FilesOK, [Next]_vars, ~raced'
    PROVE  FilesOK'
<1>1. CASE TncStep \/ UNCHANGED vars
  <2>1. UNCHANGED <<hdr, staged, data, job, flash, fl, cmds>>
    BY <1>1 DEF TncStep, TncAnswers, TncSetsMode, Noise, TncPowerCut, vars, node, store
  <2> QED
    BY <2>1, FilesKept DEF FilesOK, Queued
<1>2. CASE Restart
  <2>1. /\ staged' = Unread /\ fl' = NotRun /\ cmds' = <<>> /\ hdr' = hdr
        /\ job' = [h \in Http |-> Idle]
    BY <1>2 DEF Restart
  <2>2. Stored'
    BY <2>1 DEF FilesOK, Stored
  <2>3. Uploading' /\ Queued' /\ Writing'
    <3>1. Len(cmds') = 0 /\ Over(fl)'
      BY <2>1, NotRunTyped, ShortIs DEF Over
    <3> QED
      BY <2>1, <3>1 DEF Uploading, Queued, Writing, Idle
  <2> QED
    BY <2>2, <2>3 DEF FilesOK
<1> QED
  BY <1>1, <1>2, HttpFiles, SerialFiles, NextIs

-----------------------------------------------------------------------------
(***************************************************************************)
(* The line.  Every record on it comes right after its predecessor, or     *)
(* after a request for the version; the first one finds a TNC that has     *)
(* taken in the ones before it, or one that is not listening.              *)
(***************************************************************************)
Prefix(f, n) == [k \in 1 .. n |-> Record(f, k)]

\* A record of an image for the TNC at hand.
ForThis(r) ==
    /\ r = Record(r.file, r.k)
    /\ r.file \in Images /\ MadeFor(r.file, tnc.chip) /\ r.k \in 1 .. Len(r.file)

Given(f, n) == tnc.mode # "boot" \/ tnc.got = Prefix(f, n)

\* What may stand before the record r.
Before(m, r) ==
    \/ m.op = "Version" /\ r.k = 1
    \/ m.op = "Line" /\ m.line = Record(r.file, r.k - 1)

InOrder ==
    \A n \in 1 .. Len(tx) : tx[n].op = "Line" =>
        /\ ForThis(tx[n].line)
        /\ n = 1 => Given(tx[n].line.file, tx[n].line.k - 1)
        /\ n > 1 => Before(tx[n - 1], tx[n].line)

\* A byte that reads as a version is the TNC's own.
Honest == \A n \in 1 .. Len(rx) : ChipOf(rx[n].b) \in {Unknown, tnc.chip}

\* What an update that waits for an answer has sent last.
Ready ==
    /\ fl.st = "AwaitVersion" =>
          \/ tx # <<>> /\ tx[Len(tx)].op = "Version"
          \/ tx = <<>> /\ (tnc.mode # "boot" \/ tnc.got = <<>>)
    /\ fl.st = "Line" =>
          /\ fl.image.target = tnc.chip
          /\ \/ /\ tx # <<>> /\ tx[Len(tx)].op = "Line"
                /\ tx[Len(tx)].line = Record(fl.image.file, fl.index + 1)
             \/ tx = <<>> /\ (Given(fl.image.file, fl.index + 1) \/ rx = <<>>)

Got == /\ tnc.mode # "dead"
       /\ \A n \in 1 .. Len(tnc.got) : ForThis(tnc.got[n])

LineOK == InOrder /\ Honest /\ Ready /\ Got

LEMMA PrefixIs ==
    ASSUME NEW f, NEW n \in Nat
    PROVE  /\ Prefix(f, 0) = <<>>
           /\ Append(Prefix(f, n), Record(f, n + 1)) = Prefix(f, n + 1)
<1> DEFINE S == {Record(f, k) : k \in 1 .. n + 1}
<1>1. Prefix(f, 0) = <<>>
  BY DEF Prefix
<1>2. Prefix(f, n) \in Seq(S) /\ Len(Prefix(f, n)) = n
  <2>1. Prefix(f, n) \in [1 .. n -> S]
    BY DEF Prefix
  <2> HIDE DEF S
  <2> QED
    BY <2>1 DEF Prefix
<1>3. Record(f, n + 1) \in S
  OBVIOUS
<1> HIDE DEF S
<1>4. /\ Append(Prefix(f, n), Record(f, n + 1)) \in Seq(S)
      /\ Len(Append(Prefix(f, n), Record(f, n + 1))) = n + 1
      /\ \A k \in 1 .. n + 1 : Append(Prefix(f, n), Record(f, n + 1))[k] = Record(f, k)
  <2>1. \A k \in 1 .. n : Prefix(f, n)[k] = Record(f, k)
    BY DEF Prefix
  <2>2. \A k \in 1 .. n + 1 : k \in 1 .. n \/ k = n + 1
    OBVIOUS
  <2> HIDE DEF Prefix, Record
  <2> QED
    BY <1>2, <1>3, <2>1, <2>2
<1>5. Append(Prefix(f, n), Record(f, n + 1)) = [k \in 1 .. n + 1 |-> Record(f, k)]
  <2> DEFINE a == Append(Prefix(f, n), Record(f, n + 1))
  <2>1. a \in Seq(S) /\ Len(a) = n + 1 /\ \A k \in 1 .. n + 1 : a[k] = Record(f, k)
    BY <1>4
  <2> HIDE DEF a, Record
  <2>2. a \in [1 .. n + 1 -> S]
    BY <2>1
  <2>3. a = [k \in 1 .. n + 1 |-> Record(f, k)]
    BY <2>1, <2>2
  <2> QED
    BY <2>3 DEF a
<1> QED
  BY <1>1, <1>5 DEF Prefix

\* The TNC takes a record in: it is the next of its image.
LEMMA TakesRecord ==
    ASSUME NEW r, ForThis(r), tnc.got = Prefix(r.file, r.k - 1)
    PROVE  /\ Append(tnc.got, r) = Prefix(r.file, r.k)
           /\ r.file[r.k] = "eof" => Whole(Append(tnc.got, r))
<1>1. r.k \in Nat /\ r.k - 1 \in Nat /\ (r.k - 1) + 1 = r.k /\ r = Record(r.file, r.k)
      /\ r.file \in Images /\ MadeFor(r.file, tnc.chip) /\ r.k \in 1 .. Len(r.file)
  BY DEF ForThis
<1>2. Append(tnc.got, r) = Prefix(r.file, r.k)
  <2>1. PICK n \in Nat : n = r.k - 1
    BY <1>1
  <2>2. Append(Prefix(r.file, n), Record(r.file, n + 1)) = Prefix(r.file, n + 1)
    BY PrefixIs
  <2> QED
    BY <1>1, <2>1, <2>2
<1>3. ASSUME r.file[r.k] = "eof"
      PROVE  Whole(Append(tnc.got, r))
  <2>1. r.k = Len(r.file)
    BY <1>1, <1>3 DEF Images
  <2>2. Append(tnc.got, r) = Records(r.file)
    BY <1>2, <2>1 DEF Prefix, Records
  <2> QED
    BY <1>1, <2>2 DEF Whole
<1> QED
  BY <1>2, <1>3

\* What is appended to the line.
LEMMA InOrderAppending ==
    ASSUME Sequence(tx), InOrder, UNCHANGED tnc, NEW m, tx' = Append(tx, m),
           m.op = "Line" => /\ ForThis(m.line)
                            /\ tx = <<>> => Given(m.line.file, m.line.k - 1)
                            /\ tx # <<>> => Before(tx[Len(tx)], m.line)
    PROVE  InOrder'
<1>1. /\ Len(tx) \in Nat /\ Len(tx') = Len(tx) + 1 /\ tx'[Len(tx) + 1] = m
      /\ \A k \in 1 .. Len(tx) : tx'[k] = tx[k]
      /\ tx = <<>> <=> Len(tx) = 0
  BY AppendIs, ShortIs
<1> SUFFICES ASSUME NEW n \in 1 .. Len(tx'), tx'[n].op = "Line"
             PROVE  /\ ForThis(tx'[n].line)
                    /\ n = 1 => Given(tx'[n].line.file, tx'[n].line.k - 1)
                    /\ n > 1 => Before(tx'[n - 1], tx'[n].line)
  BY DEF InOrder, ForThis, Given, Before
<1>2. CASE n \in 1 .. Len(tx)
  <2>1. tx'[n] = tx[n] /\ (n > 1 => tx'[n - 1] = tx[n - 1])
    BY <1>1, <1>2
  <2> QED
    BY <1>2, <2>1 DEF InOrder
<1>3. CASE n = Len(tx) + 1
  <2>1. tx'[n] = m /\ (n > 1 => tx'[n - 1] = tx[Len(tx)])
    BY <1>1, <1>3
  <2>2. (n = 1 => tx = <<>>) /\ (n > 1 => tx # <<>>)
    BY <1>1, <1>3
  <2> QED
    BY <2>1, <2>2
<1> QED
  BY <1>1, <1>2, <1>3

LEMMA InOrderTalking ==
    ASSUME Sequence(tx), InOrder, UNCHANGED tnc, Extends(tx, tx')
    PROVE  InOrder'
<1>1. /\ Len(tx) \in Nat /\ Len(tx') \in Nat /\ Len(tx) <= Len(tx')
      /\ \A k \in 1 .. Len(tx) : tx'[k] = tx[k]
      /\ \A k \in Len(tx) + 1 .. Len(tx') : tx'[k].op # "Line"
  BY ShortIs DEF Extends, Talk
<1> SUFFICES ASSUME NEW n \in 1 .. Len(tx'), tx'[n].op = "Line"
             PROVE  /\ ForThis(tx'[n].line)
                    /\ n = 1 => Given(tx'[n].line.file, tx'[n].line.k - 1)
                    /\ n > 1 => Before(tx'[n - 1], tx'[n].line)
  BY DEF InOrder, ForThis, Given, Before
<1>2. n \in 1 .. Len(tx)
  BY <1>1
<1>3. tx'[n] = tx[n] /\ (n > 1 => tx'[n - 1] = tx[n - 1])
  BY <1>1, <1>2
<1> QED
  BY <1>2, <1>3 DEF InOrder

\* The TNC takes in the head of the line: the next one finds it as it must.
LEMMA InOrderTaking ==
    ASSUME Sequence(tx), tx # <<>>, InOrder, tx' = Tail(tx), tnc'.chip = tnc.chip,
           tx[1].op = "Version" => tnc'.mode # "boot" \/ tnc'.got = <<>>,
           tx[1].op = "Line" => tnc'.mode # "boot"
                                \/ tnc'.got = Prefix(tx[1].line.file, tx[1].line.k)
    PROVE  InOrder'
<1>1. /\ Len(tx) \in Nat \ {0} /\ Len(tx') = Len(tx) - 1
      /\ \A k \in 1 .. Len(tx) - 1 : tx'[k] = tx[k + 1]
  BY TailIs
<1> SUFFICES ASSUME NEW n \in 1 .. Len(tx'), tx'[n].op = "Line"
             PROVE  /\ ForThis(tx'[n].line)
                    /\ n = 1 => \/ tnc'.mode # "boot"
                                \/ tnc'.got = Prefix(tx'[n].line.file, tx'[n].line.k - 1)
                    /\ n > 1 => Before(tx'[n - 1], tx'[n].line)
  BY DEF InOrder, ForThis, Given, Before
<1>2. PICK r : r = tx'[n].line
  OBVIOUS
<1>3. n + 1 \in 1 .. Len(tx) /\ n + 1 > 1 /\ (n + 1) - 1 = n /\ tx'[n] = tx[n + 1]
  BY <1>1
<1>4. ForThis(r) /\ Before(tx[n], r)
  BY <1>2, <1>3 DEF InOrder
<1>5. ASSUME n > 1
      PROVE  tx'[n - 1] = tx[n]
  <2>1. n - 1 \in 1 .. Len(tx) - 1 /\ (n - 1) + 1 = n
    BY <1>1, <1>5
  <2> QED
    BY <1>1, <2>1
<1>6. ASSUME n = 1
      PROVE  tnc'.mode # "boot" \/ tnc'.got = Prefix(r.file, r.k - 1)
  <2>1. Before(tx[1], r)
    BY <1>4, <1>6
  <2>2. CASE tx[1].op = "Version" /\ r.k = 1
    <3>1. r.k - 1 = 0 /\ Prefix(r.file, 0) = <<>>
      <4>1. 0 \in Nat /\ r.k - 1 = 0
        BY <2>2
      <4> QED
        BY <4>1, PrefixIs
    <3> QED
      BY <2>2, <3>1
  <2>3. CASE tx[1].op = "Line" /\ tx[1].line = Record(r.file, r.k - 1)
    <3>1. tx[1].line.file = r.file /\ tx[1].line.k = r.k - 1
      BY <2>3 DEF Record
    <3> QED
      BY <2>3, <3>1
  <2> QED
    BY <2>1, <2>2, <2>3 DEF Before
<1> QED
  BY <1>2, <1>4, <1>5, <1>6

\* Versions are the TNC's own, and nothing else reads as one.
LEMMA BytesAre ==
    ASSUME IsTnc(tnc)
    PROVE  /\ ChipOf(Version) = tnc.chip
           /\ \A b \in {"K", "Z", "N", "x", "new", "old"} : ChipOf(b) = Unknown
           /\ \A m \in Strays : m.b \in {"K", "x", "new", "old"}
           /\ Report.b \in {"new", "old"} /\ \A b : Say(b).b = b
<1>1. tnc.chip \in {"EP256", "EP512"}
  BY DEF IsTnc, Chips
<1> QED
  BY <1>1 DEF ChipOf, Version, Strays, Say, Report

LEMMA HonestReplies ==
    ASSUME Sequence(rx), Honest, tnc'.chip = tnc.chip, NEW says, Replied(says), IsTnc(tnc),
           says = <<>> \/ \E m : says = <<m>> /\ ChipOf(m.b) \in {Unknown, tnc.chip}
    PROVE  Honest'
<1>1. ASSUME NEW m, ChipOf(m.b) \in {Unknown, tnc.chip}, rx' = Append(rx, m)
      PROVE  Honest'
  <2>1. /\ Len(rx) \in Nat /\ Len(rx') = Len(rx) + 1 /\ rx'[Len(rx) + 1] = m
        /\ \A k \in 1 .. Len(rx) : rx'[k] = rx[k]
    BY <1>1, AppendIs, ShortIs
  <2>2. ASSUME NEW n \in 1 .. Len(rx')
        PROVE  ChipOf(rx'[n].b) \in {Unknown, tnc.chip}
    <3>1. CASE n \in 1 .. Len(rx)
      BY <2>1, <3>1 DEF Honest
    <3>2. CASE n = Len(rx) + 1
      BY <1>1, <2>1, <3>2
    <3> QED
      BY <2>1, <3>1, <3>2
  <2> QED
    BY <2>2 DEF Honest
<1>2. CASE rx' = rx
  BY <1>2 DEF Honest
<1>3. ChipOf(Say("N").b) = Unknown
  BY BytesAre
<1>4. rx' = rx \o says \/ rx' = rx \/ rx' = Append(rx, Say("N"))
  BY DEF Replied
<1>5. CASE rx' = rx \o says
  <2>1. CASE says = <<>>
    BY <1>2, <1>5, <2>1, ShortIs
  <2>2. ASSUME NEW m, says = <<m>>, ChipOf(m.b) \in {Unknown, tnc.chip}
        PROVE  Honest'
    BY <1>1, <1>5, <2>2, AppendIs
  <2> QED
    BY <2>1, <2>2
<1> QED
  BY <1>1, <1>2, <1>3, <1>4, <1>5

\* The flasher sends a record of its image in its turn.
LEMMA SendsInTurn ==
    ASSUME Constants, TypeOK, LineOK, HasImage(fl), fl.image.target = tnc.chip, tnc' = tnc,
           rx # <<>>, NEW f \in Flashers, f.image = fl.image, f.st = "Line",
           NEW i \in Nat, i < Len(fl.image.file), f.index = i, SendsLine(f, i),
           \/ fl.st = "AwaitVersion" /\ i = 0
           \/ fl.st = "Line" /\ i = fl.index + 1
    PROVE  InOrder' /\ Ready'
<1>1. /\ Sequence(tx) /\ fl \in Flashers /\ fl.index \in Nat /\ InOrder
      /\ fl.image.file \in Images /\ MadeFor(fl.image.file, tnc.chip)
      /\ Len(fl.image.file) \in Nat \ {0}
  BY FittingIs DEF TypeOK, WireTypes, Flashers, LineOK, HasImage
<1>2. PICK r : r = Record(fl.image.file, i + 1)
  OBVIOUS
<1>3. r.file = fl.image.file /\ r.k = i + 1 /\ r = Record(r.file, r.k) /\ ForThis(r)
  BY <1>1, <1>2 DEF ForThis, Record
<1>4. CASE fl' = f /\ tx' = Append(tx, [op |-> "Line", line |-> data[i + 1]])
  <2>1. PICK m : m = [op |-> "Line", line |-> data[i + 1]]
    OBVIOUS
  <2>2. m.op = "Line" /\ m.line = r /\ tx' = Append(tx, m)
    <3>1. data[i + 1] = r
      BY <1>1, <1>2 DEF HasImage
    <3> QED
      BY <1>4, <2>1, <3>1
  <2>3. tx = <<>> => Given(r.file, r.k - 1)
    <3> SUFFICES ASSUME tx = <<>>
                 PROVE  Given(r.file, r.k - 1)
      OBVIOUS
    <3>1. r.k - 1 = i
      BY <1>3
    <3>2. CASE fl.st = "AwaitVersion" /\ i = 0
      <4>1. tnc.mode # "boot" \/ tnc.got = <<>>
        BY <3>2 DEF LineOK, Ready
      <4>2. Prefix(r.file, 0) = <<>>
        BY PrefixIs
      <4> QED
        BY <3>1, <3>2, <4>1, <4>2 DEF Given
    <3>3. CASE fl.st = "Line" /\ i = fl.index + 1
      <4>1. Given(fl.image.file, fl.index + 1)
        BY <3>3 DEF LineOK, Ready
      <4> QED
        BY <1>3, <3>1, <3>3, <4>1
    <3> QED
      BY <3>2, <3>3
  <2>4. tx # <<>> => Before(tx[Len(tx)], r)
    <3> SUFFICES ASSUME tx # <<>>
                 PROVE  Before(tx[Len(tx)], r)
      OBVIOUS
    <3>1. CASE fl.st = "AwaitVersion" /\ i = 0
      BY <1>3, <3>1 DEF LineOK, Ready, Before
    <3>2. CASE fl.st = "Line" /\ i = fl.index + 1
      <4>1. /\ tx[Len(tx)].op = "Line"
            /\ tx[Len(tx)].line = Record(fl.image.file, fl.index + 1)
        BY <3>2 DEF LineOK, Ready
      <4>2. r.k - 1 = fl.index + 1
        BY <1>1, <1>3, <3>2
      <4> QED
        BY <1>3, <4>1, <4>2 DEF Before
    <3> QED
      BY <3>1, <3>2
  <2>5. InOrder'
    BY <1>1, <1>3, <2>2, <2>3, <2>4, InOrderAppending
  <2>6. Ready'
    <3>1. tx' # <<>> /\ tx'[Len(tx')] = m
      BY <1>1, <2>2, AppendIs
    <3>2. fl'.image = fl.image /\ fl'.index = i /\ fl'.st = "Line" /\ m.line = Record(fl.image.file, i + 1)
      BY <1>2, <1>4, <2>2
    <3> QED
      BY <2>2, <3>1, <3>2 DEF Ready
  <2> QED
    BY <2>5, <2>6
<1>5. CASE Silent([f EXCEPT !.st = "Done", !.kind = "ImageUnreadable", !.line = f.index + 1])
  <2>1. fl'.st = "Done" /\ tx' = tx
    BY <1>5 DEF Silent, Flashers
  <2>2. InOrder'
    BY <1>1, <2>1, ExtendsItself, InOrderTalking
  <2> QED
    BY <2>1, <2>2 DEF Ready
<1> QED
  BY <1>4, <1>5 DEF SendsLine

\* A byte of an update leaves the line in order.
LEMMA ByteInOrder ==
    ASSUME Constants, TypeOK, FilesOK, LineOK, NEW long \in BOOLEAN, ReadByte(long)
    PROVE  InOrder' /\ Ready'
<1> DEFINE b == Head(rx).b
<1>1. /\ Sequence(tx) /\ Sequence(rx) /\ fl \in Flashers /\ IsTnc(tnc) /\ tnc' = tnc
      /\ HasImage(fl) /\ rx # <<>> /\ InOrder /\ Ready
  BY DEF TypeOK, WireTypes, FilesOK, Writing, ReadByte, LineOK
<1>2. BytesBefore(b, long) \/ ByteOfVersion(b) \/ ByteOfLine(b)
  BY OnByteIs DEF ReadByte
<1>3. ChipOf(b) \in {Unknown, tnc.chip}
  <2>1. Head(rx) = rx[1] /\ Len(rx) \in Nat \ {0}
    BY <1>1, TailIs
  <2> QED
    BY <2>1 DEF LineOK, Honest
<1>4. ASSUME NEW op, op # "Line", tx' = Append(tx, Send(op)), fl'.st # "Line",
             fl'.st = "AwaitVersion" => op = "Version"
      PROVE  InOrder' /\ Ready'
  <2>1. PICK m : m = Send(op)
    OBVIOUS
  <2>2. m.op = op /\ tx' = Append(tx, m)
    BY <1>4, <2>1 DEF Send
  <2>3. InOrder'
    BY <1>1, <1>4, <2>2, InOrderAppending
  <2>4. tx' # <<>> /\ tx'[Len(tx')] = m
    BY <1>1, <2>2, AppendIs
  <2> QED
    BY <1>4, <2>2, <2>3, <2>4 DEF Ready
<1>5. ASSUME tx' = tx, fl'.st \notin {"AwaitVersion", "Line"}
      PROVE  InOrder' /\ Ready'
  <2>1. InOrder'
    BY <1>1, <1>5, ExtendsItself, InOrderTalking
  <2> QED
    BY <1>5, <2>1 DEF Ready
<1>6. CASE Silent(fl) /\ fl.st # "Line"
  <2>1. InOrder'
    BY <1>1, <1>6, ExtendsItself, InOrderTalking DEF Silent
  <2> QED
    BY <1>1, <1>6, <2>1 DEF Ready, Silent
<1>7. CASE BytesBefore(b, long)
  <2>1. /\ [fl EXCEPT !.st = "Done", !.kind = "SerialNeverQuiet"].st = "Done"
        /\ [fl EXCEPT !.st = "AwaitVersion"].st = "AwaitVersion"
        /\ [fl EXCEPT !.st = "FillFlush", !.round = 0].st = "FillFlush"
    BY <1>1 DEF Flashers
  <2>2. CASE Silent([fl EXCEPT !.st = "Done", !.kind = "SerialNeverQuiet"])
    BY <1>5, <2>1, <2>2 DEF Silent
  <2>3. CASE Says([fl EXCEPT !.st = "AwaitVersion"], "Version")
    BY <1>4, <2>1, <2>3 DEF Says
  <2>4. CASE Says([fl EXCEPT !.st = "FillFlush", !.round = 0], "GetAll")
    BY <1>4, <2>1, <2>4 DEF Says
  <2> QED
    BY <1>6, <1>7, <2>2, <2>3, <2>4 DEF BytesBefore
<1>8. CASE ByteOfVersion(b)
  <2>1. CASE ChipOf(b) = fl.image.target /\ SendsLine([fl EXCEPT !.st = "Line"], 0)
    <3>1. fl.image.target = tnc.chip
      BY <1>1, <1>3, <2>1, FittingIs DEF HasImage, Chips, Unknown
    <3>2. PICK f : f = [fl EXCEPT !.st = "Line"]
      OBVIOUS
    <3>3. f \in Flashers
      BY <1>1, <3>2, FlasherFields DEF States, Outcomes
    <3>4. f.image = fl.image /\ f.st = "Line" /\ f.index = fl.index /\ fl.st = "AwaitVersion"
      BY <1>1, <1>8, <3>2 DEF Flashers, ByteOfVersion
    <3>5. fl.index = 0 /\ 0 < Len(fl.image.file) /\ 0 \in Nat
      BY <1>1, <3>4 DEF HasImage
    <3>6. SendsLine(f, 0) /\ f.index = 0
      BY <2>1, <3>2, <3>4, <3>5
    <3> QED
      BY <1>1, <3>1, <3>3, <3>4, <3>5, <3>6, SendsInTurn
  <2>2. ASSUME NEW kind, Says([fl EXCEPT !.st = "AbortSettle", !.kind = kind], "Reset")
        PROVE  InOrder' /\ Ready'
    <3>1. fl'.st = "AbortSettle"
      BY <1>1, <2>2 DEF Says, Flashers
    <3> QED
      BY <1>4, <2>2, <3>1 DEF Says
  <2> QED
    BY <1>6, <1>8, <2>1, <2>2 DEF ByteOfVersion
<1>9. CASE ByteOfLine(b)
  <2>1. CASE /\ fl.index + 1 < Len(fl.image.file)
             /\ SendsLine([fl EXCEPT !.written = @ + 1, !.index = @ + 1], fl.index + 1)
    <3>1. fl.image.target = tnc.chip /\ fl.st = "Line"
      BY <1>1, <1>9 DEF Ready, ByteOfLine
    <3>2. PICK f : f = [fl EXCEPT !.written = @ + 1, !.index = @ + 1]
      OBVIOUS
    <3>3. f \in Flashers
      BY <1>1, <3>2, FlasherFields DEF States, Outcomes
    <3>4. PICK i \in Nat : i = fl.index + 1
      BY <1>1 DEF Flashers
    <3>5. f.image = fl.image /\ f.st = "Line" /\ f.index = i
      BY <1>1, <3>1, <3>2, <3>4 DEF Flashers
    <3>6. SendsLine(f, i) /\ i < Len(fl.image.file)
      BY <2>1, <3>2, <3>4
    <3> QED
      BY <1>1, <3>1, <3>3, <3>4, <3>5, <3>6, SendsInTurn
  <2>2. CASE /\ tx' = tx
             /\ \/ \E kind, k : fl' = [fl EXCEPT !.written = @ + 1, !.st = "Done",
                                                 !.kind = kind, !.line = k]
                \/ \E kind : fl' = [fl EXCEPT !.written = @ + 1, !.st = "Done", !.kind = kind]
                \/ \E kind, k : fl' = [fl EXCEPT !.st = "Done", !.kind = kind, !.line = k]
    <3>1. fl'.st = "Done"
      BY <1>1, <2>2 DEF Flashers
    <3> QED
      BY <1>5, <2>2, <3>1
  <2> QED
    BY <1>9, <2>1, <2>2 DEF ByteOfLine, Silent
<1> QED
  BY <1>2, <1>7, <1>8, <1>9

\* A deadline leaves it in order too: it never sends a record.
LEMMA DeadlineInOrder ==
    ASSUME TypeOK, LineOK, Deadline, ~Over(fl), tnc' = tnc
    PROVE  InOrder' /\ Ready'
<1>1. Sequence(tx) /\ fl \in Flashers /\ InOrder
  BY DEF TypeOK, WireTypes, LineOK
<1>2. ASSUME NEW op, op # "Line", tx' = Append(tx, Send(op))
      PROVE  InOrder'
  <2>1. PICK m : m = Send(op)
    OBVIOUS
  <2>2. m.op = op /\ tx' = Append(tx, m)
    BY <1>2, <2>1 DEF Send
  <2> QED
    BY <1>1, <1>2, <2>2, InOrderAppending
<1>3. tx' = tx => InOrder'
  BY <1>1, ExtendsItself, InOrderTalking
<1>4. InOrder'
  BY <1>2, <1>3 DEF Deadline, Says, Silent
<1>5. fl'.st \notin {"AwaitVersion", "Line"}
  BY <1>1 DEF Deadline, Says, Silent, Flashers, Over
<1> QED
  BY <1>4, <1>5 DEF Ready

\* What the TNC takes in leaves the bootloader with records of an image of its own.
LEMMA GotRecords ==
    ASSUME Got, Sequence(tnc.got), tnc'.chip = tnc.chip, tnc'.mode # "dead",
           \/ tnc'.got \in {tnc.got, <<>>}
           \/ \E r : ForThis(r) /\ tnc'.got = Append(tnc.got, r)
    PROVE  Got'
<1>1. \A r : ForThis(r) => /\ r = Record(r.file, r.k) /\ r.file \in Images
                           /\ MadeFor(r.file, tnc'.chip) /\ r.k \in 1 .. Len(r.file)
  BY DEF ForThis
<1>2. \A n \in 1 .. Len(tnc.got) : ForThis(tnc.got[n])
  BY DEF Got
<1>3. CASE tnc'.got = tnc.got
  BY <1>1, <1>2, <1>3 DEF Got, ForThis
<1>4. CASE tnc'.got = <<>>
  <2>1. Len(tnc'.got) = 0
    BY <1>4, ShortIs
  <2> QED
    BY <2>1 DEF Got
<1>5. ASSUME NEW r, ForThis(r), tnc'.got = Append(tnc.got, r)
      PROVE  Got'
  <2>1. /\ Len(tnc.got) \in Nat /\ Len(tnc'.got) = Len(tnc.got) + 1
        /\ tnc'.got[Len(tnc.got) + 1] = r
        /\ \A k \in 1 .. Len(tnc.got) : tnc'.got[k] = tnc.got[k]
    BY <1>5, AppendIs, ShortIs
  <2>2. ASSUME NEW n \in 1 .. Len(tnc'.got)
        PROVE  \E q : ForThis(q) /\ tnc'.got[n] = q
    <3>1. CASE n \in 1 .. Len(tnc.got)
      BY <1>2, <2>1, <3>1
    <3>2. CASE n = Len(tnc.got) + 1
      BY <1>5, <2>1, <3>2
    <3> QED
      BY <2>1, <3>1, <3>2
  <2> QED
    BY <1>1, <2>2 DEF Got, ForThis
<1> QED
  BY <1>3, <1>4, <1>5

\* The head of the line, if it is a record, is the one the bootloader needs next.
LEMMA HeadIs ==
    ASSUME TypeOK, LineOK, tx # <<>>
    PROVE  /\ Head(tx) = tx[1] /\ Len(tx) \in Nat \ {0}
           /\ tx[1].op = "Line" => /\ ForThis(tx[1].line)
                                   /\ Given(tx[1].line.file, tx[1].line.k - 1)
<1>1. Head(tx) = tx[1] /\ Len(tx) \in Nat \ {0}
  BY TailIs DEF TypeOK, WireTypes
<1>2. 1 \in 1 .. Len(tx)
  BY <1>1
<1> QED
  BY <1>1, <1>2 DEF LineOK, InOrder

\* What the flasher sent last is still the last, or the TNC has just taken it in.
LEMMA ReadyTaking ==
    ASSUME Sequence(tx), tx # <<>>, Ready, tx' = Tail(tx), fl' = fl, tnc'.chip = tnc.chip,
           tx[1].op = "Version" => tnc'.mode # "boot" \/ tnc'.got = <<>>,
           tx[1].op = "Line" => tnc'.mode # "boot"
                                \/ tnc'.got = Prefix(tx[1].line.file, tx[1].line.k)
    PROVE  Ready'
<1>1. /\ Len(tx) \in Nat \ {0} /\ Len(tx') = Len(tx) - 1 /\ Sequence(tx')
      /\ \A k \in 1 .. Len(tx) - 1 : tx'[k] = tx[k + 1]
  BY TailIs
<1>2. CASE Len(tx) = 1
  <2>1. tx' = <<>>
    <3>1. Len(tx') = 0
      BY <1>1, <1>2
    <3> QED
      BY <1>1, <3>1, ShortIs
  <2>2. ASSUME fl.st = "AwaitVersion"
        PROVE  tnc'.mode # "boot" \/ tnc'.got = <<>>
    BY <1>2, <2>2 DEF Ready
  <2>3. ASSUME fl.st = "Line"
        PROVE  /\ fl.image.target = tnc.chip
               /\ tnc'.mode # "boot" \/ tnc'.got = Prefix(fl.image.file, fl.index + 1)
    BY <1>2, <2>3 DEF Ready, Record
  <2> QED
    BY <2>1, <2>2, <2>3 DEF Ready, Given
<1>3. CASE Len(tx) # 1
  <2>1. tx' # <<>> /\ tx'[Len(tx')] = tx[Len(tx)]
    <3>1. Len(tx') \in 1 .. Len(tx) - 1 /\ Len(tx') + 1 = Len(tx) /\ Len(tx') # 0
      BY <1>1, <1>3
    <3>2. tx' # <<>>
      BY <3>1, ShortIs
    <3>3. tx'[Len(tx')] = tx[Len(tx') + 1]
      BY <1>1, <3>1
    <3> QED
      BY <3>1, <3>2, <3>3
  <2> QED
    BY <2>1 DEF Ready
<1> QED
  BY <1>2, <1>3

\* The TNC answers.
LEMMA AnswersInOrder ==
    ASSUME Constants, TypeOK, LineOK, TncAnswers
    PROVE  LineOK'
<1>1. /\ Sequence(tx) /\ Sequence(rx) /\ IsTnc(tnc) /\ Sequence(tnc.got) /\ tx # <<>>
      /\ tx' = Tail(tx) /\ fl' = fl /\ AnswerTo(tx[1])
      /\ tnc.mode \in {"kiss", "boot", "dead"} /\ tnc.mode # "dead"
  BY AnswerIs, HeadIs DEF TypeOK, WireTypes, IsTnc, TncAnswers, node, LineOK, Got
<1>2. tx[1].op = "Line" => /\ ForThis(tx[1].line)
                           /\ Given(tx[1].line.file, tx[1].line.k - 1)
  BY <1>1, HeadIs
<1>3. tnc'.chip = tnc.chip
  BY <1>1 DEF AnswerTo, Answered, TncStays, TncBecomes
<1>4. ASSUME NEW says, Replied(says),
             says = <<>> \/ \E m : says = <<m>> /\ ChipOf(m.b) \in {Unknown, tnc.chip}
      PROVE  Honest'
  BY <1>1, <1>3, <1>4, HonestReplies DEF LineOK
<1>5. /\ Honest'
      /\ tnc'.mode # "dead"
      /\ \/ tnc'.got \in {tnc.got, <<>>}
         \/ \E r : ForThis(r) /\ tnc'.got = Append(tnc.got, r)
      /\ tx[1].op = "Version" => tnc'.mode # "boot" \/ tnc'.got = <<>>
      /\ tx[1].op = "Line" => tnc'.mode # "boot"
                              \/ tnc'.got = Prefix(tx[1].line.file, tx[1].line.k)
  <2>0. /\ ChipOf(Say("K").b) = Unknown /\ ChipOf(Say("Z").b) = Unknown
        /\ ChipOf(Report.b) = Unknown /\ ChipOf(Say(Version).b) = tnc.chip
    BY <1>1, BytesAre
  <2>1. CASE tnc.mode = "boot" /\ tx[1].op = "Line"
    <3>1. PICK r : r = tx[1].line
      OBVIOUS
    <3>2. ForThis(r) /\ tnc.got = Prefix(r.file, r.k - 1)
      BY <1>2, <2>1, <3>1 DEF Given
    <3>3. /\ Append(tnc.got, r) = Prefix(r.file, r.k)
          /\ r.file[r.k] = "eof" => Whole(Append(tnc.got, r))
      BY <3>2, TakesRecord
    <3>4. Answered(r)
      BY <1>1, <2>1, <3>1 DEF AnswerTo
    <3>5. CASE TncBecomes("boot", FALSE, Append(tnc.got, r)) /\ Replied(<<Say("K")>>)
      <4>1. Honest'
        BY <1>4, <2>0, <3>5
      <4> QED
        BY <2>1, <3>1, <3>2, <3>3, <3>5, <4>1 DEF TncBecomes
    <3>6. CASE TncBecomes("kiss", TRUE, Append(tnc.got, r)) /\ Replied(<<Say("Z")>>)
      <4>1. Honest'
        BY <1>4, <2>0, <3>6
      <4> QED
        BY <2>1, <3>1, <3>2, <3>3, <3>6, <4>1 DEF TncBecomes
    <3> QED
      BY <3>3, <3>4, <3>5, <3>6 DEF Answered
  <2>2. CASE tnc.mode = "boot" /\ tx[1].op = "Version"
    <3>1. TncBecomes("boot", tnc.intact, <<>>) /\ Replied(<<Say(Version)>>)
      BY <1>1, <2>2 DEF AnswerTo
    <3>2. Honest'
      BY <1>4, <2>0, <3>1
    <3> QED
      BY <2>2, <3>1, <3>2 DEF TncBecomes
  <2>3. CASE ~(tnc.mode = "boot" /\ tx[1].op \in {"Line", "Version"})
    <3>1. \/ TncStays /\ Replied(<<Report>>)
          \/ TncBecomes("boot", tnc.intact, <<>>) /\ Replied(<<Say("K")>>) /\ tx[1].op = "Entry"
          \/ TncBecomes("kiss", tnc.intact, tnc.got) /\ Replied(<<>>)
          \/ TncStays /\ Replied(<<Say("K")>>)
          \/ TncStays /\ Replied(<<>>)
      BY <1>1, <2>3 DEF AnswerTo
    <3>2. Honest'
      BY <1>4, <2>0, <3>1
    <3> QED
      BY <1>1, <2>3, <3>1, <3>2 DEF TncStays, TncBecomes
  <2> QED
    BY <2>1, <2>2, <2>3
<1>6. InOrder'
  BY <1>1, <1>3, <1>5, InOrderTaking DEF LineOK
<1>7. Ready'
  BY <1>1, <1>3, <1>5, ReadyTaking DEF LineOK
<1>8. Got'
  BY <1>1, <1>3, <1>5, GotRecords DEF LineOK
<1> QED
  BY <1>5, <1>6, <1>7, <1>8 DEF LineOK

\* Every step leaves the line in order.
LEMMA LineStep ==
    ASSUME Constants, TypeOK, FilesOK, LineOK, [Next]_vars
    PROVE  LineOK'
<1>1. /\ Sequence(tx) /\ Sequence(rx) /\ IsTnc(tnc) /\ Sequence(tnc.got)
      /\ fl \in Flashers
  BY DEF TypeOK, WireTypes, IsTnc
<1>2. ASSUME tnc' = tnc
      PROVE  Got'
  BY <1>2 DEF LineOK, Got, ForThis
<1>3. ASSUME rx' = rx \/ (rx # <<>> /\ rx' = Tail(rx)) \/ rx' = <<>>, tnc' = tnc
      PROVE  Honest'
  <2>1. CASE rx' = rx
    BY <1>3, <2>1 DEF LineOK, Honest
  <2>2. CASE rx # <<>> /\ rx' = Tail(rx)
    <3>1. /\ Len(rx) \in Nat /\ Len(rx') = Len(rx) - 1
          /\ \A k \in 1 .. Len(rx) - 1 : rx'[k] = rx[k + 1]
      BY <1>1, <2>2, TailIs
    <3>2. ASSUME NEW n \in 1 .. Len(rx')
          PROVE  n + 1 \in 1 .. Len(rx) /\ rx'[n] = rx[n + 1]
      BY <3>1, <3>2
    <3> QED
      BY <1>3, <3>2 DEF LineOK, Honest
  <2>3. CASE rx' = <<>>
    <3>1. Len(rx') = 0
      BY <2>3, ShortIs
    <3> QED
      BY <3>1 DEF Honest
  <2> QED
    BY <1>3, <2>1, <2>2, <2>3
<1>4. ASSUME UNCHANGED <<tx, tnc>>
      PROVE  InOrder'
  BY <1>1, <1>4, ExtendsItself, InOrderTalking DEF LineOK
<1>5. ASSUME fl'.st \notin {"AwaitVersion", "Line"}
      PROVE  Ready'
  BY <1>5 DEF Ready
<1>6. CASE HttpStep \/ UNCHANGED vars
  <2>1. UNCHANGED <<tx, rx, tnc, fl>>
    BY <1>6, HttpIsStill DEF Still, vars, node, line
  <2>2. Ready'
    BY <2>1 DEF LineOK, Ready, Given
  <2> QED
    BY <1>2, <1>3, <1>4, <2>1, <2>2 DEF LineOK
<1>7. CASE KissStep
  <2>1. Chatter
    BY <1>7, KissChatters
  <2>2. fl' = fl /\ fl.st = "Done" /\ tnc' = tnc /\ Extends(tx, tx')
        /\ (rx' = rx \/ (rx # <<>> /\ rx' = Tail(rx)))
    BY <2>1 DEF Chatter, Over
  <2>3. InOrder'
    BY <1>1, <2>2, InOrderTalking DEF LineOK
  <2>4. Ready'
    BY <1>5, <2>2
  <2> QED
    BY <1>2, <1>3, <2>2, <2>3, <2>4 DEF LineOK
<1>8. CASE BeginUpdate
  <2>1. Begun /\ tnc' = tnc
    BY <1>8, BeginIs DEF BeginUpdate
  <2>2. CASE UNCHANGED <<fl, updating, tx, rx>>
    <3>1. Ready'
      BY <2>1, <2>2 DEF LineOK, Ready, Given
    <3> QED
      BY <1>2, <1>3, <1>4, <2>1, <2>2, <3>1 DEF LineOK
  <2>3. CASE fl' = Start(StagedImage).fl /\ tx' = tx /\ rx' = <<>>
    <3>1. fl'.st = "Drain"
      BY <2>3 DEF Start, Discarding, NotRun
    <3>2. Ready'
      BY <1>5, <3>1
    <3> QED
      BY <1>2, <1>3, <1>4, <2>1, <2>3, <3>2 DEF LineOK
  <2> QED
    BY <2>1, <2>2, <2>3 DEF Begun
<1>9. CASE Restart
  <2>1. tx' = <<Send("GetAll")>> /\ rx' = <<>> /\ tnc' = tnc /\ fl' = NotRun
    BY <1>9 DEF Restart
  <2>2. Len(tx') = 1 /\ tx'[1].op = "GetAll"
    BY <2>1, ShortIs DEF Send
  <2>3. InOrder'
    BY <2>2 DEF InOrder
  <2>4. fl'.st = "Done"
    BY <2>1 DEF NotRun
  <2>5. Ready'
    BY <1>5, <2>4
  <2> QED
    BY <1>2, <1>3, <2>1, <2>3, <2>5 DEF LineOK
<1>10. CASE Timeout
  <2>1. Deadline /\ tnc' = tnc /\ ~Over(fl) /\ (rx' = rx \/ rx' = <<>>)
    BY <1>10, OnTimeIs DEF Timeout
  <2>2. InOrder' /\ Ready'
    BY <2>1, DeadlineInOrder
  <2> QED
    BY <1>2, <1>3, <2>1, <2>2 DEF LineOK
<1>11. ASSUME NEW long \in BOOLEAN, ReadByte(long)
       PROVE  LineOK'
  <2>1. InOrder' /\ Ready'
    BY <1>11, ByteInOrder
  <2>2. tnc' = tnc /\ rx # <<>> /\ rx' = Tail(rx)
    BY <1>11 DEF ReadByte
  <2> QED
    BY <1>2, <1>3, <2>1, <2>2 DEF LineOK
<1>12. CASE TncAnswers
  BY <1>12, AnswersInOrder
<1>13. CASE TncSetsMode
  <2>1. /\ TncStays /\ tx # <<>> /\ tx' = Tail(tx) /\ tx[1].op = "SetHw"
        /\ rx' = rx /\ fl' = fl
    BY <1>1, <1>13, SetsModeIs, HeadIs DEF TncSetsMode, node
  <2>2. tnc'.chip = tnc.chip /\ tnc'.mode = tnc.mode /\ tnc'.got = tnc.got
    BY <2>1 DEF TncStays, TncBecomes
  <2>3. tnc'.mode # "dead"
    BY <2>2 DEF LineOK, Got
  <2> QED
    BY <1>1, <2>1, <2>2, <2>3, InOrderTaking, ReadyTaking, GotRecords DEF LineOK, Honest
<1>14. ASSUME NEW m \in Strays, Noise(m)
       PROVE  LineOK'
  <2>1. /\ UNCHANGED <<tx, tnc, fl>> /\ tnc.mode = "kiss" /\ rx' = Append(rx, m)
    BY <1>14 DEF Noise, node
  <2>2. Honest'
    <3>1. /\ Len(rx) \in Nat /\ Len(rx') = Len(rx) + 1 /\ rx'[Len(rx) + 1] = m
          /\ \A k \in 1 .. Len(rx) : rx'[k] = rx[k]
      BY <1>1, <2>1, AppendIs, ShortIs
    <3>2. ChipOf(m.b) = Unknown
      BY <1>1, BytesAre
    <3>3. ASSUME NEW n \in 1 .. Len(rx')
          PROVE  ChipOf(rx'[n].b) \in {Unknown, tnc.chip}
      <4>1. CASE n \in 1 .. Len(rx)
        BY <3>1, <4>1 DEF LineOK, Honest
      <4>2. CASE n = Len(rx) + 1
        BY <3>1, <3>2, <4>2
      <4> QED
        BY <3>1, <4>1, <4>2
    <3> QED
      BY <2>1, <3>3 DEF Honest
  <2>3. Ready'
    BY <2>1 DEF LineOK, Ready, Given
  <2> QED
    BY <1>2, <1>4, <2>1, <2>2, <2>3 DEF LineOK
<1>15. CASE TncPowerCut
  <2>1. /\ TncBecomes(IF tnc.intact THEN "kiss" ELSE "boot", tnc.intact, <<>>)
        /\ tx' = <<>> /\ Len(tx') = 0 /\ rx' = rx /\ fl' = fl /\ rx = <<>>
    BY <1>15, PowerCutIs, ShortIs DEF TncPowerCut, node
  <2>2. tnc'.chip = tnc.chip /\ tnc'.mode \in {"kiss", "boot"} /\ tnc'.got = <<>>
    BY <2>1 DEF TncBecomes
  <2>3. InOrder'
    BY <2>1 DEF InOrder
  <2>4. Ready'
    BY <2>1, <2>2 DEF LineOK, Ready, Given
  <2>5. Honest'
    BY <2>1, <2>2 DEF LineOK, Honest
  <2>6. Got'
    BY <1>1, <2>2, GotRecords DEF LineOK
  <2> QED
    BY <2>3, <2>4, <2>5, <2>6 DEF LineOK
<1> QED
  BY <1>6, <1>7, <1>8, <1>9, <1>10, <1>11, <1>12, <1>13, <1>14, <1>15, NextIs
     DEF SerialTask, KissStep, TncStep

LEMMA StartsInOrder ==
    ASSUME Constants, Init
    PROVE  FilesOK /\ LineOK
<1>1. /\ fl = NotRun /\ hdr = NoImage /\ staged = Unread /\ cmds = <<>> /\ rx = <<>>
      /\ job = [h \in Http |-> Idle] /\ tx = <<Send("GetAll")>>
      /\ tnc.got = <<>> /\ tnc.mode = "kiss"
  BY DEF Init
<1>2. Len(cmds) = 0 /\ Len(rx) = 0 /\ Len(tnc.got) = 0 /\ Len(tx) = 1 /\ tx[1].op = "GetAll"
  BY <1>1, ShortIs DEF Send
<1>3. fl.st = "Done"
  BY <1>1 DEF NotRun
<1> QED
  BY <1>1, <1>2, <1>3 DEF FilesOK, Stored, Uploading, Queued, Writing, Over, Idle, LineOK,
     InOrder, Honest, Ready, Got

\* What has been begun during an upload stays so.
LEMMA RacedStays ==
    ASSUME [Next]_vars, raced
    PROVE  raced'
<1>1. CASE HttpStep
  BY <1>1 DEF HttpStep, PostMode, PostParams, PostSettings, PostRefresh, BeginUpload,
     PushLine, CutShort, TakeFlash, PressUpdate
<1>2. CASE SerialTask
  BY <1>2 DEF SerialTask, SetMode, SetParams, Refresh, SetterDeadline, HearReport, HearOther,
     AskAgain, BeginUpdate, Timeout, EndUpdate, ReadByte
<1>3. CASE TncStep \/ Restart \/ UNCHANGED vars
  BY <1>3 DEF TncStep, TncAnswers, TncSetsMode, Noise, TncPowerCut, Restart, vars
<1> QED
  BY <1>1, <1>2, <1>3, NextIs

\* Until an update is begun during an upload the bootloader is never given a record
\* of a file that is not whole, in order and for its own chip, whatever was uploaded
\* at the same time as something else, whatever is uploaded meanwhile and whatever the
\* line does: no update leaves a TNC without firmware it can start.
THEOREM NotBricked == Spec => []NeverBricked
<1>1. Constants
  BY FileAssumption, TncAssumption, AttemptsAssumption DEF Constants
<1> DEFINE Together == ~raced => FilesOK /\ LineOK
<1>2. Init => Together
  BY <1>1, StartsInOrder
<1>3. TypeOK /\ Together /\ [Next]_vars => Together'
  BY <1>1, RacedStays, FilesStep, LineStep
<1>4. Together => NeverBricked
  BY DEF LineOK, Got, ForThis, NeverBricked, NotBrickedNow
<1> HIDE DEF Together
<1>5. Spec => []Together
  BY <1>2, <1>3, TypeCorrect, SafetyPart, PTL
<1> QED
  BY <1>4, <1>5, PTL

-----------------------------------------------------------------------------
(***************************************************************************)
(* An update that meets nothing unusual.  From the drain on, the flasher   *)
(* and the TNC are in lock step: one of them has one thing to read, which  *)
(* is what it waits for.                                                   *)
(***************************************************************************)
Both(t, r) == tx = t /\ rx = r

NextRecord == [op |-> "Line", line |-> Record(fl.image.file, fl.index + 1)]

Stage ==
    \/ fl.st = "Drain"
    \/ /\ fl.st = "StrandedProbe"
       /\ \/ Both(<<Send("Reset")>>, <<>>)
          \/ tnc.mode = "boot" /\ Both(<<>>, <<Say("K")>>)
          \/ tnc.mode = "kiss" /\ Both(<<>>, <<>>)
    \/ /\ fl.st = "FillFlush" /\ tnc.mode = "kiss"
       /\ tx = <<>> \/ Both(<<Send("GetAll")>>, <<>>)
    \/ fl.st = "Redrain" /\ tnc.mode = "kiss" /\ Both(<<>>, <<>>)
    \/ /\ fl.st = "AwaitReady"
       /\ \/ tnc.mode = "kiss" /\ Both(<<Send("Entry")>>, <<>>)
          \/ tnc.mode = "boot" /\ Both(<<>>, <<Say("K")>>)
    \/ /\ fl.st = "AwaitVersion" /\ tnc.mode = "boot"
       /\ Both(<<Send("Version")>>, <<>>) \/ Both(<<>>, <<Say(Version)>>)
    \/ /\ fl.st = "Line"
       /\ \/ tnc.mode = "boot" /\ Both(<<NextRecord>>, <<>>)
          \/ /\ tnc.mode = "boot" /\ Both(<<>>, <<Say("K")>>)
             /\ fl.index + 1 < Len(fl.image.file)
          \/ tnc.mode = "kiss" /\ Both(<<>>, <<Say("Z")>>)
    \/ fl.st = "Done" /\ fl.kind = "Updated" /\ tnc.mode = "kiss" /\ tx = <<>>

InStep == updating /\ clean /\ fl.image.target = tnc.chip => ~taken /\ Stage

\* One thing put on a line with nothing on it, and one taken from it.
LEMMA OneOnTheLine ==
    /\ \A m : Append(<<>>, m) = <<m>> /\ <<>> \o <<m>> = <<m>>
    /\ \A m : <<m>> # <<>> /\ Head(<<m>>) = m /\ Tail(<<m>>) = <<>>
    /\ <<>> \o <<>> = <<>>
<1>1. \A m : <<>> \o <<m>> = <<m>>
  BY ShortIs
<1>2. \A m : <<>> \o <<m>> = Append(<<>>, m)
  BY ShortIs, AppendIs
<1> QED
  BY <1>1, <1>2, ShortIs

\* A deadline that passes while nothing is on the line.
LEMMA DeadlineInStep ==
    ASSUME TypeOK, Stage, Both(<<>>, <<>>), Deadline, ~Over(fl), rx' = <<>>, tnc' = tnc
    PROVE  Stage'
<1>1. fl \in Flashers /\ fl.st # "Done"
  BY DEF TypeOK, WireTypes, Over
<1>2. \/ fl.st = "Drain"
      \/ fl.st \in {"StrandedProbe", "FillFlush", "Redrain"} /\ tnc.mode = "kiss"
  BY <1>1, OneOnTheLine DEF Stage, Both
<1>3. ASSUME NEW op, tx' = Append(tx, Send(op))
      PROVE  tx' = <<Send(op)>>
  BY <1>3, OneOnTheLine DEF Both
<1>4. CASE fl.st = "Drain"
  <2>1. fl'.st = "StrandedProbe" /\ tx' = <<Send("Reset")>>
    BY <1>1, <1>3, <1>4 DEF Deadline, Says, Flashers
  <2> QED
    BY <2>1 DEF Stage, Both
<1>5. CASE fl.st = "StrandedProbe"
  <2>1. fl'.st = "FillFlush" /\ tx' = <<Send("GetAll")>> /\ tnc.mode = "kiss"
    BY <1>1, <1>2, <1>3, <1>5 DEF Deadline, Says, Flashers
  <2> QED
    BY <2>1 DEF Stage, Both
<1>6. CASE fl.st = "FillFlush"
  <2>1. \/ fl'.st = "FillFlush" /\ tx' = <<Send("GetAll")>>
        \/ fl'.st = "Redrain" /\ tx' = tx
    BY <1>1, <1>3, <1>6 DEF Deadline, Says, Silent, Flashers
  <2>2. tnc.mode = "kiss" /\ tx = <<>>
    BY <1>2, <1>6 DEF Both
  <2> QED
    BY <2>1, <2>2 DEF Stage, Both
<1>7. CASE fl.st = "Redrain"
  <2>1. fl'.st = "AwaitReady" /\ tx' = <<Send("Entry")>> /\ tnc.mode = "kiss"
    BY <1>1, <1>2, <1>3, <1>7 DEF Deadline, Says, Flashers
  <2> QED
    BY <2>1 DEF Stage, Both
<1> QED
  BY <1>2, <1>4, <1>5, <1>6, <1>7

\* The next record of the image is in flash.
LEMMA SendsNext ==
    ASSUME Constants, TypeOK, FilesOK, ~Over(fl), ~taken, tx = <<>>, tnc' = tnc,
           tnc.mode = "boot", rx' = <<>>, NEW f, f.image = fl.image, f.st = "Line",
           NEW i \in Nat, i < Len(fl.image.file), f.index = i, SendsLine(f, i)
    PROVE  Stage'
<1>1. HasImage(fl) /\ fl.image.file \in Files
  BY FittingIs DEF FilesOK, Writing, HasImage
<1>2. Len(fl.image.file) \in Nat
  BY <1>1, HeadersAreTyped
<1>3. data[i + 1] = Record(fl.image.file, i + 1)
  BY <1>1, <1>2 DEF HasImage
<1>4. data[i + 1] # Erased
  <2>1. data[i + 1].k = i + 1 /\ Erased.k = 0 /\ i + 1 # 0
    BY <1>3 DEF Record, Erased
  <2> QED
    BY <2>1
<1>5. fl' = f /\ tx' = Append(tx, [op |-> "Line", line |-> data[i + 1]])
  BY <1>4 DEF SendsLine
<1>6. tx' = <<[op |-> "Line", line |-> Record(fl.image.file, i + 1)]>>
  BY <1>3, <1>5, OneOnTheLine
<1>7. /\ fl'.st = "Line" /\ fl'.image.file = fl.image.file /\ fl'.index = i
      /\ tx' = <<[op |-> "Line", line |-> Record(fl'.image.file, fl'.index + 1)]>>
  BY <1>5, <1>6
<1> QED
  BY <1>7 DEF Stage, Both, NextRecord

\* The flasher reads what it waits for.
LEMMA ByteInStep ==
    ASSUME Constants, TypeOK, FilesOK, LineOK, Stage, fl.image.target = tnc.chip, ~taken,
           ReadByte(FALSE)
    PROVE  Stage'
<1> DEFINE b == Head(rx).b
<1>1. /\ fl \in Flashers /\ fl.st # "Done" /\ ~Over(fl) /\ rx # <<>> /\ rx' = Tail(rx)
      /\ tnc' = tnc /\ IsTnc(tnc)
      /\ BytesBefore(b, FALSE) \/ ByteOfVersion(b) \/ ByteOfLine(b)
  BY OnByteIs DEF TypeOK, WireTypes, ReadByte, Over
<1>2. /\ fl.image.file \in Files /\ Len(fl.image.file) \in Nat \ {0}
      /\ fl.index \in Nat /\ fl.index < Len(fl.image.file)
      /\ fl.st # "Line" => fl.index = 0
  BY <1>1, FittingIs DEF FilesOK, Writing, HasImage, Flashers
<1>3. CASE fl.st = "Drain"
  <2>1. fl' = fl
    BY <1>1, <1>3 DEF BytesBefore, ByteOfVersion, ByteOfLine, Silent
  <2> QED
    BY <1>3, <2>1 DEF Stage
<1>4. CASE fl.st \in {"StrandedProbe", "AwaitReady"}
  <2>1. rx = <<Say("K")>> /\ tx = <<>> /\ tnc.mode = "boot"
    BY <1>1, <1>4 DEF Stage, Both
  <2>2. b = "K" /\ rx' = <<>>
    BY <1>1, <2>1, OneOnTheLine DEF Say
  <2>3. fl'.st = "AwaitVersion" /\ tx' = Append(tx, Send("Version"))
    BY <1>1, <1>4, <2>2 DEF BytesBefore, ByteOfVersion, ByteOfLine, Says, Flashers
  <2>4. tx' = <<Send("Version")>>
    BY <2>1, <2>3, OneOnTheLine
  <2> QED
    BY <1>1, <2>1, <2>2, <2>3, <2>4 DEF Stage, Both
<1>5. CASE fl.st = "FillFlush"
  <2>1. tx = <<>> /\ tnc.mode = "kiss"
    BY <1>1, <1>5 DEF Stage, Both
  <2>2. fl' = fl /\ tx' = tx
    BY <1>1, <1>5 DEF BytesBefore, ByteOfVersion, ByteOfLine, Silent
  <2> QED
    BY <1>1, <1>5, <2>1, <2>2 DEF Stage
<1>6. CASE fl.st = "Redrain"
  BY <1>1, <1>6 DEF Stage, Both
<1>7. CASE fl.st = "AwaitVersion"
  <2>1. rx = <<Say(Version)>> /\ tx = <<>> /\ tnc.mode = "boot"
    BY <1>1, <1>7 DEF Stage, Both
  <2>2. b = Version /\ rx' = <<>> /\ ChipOf(b) = tnc.chip /\ b # "K"
    <3>1. b = Version /\ rx' = <<>>
      BY <1>1, <2>1, OneOnTheLine DEF Say
    <3>2. ChipOf(Version) = tnc.chip /\ Version # "K"
      BY <1>1, BytesAre DEF Version
    <3> QED
      BY <3>1, <3>2
  <2>3. SendsLine([fl EXCEPT !.st = "Line"], 0)
    <3>1. ByteOfVersion(b)
      BY <1>1, <1>7 DEF BytesBefore, ByteOfLine
    <3>2. ChipOf(b) = fl.image.target /\ ChipOf(b) # Unknown
      BY <1>1, <2>2 DEF IsTnc, Chips, Unknown
    <3> QED
      BY <2>2, <3>1, <3>2 DEF ByteOfVersion
  <2>4. PICK f : f = [fl EXCEPT !.st = "Line"]
    OBVIOUS
  <2>5. f.image = fl.image /\ f.st = "Line" /\ f.index = 0 /\ SendsLine(f, 0)
    BY <1>1, <1>2, <1>7, <2>3, <2>4 DEF Flashers
  <2>6. 0 \in Nat /\ 0 < Len(fl.image.file)
    BY <1>2
  <2> QED
    BY <1>1, <2>1, <2>2, <2>5, <2>6, SendsNext
<1>8. CASE fl.st = "Line"
  <2>1. /\ tx = <<>>
        /\ \/ tnc.mode = "boot" /\ rx = <<Say("K")>> /\ fl.index + 1 < Len(fl.image.file)
           \/ tnc.mode = "kiss" /\ rx = <<Say("Z")>>
    BY <1>1, <1>8 DEF Stage, Both
  <2>2. CASE tnc.mode = "boot" /\ rx = <<Say("K")>> /\ fl.index + 1 < Len(fl.image.file)
    <3>1. b = "K" /\ rx' = <<>>
      BY <1>1, <2>2, OneOnTheLine DEF Say
    <3>2. SendsLine([fl EXCEPT !.written = @ + 1, !.index = @ + 1], fl.index + 1)
      BY <1>1, <1>8, <2>2, <3>1 DEF BytesBefore, ByteOfVersion, ByteOfLine
    <3>3. PICK f : f = [fl EXCEPT !.written = @ + 1, !.index = @ + 1]
      OBVIOUS
    <3>4. PICK i \in Nat : i = fl.index + 1
      BY <1>2
    <3>5. f.image = fl.image /\ f.st = "Line" /\ f.index = i
      BY <1>1, <1>8, <3>3, <3>4 DEF Flashers
    <3>6. SendsLine(f, i) /\ i < Len(fl.image.file)
      BY <2>2, <3>2, <3>3, <3>4
    <3> QED
      BY <1>1, <2>1, <2>2, <3>1, <3>5, <3>6, SendsNext
  <2>3. CASE tnc.mode = "kiss" /\ rx = <<Say("Z")>>
    <3>1. b = "Z"
      BY <2>3, OneOnTheLine DEF Say
    <3>2. Silent([fl EXCEPT !.written = @ + 1, !.st = "Done", !.kind = "Updated"])
      BY <1>1, <1>8, <3>1 DEF BytesBefore, ByteOfVersion, ByteOfLine
    <3>3. fl'.st = "Done" /\ fl'.kind = "Updated" /\ tx' = tx
      BY <1>1, <3>2 DEF Silent, Flashers
    <3> QED
      BY <1>1, <2>1, <2>3, <3>3 DEF Stage
  <2> QED
    BY <2>1, <2>2, <2>3
<1> QED
  BY <1>1, <1>3, <1>4, <1>5, <1>6, <1>7, <1>8 DEF Stage

\* The TNC answers what it is asked.
LEMMA AnswerInStep ==
    ASSUME Constants, TypeOK, FilesOK, LineOK, Stage, fl.image.target = tnc.chip,
           TncAnswers, clean'
    PROVE  Stage'
<1>1. /\ IsTnc(tnc) /\ tx # <<>> /\ tx' = Tail(tx) /\ fl' = fl /\ AnswerTo(Head(tx))
      /\ fl \in Flashers
  BY AnswerIs DEF TypeOK, WireTypes, TncAnswers, node
<1>2. ASSUME NEW says, Replied(says)
      PROVE  rx' = rx \o says
  BY <1>2 DEF Replied
<1>3. CASE fl.st = "Drain"
  BY <1>1, <1>3 DEF Stage
<1>4. CASE fl.st = "StrandedProbe"
  <2>1. tx = <<Send("Reset")>> /\ rx = <<>>
    BY <1>1, <1>4 DEF Stage, Both
  <2>2. Head(tx).op = "Reset" /\ tx' = <<>>
    BY <1>1, <2>1, OneOnTheLine DEF Send
  <2>3. \/ tnc'.mode = "kiss" /\ Replied(<<>>)
        \/ tnc'.mode = "boot" /\ Replied(<<Say("K")>>)
    BY <1>1, <2>2 DEF AnswerTo, TncStays, TncBecomes, LineOK, Got, IsTnc
  <2>4. \/ tnc'.mode = "kiss" /\ rx' = <<>>
        \/ tnc'.mode = "boot" /\ rx' = <<Say("K")>>
    BY <1>2, <2>1, <2>3, OneOnTheLine
  <2> QED
    BY <1>1, <1>4, <2>2, <2>4 DEF Stage, Both, Say
<1>5. CASE fl.st = "FillFlush"
  <2>1. tx = <<Send("GetAll")>> /\ tnc.mode = "kiss"
    BY <1>1, <1>5 DEF Stage, Both
  <2>2. Head(tx).op = "GetAll" /\ tx' = <<>>
    BY <1>1, <2>1, OneOnTheLine DEF Send
  <2>3. tnc'.mode = "kiss"
    BY <1>1, <2>1, <2>2 DEF AnswerTo, TncStays, TncBecomes
  <2> QED
    BY <1>1, <1>5, <2>2, <2>3 DEF Stage
<1>6. CASE fl.st = "AwaitReady"
  <2>1. tx = <<Send("Entry")>> /\ rx = <<>> /\ tnc.mode = "kiss"
    BY <1>1, <1>6 DEF Stage, Both
  <2>2. Head(tx).op = "Entry" /\ tx' = <<>>
    BY <1>1, <2>1, OneOnTheLine DEF Send
  <2>3. tnc'.mode = "boot" /\ Replied(<<Say("K")>>)
    BY <1>1, <2>1, <2>2 DEF AnswerTo, TncStays, TncBecomes
  <2>4. rx' = <<Say("K")>>
    BY <1>2, <2>1, <2>3, OneOnTheLine
  <2> QED
    BY <1>1, <1>6, <2>2, <2>3, <2>4 DEF Stage, Both, Say
<1>7. CASE fl.st = "AwaitVersion"
  <2>1. tx = <<Send("Version")>> /\ rx = <<>> /\ tnc.mode = "boot"
    BY <1>1, <1>7 DEF Stage, Both
  <2>2. Head(tx).op = "Version" /\ tx' = <<>>
    BY <1>1, <2>1, OneOnTheLine DEF Send
  <2>3. tnc'.mode = "boot" /\ tnc'.chip = tnc.chip /\ Replied(<<Say(Version)>>)
    BY <1>1, <2>1, <2>2 DEF AnswerTo, TncStays, TncBecomes
  <2>4. rx' = <<Say(Version)>> /\ Version' = Version
    BY <1>2, <2>1, <2>3, OneOnTheLine DEF Version
  <2>5. Say(Version)' = Say(Version)
    BY <2>4 DEF Say
  <2> QED
    BY <1>1, <1>7, <2>2, <2>3, <2>4, <2>5 DEF Stage, Both
<1>8. CASE fl.st = "Line"
  <2>1. tx = <<NextRecord>> /\ rx = <<>> /\ tnc.mode = "boot"
    BY <1>1, <1>8 DEF Stage, Both
  <2>2. PICK r : r = Record(fl.image.file, fl.index + 1)
    OBVIOUS
  <2>3. Head(tx).op = "Line" /\ Head(tx).line = r /\ tx' = <<>> /\ Head(tx) = tx[1]
    BY <1>1, <2>1, <2>2, OneOnTheLine, HeadIs DEF NextRecord
  <2>4. ForThis(r) /\ tnc.got = Prefix(r.file, r.k - 1)
    BY <1>1, <2>1, <2>3, HeadIs DEF Given
  <2>5. r.file[r.k] = "eof" => Whole(Append(tnc.got, r))
    BY <2>4, TakesRecord
  <2>6. r.file = fl.image.file /\ r.k = fl.index + 1
    BY <2>2 DEF Record
  <2>7. Answered(r)
    BY <1>1, <2>1, <2>3 DEF AnswerTo
  <2>8. CASE tnc'.mode = "kiss" /\ Replied(<<Say("Z")>>)
    <3>1. rx' = <<Say("Z")>>
      BY <1>2, <2>1, <2>8, OneOnTheLine
    <3> QED
      BY <1>1, <1>8, <2>3, <2>8, <3>1 DEF Stage, Both, Say
  <2>9. CASE r.file[r.k] # "eof" /\ tnc'.mode = "boot" /\ Replied(<<Say("K")>>)
    <3>1. rx' = <<Say("K")>>
      BY <1>2, <2>1, <2>9, OneOnTheLine
    <3>2. fl.index + 1 < Len(fl.image.file)
      <4>1. /\ fl.image.file \in Images /\ fl.index + 1 \in 1 .. Len(fl.image.file)
            /\ Len(fl.image.file) \in Nat
        <5>1. fl.image.file \in Images /\ fl.index + 1 \in 1 .. Len(fl.image.file)
          BY <2>4, <2>6 DEF ForThis
        <5>2. fl.image.file \in Files
          BY <5>1 DEF Images
        <5> QED
          BY <5>1, <5>2, HeadersAreTyped
      <4>2. fl.image.file[Len(fl.image.file)] = "eof"
        BY <4>1 DEF Images
      <4>3. fl.index + 1 # Len(fl.image.file)
        BY <2>6, <2>9, <4>2
      <4> QED
        BY <4>1, <4>3
    <3> QED
      BY <1>1, <1>8, <2>3, <2>9, <3>1, <3>2 DEF Stage, Both, Say
  <2> QED
    BY <2>5, <2>7, <2>8, <2>9 DEF Answered, TncBecomes
<1> QED
  BY <1>1, <1>3, <1>4, <1>5, <1>6, <1>7, <1>8 DEF Stage, Both

\* No step brings what was out of step back in.
LEMMA LockStep ==
    ASSUME Constants, TypeOK, FilesOK, LineOK, InStep, [Next]_vars
    PROVE  InStep'
<1>1. /\ IsTnc(tnc) /\ Sequence(tx) /\ (~updating => Over(fl))
  BY DEF TypeOK, WireTypes
<1>2. ASSUME UNCHANGED <<tx, rx, tnc, fl, updating>>, clean' => clean /\ taken' = taken
      PROVE  InStep'
  <2>1. NextRecord' = NextRecord /\ Version' = Version
    BY <1>2 DEF NextRecord, Version
  <2>2. Say(Version)' = Say(Version)
    BY <2>1 DEF Say
  <2> QED
    BY <1>2, <2>1, <2>2 DEF InStep, Stage, Both
<1>3. CASE updating' = FALSE \/ clean' = FALSE
  BY <1>3 DEF InStep
<1>4. CASE HttpStep \/ UNCHANGED vars
  <2>1. UNCHANGED <<tx, rx, tnc, fl, updating>>
    BY <1>4, HttpIsStill DEF Still, vars, node, line
  <2>2. clean' => clean /\ taken' = taken
    BY <1>4 DEF HttpStep, vars, node, store, PostMode, PostParams, PostSettings, PostRefresh,
       BeginUpload, PushLine, CutShort, TakeFlash, PressUpdate
  <2> QED
    BY <1>2, <2>1, <2>2
<1>5. CASE KissStep
  BY <1>3, <1>5, KissChatters DEF Chatter
<1>6. CASE BeginUpdate
  <2>1. Begun /\ ~updating /\ taken' = taken
    BY <1>6, BeginIs DEF BeginUpdate
  <2>2. CASE updating' = updating
    BY <2>1, <2>2 DEF InStep
  <2>3. CASE fl' = Start(StagedImage).fl /\ clean' = ~taken
    <3>1. fl'.st = "Drain"
      BY <2>3 DEF Start, Discarding, NotRun
    <3> QED
      BY <2>1, <2>3, <3>1 DEF InStep, Stage
  <2> QED
    BY <2>1, <2>2, <2>3 DEF Begun
<1>7. CASE Restart
  BY <1>3, <1>7 DEF Restart
<1> SUFFICES ASSUME updating', clean', fl'.image.target = tnc'.chip,
                    SerialTask \/ TncStep, ~KissStep, ~BeginUpdate
             PROVE  ~taken' /\ Stage'
  BY <1>4, <1>5, <1>6, <1>7, NextIs DEF InStep
<1>8. ASSUME fl.image.target = tnc.chip, clean, updating
      PROVE  ~taken /\ Stage
  BY <1>8 DEF InStep
<1>9. CASE Timeout
  <2>1. /\ Deadline /\ ~Over(fl) /\ tnc' = tnc /\ taken' = taken /\ updating
        /\ Both(<<>>, <<>>) /\ rx' = <<>> /\ clean
    BY <1>9, OnTimeIs DEF Timeout, store, Both
  <2>2. fl'.image = fl.image
    <3>1. fl \in Flashers
      BY DEF TypeOK, WireTypes
    <3> QED
      BY <2>1, <3>1 DEF Deadline, Says, Silent, Flashers
  <2> QED
    BY <1>8, <2>1, <2>2, DeadlineInStep
<1>10. ASSUME NEW long \in BOOLEAN, ReadByte(long)
       PROVE  ~taken' /\ Stage'
  <2>1. ~Over(fl) /\ tnc' = tnc /\ taken' = taken /\ updating /\ clean /\ ~long
    BY <1>10 DEF ReadByte, store
  <2>2. long = FALSE
    BY <2>1
  <2>3. fl'.image = fl.image
    <3>1. fl \in Flashers
      BY DEF TypeOK, WireTypes
    <3>2. BytesBefore(Head(rx).b, long) \/ ByteOfVersion(Head(rx).b) \/ ByteOfLine(Head(rx).b)
      BY <1>10, OnByteIs DEF ReadByte
    <3> QED
      BY <3>1, <3>2 DEF BytesBefore, ByteOfVersion, ByteOfLine, SendsLine, Says, Silent, Flashers
  <2> QED
    BY <1>8, <1>10, <2>1, <2>2, <2>3, ByteInStep
<1>11. CASE TncAnswers
  <2>1. AnswerTo(Head(tx)) /\ fl' = fl /\ updating /\ taken' = taken
    BY <1>11, AnswerIs DEF TncAnswers, node, store
  <2>2. tnc'.chip = tnc.chip /\ clean
    BY <2>1 DEF AnswerTo, Answered, TncStays, TncBecomes, Replied
  <2> QED
    BY <1>8, <1>11, <2>1, <2>2, AnswerInStep
<1>12. CASE TncSetsMode
  <2>1. TncStays /\ fl' = fl /\ updating /\ taken' = taken /\ tx # <<>>
        /\ Head(tx).op = "SetHw" /\ clean
    BY <1>12, SetsModeIs DEF TncSetsMode, node, store
  <2>2. ~taken /\ Stage
    BY <1>8, <2>1 DEF TncStays, TncBecomes
  <2>3. ASSUME NEW m, m.op # "SetHw"
        PROVE  tx # <<m>>
    BY <2>1, <2>3, OneOnTheLine
  <2>4. fl.st = "Drain"
    BY <2>1, <2>2, <2>3 DEF Stage, Both, Send, NextRecord
  <2> QED
    BY <2>1, <2>2, <2>4 DEF Stage
<1>13. ASSUME NEW m \in Strays, Noise(m)
       PROVE  FALSE
  BY <1>13 DEF Noise
<1>14. CASE TncPowerCut
  BY <1>14 DEF TncPowerCut
<1> QED
  BY <1>9, <1>10, <1>11, <1>12, <1>13, <1>14 DEF SerialTask, KissStep, TncStep

\* An update with the right file that meets no fault succeeds, from whichever state
\* an earlier update, a restart or a power cut left the TNC in: what it waits for is
\* always what the TNC answers next.
THEOREM CleanUpdatesComplete == Spec => []CleanUpdateCompletes
<1>1. Constants
  BY FileAssumption, TncAssumption, AttemptsAssumption DEF Constants
<1> DEFINE Together == ~raced => FilesOK /\ LineOK /\ InStep
<1>2. Init => Together
  BY <1>1, StartsInOrder DEF Init, InStep
<1>3. TypeOK /\ Together /\ [Next]_vars => Together'
  BY <1>1, RacedStays, FilesStep, LineStep, LockStep
<1>4. Together => CleanUpdateCompletes
  BY DEF InStep, Stage, CleanUpdateCompletes, Over
<1> HIDE DEF Together
<1>5. Spec => []Together
  BY <1>2, <1>3, TypeCorrect, SafetyPart, PTL
<1> QED
  BY <1>4, <1>5, PTL

-----------------------------------------------------------------------------
(***************************************************************************)
(* The settings take effect: what the node has sent and the TNC has not    *)
(* read, what it runs, and how many faults the change of mode has cost.    *)
(***************************************************************************)
\* What a message on the line, or in front of the node, is asked: whether it leaves
\* the mode, or the parameters, of s alone; whether it is no change of mode at all;
\* whether it is talk; whether it asks for no report; whether it is no report; whether
\* it is one only of the mode of s; whether it is one of the TNC s.
Fits(m, s, what) ==
    CASE what = "mode" -> m.op \in Talk /\ (m.op = "SetHw" => m.mode = s.mode)
      [] what = "params" -> /\ m.op \in {"GetAll", "Params"}
                            /\ m.op = "Params" => m.params = s.params
      [] what = "none" -> m.op \in {"GetAll", "Params"}
      [] what = "talk" -> m.op \in Talk
      [] what = "unasked" -> m.op # "GetAll"
      [] what = "silent" -> ~IsReport(m)
      [] what = "running" -> IsReport(m) => m.mode = s.mode
      [] what = "true" -> IsReport(m) => /\ m.software = s.software
                                         /\ m.supported => s.supported
                                         /\ ~s.software => m.mode = 0

\* What gives the TNC the mode, or the parameters, of s.
Sets(m, s, what) ==
    \/ what = "mode" /\ m.op = "SetHw" /\ m.mode = s.mode
    \/ what = "params" /\ m.op = "Params" /\ m.params = s.params

\* Nothing on the line t is in the way, and something is on its way with nothing in
\* the way behind it.
Clear(t, s, what) == \A k \in 1 .. Len(t) : Fits(t[k], s, what)
Due(t, s, what) ==
    \E n \in 1 .. Len(t) : /\ Sets(t[n], s, what)
                           /\ \A k \in n + 1 .. Len(t) : Fits(t[k], s, what)

LEMMA ClearJoined ==
    ASSUME NEW t, NEW c, Sequence(t), Sequence(c), NEW s, NEW what
    PROVE  /\ Clear(t \o c, s, what) <=> Clear(t, s, what) /\ Clear(c, s, what)
           /\ Clear(c, s, what) /\ Due(t, s, what) => Due(t \o c, s, what)
           /\ Due(c, s, what) => Due(t \o c, s, what)
<1> DEFINE u == t \o c
<1>1. /\ Len(u) = Len(t) + Len(c) /\ Len(t) \in Nat /\ Len(c) \in Nat
      /\ \A k \in 1 .. Len(t) : u[k] = t[k]
      /\ \A k \in 1 .. Len(c) : u[Len(t) + k] = c[k]
      /\ \A k \in 1 .. Len(u) : \/ k \in 1 .. Len(t)
                                \/ k - Len(t) \in 1 .. Len(c) /\ u[k] = c[k - Len(t)]
  BY JoinIs
<1> HIDE DEF u
<1>2. ASSUME Clear(t, s, what), Clear(c, s, what)
      PROVE  Clear(u, s, what)
  BY <1>1, <1>2 DEF Clear
<1>3. ASSUME Clear(u, s, what)
      PROVE  Clear(t, s, what) /\ Clear(c, s, what)
  <2>1. ASSUME NEW k \in 1 .. Len(t)
        PROVE  Fits(t[k], s, what)
    BY <1>1, <1>3 DEF Clear
  <2>2. ASSUME NEW k \in 1 .. Len(c)
        PROVE  Fits(c[k], s, what)
    <3>1. Len(t) + k \in 1 .. Len(u)
      BY <1>1
    <3> QED
      BY <1>1, <1>3, <3>1 DEF Clear
  <2> QED
    BY <2>1, <2>2 DEF Clear
<1>4. ASSUME Clear(c, s, what), Due(t, s, what)
      PROVE  Due(u, s, what)
  <2>1. PICK n \in 1 .. Len(t) : /\ Sets(t[n], s, what)
                                 /\ \A k \in n + 1 .. Len(t) : Fits(t[k], s, what)
    BY <1>4 DEF Due
  <2>2. n \in 1 .. Len(u) /\ Sets(u[n], s, what)
    BY <1>1, <2>1
  <2>3. ASSUME NEW k \in n + 1 .. Len(u)
        PROVE  Fits(u[k], s, what)
    <3>1. k \in 1 .. Len(u)
      BY <1>1, <2>1
    <3>2. CASE k \in 1 .. Len(t)
      <4>1. k \in n + 1 .. Len(t)
        BY <3>2, <2>1
      <4> QED
        BY <1>1, <2>1, <3>2, <4>1
    <3>3. CASE k - Len(t) \in 1 .. Len(c) /\ u[k] = c[k - Len(t)]
      BY <1>4, <3>3 DEF Clear
    <3> QED
      BY <1>1, <3>1, <3>2, <3>3
  <2> QED
    BY <2>2, <2>3 DEF Due
<1>5. ASSUME Due(c, s, what)
      PROVE  Due(u, s, what)
  <2>1. PICK n \in 1 .. Len(c) : /\ Sets(c[n], s, what)
                                 /\ \A k \in n + 1 .. Len(c) : Fits(c[k], s, what)
    BY <1>5 DEF Due
  <2>2. PICK i \in 1 .. Len(u) : i = Len(t) + n
    BY <1>1, <2>1
  <2>3. Sets(u[i], s, what)
    BY <1>1, <2>1, <2>2
  <2>4. ASSUME NEW k \in i + 1 .. Len(u)
        PROVE  Fits(u[k], s, what)
    <3>1. k \in 1 .. Len(u) /\ k \notin 1 .. Len(t) /\ k - Len(t) \in n + 1 .. Len(c)
      BY <1>1, <2>1, <2>2
    <3>2. u[k] = c[k - Len(t)]
      BY <1>1, <3>1
    <3> QED
      BY <2>1, <3>1, <3>2
  <2> QED
    BY <2>3, <2>4 DEF Due
<1> QED
  BY <1>2, <1>3, <1>4, <1>5 DEF u

LEMMA ClearShort ==
    ASSUME NEW s, NEW what
    PROVE  /\ Clear(<<>>, s, what) /\ ~Due(<<>>, s, what)
           /\ \A m : /\ Clear(<<m>>, s, what) <=> Fits(m, s, what)
                     /\ Sets(m, s, what) => Due(<<m>>, s, what)
<1>1. Len(<<>>) = 0 /\ \A m : Len(<<m>>) = 1 /\ <<m>>[1] = m
  BY ShortIs
<1>2. Clear(<<>>, s, what) /\ ~Due(<<>>, s, what)
  BY <1>1 DEF Clear, Due
<1>3. ASSUME NEW m
      PROVE  Clear(<<m>>, s, what) <=> Fits(m, s, what)
  BY <1>1 DEF Clear
<1>4. ASSUME NEW m, Sets(m, s, what)
      PROVE  Due(<<m>>, s, what)
  <2>1. 1 \in 1 .. Len(<<m>>) /\ Sets(<<m>>[1], s, what)
    BY <1>1, <1>4
  <2>2. ASSUME NEW k \in 1 + 1 .. Len(<<m>>)
        PROVE  Fits(<<m>>[k], s, what)
    BY <1>1
  <2> QED
    BY <2>1, <2>2 DEF Due
<1> QED
  BY <1>2, <1>3, <1>4

LEMMA ClearTaken ==
    ASSUME NEW t, Sequence(t), t # <<>>, NEW s, NEW what
    PROVE  /\ Clear(t, s, what) <=> Fits(Head(t), s, what) /\ Clear(Tail(t), s, what)
           /\ Due(t, s, what) => \/ Due(Tail(t), s, what)
                                 \/ Sets(Head(t), s, what) /\ Clear(Tail(t), s, what)
<1> DEFINE u == Tail(t)
<1>1. /\ Len(t) \in Nat \ {0} /\ Len(u) = Len(t) - 1
      /\ \A k \in 1 .. Len(t) - 1 : u[k] = t[k + 1]
      /\ Head(t) = t[1]
  BY TailIs
<1> HIDE DEF u
<1>2. ASSUME NEW k \in 1 .. Len(u)
      PROVE  u[k] = t[k + 1] /\ k + 1 \in 1 .. Len(t)
  BY <1>1
<1>3. ASSUME Clear(t, s, what)
      PROVE  Fits(Head(t), s, what) /\ Clear(u, s, what)
  BY <1>1, <1>2, <1>3 DEF Clear
<1>4. ASSUME Fits(Head(t), s, what), Clear(u, s, what)
      PROVE  Clear(t, s, what)
  <2>1. ASSUME NEW k \in 1 .. Len(t), k # 1
        PROVE  Fits(t[k], s, what)
    <3>1. k - 1 \in 1 .. Len(u) /\ (k - 1) + 1 = k
      BY <1>1, <2>1
    <3> QED
      BY <1>2, <1>4, <3>1 DEF Clear
  <2> QED
    BY <1>1, <1>4, <2>1 DEF Clear
<1>5. ASSUME NEW n \in 1 .. Len(t), Sets(t[n], s, what),
             \A k \in n + 1 .. Len(t) : Fits(t[k], s, what)
      PROVE  Due(u, s, what) \/ (Sets(Head(t), s, what) /\ Clear(u, s, what))
  <2>1. CASE n = 1
    <3>1. ASSUME NEW k \in 1 .. Len(u)
          PROVE  Fits(u[k], s, what)
      <4>1. k + 1 \in n + 1 .. Len(t)
        BY <1>1, <2>1
      <4> QED
        BY <1>2, <1>5, <4>1
    <3> QED
      BY <1>1, <1>5, <2>1, <3>1 DEF Clear
  <2>2. CASE n # 1
    <3>1. PICK i \in 1 .. Len(u) : i + 1 = n
      <4>1. n - 1 \in 1 .. Len(u) /\ (n - 1) + 1 = n
        BY <1>1, <2>2
      <4> QED
        BY <4>1
    <3>2. ASSUME NEW k \in i + 1 .. Len(u)
          PROVE  Fits(u[k], s, what)
      <4>1. k + 1 \in n + 1 .. Len(t) /\ k \in 1 .. Len(u)
        BY <1>1, <3>1
      <4> QED
        BY <1>2, <1>5, <4>1
    <3>3. Sets(u[i], s, what)
      BY <1>2, <1>5, <3>1
    <3> QED
      BY <3>2, <3>3 DEF Due
  <2> QED
    BY <2>1, <2>2
<1>6. Due(t, s, what) => Due(u, s, what) \/ (Sets(Head(t), s, what) /\ Clear(u, s, what))
  BY <1>5 DEF Due
<1> QED
  BY <1>3, <1>4, <1>6 DEF u

\* One question for another, and one s for another.
LEMMA ClearWeaker ==
    ASSUME NEW t, NEW s, NEW u
    PROVE  /\ Clear(t, s, "none") => Clear(t, s, "mode") /\ Clear(t, u, "none")
           /\ Clear(t, s, "mode") \/ Clear(t, s, "params") \/ Clear(t, s, "none")
                \/ Clear(t, s, "talk") => Clear(t, u, "talk")
           /\ s.mode = u.mode => /\ Clear(t, s, "mode") => Clear(t, u, "mode")
                                 /\ Due(t, s, "mode") => Due(t, u, "mode")
           /\ s.params = u.params => /\ Clear(t, s, "params") => Clear(t, u, "params")
                                     /\ Due(t, s, "params") => Due(t, u, "params")
           /\ Clear(t, s, "unasked") => Clear(t, u, "unasked")
           /\ Clear(t, s, "silent") => Clear(t, u, "silent")
           /\ s.software = u.software /\ (s.supported => u.supported)
                => (Clear(t, s, "true") => Clear(t, u, "true"))
<1>1. ASSUME NEW m
      PROVE  /\ Fits(m, s, "none") => Fits(m, s, "mode") /\ Fits(m, u, "none")
             /\ Fits(m, s, "mode") \/ Fits(m, s, "params") \/ Fits(m, s, "none")
                  \/ Fits(m, s, "talk") => Fits(m, u, "talk")
             /\ s.mode = u.mode => /\ Fits(m, s, "mode") => Fits(m, u, "mode")
                                   /\ Sets(m, s, "mode") => Sets(m, u, "mode")
             /\ s.params = u.params => /\ Fits(m, s, "params") => Fits(m, u, "params")
                                       /\ Sets(m, s, "params") => Sets(m, u, "params")
             /\ Fits(m, s, "unasked") => Fits(m, u, "unasked")
             /\ Fits(m, s, "silent") => Fits(m, u, "silent")
             /\ s.software = u.software /\ (s.supported => u.supported)
                  => (Fits(m, s, "true") => Fits(m, u, "true"))
  BY DEF Fits, Sets, Talk
<1>2. ASSUME NEW v, NEW w, \A m : Fits(m, s, v) => Fits(m, u, w)
      PROVE  Clear(t, s, v) => Clear(t, u, w)
  BY <1>2 DEF Clear
<1>3. ASSUME NEW v, \A m : Fits(m, s, v) => Fits(m, u, v), \A m : Sets(m, s, v) => Sets(m, u, v)
      PROVE  Due(t, s, v) => Due(t, u, v)
  BY <1>3 DEF Due
<1>4. Clear(t, s, "none") => Clear(t, s, "mode")
  BY <1>1 DEF Clear
<1> QED
  BY <1>1, <1>2, <1>3, <1>4

-----------------------------------------------------------------------------
IsSettings(s) == \E m, p : s = [mode |-> m, params |-> p]
IsJob(j) ==
    \E x, m, p, n : j = [phase |-> x, mode |-> m, persist |-> p, attempt |-> n]
IsLink(l) == \E s, h, c : l = [supported |-> s, heard |-> h, chip |-> c]

\* What the state is made of, as far as the settings go.
Shapes ==
    /\ IsSettings(saved) /\ IsSettings(settings) /\ IsJob(setter)
    /\ IsLink(link)
    /\ spent \in [Bounds -> Nat]

\* Reports are the TNC's own: firmware once supported stays so, and a TNC whose mode
\* its switches set runs the one it was found with.
Truth == [software |-> scenario.software, supported |-> tnc.supported]
TrueReports ==
    /\ link.supported => tnc.supported
    /\ Clear(rx, Truth, "true")
    /\ ~scenario.software => tnc.running = 0 /\ tnc.stored = 0

\* An update that is over says how it ended.
Ending == updating /\ fl.st \in {"Done", "AbortSettle"} => fl.kind # "None"

\* The node may rely on what it has sent, and it may be for ever without an effect:
\* then the TNC is in its bootloader, or dead.
Reliable == ~updating /\ link.supported /\ ~forgot /\ fl.kind \in {"None", "Updated"}
Stuck == tnc.mode # "kiss" /\ Clear(tx, Unused, "talk")

ParamsKept ==
    \/ settings.params = Unset
    \/ InFlight(setter)
    \/ Due(tx, settings, "params")
    \/ Clear(tx, settings, "params") /\ tnc.params = settings.params

OnItsWay ==
    \/ Due(tx, settings, "mode")
    \/ Clear(tx, settings, "mode") /\ tnc.running = settings.mode

\* Every attempt but the one under way has cost a fault.  This one has cost one as
\* well when the TNC has ignored it ...
Ignored(faults) ==
    Clear(tx, settings, "mode") /\ (spent.faults >= faults \/ ~scenario.software)
Settles == OnItsWay \/ Ignored(setter.attempt)

\* ... or when it settled too soon: then a report that comes may be older than it.
\* Otherwise the TNC has taken everything in, and is to report the mode it runs.
TooSoon == spent.faults >= setter.attempt /\ (OnItsWay \/ Ignored(2))
InTime ==
    /\ Clear(tx, settings, "none")
    /\ tnc.running = settings.mode \/ spent.faults >= setter.attempt \/ ~scenario.software
    /\ Clear(rx, [mode |-> tnc.running], "running")
    /\ \/ ~Clear(tx, Unused, "unasked")
       \/ ~Clear(rx, Unused, "silent")
       \/ spent.faults >= setter.attempt

Trying ==
    /\ setter.mode = settings.mode
    /\ setter.attempt \in 1 .. Attempts /\ spent.faults >= setter.attempt - 1
    /\ setter.phase = "Settling" => Settles
    /\ setter.phase = "AwaitingReadback" => TooSoon \/ InTime

Tried ==
    \/ shown.phase = "DipNotSoftware" /\ ~scenario.software
    \/ shown.phase = "NotApplied" /\ spent.faults >= Attempts
    \/ /\ tnc.running = settings.mode
       /\ Clear(tx, settings, "mode") \/ ~scenario.software
    \/ /\ shown.phase = "Applied" /\ spent.faults >= 1 /\ scenario.software
       /\ Due(tx, settings, "mode") \/ spent.faults >= 2

Wanted == settings.mode \notin {NoMode, SetFromKiss}
ModeKept == IF InFlight(setter) THEN Trying ELSE Tried

SettingsKept ==
    Reliable /\ ~Stuck => /\ settings.mode # SetFromKiss => ParamsKept
                          /\ Wanted => ModeKept

SettingsInv == Shapes /\ TrueReports /\ Ending /\ SettingsKept

LEMMA SettingsInvImplies ==
    ASSUME TypeOK, Constants, SettingsInv
    PROVE  SettingsInForce
<1> SUFFICES ASSUME fl.kind \in {"None", "Updated"}, Settled, link.supported,
                    tnc.mode = "kiss", ~forgot, settings.mode # SetFromKiss
             PROVE  /\ settings.params \in {Unset, tnc.params}
                    /\ \/ settings.mode \in {NoMode, tnc.running}
                       \/ ~scenario.software /\ shown.phase = "DipNotSoftware"
                       \/ spent.faults >= Attempts /\ shown.phase = "NotApplied"
                       \/ spent.faults >= 2 /\ shown.phase = "Applied"
  BY DEF SettingsInForce, InForce
<1>1. tx = <<>> /\ ~InFlight(setter) /\ Reliable /\ ~Stuck
  BY DEF Settled, Reliable, Stuck
<1>2. \A s, what : ~Due(tx, s, what)
  BY <1>1, ClearShort
<1>3. settings.params \in {Unset, tnc.params}
  BY <1>1, <1>2 DEF SettingsInv, SettingsKept, ParamsKept
<1>4. CASE Wanted
  BY <1>1, <1>2, <1>3, <1>4 DEF SettingsInv, SettingsKept, ModeKept, Tried
<1>5. CASE ~Wanted
  BY <1>3, <1>5 DEF Wanted
<1> QED
  BY <1>4, <1>5

\* Shapes last.
LEMMA ShapesKept ==
    ASSUME Shapes, [Next]_vars
    PROVE  Shapes'
<1> USE DEF store, setup, node, line, world
<1>0. /\ \A m, p : IsSettings([mode |-> m, params |-> p])
      /\ \A x, m, p, n : IsJob([phase |-> x, mode |-> m, persist |-> p, attempt |-> n])
      /\ \A s, h, c : IsLink([supported |-> s, heard |-> h, chip |-> c])
  BY Zenon DEF IsSettings, IsJob, IsLink
<1>100. ASSUME NEW s, IsSettings(s), NEW x
       PROVE  IsSettings([s EXCEPT !.mode = x]) /\ IsSettings([s EXCEPT !.params = x])
  <2>1. PICK m, p : s = [mode |-> m, params |-> p]
    BY <1>100 DEF IsSettings
  <2>2. /\ [s EXCEPT !.mode = x] = [mode |-> x, params |-> p]
        /\ [s EXCEPT !.params = x] = [mode |-> m, params |-> x]
    BY <2>1
  <2> QED
    BY <1>0, <2>2
<1>1. ASSUME UNCHANGED <<saved, settings, setter, link, spent>>
      PROVE  Shapes'
  BY <1>1 DEF Shapes, IsSettings, IsJob, IsLink
<1>2. ASSUME NEW b \in Bounds, Spend(b)
      PROVE  spent' \in [Bounds -> Nat]
  BY <1>2 DEF Spend, Shapes
<1>3. ASSUME UNCHANGED <<saved, settings, setter, link>>,
             spent' = spent \/ \E b \in Bounds : Spend(b)
      PROVE  Shapes'
  BY <1>2, <1>3 DEF Shapes, IsSettings, IsJob, IsLink
<1>4. \A m, p : IsJob(StartMode(m, p).job) /\ IsJob(NoJob)
  BY <1>0 DEF StartMode, Moved, NoJob
<1>5. ASSUME NEW moved, IsJob(moved.job)
      PROVE  IsJob(Working(moved))
  BY <1>4, <1>5 DEF Working
<1>6. ASSUME IsJob(setter), NEW x, NEW n
      PROVE  /\ IsJob([setter EXCEPT !.phase = x])
             /\ IsJob([setter EXCEPT !.attempt = n, !.phase = x])
  <2>1. PICK y, m, p, k : setter = [phase |-> y, mode |-> m, persist |-> p, attempt |-> k]
    BY <1>6 DEF IsJob
  <2>2. [setter EXCEPT !.phase = x] = [phase |-> x, mode |-> m, persist |-> p,
                                      attempt |-> k]
    BY <2>1
  <2>3. [setter EXCEPT !.attempt = n, !.phase = x]
          = [phase |-> x, mode |-> m, persist |-> p, attempt |-> n]
    <3> DEFINE u == [setter EXCEPT !.attempt = n]
    <3>1. u = [phase |-> y, mode |-> m, persist |-> p, attempt |-> n]
      BY <2>1
    <3>2. [setter EXCEPT !.attempt = n, !.phase = x] = [u EXCEPT !.phase = x]
      OBVIOUS
    <3> HIDE DEF u
    <3>3. [u EXCEPT !.phase = x]
          = [phase |-> x, mode |-> m, persist |-> p, attempt |-> n]
      BY <3>1
    <3> QED
      BY <3>2, <3>3
  <2> QED
    BY <1>0, <2>2, <2>3
<1>7. ASSUME IsJob(setter)
      PROVE  IsJob(NextAttempt(setter).job)
  BY <1>6, <1>7 DEF NextAttempt, Moved, Ended
<1>8. ASSUME IsJob(setter)
      PROVE  IsJob(OnSetterTime(setter).job)
  BY <1>6, <1>7, <1>8 DEF OnSetterTime, Moved
<1>9. ASSUME IsJob(setter), NEW r
      PROVE  IsJob(OnStatus(setter, r).job)
  BY <1>6, <1>7, <1>9 DEF OnStatus, Moved, Ended
<1>10. CASE SetMode
  BY <1>4, <1>5, <1>100, <1>10 DEF SetMode, Shapes
<1>11. CASE SetParams
  BY <1>100, <1>11 DEF SetParams, Shapes
<1>12. CASE SetterDeadline
  <2>1. IsJob(setter')
    BY <1>5, <1>8, <1>12 DEF SetterDeadline, Advance, Shapes
  <2>2. spent' \in [Bounds -> Nat]
    BY <1>2, <1>12 DEF SetterDeadline, Shapes, Bounds
  <2> QED
    BY <1>12, <2>1, <2>2 DEF SetterDeadline, Shapes
<1>13. CASE HearReport
  <2>1. IsJob(setter')
    <3>1. CASE BecomesSupported(Head(rx))
      <4>1. IsJob(Applied.job)
        BY <1>4 DEF Applied, Moved
      <4> QED
        BY <1>5, <1>13, <3>1, <4>1 DEF HearReport
    <3>2. CASE ~BecomesSupported(Head(rx)) /\ InFlight(setter)
      BY <1>5, <1>9, <1>13, <3>2 DEF HearReport, Advance, Shapes
    <3>3. CASE ~BecomesSupported(Head(rx)) /\ ~InFlight(setter)
      BY <1>13, <3>3 DEF HearReport, Shapes
    <3> QED
      BY <3>1, <3>2, <3>3
  <2> QED
    BY <1>0, <1>13, <2>1 DEF HearReport, Shapes
<1>14. CASE Refresh \/ HearOther \/ AskAgain
  BY <1>1, <1>14 DEF Refresh, HearOther, AskAgain
<1>15. CASE BeginUpdate
  BY <1>4, <1>15 DEF BeginUpdate, Shapes
<1>16. CASE Timeout \/ \E long \in BOOLEAN : ReadByte(long)
  BY <1>3, <1>16 DEF Timeout, ReadByte, Bounds
<1>17. CASE EndUpdate
  <2>1. ASSUME IsLink(link)
        PROVE  IsLink([link EXCEPT !.chip = Unknown])
    <3>1. PICK s, h, c : link = [supported |-> s, heard |-> h, chip |-> c]
      BY <2>1 DEF IsLink
    <3>2. [link EXCEPT !.chip = Unknown] = [supported |-> s, heard |-> h, chip |-> Unknown]
      BY <3>1
    <3> QED
      BY <1>0, <3>2
  <2>2. IsLink(link')
    BY <1>0, <1>17, <2>1 DEF EndUpdate, AfterUpdate, Unheard, Shapes
  <2> QED
    BY <1>17, <2>2 DEF EndUpdate, Shapes
<1>18. CASE TncStep
  BY <1>3, <1>18 DEF TncStep, TncAnswers, TncSetsMode, Noise, TncPowerCut, Bounds
<1>19. CASE Restart
  BY <1>0, <1>2, <1>4, <1>19 DEF Restart, Unheard, Shapes, Bounds
<1>20. ASSUME NEW cmd, NEW w, PostSettings(cmd, w), IsSettings(w)
       PROVE  Shapes'
  BY <1>2, <1>20 DEF PostSettings, Shapes, Bounds
<1>21. CASE HttpStep
  <2>1. ASSUME NEW m, NEW persist, PostMode(m, persist)
        PROVE  Shapes'
    <3>1. IsSettings([saved EXCEPT !.mode = m])
      BY <1>100 DEF Shapes
    <3> QED
      BY <1>20, <2>1, <3>1 DEF PostMode
  <2>2. ASSUME NEW p, PostParams(p)
        PROVE  Shapes'
    <3>1. IsSettings([saved EXCEPT !.params = p])
      BY <1>100 DEF Shapes
    <3> QED
      BY <1>20, <2>2, <3>1 DEF PostParams
  <2>3. CASE \/ PostRefresh \/ PressUpdate
             \/ \E h \in Http, f \in Files : BeginUpload(h, f)
             \/ \E h \in Http : PushLine(h) \/ CutShort(h) \/ TakeFlash(h)
    <3>1. UNCHANGED <<saved, settings, setter, link>>
      BY <2>3 DEF PostRefresh, PressUpdate, BeginUpload, PushLine, CutShort, TakeFlash
    <3>2. spent' = spent \/ Spend("changes") \/ Spend("updates") \/ Spend("uploads")
      BY <2>3 DEF PostRefresh, PressUpdate, BeginUpload, PushLine, CutShort, TakeFlash
    <3> QED
      BY <1>3, <3>1, <3>2 DEF Bounds
  <2> QED
    BY <1>21, <2>1, <2>2, <2>3 DEF HttpStep
<1>22. CASE UNCHANGED vars
  BY <1>1, <1>22 DEF vars
<1> QED
  BY <1>10, <1>11, <1>12, <1>13, <1>14, <1>15, <1>16, <1>17, <1>18, <1>19, <1>21, <1>22,
     NextIs DEF SerialTask

\* An update that ends has a result.
LEMMA EndingKept ==
    ASSUME TypeOK, Constants, Ending, [Next]_vars
    PROVE  Ending'
<1> USE DEF store, setup, node, line, world
<1>1. /\ fl \in Flashers
      /\ \A b, long : (BytesBefore(b, long) \/ ByteOfVersion(b) \/ ByteOfLine(b))
                          /\ (fl.st \in {"Done", "AbortSettle"} => fl.kind # "None")
                          => (fl'.st \in {"Done", "AbortSettle"} => fl'.kind # "None")
      /\ Deadline /\ (fl.st \in {"Done", "AbortSettle"} => fl.kind # "None")
                      => (fl'.st \in {"Done", "AbortSettle"} => fl'.kind # "None")
  <2>1. fl \in Flashers
    BY DEF TypeOK, WireTypes
  <2>2. ASSUME NEW f \in Flashers, f.st = "Line", NEW i, SendsLine(f, i)
        PROVE  fl'.st \in {"Done", "AbortSettle"} => fl'.kind # "None"
    BY <2>2 DEF SendsLine, Silent, Flashers
  <2>3. ASSUME NEW b, NEW long, BytesBefore(b, long),
               fl.st \in {"Done", "AbortSettle"} => fl.kind # "None"
        PROVE  fl'.st \in {"Done", "AbortSettle"} => fl'.kind # "None"
    BY <2>1, <2>3 DEF BytesBefore, Silent, Says, Flashers
  <2>4. ASSUME NEW b, ByteOfVersion(b)
        PROVE  fl'.st \in {"Done", "AbortSettle"} => fl'.kind # "None"
    <3>1. [fl EXCEPT !.st = "Line"] \in Flashers /\ [fl EXCEPT !.st = "Line"].st = "Line"
      BY <2>1 DEF Flashers, States
    <3>2. CASE b = "K" /\ Silent(fl)
      BY <2>4, <3>2 DEF ByteOfVersion, Silent
    <3>3. CASE SendsLine([fl EXCEPT !.st = "Line"], 0)
      BY <2>2, <3>1, <3>3
    <3>4. ASSUME NEW kind \in {"VersionUnsupported", "ChipMismatch"},
                 Says([fl EXCEPT !.st = "AbortSettle", !.kind = kind], "Reset")
          PROVE  fl'.kind # "None"
      BY <2>1, <3>4 DEF Says, Flashers
    <3> QED
      BY <2>4, <3>2, <3>3, <3>4 DEF ByteOfVersion
  <2>5. ASSUME NEW b, ByteOfLine(b)
        PROVE  fl'.st \in {"Done", "AbortSettle"} => fl'.kind # "None"
    <3> DEFINE g == [fl EXCEPT !.written = @ + 1, !.index = @ + 1]
    <3>1. fl.st = "Line" => g \in Flashers /\ g.st = "Line"
      <4>1. "Line" \in States /\ "None" \in Outcomes
        BY DEF States, Outcomes
      <4>2. g \in Flashers
        BY <2>1, <4>1, FlasherFields
      <4> QED
        BY <2>1, <4>2 DEF Flashers
    <3>2. CASE fl.st = "Line" /\ SendsLine(g, fl.index + 1)
      <4> HIDE DEF g
      <4> QED
        BY <2>2, <3>1, <3>2
    <3>3. CASE ~SendsLine(g, fl.index + 1)
      BY <2>1, <2>5, <3>3 DEF ByteOfLine, Silent, Flashers
    <3> QED
      BY <2>5, <3>2, <3>3 DEF ByteOfLine
  <2>6. ASSUME Deadline, fl.st \in {"Done", "AbortSettle"} => fl.kind # "None"
        PROVE  fl'.st \in {"Done", "AbortSettle"} => fl'.kind # "None"
    BY <2>1, <2>6 DEF Deadline, Silent, Says, Flashers
  <2> QED
    BY <2>1, <2>3, <2>4, <2>5, <2>6
<1>2. CASE KissStep
  BY <1>2, KissChatters DEF Chatter, Ending
<1>3. CASE BeginUpdate
  <2>1. Begun /\ StagedImage \in Headers
    BY <1>3, BeginIs, StagedImageTyped DEF TypeOK
  <2>2. Start(StagedImage).fl.st = "Drain"
    BY DEF Start, Discarding, NotRun
  <2> QED
    BY <2>1, <2>2 DEF Begun, Ending
<1>4. CASE Timeout
  <2>1. Deadline /\ updating' = updating /\ updating
    BY <1>4, OnTimeIs DEF Timeout
  <2> QED
    BY <1>1, <2>1 DEF Ending
<1>5. ASSUME NEW long \in BOOLEAN, ReadByte(long)
      PROVE  Ending'
  <2>1. BytesBefore(Head(rx).b, long) \/ ByteOfVersion(Head(rx).b) \/ ByteOfLine(Head(rx).b)
    BY <1>5, OnByteIs DEF ReadByte
  <2>2. updating' = updating /\ updating
    BY <1>5 DEF ReadByte
  <2> QED
    BY <1>1, <2>1, <2>2 DEF Ending
<1>6. CASE TncStep
  BY <1>6 DEF TncStep, TncAnswers, TncSetsMode, Noise, TncPowerCut, Ending
<1>7. CASE Restart
  BY <1>7 DEF Restart, Ending
<1>8. CASE HttpStep
  BY <1>8, HttpIsStill DEF Still, Ending
<1>9. CASE UNCHANGED vars
  BY <1>9 DEF vars, Ending
<1> QED
  BY <1>2, <1>3, <1>4, <1>5, <1>6, <1>7, <1>8, <1>9, NextIs DEF SerialTask, KissStep

\* What an answer leaves of the settings of the TNC, and what it is.
Answering(m) ==
    /\ tnc'.stored = tnc.stored /\ tnc'.running \in {tnc.running, tnc.stored}
    /\ tnc.supported => tnc'.supported
    /\ m.op \in Talk => /\ tnc'.mode = tnc.mode /\ tnc'.running = tnc.running
                        /\ tnc'.supported = tnc.supported
    /\ m.op = "GetAll" => tnc'.params = tnc.params
    /\ m.op = "Params" => tnc'.params = IF tnc.mode = "kiss" THEN m.params ELSE tnc.params
    /\ spent' = spent \/ Spend("faults")
    /\ \/ m.op = "GetAll" /\ tnc.mode = "kiss" /\ rx' = Append(rx, Report)
       \/ /\ rx' = rx \/ \E r : ~IsReport(r) /\ rx' = Append(rx, r)
          /\ m.op = "GetAll" /\ tnc.mode = "kiss" => Spend("faults")

LEMMA AnswersSettings ==
    ASSUME TypeOK, TncAnswers
    PROVE  Answering(Head(tx))
<1> DEFINE m == Head(tx)
           answer == Answer(m)
<1>1. /\ IsTnc(tnc) /\ tnc' = answer.tnc /\ Sequence(rx)
      /\ \/ rx' = rx \o answer.says /\ spent' = spent
         \/ /\ answer.says # <<>> /\ Spend("faults")
            /\ rx' \in {rx, Append(rx, Say("N"))}
  BY DEF TypeOK, WireTypes, TncAnswers
<1>2. Same.tnc = tnc /\ Same.says = <<>>
  BY DEF Same
<1> DEFINE Heard == \/ m.op = "GetAll" /\ tnc.mode = "kiss" /\ rx' = Append(rx, Report)
                    \/ /\ rx' = rx \/ \E r : ~IsReport(r) /\ rx' = Append(rx, r)
                       /\ m.op = "GetAll" /\ tnc.mode = "kiss" => Spend("faults")
           Spent == spent' = spent \/ Spend("faults")
<1>3. ~IsReport(Say("N")) /\ ~IsReport(Say("K")) /\ ~IsReport(Say("Z"))
      /\ ~IsReport(Say(Version))
  BY DEF IsReport, Say, Version
<1>4. ASSUME answer.says = <<>> \/ \E r : ~IsReport(r) /\ answer.says = <<r>>,
             ~(m.op = "GetAll" /\ tnc.mode = "kiss")
      PROVE  Heard /\ Spent
  <2>1. \A r : rx \o <<r>> = Append(rx, r)
    BY <1>1, AppendIs
  <2>2. rx \o <<>> = rx
    BY <1>1, ShortIs
  <2>3. rx' = rx \/ \E r : ~IsReport(r) /\ rx' = Append(rx, r)
    <3>1. CASE answer.says = <<>>
      BY <1>1, <2>2, <3>1
    <3>2. ASSUME NEW r, ~IsReport(r), answer.says = <<r>>
          PROVE  rx' = rx \/ \E q : ~IsReport(q) /\ rx' = Append(rx, q)
      BY <1>1, <1>3, <2>1, <3>2
    <3> QED
      BY <1>4, <3>1, <3>2
  <2> QED
    BY <1>1, <1>4, <2>3
<1>5. CASE m.op = "GetAll" /\ tnc.mode = "kiss"
  <2>1. answer = [Same EXCEPT !.says = <<Report>>]
    BY <1>5 DEF Answer
  <2>2. answer.tnc = tnc /\ answer.says = <<Report>>
    BY <2>1 DEF Same
  <2>3. rx \o <<Report>> = Append(rx, Report)
    BY <1>1, AppendIs
  <2>4. Heard /\ Spent
    BY <1>1, <1>3, <1>5, <2>2, <2>3
  <2> HIDE DEF answer, Heard, Spent
  <2>5. tnc' = tnc
    BY <1>1, <2>2
  <2> QED
    BY <1>5, <2>4, <2>5 DEF Answering, Heard, Spent
<1>6. CASE m.op = "Params" /\ tnc.mode = "kiss"
  <2>1. answer = [Same EXCEPT !.tnc.params = m.params]
    BY <1>6 DEF Answer
  <2>2. answer.tnc = [tnc EXCEPT !.params = m.params] /\ answer.says = <<>>
    BY <2>1 DEF Same
  <2>3. Heard /\ Spent
    BY <1>4, <1>6, <2>2
  <2> HIDE DEF answer, Heard, Spent
  <2>4. /\ tnc'.stored = tnc.stored /\ tnc'.running = tnc.running
        /\ tnc'.supported = tnc.supported /\ tnc'.mode = tnc.mode
        /\ tnc'.params = m.params
    BY <1>1, <2>2 DEF IsTnc
  <2> QED
    BY <1>6, <2>3, <2>4 DEF Answering, Heard, Spent
<1>7. CASE m.op = "Entry" /\ tnc.mode = "kiss"
  <2>1. /\ answer.tnc = [tnc EXCEPT !.mode = "boot", !.got = <<>>]
        /\ answer.says = <<Say("K")>>
    BY <1>7 DEF Answer
  <2>2. Heard /\ Spent
    BY <1>3, <1>4, <1>7, <2>1
  <2> HIDE DEF answer, Heard, Spent
  <2>3. /\ tnc'.stored = tnc.stored /\ tnc'.running = tnc.running
        /\ tnc'.supported = tnc.supported
    BY <1>1, <2>1 DEF IsTnc
  <2> QED
    BY <1>7, <2>2, <2>3 DEF Answering, Heard, Spent, Talk
<1>8. CASE m.op = "Reset" /\ tnc.mode = "boot"
  <2>1. \/ answer = [Same EXCEPT !.tnc = Started(tnc)]
        \/ answer = [Same EXCEPT !.says = <<Say("K")>>]
    BY <1>8 DEF Answer
  <2>2. \/ answer.tnc = Started(tnc) /\ answer.says = <<>>
        \/ answer.tnc = tnc /\ answer.says = <<Say("K")>>
    BY <2>1 DEF Same
  <2>3. Heard /\ Spent
    BY <1>3, <1>4, <1>8, <2>2
  <2> HIDE DEF answer, Heard, Spent
  <2>4. /\ tnc'.stored = tnc.stored /\ tnc'.running \in {tnc.running, tnc.stored}
        /\ tnc'.supported = tnc.supported
    BY <1>1, <2>2 DEF IsTnc, Started
  <2> QED
    BY <1>8, <2>3, <2>4 DEF Answering, Heard, Spent, Talk
<1>9. CASE m.op = "Version" /\ tnc.mode = "boot"
  <2>1. answer.tnc = [tnc EXCEPT !.got = <<>>] /\ answer.says = <<Say(Version)>>
    BY <1>9 DEF Answer
  <2>2. Heard /\ Spent
    BY <1>3, <1>4, <1>9, <2>1
  <2> HIDE DEF answer, Heard, Spent
  <2>3. /\ tnc'.stored = tnc.stored /\ tnc'.running = tnc.running
        /\ tnc'.supported = tnc.supported
    BY <1>1, <2>1 DEF IsTnc
  <2> QED
    BY <1>9, <2>2, <2>3 DEF Answering, Heard, Spent, Talk
<1>10. CASE m.op = "Line" /\ tnc.mode = "boot"
  <2> DEFINE got == Append(tnc.got, m.line)
             last == m.line.file[m.line.k] = "eof"
             after == [tnc EXCEPT !.intact = FALSE, !.got = got]
  <2>1. answer = IF ~last THEN [tnc |-> after, says |-> <<Say("K")>>]
                 ELSE [tnc |-> IF Whole(got)
                               THEN Started([after EXCEPT !.intact = TRUE,
                                                          !.supported = TRUE])
                               ELSE [after EXCEPT !.mode = "dead", !.supported = TRUE],
                       says |-> <<Say("Z")>>]
    BY <1>10 DEF Answer
  <2> HIDE DEF answer
  <2>2. /\ \/ answer.tnc = after
           \/ answer.tnc = Started([after EXCEPT !.intact = TRUE, !.supported = TRUE])
           \/ answer.tnc = [after EXCEPT !.mode = "dead", !.supported = TRUE]
        /\ answer.says = <<Say("K")>> \/ answer.says = <<Say("Z")>>
    BY <2>1
  <2>3. Heard /\ Spent
    BY <1>3, <1>4, <1>10, <2>2
  <2> HIDE DEF Heard, Spent, got
  <2>4. /\ tnc'.stored = tnc.stored /\ tnc'.running \in {tnc.running, tnc.stored}
        /\ tnc.supported => tnc'.supported
    BY <1>1, <2>2 DEF IsTnc, Started
  <2> QED
    BY <1>10, <2>3, <2>4 DEF Answering, Heard, Spent, Talk
<1>11. CASE /\ tnc.mode = "kiss" => m.op \notin {"GetAll", "Params", "Entry"}
            /\ tnc.mode = "boot" => m.op \notin {"Reset", "Version", "Line"}
  <2>1. answer = Same
    BY <1>11 DEF Answer
  <2>2. answer.tnc = tnc /\ answer.says = <<>>
    BY <1>2, <2>1
  <2>3. Heard /\ Spent
    BY <1>4, <1>11, <2>2
  <2> HIDE DEF answer, Heard, Spent
  <2>4. tnc' = tnc
    BY <1>1, <2>2
  <2> QED
    BY <1>11, <2>3, <2>4 DEF Answering, Heard, Spent
<1> HIDE DEF answer
<1> QED
  BY <1>5, <1>6, <1>7, <1>8, <1>9, <1>10, <1>11

\* What SETHW leaves of them.
SettingMode(m) ==
    \/ /\ tnc.mode = "kiss" /\ scenario.software /\ spent' = spent
       /\ tnc'.mode = tnc.mode /\ tnc'.supported = tnc.supported
       /\ tnc'.params \in {tnc.params, Unset}
       /\ m.mode # SetFromKiss => tnc'.running = m.mode
    \/ tnc' = tnc /\ Spend("faults")
    \/ /\ tnc' = tnc /\ spent' = spent
       /\ tnc.mode = "kiss" /\ tnc.supported => ~scenario.software

LEMMA SetsSettings ==
    ASSUME TypeOK, TncSetsMode
    PROVE  SettingMode(Head(tx))
<1>1. IsTnc(tnc)
  BY DEF TypeOK, WireTypes
<1>2. ASSUME NEW params \in {tnc.params, Unset}, tnc' = WithMode(Head(tx), params)
      PROVE  /\ tnc'.mode = tnc.mode /\ tnc'.supported = tnc.supported
             /\ tnc'.params = params
             /\ Head(tx).mode # SetFromKiss => tnc'.running = Head(tx).mode
  BY <1>1, <1>2 DEF WithMode, IsTnc
<1>3. CASE tnc.mode = "kiss" /\ tnc.supported /\ scenario.software
  BY <1>2, <1>3 DEF TncSetsMode, SettingMode
<1>4. CASE ~(tnc.mode = "kiss" /\ tnc.supported /\ scenario.software)
  BY <1>4 DEF TncSetsMode, SettingMode
<1> QED
  BY <1>3, <1>4

\* Reports stay true.
LEMMA TrueReportsKept ==
    ASSUME TypeOK, Constants, Shapes, TrueReports, [Next]_vars
    PROVE  TrueReports'
<1> USE DEF store, setup, node, line, world
<1>1. Sequence(tx) /\ Sequence(rx) /\ IsTnc(tnc)
  BY DEF TypeOK, WireTypes
<1> DEFINE same == /\ link'.supported => link.supported \/ tnc.supported
                   /\ scenario' = scenario
                   /\ tnc.supported => tnc'.supported
                   /\ ~scenario.software => tnc'.running = 0 /\ tnc'.stored = 0
<1>2. ASSUME same, Clear(rx', Truth, "true")
      PROVE  TrueReports'
  <2>1. Truth.software = Truth'.software /\ (Truth.supported => Truth'.supported)
    BY <1>2 DEF Truth
  <2>2. Clear(rx', Truth, "true") => Clear(rx', Truth', "true")
    BY <2>1, ClearWeaker
  <2> QED
    BY <1>2, <2>2 DEF TrueReports
<1>3. Fits(Report, Truth, "true")
  BY DEF Fits, Report, Truth, TrueReports
<1>4. ASSUME NEW r, ~IsReport(r)
      PROVE  Fits(r, Truth, "true")
  BY <1>4 DEF Fits
<1>5. ASSUME NEW r, Fits(r, Truth, "true")
      PROVE  Clear(Append(rx, r), Truth, "true")
  <2>1. Append(rx, r) = rx \o <<r>> /\ Sequence(<<r>>)
    BY <1>1, AppendIs, ShortIs
  <2>2. Clear(<<r>>, Truth, "true")
    BY <1>5, ClearShort
  <2> QED
    BY <1>1, <2>1, <2>2, ClearJoined DEF TrueReports
<1>6. rx # <<>> => Clear(Tail(rx), Truth, "true") /\ Fits(Head(rx), Truth, "true")
  BY <1>1, ClearTaken DEF TrueReports
<1>7. Clear(<<>>, Truth, "true")
  BY ClearShort
<1>8. ASSUME UNCHANGED <<link, scenario, tnc>>
      PROVE  same
  BY <1>8 DEF TrueReports
<1>9. CASE KissStep /\ ~HearReport /\ ~EndUpdate
  <2>1. Chatter
    BY <1>9, KissChatters
  <2>2. UNCHANGED <<link, scenario, tnc>>
    BY <1>9 DEF KissStep, SetMode, SetParams, Refresh, SetterDeadline, HearOther, AskAgain
  <2>3. Clear(rx', Truth, "true")
    BY <1>6, <2>1 DEF Chatter, TrueReports
  <2> QED
    BY <1>2, <1>8, <2>2, <2>3
<1>10. CASE HearReport
  <2>1. IsReport(Head(rx)) /\ rx # <<>> /\ rx' = Tail(rx) /\ tnc' = tnc
        /\ scenario' = scenario /\ link'.supported = Head(rx).supported
    BY <1>10 DEF HearReport
  <2>2. Head(rx).supported => tnc.supported
    BY <1>6, <2>1 DEF Fits, Truth
  <2>3. same
    BY <2>1, <2>2 DEF TrueReports
  <2> QED
    BY <1>2, <1>6, <2>1, <2>3
<1>11. CASE EndUpdate
  <2>1. link'.supported => link.supported
    <3>1. PICK s, h, c : link = [supported |-> s, heard |-> h, chip |-> c]
      BY DEF Shapes, IsLink
    <3> QED
      BY <1>11, <3>1 DEF EndUpdate, AfterUpdate, Unheard
  <2>2. rx' = rx /\ tnc' = tnc /\ scenario' = scenario
    BY <1>11 DEF EndUpdate
  <2> QED
    BY <1>2, <2>1, <2>2 DEF TrueReports
<1>12. CASE BeginUpdate
  <2>1. UNCHANGED <<link, scenario, tnc>> /\ (rx' = rx \/ rx' = <<>>)
    BY <1>12 DEF BeginUpdate
  <2> QED
    BY <1>2, <1>7, <1>8, <2>1 DEF TrueReports
<1>13. CASE Timeout \/ \E long \in BOOLEAN : ReadByte(long)
  <2>1. UNCHANGED <<link, scenario, tnc>>
        /\ (rx' = rx \/ rx' = <<>> \/ (rx # <<>> /\ rx' = Tail(rx)))
    BY <1>13 DEF Timeout, ReadByte
  <2> QED
    BY <1>2, <1>6, <1>7, <1>8, <2>1 DEF TrueReports
<1>14. CASE TncAnswers
  <2>1. Answering(Head(tx)) /\ link' = link /\ scenario' = scenario
    BY <1>14, AnswersSettings DEF TncAnswers
  <2>2. same
    BY <2>1 DEF Answering, TrueReports
  <2>3. Clear(rx', Truth, "true")
    BY <1>3, <1>4, <1>5, <2>1 DEF Answering, TrueReports
  <2> QED
    BY <1>2, <2>2, <2>3
<1>15. CASE TncSetsMode
  <2>1. SettingMode(Head(tx)) /\ link' = link /\ scenario' = scenario /\ rx' = rx
    BY <1>15, SetsSettings DEF TncSetsMode
  <2>2. same
    BY <2>1 DEF SettingMode, TrueReports
  <2> QED
    BY <1>2, <2>1, <2>2 DEF TrueReports
<1>16. ASSUME NEW m \in Strays, Noise(m)
       PROVE  TrueReports'
  <2>1. UNCHANGED <<link, scenario, tnc>> /\ rx' = Append(rx, m)
    BY <1>16 DEF Noise
  <2>2. m = Report \/ ~IsReport(m)
    BY <1>16 DEF Strays, IsReport, Say
  <2> QED
    BY <1>2, <1>3, <1>4, <1>5, <1>8, <2>1, <2>2
<1>17. CASE TncPowerCut
  <2>1. link' = link /\ scenario' = scenario /\ rx' = rx
        /\ tnc' = IF tnc.intact THEN [Started(tnc) EXCEPT !.got = <<>>]
                  ELSE [tnc EXCEPT !.mode = "boot", !.got = <<>>]
    BY <1>17 DEF TncPowerCut
  <2>2. /\ tnc'.stored = tnc.stored /\ tnc'.running \in {tnc.running, tnc.stored}
        /\ tnc'.supported = tnc.supported
    BY <1>1, <2>1 DEF IsTnc, Started
  <2>3. same
    BY <2>1, <2>2 DEF TrueReports
  <2> QED
    BY <1>2, <2>1, <2>3 DEF TrueReports
<1>18. CASE Restart
  <2>1. link' = Unheard /\ rx' = <<>> /\ tnc' = tnc /\ scenario' = scenario
    BY <1>18 DEF Restart
  <2>2. same
    BY <2>1 DEF TrueReports, Unheard
  <2> QED
    BY <1>2, <1>7, <2>1, <2>2
<1>19. CASE HttpStep \/ UNCHANGED vars
  <2>1. UNCHANGED <<link, scenario, tnc, rx>>
    BY <1>19 DEF HttpStep, PostMode, PostParams, PostSettings, PostRefresh, BeginUpload,
                 PushLine, CutShort, TakeFlash, PressUpdate, vars
  <2> QED
    BY <1>2, <1>8, <2>1 DEF TrueReports
<1> HIDE DEF same
<1> QED
  BY <1>9, <1>10, <1>11, <1>12, <1>13, <1>14, <1>15, <1>16, <1>17, <1>18, <1>19,
     NextIs DEF SerialTask, KissStep, TncStep

-----------------------------------------------------------------------------
\* What is asked of one message of the node.
LEMMA TalkFits ==
    ASSUME NEW s
    PROVE  /\ \A what \in {"mode", "params", "none"} : Fits(Send("GetAll"), s, what)
           /\ ~Fits(Send("GetAll"), s, "unasked")
           /\ \A p : /\ Fits([op |-> "Params", params |-> p], s, "mode")
                     /\ Fits([op |-> "Params", params |-> p], s, "none")
                     /\ p = s.params => Sets([op |-> "Params", params |-> p], s, "params")
           /\ \A j : j.mode = s.mode => Sets(SetHw(j), s, "mode")
BY DEF Fits, Sets, Send, SetHw, Talk

\* The parameters are sent.
LEMMA ParamsSent ==
    ASSUME NEW s, NEW u
    PROVE  /\ Sequence(SendParams(s))
           /\ Clear(SendParams(s), u, "mode") /\ Clear(SendParams(s), u, "none")
           /\ s.params = u.params => s.params = Unset \/ Due(SendParams(s), u, "params")
<1> DEFINE m == [op |-> "Params", params |-> s.params]
<1>1. CASE s.params = Unset
  BY <1>1, ShortIs, ClearShort DEF SendParams
<1>2. CASE s.params # Unset
  <2>1. SendParams(s) = <<m>>
    BY <1>2 DEF SendParams
  <2>2. /\ Fits(m, u, "mode") /\ Fits(m, u, "none")
        /\ s.params = u.params => Sets(m, u, "params")
    BY TalkFits
  <2> HIDE DEF m
  <2>3. /\ Clear(<<m>>, u, "mode") /\ Clear(<<m>>, u, "none")
        /\ s.params = u.params => Due(<<m>>, u, "params")
    BY <2>2, ClearShort
  <2> QED
    BY <2>1, <2>3, ShortIs
<1> QED
  BY <1>1, <1>2

LEMMA JobFields ==
    ASSUME NEW j, IsJob(j), NEW x, NEW n
    PROVE  /\ [j EXCEPT !.phase = x].phase = x /\ [j EXCEPT !.phase = x].mode = j.mode
           /\ [j EXCEPT !.phase = x].attempt = j.attempt
           /\ [j EXCEPT !.attempt = n, !.phase = x].phase = x
           /\ [j EXCEPT !.attempt = n, !.phase = x].mode = j.mode
           /\ [j EXCEPT !.attempt = n, !.phase = x].attempt = n
<1>1. PICK y, m, p, k : j = [phase |-> y, mode |-> m, persist |-> p, attempt |-> k]
  BY DEF IsJob
<1> QED
  BY <1>1

\* Nothing on the line or in front of the node that matters has changed.
LEMMA SettingsStay ==
    ASSUME Shapes, SettingsKept,
           Reliable' => Reliable, Reliable /\ Stuck => Stuck',
           UNCHANGED <<settings, setter, shown, scenario>>,
           tnc'.params = tnc.params, tnc'.running = tnc.running,
           spent'.faults >= spent.faults, spent'.faults \in Nat,
           \A what \in {"mode", "params", "none"} :
              /\ Clear(tx, settings, what) => Clear(tx', settings, what)
              /\ Due(tx, settings, what) => Due(tx', settings, what),
           Clear(tx', Unused, "unasked") => Clear(tx, Unused, "unasked"),
           Clear(rx', Unused, "silent") => Clear(rx, Unused, "silent"),
           Clear(rx, [mode |-> tnc.running], "running")
              => Clear(rx', [mode |-> tnc.running], "running")
    PROVE  SettingsKept'
<1> SUFFICES ASSUME Reliable', ~Stuck'
             PROVE  /\ settings.mode # SetFromKiss => ParamsKept'
                    /\ Wanted => ModeKept'
  BY DEF SettingsKept, Wanted
<1>1. Reliable /\ ~Stuck /\ spent.faults \in Nat
  BY DEF Shapes, Bounds
<1>2. ASSUME settings.mode # SetFromKiss
      PROVE  ParamsKept'
  BY <1>1, <1>2 DEF SettingsKept, ParamsKept
<1>3. OnItsWay => OnItsWay'
  BY DEF OnItsWay
<1>4. ASSUME NEW n \in Nat
      PROVE  Ignored(n) => Ignored(n)'
  BY <1>1, <1>4 DEF Ignored
<1>5. ASSUME Wanted
      PROVE  ModeKept'
  <2>1. CASE InFlight(setter)
    <3>1. Trying
      BY <1>1, <1>5, <2>1 DEF SettingsKept, ModeKept
    <3>2. PICK a \in Nat : a = setter.attempt
      BY <3>1 DEF Trying
    <3>3. setter.phase = "Settling" => Settles'
      BY <1>3, <1>4, <3>1, <3>2 DEF Trying, Settles
    <3>4. ASSUME TooSoon
          PROVE  TooSoon'
      BY <1>1, <1>3, <1>4, <3>2, <3>4 DEF TooSoon
    <3>5. ASSUME InTime
          PROVE  InTime'
      BY <1>1, <3>2, <3>5 DEF InTime
    <3>6. Trying'
      BY <1>1, <3>1, <3>2, <3>3, <3>4, <3>5 DEF Trying
    <3> QED
      BY <2>1, <3>6 DEF ModeKept
  <2>2. CASE ~InFlight(setter)
    <3>1. Tried
      BY <1>1, <1>5, <2>2 DEF SettingsKept, ModeKept
    <3>2. Attempts \in Nat
      BY AttemptsAssumption
    <3>3. Tried'
      BY <1>1, <3>1, <3>2 DEF Tried
    <3> QED
      BY <2>2, <3>3 DEF ModeKept
  <2> QED
    BY <2>1, <2>2
<1> QED
  BY <1>2, <1>5

\* Talk does not help a TNC that does not listen.
LEMMA StuckStays ==
    ASSUME Sequence(tx), Stuck, NEW c, Chat(c), tx' = tx \o c, tnc'.mode = tnc.mode
    PROVE  Stuck'
<1>1. Clear(c, Unused, "talk") /\ Sequence(c)
  BY DEF Chat, Clear, Fits
<1>2. Clear(tx', Unused, "talk")
  BY <1>1, ClearJoined DEF Stuck
<1> QED
  BY <1>2 DEF Stuck

\* The node asks for a report.
LEMMA AskingKeeps ==
    ASSUME Sequence(tx), NEW s
    PROVE  /\ \A what \in {"mode", "params", "none"} :
                 /\ Clear(tx, s, what) => Clear(Append(tx, Send("GetAll")), s, what)
                 /\ Due(tx, s, what) => Due(Append(tx, Send("GetAll")), s, what)
           /\ ~Clear(Append(tx, Send("GetAll")), s, "unasked")
<1> DEFINE c == <<Send("GetAll")>>
<1>1. Append(tx, Send("GetAll")) = tx \o c /\ Sequence(c)
  BY AppendIs, ShortIs
<1>2. \A what : Clear(c, s, what) <=> Fits(Send("GetAll"), s, what)
  BY ClearShort
<1> HIDE DEF c
<1>3. \A what \in {"mode", "params", "none"} : Clear(c, s, what)
  BY <1>2, TalkFits
<1>4. ~Clear(c, s, "unasked")
  BY <1>2, TalkFits
<1>5. ASSUME NEW what \in {"mode", "params", "none"}
      PROVE  /\ Clear(tx, s, what) => Clear(tx \o c, s, what)
             /\ Due(tx, s, what) => Due(tx \o c, s, what)
  BY <1>1, <1>3, ClearJoined
<1>6. ~Clear(tx \o c, s, "unasked")
  BY <1>1, <1>4, ClearJoined
<1> QED
  BY <1>1, <1>5, <1>6

\* Reports that have been looked at.
LEMMA HeardIs ==
    ASSUME Sequence(rx), rx # <<>>, NEW s, NEW what, Clear(rx, s, what)
    PROVE  Clear(Tail(rx), s, what) /\ Fits(Head(rx), s, what)
BY ClearTaken

LEMMA SmallStepsKeep ==
    ASSUME TypeOK, Shapes, SettingsKept, \/ Refresh \/ AskAgain \/ HearOther
                                         \/ HttpStep \/ UNCHANGED vars
                                         \/ BeginUpdate /\ ~updating'
                                         \/ \E m \in Strays : Noise(m)
    PROVE  SettingsKept'
<1> USE DEF store, setup, node, line, world
<1>1. Sequence(tx) /\ Sequence(rx) /\ spent.faults \in Nat
  BY DEF TypeOK, WireTypes, Shapes, Bounds
<1>2. CASE Refresh \/ AskAgain
  <2>1. tx' = Append(tx, Send("GetAll"))
    <3>1. CASE AskAgain
      <4>1. tx = <<>> /\ tx' = <<Send("GetAll")>>
        BY <3>1 DEF AskAgain
      <4>2. tx \o <<Send("GetAll")>> = tx'
        BY <4>1, ShortIs
      <4> QED
        BY <1>1, <4>2, AppendIs
    <3> QED
      BY <1>2, <3>1 DEF Refresh
  <2>2. /\ UNCHANGED <<settings, setter, shown, scenario, tnc, spent, rx, link, forgot,
                       fl, updating>>
    BY <1>2 DEF Refresh, AskAgain
  <2>3. Stuck => Stuck'
    <3>1. Chat(<<Send("GetAll")>>) /\ tx' = tx \o <<Send("GetAll")>>
      BY <1>1, <2>1, AppendIs, ShortIs DEF Chat, Send, Talk
    <3> QED
      BY <1>1, <2>2, <3>1, StuckStays
  <2>4. \A what \in {"mode", "params", "none"} :
           /\ Clear(tx, settings, what) => Clear(tx', settings, what)
           /\ Due(tx, settings, what) => Due(tx', settings, what)
    BY <1>1, <2>1, AskingKeeps
  <2>5. ~Clear(tx', Unused, "unasked")
    BY <1>1, <2>1, AskingKeeps
  <2>6. Reliable' => Reliable
    BY <2>2 DEF Reliable
  <2> QED
    BY <1>1, <2>2, <2>3, <2>4, <2>5, <2>6, SettingsStay
<1>3. CASE HearOther
  <2>1. /\ UNCHANGED <<settings, setter, shown, scenario, tnc, spent, tx, link, forgot,
                       fl, updating>>
        /\ rx # <<>> /\ rx' = Tail(rx) /\ ~IsReport(Head(rx))
    BY <1>3 DEF HearOther
  <2>2. Fits(Head(rx), Unused, "silent")
    BY <2>1 DEF Fits
  <2>3. Clear(rx', Unused, "silent") => Clear(rx, Unused, "silent")
    BY <1>1, <2>1, <2>2, ClearTaken
  <2>4. Clear(rx, [mode |-> tnc.running], "running")
          => Clear(rx', [mode |-> tnc.running], "running")
    BY <1>1, <2>1, HeardIs
  <2>5. (Reliable' => Reliable) /\ (Stuck => Stuck')
    BY <2>1 DEF Reliable, Stuck
  <2> QED
    BY <1>1, <2>1, <2>3, <2>4, <2>5, SettingsStay
<1>4. CASE HttpStep \/ UNCHANGED vars
  <2>1. /\ UNCHANGED <<settings, setter, shown, scenario, tnc, rx, tx, link, forgot,
                       fl, updating>>
        /\ spent'.faults = spent.faults
    <3>1. ASSUME NEW b \in {"changes", "uploads", "updates"}, Spend(b)
          PROVE  spent'.faults = spent.faults
      BY <3>1 DEF Spend, Shapes, Bounds
    <3>2. spent' = spent \/ \E b \in {"changes", "uploads", "updates"} : Spend(b)
      BY <1>4 DEF HttpStep, PostMode, PostParams, PostSettings, PostRefresh, BeginUpload,
                 PushLine, CutShort, TakeFlash, PressUpdate, vars
    <3>3. UNCHANGED <<settings, setter, shown, scenario, tnc, rx, tx, link, forgot,
                       fl, updating>>
      BY <1>4 DEF HttpStep, PostMode, PostParams, PostSettings, PostRefresh, BeginUpload,
                 PushLine, CutShort, TakeFlash, PressUpdate, vars
    <3> QED
      BY <3>1, <3>2, <3>3
  <2>2. (Reliable' => Reliable) /\ (Stuck => Stuck')
    BY <2>1 DEF Reliable, Stuck
  <2> QED
    BY <1>1, <2>1, <2>2, SettingsStay
<1>5. CASE BeginUpdate /\ ~updating'
  <2>1. UNCHANGED <<settings, setter, shown, scenario, tnc, rx, tx, link, forgot,
                    fl, updating, spent>>
    BY <1>5 DEF BeginUpdate
  <2>2. (Reliable' => Reliable) /\ (Stuck => Stuck')
    BY <2>1 DEF Reliable, Stuck
  <2> QED
    BY <1>1, <2>1, <2>2, SettingsStay
<1>6. ASSUME NEW m \in Strays, Noise(m)
      PROVE  SettingsKept'
  <2>1. /\ UNCHANGED <<settings, setter, shown, scenario, tnc, tx, link, forgot,
                       fl, updating>>
        /\ rx' = Append(rx, m) /\ Spend("noise")
    BY <1>6 DEF Noise
  <2>2. spent'.faults = spent.faults
    BY <2>1 DEF Spend, Shapes, Bounds
  <2>3. (Reliable' => Reliable) /\ (Stuck => Stuck')
    BY <2>1 DEF Reliable, Stuck
  <2>4. rx' = rx \o <<m>> /\ Sequence(<<m>>)
    BY <1>1, <2>1, AppendIs, ShortIs
  <2>5. Fits(m, [mode |-> tnc.running], "running")
    BY <1>6 DEF Strays, Fits, IsReport, Say, Report
  <2>6. Clear(rx, [mode |-> tnc.running], "running")
          => Clear(rx', [mode |-> tnc.running], "running")
    BY <1>1, <2>4, <2>5, ClearJoined, ClearShort
  <2>7. Clear(rx', Unused, "silent") => Clear(rx, Unused, "silent")
    BY <1>1, <2>4, ClearJoined
  <2> QED
    BY <1>1, <2>1, <2>2, <2>3, <2>6, <2>7, SettingsStay
<1> QED
  BY <1>2, <1>3, <1>4, <1>5, <1>6

-----------------------------------------------------------------------------
\* A change of mode that starts, or starts again.
LEMMA StartedKeeps ==
    ASSUME NEW j, NEW c, Sequence(c), setter' = j, tx' = c \o <<SetHw(j)>>,
           j.phase = "Settling", j.mode = settings'.mode,
           j.attempt \in 1 .. Attempts, spent'.faults >= j.attempt - 1
    PROVE  SettingsKept' /\ ModeKept'
<1> DEFINE t == <<SetHw(j)>>
<1>1. InFlight(setter')
  BY DEF InFlight
<1>2. Sets(SetHw(j), settings', "mode")
  BY TalkFits
<1>3. Due(t, settings', "mode") /\ Sequence(t)
  BY <1>2, ShortIs, ClearShort
<1> HIDE DEF t
<1>4. Due(c \o t, settings', "mode")
  BY <1>3, ClearJoined
<1>5. Due(tx', settings', "mode")
  BY <1>4 DEF t
<1>6. Settles'
  BY <1>5 DEF Settles, OnItsWay
<1>7. Trying'
  BY <1>6 DEF Trying
<1>8. ParamsKept'
  BY <1>1 DEF ParamsKept
<1>9. ModeKept'
  BY <1>1, <1>7 DEF ModeKept
<1> QED
  BY <1>8, <1>9 DEF SettingsKept

\* Whatever a change of mode does, the parameters follow it.
LEMMA AdvanceIs ==
    ASSUME Sequence(tx), NEW moved, Advance(moved), Chat(moved.sends), tnc' = tnc,
           settings' = settings
    PROVE  ParamsKept' /\ (Stuck => Stuck')
<1>1. PICK a : a = moved.sends
  OBVIOUS
<1>2. PICK b : b = AfterMode(moved)
  OBVIOUS
<1>3. Chat(a) /\ Chat(b) /\ Sequence(a) /\ Sequence(b) /\ tx' = (tx \o a) \o b
  <2>1. Chat(b)
    BY <1>2, SetterChats
  <2>2. tx' = (tx \o a) \o b
    BY <1>1, <1>2 DEF Advance
  <2> QED
    BY <1>1, <2>1, <2>2 DEF Chat
<1>4. Sequence(tx \o a)
  BY <1>3, JoinIs
<1>5. ASSUME InFlight(moved.job)
      PROVE  ParamsKept'
  <2>1. setter' = moved.job
    BY <1>5 DEF Advance, Working
  <2>2. InFlight(setter')
    BY <1>5, <2>1
  <2> QED
    BY <2>2 DEF ParamsKept
<1>6. ASSUME ~InFlight(moved.job)
      PROVE  ParamsKept'
  <2>1. b = SendParams(settings)
    BY <1>2, <1>6 DEF AfterMode
  <2>2. settings.params = Unset \/ Due(b, settings, "params")
    BY <2>1, ParamsSent
  <2>3. settings.params = Unset \/ Due(tx', settings, "params")
    BY <1>3, <1>4, <2>2, ClearJoined
  <2>4. settings'.params = Unset \/ Due(tx', settings', "params")
    BY <2>3
  <2> QED
    BY <2>4 DEF ParamsKept
<1>7. ASSUME Stuck
      PROVE  Stuck'
  <2>1. Clear(a, Unused, "talk") /\ Clear(b, Unused, "talk")
    BY <1>3 DEF Chat, Clear, Fits
  <2>2. Clear(tx', Unused, "talk")
    BY <1>3, <1>4, <1>7, <2>1, ClearJoined DEF Stuck
  <2> QED
    BY <1>7, <2>2 DEF Stuck
<1> QED
  BY <1>5, <1>6, <1>7

\* A change of mode that ends: the parameters follow.
LEMMA Ends ==
    ASSUME Sequence(tx), NEW outcome, outcome \notin {"Settling", "AwaitingReadback"},
           Advance(Ended(setter, outcome)), IsJob(setter), settings' = settings
    PROVE  /\ setter' = NoJob /\ ~InFlight(setter') /\ shown'.phase = outcome
           /\ tx' = tx \o SendParams(settings)
<1> DEFINE moved == Ended(setter, outcome)
<1>1. moved.job.phase = outcome /\ moved.sends = <<>>
  <2>1. moved.job = [setter EXCEPT !.phase = outcome] /\ moved.sends = <<>>
    BY DEF Ended, Moved
  <2>2. [setter EXCEPT !.phase = outcome].phase = outcome
    BY JobFields
  <2> QED
    BY <2>1, <2>2
<1>2. ~InFlight(moved.job)
  BY <1>1 DEF InFlight
<1>0. Advance(moved)
  OBVIOUS
<1> HIDE DEF moved
<1>3. setter' = NoJob /\ shown' = moved.job /\ tx' = tx \o <<>> \o SendParams(settings)
  BY <1>0, <1>1, <1>2 DEF Advance, Working, AfterMode
<1>4. ~InFlight(setter')
  BY <1>3 DEF InFlight, NoJob
<1>5. tx' = tx \o SendParams(settings)
  BY <1>3, ShortIs
<1> QED
  BY <1>1, <1>3, <1>4, <1>5

\* An attempt that has cost a fault is made again, or was the last.
LEMMA TriesAgain ==
    ASSUME Sequence(tx), Shapes, Constants, Trying, Advance(NextAttempt(setter)),
           settings' = settings, spent'.faults \in Nat, spent'.faults >= setter.attempt
    PROVE  ModeKept'
<1>1. /\ IsJob(setter) /\ Attempts \in Nat
      /\ setter.attempt \in 1 .. Attempts /\ setter.mode = settings.mode
  BY DEF Shapes, Trying, Constants, AttemptsAssumption
<1>2. CASE setter.attempt >= Attempts
  <2>1. Advance(Ended(setter, "NotApplied"))
    BY <1>2 DEF NextAttempt
  <2>2. ~InFlight(setter') /\ shown'.phase = "NotApplied"
    BY <1>1, <2>1, Ends
  <2>3. spent'.faults >= Attempts
    BY <1>1, <1>2
  <2> QED
    BY <2>2, <2>3 DEF ModeKept, Tried
<1>3. CASE ~(setter.attempt >= Attempts)
  <2> DEFINE j == [setter EXCEPT !.attempt = @ + 1, !.phase = "Settling"]
  <2>1. j.phase = "Settling" /\ j.mode = setter.mode /\ j.attempt = setter.attempt + 1
    BY <1>1, JobFields
  <2>2. NextAttempt(setter) = Moved(j, <<SetHw(j)>>)
    <3>1. NextAttempt(setter) = Moved(j, <<SetHw(setter)>>)
      BY <1>3 DEF NextAttempt
    <3>2. PICK y, m, p, k :
             setter = [phase |-> y, mode |-> m, persist |-> p, attempt |-> k]
      BY <1>1 DEF IsJob
    <3>3. j.mode = setter.mode /\ j.persist = setter.persist
      BY <3>2
    <3> QED
      BY <3>1, <3>3 DEF SetHw
  <2> HIDE DEF j
  <2>3. PICK sends : sends = <<SetHw(j)>>
    OBVIOUS
  <2>4. Advance([job |-> j, sends |-> sends])
    BY <2>2, <2>3 DEF Moved
  <2>5. InFlight(j)
    BY <2>1 DEF InFlight
  <2>6. setter' = j /\ tx' = tx \o <<SetHw(j)>> \o <<>>
    BY <2>3, <2>4, <2>5 DEF Advance, Working, AfterMode
  <2>7. tx' = tx \o <<SetHw(j)>>
    <3>1. Sequence(<<SetHw(j)>>)
      BY ShortIs
    <3>2. Sequence(tx \o <<SetHw(j)>>)
      BY <3>1, JoinIs
    <3> QED
      BY <2>6, <3>2, ShortIs
  <2>8. j.attempt \in 1 .. Attempts
    BY <1>1, <1>3, <2>1
  <2>9. spent'.faults >= j.attempt - 1
    BY <1>1, <2>1
  <2>10. j.mode = settings'.mode
    BY <1>1, <2>1
  <2> QED
    BY <2>1, <2>6, <2>7, <2>8, <2>9, <2>10, StartedKeeps
<1> QED
  BY <1>2, <1>3

LEMMA SetModeKeeps ==
    ASSUME TypeOK, Constants, Shapes, SetMode
    PROVE  SettingsKept'
<1> DEFINE started == StartMode(Head(cmds).mode, Head(cmds).persist)
<1> SUFFICES ASSUME Reliable'
             PROVE  SettingsKept'
  BY DEF SettingsKept
<1>1. Sequence(tx) /\ IsSettings(settings) /\ Attempts \in Nat \ {0} /\ spent.faults \in Nat
  BY DEF TypeOK, WireTypes, Shapes, Constants, AttemptsAssumption, Bounds
<1>2. link.supported /\ settings' = [settings EXCEPT !.mode = Head(cmds).mode]
      /\ spent' = spent
  BY DEF Reliable, SetMode
<1>3. setter' = Working(started) /\ shown' = started.job /\ tx' = tx \o started.sends
  BY <1>2 DEF SetMode
<1>4. settings'.mode = Head(cmds).mode /\ IsSettings(settings')
  <2>1. PICK m, p : settings = [mode |-> m, params |-> p]
    BY <1>1 DEF IsSettings
  <2>2. settings' = [mode |-> Head(cmds).mode, params |-> p]
    BY <1>2, <2>1
  <2>3. \A x, y : IsSettings([mode |-> x, params |-> y])
    BY Zenon DEF IsSettings
  <2> QED
    BY <2>2, <2>3
<1>5. CASE Head(cmds).mode = SetFromKiss
  BY <1>4, <1>5 DEF SettingsKept, Wanted
<1>6. CASE Head(cmds).mode # SetFromKiss
  <2> DEFINE j == [phase |-> "Settling", mode |-> Head(cmds).mode,
                   persist |-> Head(cmds).persist, attempt |-> 1]
  <2>1. started = Moved(j, <<SetHw(j)>>)
    BY <1>6 DEF StartMode
  <2>0. j.phase = "Settling" /\ j.mode = settings'.mode /\ j.attempt = 1
    BY <1>4
  <2> HIDE DEF j
  <2>2. setter' = j /\ tx' = tx \o <<SetHw(j)>>
    BY <1>3, <2>0, <2>1 DEF Moved, Working, InFlight
  <2>3. 1 \in 1 .. Attempts /\ spent'.faults >= 1 - 1
    BY <1>1, <1>2
  <2> QED
    BY <1>1, <2>0, <2>2, <2>3, StartedKeeps
<1> QED
  BY <1>5, <1>6

LEMMA SetParamsKeeps ==
    ASSUME TypeOK, Constants, Shapes, SettingsKept, SetParams
    PROVE  SettingsKept'
<1> SUFFICES ASSUME Reliable', ~Stuck'
             PROVE  /\ settings'.mode # SetFromKiss => ParamsKept'
                    /\ Wanted' => ModeKept'
  BY DEF SettingsKept
<1> USE DEF store, setup, node, line, world
<1>1. Sequence(tx) /\ IsSettings(settings) /\ spent.faults \in Nat
  BY DEF TypeOK, WireTypes, Shapes, Bounds
<1>2. /\ Reliable /\ settings' = [settings EXCEPT !.params = Head(cmds).params]
      /\ UNCHANGED <<setter, shown, rx, tnc, scenario, spent>>
      /\ tx' = tx \o SendParams(settings')
  BY DEF Reliable, SetParams
<1>3. settings'.mode = settings.mode
  <2>1. PICK m, p : settings = [mode |-> m, params |-> p]
    BY <1>1 DEF IsSettings
  <2> QED
    BY <1>2, <2>1
<1>4. ~Stuck
  <2>1. Chat(SendParams(settings'))
    BY SetterChats
  <2> QED
    BY <1>1, <1>2, <2>1, StuckStays
<1>5. ParamsKept'
  BY <1>1, <1>2, ParamsSent, ClearJoined DEF ParamsKept
<1>6. /\ Clear(tx, settings, "mode") => Clear(tx', settings', "mode")
      /\ Due(tx, settings, "mode") => Due(tx', settings', "mode")
      /\ Clear(tx, settings, "none") => Clear(tx', settings', "none")
  <2>1. /\ Clear(tx, settings, "mode") => Clear(tx, settings', "mode")
        /\ Due(tx, settings, "mode") => Due(tx, settings', "mode")
        /\ Clear(tx, settings, "none") => Clear(tx, settings', "none")
    BY <1>3, ClearWeaker
  <2>2. Sequence(SendParams(settings')) /\ Clear(SendParams(settings'), settings', "mode")
        /\ Clear(SendParams(settings'), settings', "none")
    BY ParamsSent
  <2> QED
    BY <1>1, <1>2, <2>1, <2>2, ClearJoined
<1>7. Clear(tx', Unused, "unasked") => Clear(tx, Unused, "unasked")
  BY <1>1, <1>2, ParamsSent, ClearJoined
<1>8. ASSUME Wanted'
      PROVE  ModeKept'
  <2>1. ModeKept
    BY <1>2, <1>3, <1>4, <1>8 DEF SettingsKept, Wanted
  <2>2. OnItsWay => OnItsWay'
    BY <1>2, <1>3, <1>6 DEF OnItsWay
  <2>3. ASSUME NEW n
        PROVE  Ignored(n) => Ignored(n)'
    BY <1>2, <1>6 DEF Ignored
  <2>4. CASE InFlight(setter)
    <3>1. Trying
      BY <2>1, <2>4 DEF ModeKept
    <3>2. PICK a : a = setter.attempt
      OBVIOUS
    <3>3. Settles => Settles'
      BY <1>2, <2>2, <2>3, <3>2 DEF Settles
    <3>4. TooSoon => TooSoon'
      BY <1>2, <2>2, <2>3 DEF TooSoon
    <3>5. InTime => InTime'
      BY <1>2, <1>3, <1>6, <1>7 DEF InTime
    <3>6. Trying'
      BY <1>2, <1>3, <3>1, <3>3, <3>4, <3>5 DEF Trying
    <3> QED
      BY <1>2, <2>4, <3>6 DEF ModeKept
  <2>5. CASE ~InFlight(setter)
    <3>1. Tried
      BY <2>1, <2>5 DEF ModeKept
    <3>2. Tried'
      BY <1>2, <1>3, <1>6, <3>1 DEF Tried
    <3> QED
      BY <1>2, <2>5, <3>2 DEF ModeKept
  <2> QED
    BY <2>4, <2>5
<1> QED
  BY <1>5, <1>8

\* The change of mode has settled, or no report has come.
LEMMA DeadlineKeeps ==
    ASSUME TypeOK, Constants, Shapes, SettingsKept, SetterDeadline
    PROVE  SettingsKept'
<1> SUFFICES ASSUME Reliable', ~Stuck'
             PROVE  ParamsKept' /\ (Wanted' => ModeKept')
  BY DEF SettingsKept
<1> USE DEF store, setup, node, line, world
<1>1. /\ Sequence(tx) /\ IsSettings(settings) /\ spent.faults \in Nat /\ IsJob(setter)
      /\ Attempts \in Nat \ {0} /\ spent \in [Bounds -> Nat] /\ "faults" \in Bounds
  BY DEF TypeOK, WireTypes, Shapes, Bounds, Constants, AttemptsAssumption
<1>2. /\ Reliable /\ InFlight(setter) /\ rx = <<>>
      /\ UNCHANGED <<settings, rx, tnc, scenario>>
      /\ Advance(OnSetterTime(setter))
  BY DEF Reliable, SetterDeadline
<1>3. \/ tx = <<>> /\ spent'.faults = spent.faults
      \/ tx # <<>> /\ spent'.faults = spent.faults + 1
  BY <1>1 DEF SetterDeadline, Spend
<1>4. ParamsKept' /\ ~Stuck
  BY <1>1, <1>2, AdvanceIs, SetterChats
<1>5. /\ \A s, what : Clear(<<>>, s, what) /\ ~Due(<<>>, s, what)
      /\ spent'.faults \in Nat /\ spent'.faults >= spent.faults
  BY <1>1, <1>3, ClearShort
<1>6. ASSUME Wanted'
      PROVE  ModeKept'
  <2>1. Trying
    BY <1>2, <1>4, <1>6 DEF SettingsKept, Wanted, ModeKept
  <2>2. PICK a \in 1 .. Attempts : a = setter.attempt
    BY <2>1 DEF Trying
  <2>3. a \in Nat \ {0} /\ spent.faults >= a - 1
    BY <1>1, <2>1, <2>2 DEF Trying
  <2>4. CASE setter.phase = "AwaitingReadback"
    <3>1. spent'.faults >= a
      <4>1. CASE tx # <<>>
        BY <1>1, <1>3, <2>3, <4>1
      <4>2. CASE tx = <<>>
        <5>1. TooSoon => spent.faults >= a
          BY <2>2 DEF TooSoon
        <5>2. InTime => spent.faults >= a
          BY <1>2, <1>5, <2>2, <4>2 DEF InTime
        <5> QED
          BY <1>1, <1>3, <2>1, <2>3, <2>4, <4>2, <5>1, <5>2 DEF Trying
      <4> QED
        BY <4>1, <4>2
    <3>2. Advance(NextAttempt(setter))
      BY <1>2, <2>4 DEF OnSetterTime
    <3> QED
      BY <1>1, <1>2, <1>5, <2>1, <2>2, <3>1, <3>2, TriesAgain
  <2>5. CASE setter.phase = "Settling"
    <3> DEFINE j == [setter EXCEPT !.phase = "AwaitingReadback"]
    <3>1. j.phase = "AwaitingReadback" /\ j.mode = setter.mode /\ j.attempt = a
      BY <1>1, <2>2, JobFields
    <3>2. OnSetterTime(setter) = Moved(j, <<[op |-> "GetAll"]>>)
      BY <2>5 DEF OnSetterTime
    <3> HIDE DEF j
    <3>3. PICK sends : sends = <<Send("GetAll")>>
      OBVIOUS
    <3>4. Advance([job |-> j, sends |-> sends])
      BY <1>2, <3>2, <3>3 DEF Moved, Send
    <3>5. InFlight(j)
      BY <3>1 DEF InFlight
    <3>6. setter' = j /\ tx' = tx \o <<Send("GetAll")>> \o <<>>
      BY <3>3, <3>4, <3>5 DEF Advance, Working, AfterMode
    <3>7. tx' = Append(tx, Send("GetAll"))
      <4>1. Sequence(tx \o <<Send("GetAll")>>) /\ tx \o <<Send("GetAll")>> = Append(tx, Send("GetAll"))
        BY <1>1, AppendIs
      <4> QED
        BY <3>6, <4>1, ShortIs
    <3>8. /\ \A what \in {"mode", "none"} :
                /\ Clear(tx, settings, what) => Clear(tx', settings, what)
                /\ Due(tx, settings, what) => Due(tx', settings, what)
          /\ ~Clear(tx', Unused, "unasked")
      BY <1>1, <3>7, AskingKeeps
    <3>9. Settles
      BY <2>1, <2>5 DEF Trying
    <3>10. CASE tx = <<>>
      <4>1. tnc.running = settings.mode \/ spent.faults >= a \/ ~scenario.software
        BY <1>5, <2>2, <3>9, <3>10 DEF Settles, OnItsWay, Ignored
      <4>2. Clear(rx', [mode |-> tnc'.running], "running") /\ Clear(tx', settings', "none")
        BY <1>2, <1>5, <3>8, <3>10
      <4>3. InTime'
        BY <1>2, <1>3, <3>1, <3>6, <3>8, <3>10, <4>1, <4>2 DEF InTime
      <4> QED
        BY <1>2, <1>3, <2>1, <2>2, <3>1, <3>6, <3>10, <4>3 DEF Trying, ModeKept, InFlight
    <3>11. CASE tx # <<>>
      <4>1. spent'.faults >= a /\ spent'.faults >= spent.faults + 1
        <5>1. PICK f, g \in Nat : f = spent.faults /\ g = spent'.faults
          BY <1>1, <1>5
        <5>2. g = f + 1 /\ f >= a - 1
          BY <1>3, <2>3, <3>11, <5>1
        <5> QED
          BY <2>3, <5>1, <5>2
      <4>2. OnItsWay => OnItsWay'
        BY <1>2, <3>8 DEF OnItsWay
      <4>3. Ignored(a) => Ignored(2)'
        <5>1. PICK f, g \in Nat : f = spent.faults /\ g = spent'.faults
          BY <1>1, <1>5
        <5>2. f >= a => g >= 2
          BY <2>3, <4>1, <5>1
        <5>3. Clear(tx, settings, "mode") => Clear(tx', settings', "mode")
          BY <1>2, <3>8
        <5>4. scenario' = scenario
          BY <1>2
        <5> QED
          BY <5>1, <5>2, <5>3, <5>4 DEF Ignored
      <4>4. TooSoon'
        BY <2>2, <3>1, <3>6, <3>9, <4>1, <4>2, <4>3 DEF TooSoon, Settles
      <4>5. spent'.faults >= a - 1
        <5>1. PICK g \in Nat : g = spent'.faults
          BY <1>5
        <5> QED
          BY <2>3, <4>1, <5>1
      <4> QED
        BY <1>2, <2>1, <2>2, <3>1, <3>6, <4>4, <4>5 DEF Trying, ModeKept, InFlight
    <3> QED
      BY <3>10, <3>11
  <2> QED
    BY <1>2, <2>4, <2>5 DEF InFlight
<1> QED
  BY <1>4, <1>6
-----------------------------------------------------------------------------
\* A report that tells the node of firmware it supports: everything is sent.
LEMMA SupportedKeeps ==
    ASSUME TypeOK, Constants, Shapes, HearReport, BecomesSupported(Head(rx))
    PROVE  SettingsKept'
<1> USE DEF store, setup, node, line, world
<1>1. /\ Sequence(tx) /\ Attempts \in Nat \ {0} /\ spent.faults \in Nat
      /\ settings' = settings /\ spent' = spent
  BY DEF TypeOK, WireTypes, Constants, AttemptsAssumption, Shapes, Bounds, HearReport
<1>2. /\ tx' = tx \o SendParams(settings) \o Applied.sends
      /\ setter' = Working(Applied)
  BY DEF HearReport
<1>3. PICK c : c = tx \o SendParams(settings)
  OBVIOUS
<1>4. /\ Sequence(c) /\ tx' = c \o Applied.sends
      /\ settings.params = Unset \/ Due(c, settings, "params")
  <2>1. Sequence(SendParams(settings))
        /\ (settings.params = Unset \/ Due(SendParams(settings), settings, "params"))
    BY ParamsSent
  <2> QED
    BY <1>1, <1>2, <1>3, <2>1, JoinIs, ClearJoined
<1>5. CASE settings.mode = SetFromKiss
  BY <1>1, <1>5 DEF SettingsKept, Wanted
<1>6. CASE settings.mode = NoMode
  <2>1. Applied.sends = <<>>
    BY <1>6 DEF Applied, Moved
  <2>2. tx' = c
    BY <1>4, <2>1, ShortIs
  <2>3. ParamsKept'
    BY <1>1, <1>4, <2>2 DEF ParamsKept
  <2> QED
    BY <1>1, <1>6, <2>3 DEF SettingsKept, Wanted
<1>7. CASE settings.mode \notin {SetFromKiss, NoMode}
  <2> DEFINE j == [phase |-> "Settling", mode |-> settings.mode, persist |-> FALSE,
                   attempt |-> 1]
  <2>1. Applied = Moved(j, <<SetHw(j)>>)
    BY <1>7 DEF Applied, StartMode
  <2>2. j.phase = "Settling" /\ j.mode = settings'.mode /\ j.attempt = 1
    BY <1>1
  <2> HIDE DEF j
  <2>3. setter' = j /\ tx' = c \o <<SetHw(j)>>
    BY <1>2, <1>4, <2>1, <2>2 DEF Moved, Working, InFlight
  <2>4. 1 \in 1 .. Attempts /\ spent'.faults >= 1 - 1
    BY <1>1
  <2> QED
    BY <1>4, <2>2, <2>3, <2>4, StartedKeeps
<1> QED
  BY <1>5, <1>6, <1>7

\* A report the change of mode waited for.
LEMMA ReadbackKeeps ==
    ASSUME TypeOK, Constants, Shapes, TrueReports, Trying, Wanted,
           setter.phase = "AwaitingReadback",
           NEW r, rx # <<>>, r = Head(rx), IsReport(r), r.supported,
           UNCHANGED <<settings, tnc, scenario, spent>>,
           Advance(OnStatus(setter, r))
    PROVE  ModeKept'
<1>1. /\ Sequence(tx) /\ Sequence(rx) /\ IsJob(setter) /\ spent.faults \in Nat
      /\ Attempts \in Nat \ {0}
  BY DEF TypeOK, WireTypes, Shapes, Bounds, Constants, AttemptsAssumption
<1>2. PICK a \in Nat \ {0} : a = setter.attempt /\ a \in 1 .. Attempts
  BY <1>1 DEF Trying
<1>3. /\ r.software = scenario.software
      /\ ~scenario.software => r.mode = 0 /\ tnc.running = 0
  <2>1. Fits(r, Truth, "true")
    BY <1>1, HeardIs DEF TrueReports
  <2> QED
    BY <2>1 DEF Fits, Truth, TrueReports
<1>4. InTime => r.mode = tnc.running
  <2>1. InTime => Fits(r, [mode |-> tnc.running], "running")
    BY <1>1, HeardIs DEF InTime
  <2> QED
    BY <2>1 DEF Fits
<1>5. setter.mode = settings.mode /\ (TooSoon \/ InTime)
  BY DEF Trying
<1>6. /\ Clear(tx, settings, "mode") => Clear(tx \o SendParams(settings), settings, "mode")
      /\ Due(tx, settings, "mode") => Due(tx \o SendParams(settings), settings, "mode")
  BY <1>1, ParamsSent, ClearJoined
<1>7. Clear(tx, settings, "none") => Clear(tx, settings, "mode")
  BY ClearWeaker
<1>8. CASE r.mode = setter.mode
  <2>1. OnStatus(setter, r) = Ended(setter, "Applied")
    BY <1>8 DEF OnStatus
  <2>2. ~InFlight(setter') /\ shown'.phase = "Applied" /\ tx' = tx \o SendParams(settings)
    BY <1>1, <2>1, Ends
  <2>3. /\ Clear(tx, settings, "mode") => Clear(tx', settings, "mode")
        /\ Due(tx, settings, "mode") => Due(tx', settings, "mode")
    BY <1>6, <2>2
  <2>4. CASE InTime
    <3>1. tnc'.running = settings'.mode /\ Clear(tx', settings', "mode")
      BY <1>4, <1>5, <1>7, <1>8, <2>3, <2>4 DEF InTime
    <3> QED
      BY <2>2, <3>1 DEF ModeKept, Tried
  <2>5. CASE TooSoon /\ ~scenario.software
    <3>1. tnc'.running = settings'.mode /\ ~scenario'.software
      BY <1>3, <1>5, <1>8, <2>5
    <3> QED
      BY <2>2, <3>1 DEF ModeKept, Tried
  <2>6. CASE TooSoon /\ scenario.software
    <3>1. spent'.faults >= 1
      BY <1>1, <1>2, <2>6 DEF TooSoon
    <3>2. \/ Due(tx', settings', "mode")
          \/ Clear(tx', settings', "mode") /\ tnc'.running = settings'.mode
          \/ spent'.faults >= 2
      BY <2>3, <2>6 DEF TooSoon, OnItsWay, Ignored
    <3>3. scenario'.software
      BY <2>6
    <3> QED
      BY <2>2, <3>1, <3>2, <3>3 DEF ModeKept, Tried
  <2> QED
    BY <1>5, <2>4, <2>5, <2>6
<1>9. CASE r.mode # setter.mode /\ ~r.software
  <2>1. OnStatus(setter, r) = Ended(setter, "DipNotSoftware")
    BY <1>9 DEF OnStatus
  <2>2. ~InFlight(setter') /\ shown'.phase = "DipNotSoftware"
    BY <1>1, <2>1, Ends
  <2>3. ~scenario'.software
    BY <1>3, <1>9
  <2> QED
    BY <2>2, <2>3 DEF ModeKept, Tried
<1>10. CASE r.mode # setter.mode /\ r.software
  <2>1. OnStatus(setter, r) = NextAttempt(setter)
    BY <1>10 DEF OnStatus
  <2>2. spent.faults >= setter.attempt
    BY <1>3, <1>4, <1>5, <1>10 DEF TooSoon, InTime
  <2>3. spent'.faults \in Nat /\ spent'.faults >= setter.attempt
    BY <1>1, <2>2
  <2> QED
    BY <1>1, <2>1, <2>3, TriesAgain
<1> QED
  BY <1>8, <1>9, <1>10

\* Any other report.
LEMMA ReportKeeps ==
    ASSUME TypeOK, Constants, Shapes, TrueReports, SettingsKept, HearReport,
           ~BecomesSupported(Head(rx))
    PROVE  SettingsKept'
<1> SUFFICES ASSUME Reliable', ~Stuck'
             PROVE  /\ settings'.mode # SetFromKiss => ParamsKept'
                    /\ Wanted' => ModeKept'
  BY DEF SettingsKept
<1> USE DEF store, setup, node, line, world
<1>1. Sequence(tx) /\ Sequence(rx) /\ IsJob(setter) /\ Attempts \in Nat \ {0}
  BY DEF TypeOK, WireTypes, Shapes, Constants, AttemptsAssumption
<1>2. /\ UNCHANGED <<settings, tnc, scenario, spent, fl, updating, forgot>>
      /\ rx # <<>> /\ rx' = Tail(rx) /\ IsReport(Head(rx))
      /\ link'.supported = Head(rx).supported
  BY DEF HearReport
<1>3. Head(rx).supported /\ Reliable
  BY <1>2 DEF Reliable, BecomesSupported
<1>4. CASE ~InFlight(setter)
  <2>1. UNCHANGED <<setter, shown, tx>>
    BY <1>4 DEF HearReport
  <2>2. ~Stuck
    BY <1>2, <2>1 DEF Stuck
  <2>3. /\ settings.mode # SetFromKiss => ParamsKept
        /\ Wanted => Tried
    BY <1>3, <1>4, <2>2 DEF SettingsKept, ModeKept
  <2>4. ParamsKept => ParamsKept'
    BY <1>2, <2>1 DEF ParamsKept
  <2>5. Tried => Tried'
    BY <1>2, <2>1 DEF Tried
  <2>6. ~InFlight(setter')
    BY <1>4, <2>1
  <2> QED
    BY <1>2, <2>3, <2>4, <2>5, <2>6 DEF Wanted, ModeKept
<1>5. CASE InFlight(setter)
  <2>1. Advance(OnStatus(setter, Head(rx)))
    BY <1>5 DEF HearReport
  <2>2. ParamsKept' /\ ~Stuck
    BY <1>1, <1>2, <2>1, AdvanceIs, SetterChats
  <2>3. ASSUME Wanted
        PROVE  ModeKept'
    <3>1. Trying
      BY <1>3, <1>5, <2>2, <2>3 DEF SettingsKept, ModeKept
    <3>2. CASE setter.phase = "AwaitingReadback"
      BY <1>2, <1>3, <2>1, <2>3, <3>1, <3>2, ReadbackKeeps
    <3>3. CASE setter.phase = "Settling"
      <4>1. OnStatus(setter, Head(rx)) = Moved(setter, <<>>)
        BY <3>3 DEF OnStatus
      <4>2. PICK none : none = <<>>
        OBVIOUS
      <4>3. Advance([job |-> setter, sends |-> none])
        BY <2>1, <4>1, <4>2 DEF Moved
      <4>4. setter' = setter /\ tx' = tx \o <<>> \o <<>>
        BY <1>5, <4>2, <4>3 DEF Advance, Working, AfterMode
      <4>5. tx' = tx
        BY <1>1, <4>4, ShortIs
      <4>6. Settles => Settles'
        BY <1>2, <4>4, <4>5 DEF Settles, OnItsWay, Ignored
      <4>7. Trying'
        BY <1>2, <3>1, <3>3, <4>4, <4>6 DEF Trying
      <4>8. InFlight(setter')
        BY <1>5, <4>4
      <4> QED
        BY <4>7, <4>8 DEF ModeKept
    <3> QED
      BY <1>5, <3>2, <3>3 DEF InFlight
  <2> QED
    BY <1>2, <2>2, <2>3 DEF Wanted
<1> QED
  BY <1>4, <1>5

-----------------------------------------------------------------------------
\* The TNC runs the mode and nothing on the line changes that; it has missed it.
Runs == /\ tnc.running = settings.mode
        /\ Clear(tx, settings, "mode") \/ ~scenario.software
Missed == /\ Clear(tx', settings, "mode")
          /\ spent'.faults > spent.faults \/ ~scenario.software

\* The TNC has taken what was first on the line.
LEMMA TakenKeeps ==
    ASSUME Shapes, SettingsKept, Reliable, ~Stuck,
           UNCHANGED <<settings, setter, shown, scenario>>,
           spent'.faults \in Nat, spent'.faults >= spent.faults,
           settings.mode # SetFromKiss /\ ParamsKept => ParamsKept',
           Clear(tx, settings, "mode") => Clear(tx', settings, "mode"),
           Wanted /\ OnItsWay => OnItsWay' \/ Missed,
           Wanted /\ Trying /\ InTime => InTime',
           Wanted /\ Runs => Runs'
    PROVE  SettingsKept'
<1>1. spent.faults \in Nat /\ Attempts \in Nat
  BY AttemptsAssumption DEF Shapes, Bounds
<1>2. PICK f, g \in Nat : f = spent.faults /\ g = spent'.faults /\ g >= f
  BY <1>1
<1>3. ASSUME Wanted
      PROVE  ModeKept'
  <2>1. CASE InFlight(setter)
    <3>1. Trying
      BY <1>3, <2>1 DEF SettingsKept, ModeKept
    <3>2. PICK a \in Nat \ {0} : a = setter.attempt /\ a \in 1 .. Attempts /\ f >= a - 1
      BY <1>1, <1>2, <3>1 DEF Trying
    <3>3. ASSUME NEW n \in Nat, f >= n - 1, Missed
          PROVE  Ignored(n)'
      BY <1>2, <3>3 DEF Missed, Ignored
    <3>4. ASSUME NEW n \in Nat, Ignored(n)
          PROVE  Ignored(n)'
      BY <1>2, <3>4 DEF Ignored
    <3>5. Settles => Settles'
      BY <1>3, <3>2, <3>3, <3>4 DEF Settles
    <3>6. ASSUME TooSoon
          PROVE  TooSoon'
      <4>1. f >= a /\ f >= 2 - 1
        BY <1>2, <3>2, <3>6 DEF TooSoon
      <4>2. OnItsWay' \/ Ignored(2)'
        BY <1>3, <3>3, <3>4, <3>6, <4>1 DEF TooSoon
      <4>3. g >= a
        BY <1>2, <3>2, <4>1
      <4> QED
        BY <1>2, <3>2, <4>2, <4>3 DEF TooSoon
    <3>7. InTime => InTime'
      BY <1>3, <3>1
    <3>8. spent'.faults >= a - 1
      BY <1>2, <3>2
    <3>9. Trying'
      BY <3>1, <3>2, <3>5, <3>6, <3>7, <3>8 DEF Trying
    <3> QED
      BY <2>1, <3>9 DEF ModeKept
  <2>2. CASE ~InFlight(setter)
    <3>1. Tried
      BY <1>3, <2>2 DEF SettingsKept, ModeKept
    <3> SUFFICES Tried'
      <4>1. ~InFlight(setter')
        BY <2>2
      <4> QED
        BY <4>1 DEF ModeKept
    <3>2. Runs => Runs'
      BY <1>3
    <3>3. Runs' => Tried'
      BY DEF Runs, Tried
    <3>4. CASE Runs
      BY <3>2, <3>3, <3>4
    <3>5. CASE \/ shown.phase = "DipNotSoftware" /\ ~scenario.software
               \/ shown.phase = "NotApplied" /\ f >= Attempts
      <4>1. f >= Attempts => g >= Attempts
        BY <1>1, <1>2
      <4> QED
        BY <1>2, <3>5, <4>1 DEF Tried
    <3>6. CASE /\ shown.phase = "Applied" /\ f >= 1 /\ scenario.software
               /\ Due(tx, settings, "mode") \/ f >= 2
      <4>1. g >= 1 /\ (f >= 2 => g >= 2)
        BY <1>2, <3>6
      <4>2. CASE f >= 2
        BY <1>2, <3>6, <4>1, <4>2 DEF Tried
      <4>3. CASE Due(tx, settings, "mode")
        <5>1. OnItsWay' \/ Missed
          BY <1>3, <4>3 DEF OnItsWay
        <5>2. Missed => g >= 2
          BY <1>2, <3>6 DEF Missed
        <5>3. OnItsWay' => Due(tx', settings', "mode") \/ Runs'
          BY DEF OnItsWay, Runs
        <5>4. CASE Runs'
          BY <3>3, <5>4
        <5>5. CASE Due(tx', settings', "mode") \/ g >= 2
          BY <1>2, <3>6, <4>1, <5>5 DEF Tried
        <5> QED
          BY <5>1, <5>2, <5>3, <5>4, <5>5
      <4> QED
        BY <3>6, <4>2, <4>3
    <3> QED
      BY <1>2, <3>1, <3>4, <3>5, <3>6 DEF Tried, Runs
  <2> QED
    BY <2>1, <2>2
<1>4. settings.mode # SetFromKiss => ParamsKept'
  BY DEF SettingsKept
<1>5. settings' = settings
  OBVIOUS
<1> QED
  BY <1>3, <1>4, <1>5 DEF SettingsKept, Wanted

LEMMA AnswersKeep ==
    ASSUME TypeOK, Shapes, TrueReports, SettingsKept, TncAnswers
    PROVE  SettingsKept'
<1> SUFFICES ASSUME Reliable', ~Stuck'
             PROVE  SettingsKept'
  BY DEF SettingsKept
<1> USE DEF store, setup, node, line, world
<1>1. /\ Sequence(tx) /\ Sequence(rx) /\ Sequence(Tail(tx)) /\ tx # <<>> /\ tx' = Tail(tx)
      /\ Head(tx).op # "SetHw"
  BY TailIs DEF TypeOK, WireTypes, TncAnswers
<1>2. PICK m : m = Head(tx) /\ Answering(m)
  BY AnswersSettings
<1>3. /\ UNCHANGED <<settings, setter, shown, scenario, link, updating, fl>>
      /\ Reliable
  BY DEF TncAnswers, Reliable
<1>4. spent.faults \in Nat /\ spent'.faults \in Nat /\ spent'.faults >= spent.faults
  <2>1. Spend("faults") => spent'.faults = spent.faults + 1
    BY DEF Spend, Shapes, Bounds
  <2>2. spent.faults \in Nat
    BY DEF Shapes, Bounds
  <2> QED
    BY <1>2, <2>1, <2>2 DEF Answering
<1>5. ASSUME NEW what
      PROVE  /\ Clear(tx, settings, what)
                  => Fits(m, settings, what) /\ Clear(tx', settings', what)
             /\ Due(tx, settings, what)
                  => \/ Due(tx', settings', what)
                     \/ Sets(m, settings, what) /\ Clear(tx', settings', what)
  BY <1>1, <1>2, <1>3, ClearTaken
<1>6. ~Sets(m, settings, "mode")
  BY <1>1, <1>2 DEF Sets
<1>7. ASSUME tnc.mode # "kiss", m.op \in Talk
      PROVE  ~Clear(tx', Unused, "talk")
  <2>1. tnc'.mode # "kiss"
    BY <1>2, <1>7 DEF Answering
  <2> QED
    BY <2>1 DEF Stuck
<1>8. /\ Clear(tx', settings', "params") => Clear(tx', Unused, "talk")
      /\ Clear(tx', settings', "none") => Clear(tx', Unused, "talk")
  BY ClearWeaker
<1>9. ~Stuck
  <2>1. Clear(tx, Unused, "talk") => Fits(m, Unused, "talk") /\ Clear(tx', Unused, "talk")
    BY <1>1, <1>2, ClearTaken
  <2> QED
    BY <1>7, <2>1 DEF Stuck, Fits
<1>10. ASSUME settings.mode # SetFromKiss, ParamsKept
       PROVE  ParamsKept'
  <2>1. CASE settings.params = Unset \/ InFlight(setter)
    BY <1>3, <2>1 DEF ParamsKept
  <2>2. CASE Due(tx, settings, "params")
    <3>1. CASE Due(tx', settings', "params")
      BY <3>1 DEF ParamsKept
    <3>2. CASE Sets(m, settings, "params") /\ Clear(tx', settings', "params")
      <4>1. m.op = "Params" /\ m.params = settings.params
        BY <3>2 DEF Sets
      <4>2. tnc.mode = "kiss"
        BY <1>7, <1>8, <3>2, <4>1 DEF Talk
      <4>3. tnc'.params = settings'.params
        BY <1>2, <1>3, <4>1, <4>2 DEF Answering
      <4> QED
        BY <3>2, <4>3 DEF ParamsKept
    <3> QED
      BY <1>5, <2>2, <3>1, <3>2
  <2>3. CASE Clear(tx, settings, "params") /\ tnc.params = settings.params
    <3>1. m.op \in {"GetAll", "Params"} /\ (m.op = "Params" => m.params = settings.params)
      BY <1>5, <2>3 DEF Fits
    <3>2. tnc'.params = settings'.params
      BY <1>2, <1>3, <2>3, <3>1 DEF Answering
    <3>3. Clear(tx', settings', "params")
      BY <1>5, <2>3
    <3> QED
      BY <3>2, <3>3 DEF ParamsKept
  <2> QED
    BY <1>10, <2>1, <2>2, <2>3 DEF ParamsKept
<1>11. Clear(tx, settings, "mode") => m.op \in Talk /\ tnc'.running = tnc.running
  <2>1. Clear(tx, settings, "mode") => m.op \in Talk
    BY <1>5 DEF Fits
  <2> QED
    BY <1>2, <2>1 DEF Answering
<1>12. ASSUME OnItsWay
       PROVE  OnItsWay'
  BY <1>3, <1>5, <1>6, <1>11, <1>12 DEF OnItsWay
<1>13. ASSUME Runs
       PROVE  Runs'
  <2>1. CASE Clear(tx, settings, "mode")
    BY <1>3, <1>5, <1>11, <1>13, <2>1 DEF Runs
  <2>2. CASE ~scenario.software
    <3>1. tnc'.running = 0 /\ tnc.running = 0
      BY <1>2, <2>2 DEF Answering, TrueReports
    <3> QED
      BY <1>3, <1>13, <2>2, <3>1 DEF Runs
  <2> QED
    BY <1>13, <2>1, <2>2 DEF Runs
<1>14. ASSUME Trying, InTime
       PROVE  InTime'
  <2>1. m.op \in {"GetAll", "Params"} /\ Clear(tx', settings', "none")
    BY <1>5, <1>14 DEF InTime, Fits
  <2>2. tnc'.running = tnc.running /\ tnc.mode = "kiss"
    BY <1>2, <1>7, <1>8, <2>1 DEF Answering, Talk
  <2>3. PICK a \in Nat \ {0} : a = setter.attempt
    BY AttemptsAssumption, <1>14 DEF Trying
  <2>4. PICK f, g \in Nat : /\ f = spent.faults /\ g = spent'.faults /\ g >= f
                            /\ f >= a - 1 /\ (Spend("faults") => g >= a)
    <3>1. Spend("faults") => spent'.faults = spent.faults + 1
      BY DEF Spend, Shapes, Bounds
    <3>2. spent.faults >= a - 1
      BY <1>14, <2>3 DEF Trying
    <3> QED
      BY <1>4, <2>3, <3>1, <3>2
  <2>5. f >= a => g >= a
    BY <2>3, <2>4
  <2>6. tnc'.running = settings'.mode \/ g >= a \/ ~scenario'.software
    BY <1>3, <1>14, <2>2, <2>3, <2>4, <2>5 DEF InTime
  <2>7. ASSUME NEW r, rx' = Append(rx, r), r = Report \/ ~IsReport(r)
        PROVE  /\ Clear(rx', [mode |-> tnc'.running], "running")
               /\ ~Clear(rx, Unused, "silent") \/ IsReport(r)
                    => ~Clear(rx', Unused, "silent")
    <3>1. rx' = rx \o <<r>> /\ Sequence(<<r>>)
      BY <1>1, <2>7, AppendIs, ShortIs
    <3>2. Fits(r, [mode |-> tnc.running], "running")
      BY <2>7 DEF Fits, Report
    <3>3. Clear(<<r>>, [mode |-> tnc.running], "running")
      BY <3>2, ClearShort
    <3>4. Clear(rx', [mode |-> tnc.running], "running")
      BY <1>1, <1>14, <3>1, <3>3, ClearJoined DEF InTime
    <3>5. Clear(rx', Unused, "silent") => Clear(rx, Unused, "silent") /\ ~IsReport(r)
      <4>1. Clear(<<r>>, Unused, "silent") => Fits(r, Unused, "silent")
        BY ClearShort
      <4>2. Clear(rx', Unused, "silent")
              => Clear(rx, Unused, "silent") /\ Clear(<<r>>, Unused, "silent")
        BY <1>1, <3>1, ClearJoined
      <4> QED
        BY <4>1, <4>2 DEF Fits
    <3> QED
      BY <2>2, <3>4, <3>5
  <2>8. /\ Clear(rx', [mode |-> tnc'.running], "running")
        /\ ~Clear(rx, Unused, "silent") => ~Clear(rx', Unused, "silent")
    <3>1. CASE rx' = rx
      BY <1>14, <2>2, <3>1 DEF InTime
    <3>2. CASE \E r : (r = Report \/ ~IsReport(r)) /\ rx' = Append(rx, r)
      BY <2>7, <3>2
    <3> QED
      BY <1>2, <3>1, <3>2 DEF Answering
  <2>9. IsReport(Report)
    BY DEF IsReport, Report
  <2>10. \/ ~Clear(tx', Unused, "unasked")
         \/ ~Clear(rx', Unused, "silent")
         \/ g >= a
    <3>1. CASE f >= a \/ ~Clear(rx, Unused, "silent")
      BY <2>5, <2>8, <3>1
    <3>2. CASE ~Clear(tx, Unused, "unasked")
      <4>1. CASE m.op = "Params"
        <5>1. Fits(m, Unused, "unasked")
          BY <4>1 DEF Fits
        <5> QED
          BY <1>1, <1>2, <3>2, <5>1, ClearTaken
      <4>2. CASE m.op = "GetAll" /\ rx' = Append(rx, Report)
        BY <2>7, <2>9, <4>2
      <4>3. CASE m.op = "GetAll" /\ Spend("faults")
        BY <2>4, <4>3
      <4> QED
        BY <1>2, <2>1, <2>2, <4>1, <4>2, <4>3 DEF Answering
    <3> QED
      BY <1>14, <2>3, <2>4, <3>1, <3>2 DEF InTime
  <2> QED
    BY <1>3, <2>1, <2>3, <2>4, <2>6, <2>8, <2>10 DEF InTime
<1> QED
  BY <1>3, <1>4, <1>5, <1>9, <1>10, <1>12, <1>13, <1>14, TakenKeeps

LEMMA SettingKeeps ==
    ASSUME TypeOK, Shapes, TrueReports, SettingsKept, TncSetsMode
    PROVE  SettingsKept'
<1> SUFFICES ASSUME Reliable', ~Stuck'
             PROVE  SettingsKept'
  BY DEF SettingsKept
<1> USE DEF store, setup, node, line, world
<1>1. /\ Sequence(tx) /\ Sequence(Tail(tx)) /\ tx # <<>> /\ tx' = Tail(tx)
      /\ Head(tx).op = "SetHw"
  BY TailIs DEF TypeOK, WireTypes, TncSetsMode
<1>2. PICK m : m = Head(tx) /\ SettingMode(m)
  BY SetsSettings
<1>3. /\ UNCHANGED <<settings, setter, shown, scenario, link, updating, fl, forgot>>
      /\ Reliable
  BY DEF TncSetsMode, Reliable
<1>4. /\ spent.faults \in Nat /\ spent'.faults \in Nat /\ spent'.faults >= spent.faults
      /\ Spend("faults") => spent'.faults > spent.faults
  <2>1. Spend("faults") => spent'.faults = spent.faults + 1
    BY DEF Spend, Shapes, Bounds
  <2>2. spent.faults \in Nat
    BY DEF Shapes, Bounds
  <2> QED
    BY <1>2, <2>1, <2>2 DEF SettingMode
<1>5. ASSUME NEW what
      PROVE  /\ Clear(tx, settings, what)
                  => Fits(m, settings, what) /\ Clear(tx', settings', what)
             /\ Due(tx, settings, what)
                  => \/ Due(tx', settings', what)
                     \/ Sets(m, settings, what) /\ Clear(tx', settings', what)
  BY <1>1, <1>2, <1>3, ClearTaken
<1>6. /\ ~Fits(m, settings, "params") /\ ~Sets(m, settings, "params")
      /\ ~Fits(m, settings, "none")
      /\ Fits(m, settings, "mode") \/ Sets(m, settings, "mode") => m.mode = settings.mode
  BY <1>1, <1>2 DEF Fits, Sets
<1>7. tnc'.mode = tnc.mode /\ (Clear(tx', Unused, "talk") => tnc.mode = "kiss")
  BY <1>2 DEF SettingMode, Stuck
<1>8. Clear(tx', settings', "mode") => Clear(tx', Unused, "talk")
  BY ClearWeaker
<1>9. ~Stuck
  <2>1. Clear(tx, Unused, "talk") => Clear(tx', Unused, "talk")
    BY <1>1, <1>2, ClearTaken
  <2> QED
    BY <1>7, <2>1 DEF Stuck
<1>10. ASSUME settings.mode # SetFromKiss, ParamsKept
       PROVE  ParamsKept'
  BY <1>3, <1>5, <1>6, <1>10 DEF ParamsKept
<1>11. ASSUME Wanted, m.mode = settings.mode, Clear(tx', settings', "mode")
       PROVE  tnc'.running = settings'.mode \/ (tnc' = tnc /\ Missed)
  <2>1. tnc.mode = "kiss" /\ tnc.supported /\ m.mode # SetFromKiss
    BY <1>3, <1>7, <1>8, <1>11 DEF Wanted, Reliable, TrueReports
  <2> QED
    BY <1>2, <1>3, <1>4, <1>11, <2>1 DEF SettingMode, Missed
<1>12. ASSUME Wanted, OnItsWay
       PROVE  OnItsWay' \/ Missed
  <2>1. CASE Due(tx', settings', "mode")
    BY <2>1 DEF OnItsWay
  <2>2. CASE m.mode = settings.mode /\ Clear(tx', settings', "mode")
    BY <1>11, <1>12, <2>2 DEF OnItsWay
  <2> QED
    BY <1>5, <1>6, <1>12, <2>1, <2>2 DEF OnItsWay
<1>13. ASSUME Wanted, Runs
       PROVE  Runs'
  <2>1. CASE Clear(tx, settings, "mode")
    <3>1. m.mode = settings.mode /\ Clear(tx', settings', "mode")
      BY <1>5, <1>6, <2>1
    <3>2. tnc'.running = settings'.mode
      BY <1>3, <1>11, <1>13, <3>1 DEF Runs
    <3> QED
      BY <3>1, <3>2 DEF Runs
  <2>2. CASE ~scenario.software
    <3>1. tnc' = tnc
      BY <1>2, <2>2 DEF SettingMode
    <3> QED
      BY <1>3, <1>13, <2>2, <3>1 DEF Runs
  <2> QED
    BY <1>13, <2>1, <2>2 DEF Runs
<1>14. ~InTime
  BY <1>5, <1>6 DEF InTime
<1> QED
  BY <1>3, <1>4, <1>5, <1>9, <1>10, <1>12, <1>13, <1>14, TakenKeeps

\* Steps after which the node does not count on what it has sent.
LEMMA UnreliableAfter ==
    ASSUME TypeOK, Ending, \/ Restart \/ EndUpdate \/ TncPowerCut \/ Timeout
                           \/ BeginUpdate /\ updating'
                           \/ \E long \in BOOLEAN : ReadByte(long)
    PROVE  SettingsKept'
<1> SUFFICES ~Reliable'
  BY DEF SettingsKept
<1> USE DEF store, setup, node, line, world
<1>1. CASE Restart
  BY <1>1 DEF Restart, Unheard, Reliable
<1>2. CASE BeginUpdate /\ updating'
  BY <1>2 DEF Reliable
<1>3. CASE Timeout \/ \E long \in BOOLEAN : ReadByte(long)
  BY <1>3 DEF Timeout, ReadByte, Reliable
<1>4. CASE EndUpdate
  <2>1. fl.kind # "None" /\ fl' = fl
    BY <1>4 DEF EndUpdate, Ending, Over
  <2>2. fl.kind = "Updated" => ~link'.supported
    BY <1>4 DEF EndUpdate, AfterUpdate, Unheard
  <2> QED
    BY <2>1, <2>2 DEF Reliable
<1>5. CASE TncPowerCut
  BY <1>5 DEF TncPowerCut, Reliable
<1> QED
  BY <1>1, <1>2, <1>3, <1>4, <1>5

LEMMA SettingsStep ==
    ASSUME TypeOK, Constants, SettingsInv, [Next]_vars
    PROVE  SettingsInv'
<1>1. Shapes /\ TrueReports /\ Ending /\ SettingsKept
  BY DEF SettingsInv
<1>2. Shapes' /\ TrueReports' /\ Ending'
  BY <1>1, ShapesKept, TrueReportsKept, EndingKept
<1>3. SettingsKept'
  <2>1. CASE SerialTask
    <3>1. CASE SetMode \/ SetParams \/ SetterDeadline \/ HearReport
      BY <1>1, <3>1, SetModeKeeps, SetParamsKeeps, DeadlineKeeps, SupportedKeeps,
         ReportKeeps
    <3>2. CASE Refresh \/ HearOther \/ AskAgain \/ (BeginUpdate /\ ~updating')
      BY <1>1, <3>2, SmallStepsKeep
    <3>3. CASE \/ Timeout \/ EndUpdate \/ (BeginUpdate /\ updating')
               \/ \E long \in BOOLEAN : ReadByte(long)
      BY <1>1, <3>3, UnreliableAfter
    <3> QED
      BY <2>1, <3>1, <3>2, <3>3 DEF SerialTask
  <2>2. CASE TncStep
    <3>1. CASE TncAnswers \/ TncSetsMode
      BY <1>1, <3>1, AnswersKeep, SettingKeeps
    <3>2. CASE \E m \in Strays : Noise(m)
      BY <1>1, <3>2, SmallStepsKeep
    <3>3. CASE TncPowerCut
      BY <1>1, <3>3, UnreliableAfter
    <3> QED
      BY <2>2, <3>1, <3>2, <3>3 DEF TncStep
  <2>3. CASE HttpStep \/ UNCHANGED vars
    BY <1>1, <2>3, SmallStepsKeep
  <2>4. CASE Restart
    BY <1>1, <2>4, UnreliableAfter
  <2> QED
    BY <2>1, <2>2, <2>3, <2>4, NextIs
<1> QED
  BY <1>2, <1>3 DEF SettingsInv

LEMMA SettingsStart ==
    ASSUME Constants, Init
    PROVE  SettingsInv
<1>1. /\ saved = scenario.saved /\ settings = scenario.saved /\ setter = NoJob
      /\ link = Unheard /\ spent = [b \in Bounds |-> 0] /\ rx = <<>>
      /\ tnc.running = 0 /\ tnc.stored = 0 /\ updating = FALSE /\ scenario \in Scenarios
  BY DEF Init
<1>2. IsSettings(scenario.saved)
  <2>1. scenario.saved \in Settings
    BY <1>1 DEF Constants, TncAssumption
  <2>2. PICK m \in WantedModes \cup {NoMode}, p \in Params \cup {Unset} :
           scenario.saved = [mode |-> m, params |-> p]
    BY <2>1 DEF Settings
  <2> QED
    BY <2>2 DEF IsSettings
<1>3. IsJob(NoJob) /\ IsLink(Unheard)
  BY Zenon DEF IsJob, IsLink, NoJob, Unheard
<1>4. Shapes
  BY <1>1, <1>2, <1>3 DEF Shapes
<1>5. TrueReports
  BY <1>1, ClearShort DEF TrueReports, Unheard
<1>6. Ending /\ SettingsKept
  BY <1>1 DEF Ending, SettingsKept, Reliable, Unheard
<1> QED
  BY <1>4, <1>5, <1>6 DEF SettingsInv

\* The settings the node works with are those of the TNC once the serial task has
\* nothing left to do, after a start, a change and an update that succeeded alike,
\* whichever order commands, reports, deadlines and the TNC's own steps come in,
\* unless the page says why not or faults have cost the attempts.
THEOREM SettingsTakeEffect == Spec => []SettingsInForce
<1>1. Constants
  BY FileAssumption, TncAssumption, AttemptsAssumption DEF Constants
<1>2. Init => SettingsInv
  BY <1>1, SettingsStart
<1>3. TypeOK /\ SettingsInv /\ [Next]_vars => SettingsInv'
  BY <1>1, SettingsStep
<1>4. TypeOK /\ SettingsInv => SettingsInForce
  BY <1>1, SettingsInvImplies
<1> QED
  BY <1>2, <1>3, <1>4, TypeCorrect, SafetyPart, PTL
=============================================================================
