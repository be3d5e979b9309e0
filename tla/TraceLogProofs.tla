--------------------------- MODULE TraceLogProofs ---------------------------
(***************************************************************************)
(* Proofs about TraceLog for every number of tasks, calls and crashes: the *)
(* records stay in order, an undamaged log verifies, and a log that        *)
(* verifies is complete.  And about TraceInspector for every number of     *)
(* frames and faults: what the inspector says of a log is true of what the *)
(* node wrote.                                                             *)
(***************************************************************************)
EXTENDS TraceLog, TraceInspector, WellFoundedInduction, TLAPS

-----------------------------------------------------------------------------
(* The inductive invariant *)

\* Only the task at the head of the queue is writing, and only while the
\* node is up; the entry it writes carries its own latest call.
WriterOK ==
    \A w \in Writers :
        /\ stage[w] # "idle" => node = "up" /\ calls[w] \in 1 .. MaxCalls
        /\ stage[w] \in {"body", "newline"} =>
               /\ queue # <<>> /\ Head(queue) = w
               /\ entry \in Entries
               /\ entry.frame = <<w, calls[w]>>
               /\ entry.i < counter
        /\ stage[w] = "newline" => open \in {entry, Garbled}

Writing == \E w \in Writers : stage[w] = "body"

HasGarbled == \E n \in 1 .. Len(Text) : Text[n] = Garbled

\* Whatever log() acknowledged is in the file, or stuck in a torn line.
NothingLost == HasGarbled \/ acked \subseteq Recorded

\* Lines in the file are older than what is written next: in index, and for
\* each task in call number.
OlderThanNext ==
    \A n \in 1 .. Len(Text) : Text[n] # Garbled =>
        /\ node = "up" => Text[n].i < IF Writing THEN entry.i ELSE counter
        /\ \A w \in Writers : Text[n].frame[1] = w =>
               /\ Text[n].frame[2] <= calls[w]
               /\ stage[w] \in {"waiting", "body"} => Text[n].frame[2] < calls[w]

EndHash == IF Text = <<>> THEN Genesis ELSE Text[Len(Text)].hash

\* While nothing is damaged the chain in memory continues the one on disk.
Continues ==
    /\ Verified
    /\ node = "up" =>
           IF Writing
           THEN /\ entry.i = Len(Text)
                /\ entry.prev = EndHash
                /\ entry.hash = Append(EndHash, entry.frame)
                /\ counter = Len(Text) + 1
                /\ last_hash = entry.hash
           ELSE counter = Len(Text) /\ last_hash = EndHash
    /\ open # Empty => \E w \in Writers : stage[w] = "newline"

IndInv ==
    /\ LogTypeOK
    /\ WriterOK
    /\ NothingLost
    /\ OlderThanNext
    /\ RecordsInOrder
    /\ ~damaged => Continues

-----------------------------------------------------------------------------
(* What a step does to the text of the file *)

\* The text only loses lines to garbling, and some line is garbled.
Spoiled ==
    /\ Text' \in Seq(Entries \cup {Garbled})
    /\ \A n \in 1 .. Len(Text') :
           Text'[n] = Garbled \/ (n \in 1 .. Len(Text) /\ Text'[n] = Text[n])
    /\ HasGarbled'

LEMMA HeadOfAppend ==
    ASSUME NEW S, NEW s \in Seq(S), NEW x \in S, s # <<>>
    PROVE  Append(s, x) # <<>> /\ Head(Append(s, x)) = Head(s)
<1>1. Len(s) \in Nat /\ Len(s) > 0
  OBVIOUS
<1>2. Append(s, x) \in Seq(S) /\ Len(Append(s, x)) = Len(s) + 1 /\ Append(s, x)[1] = s[1]
  BY <1>1
<1>3. QED
  BY <1>1, <1>2

LEMMA TextType == LogTypeOK => Text \in Seq(Entries \cup {Garbled})
BY DEF LogTypeOK, Text

LEMMA TextKept == UNCHANGED fileVars => Text' = Text
BY DEF fileVars, Text

\* Torn text at the end of the file.
LEMMA TextTorn ==
    ASSUME LogTypeOK, lines' = lines, open' = Garbled
    PROVE  Spoiled
<1>1. Text' = Append(lines, Garbled)
  BY TraceAssumption DEF Text
<1>2. /\ lines \in Seq(Entries \cup {Garbled}) /\ Len(lines) \in Nat
      /\ Text' \in Seq(Entries \cup {Garbled})
      /\ Len(Text') = Len(lines) + 1 /\ Text'[Len(lines) + 1] = Garbled
      /\ \A n \in 1 .. Len(lines) : Text'[n] = lines[n]
  BY <1>1 DEF LogTypeOK
<1>3. \A n \in 1 .. Len(lines) : n \in 1 .. Len(Text) /\ Text[n] = lines[n]
  BY <1>2 DEF Text, LogTypeOK
<1>4. HasGarbled'
  BY <1>2 DEF HasGarbled
<1>5. QED
  BY <1>2, <1>3, <1>4 DEF Spoiled

-----------------------------------------------------------------------------
(* Types *)

LEMMA TypeInit == LogInit => LogTypeOK
<1> SUFFICES ASSUME LogInit PROVE LogTypeOK
  OBVIOUS
<1> USE TraceAssumption DEF LogInit
<1>1. /\ lines \in Seq(Entries \cup {Garbled})
      /\ last_hash \in Seq(Frames)
      /\ queue \in Seq(Writers)
  BY DEF Genesis
<1>2. /\ stage \in [Writers -> InLog \cup {"idle"}]
      /\ calls \in [Writers -> 0 .. MaxCalls]
      /\ crashes \in 0 .. MaxCrashes
  OBVIOUS
<1>3. QED
  BY <1>1, <1>2 DEF LogTypeOK

LEMMA TypeStep ==
    ASSUME LogTypeOK, WriterOK, [LogNext]_logVars
    PROVE  LogTypeOK'
<1> USE TraceAssumption DEF LogTypeOK, InLog, fileVars, memVars
<1>1. ASSUME NEW w \in Writers, Log(w)
      PROVE  LogTypeOK'
  BY <1>1 DEF Log
<1>2. ASSUME NEW w \in Writers, Seal(w)
      PROVE  LogTypeOK'
  <2>1. <<w, calls[w]>> \in Frames
    BY <1>2 DEF Seal, Frames, WriterOK
  <2>2. last_hash' \in Seq(Frames) /\ entry' \in Entries
    BY <1>2, <2>1 DEF Seal, Entries
  <2>3. QED
    BY <1>2, <2>2 DEF Seal
<1>3. ASSUME NEW w \in Writers, WriteBody(w)
      PROVE  LogTypeOK'
  BY <1>3 DEF WriteBody, AppendText, WriterOK
<1>4. ASSUME NEW w \in Writers, BodyFails(w) \/ NewlineFails(w)
      PROVE  LogTypeOK'
  <2> queue # <<>> /\ queue' = Tail(queue)
    BY <1>4 DEF BodyFails, NewlineFails, Return, Holds
  <2>1. queue' \in Seq(Writers)
    OBVIOUS
  <2>2. CASE BodyFails(w)
    BY <2>1, <2>2 DEF BodyFails, Return
  <2>3. CASE NewlineFails(w)
    BY <2>1, <2>3 DEF NewlineFails, Return
  <2>4. QED
    BY <1>4, <2>2, <2>3
<1>5. ASSUME NEW w \in Writers, WriteNewline(w)
      PROVE  LogTypeOK'
  <2>1. open \in Entries \cup {Garbled} /\ entry.frame \in Frames
    BY <1>5 DEF WriteNewline, WriterOK, Entries
  <2>2. QED
    BY <1>5, <2>1 DEF WriteNewline, Return, Holds
<1>6. CASE Crash
  BY <1>6 DEF Crash
<1>7. CASE Restart
  <2>1. CASE Text = <<>>
    BY <1>7, <2>1 DEF Restart, Genesis
  <2>2. CASE Text # <<>>
    <3>1. Text[Len(Text)] \in Entries \cup {Garbled}
      BY <2>2, TextType
    <3>2. /\ node' \in {"up", "refused"}
          /\ \/ UNCHANGED <<last_hash, counter>>
             \/ /\ Text[Len(Text)] \in Entries
                /\ last_hash' = Text[Len(Text)].hash /\ counter' = Text[Len(Text)].i + 1
          /\ UNCHANGED <<lines, open, queue, stage, entry, calls, crashes, acked, damaged>>
      BY <1>7, <2>2, <3>1 DEF Restart
    <3>3. Text[Len(Text)] \in Entries => Text[Len(Text)].hash \in Seq(Frames) /\ Text[Len(Text)].i \in Nat
      <4> HIDE DEF LogTypeOK
      <4> QED
        BY DEF Entries
    <3>4. last_hash' \in Seq(Frames) /\ counter' \in Nat
      BY <3>2, <3>3
    <3>5. QED
      BY <3>2, <3>4
  <2>3. QED
    BY <2>1, <2>2
<1>8. CASE UNCHANGED logVars
  BY <1>8 DEF logVars
<1>9. QED
  BY <1>1, <1>2, <1>3, <1>4, <1>5, <1>6, <1>7, <1>8 DEF LogNext, Step

-----------------------------------------------------------------------------
(* WriterOK *)

\* After the head has left, no task is writing.
LEMMA HeadLeaves ==
    ASSUME LogTypeOK, WriterOK, NEW w \in Writers, Holds(w), stage[w] \in {"body", "newline"},
           stage' = [stage EXCEPT ![w] = "idle"]
    PROVE  \A v \in Writers : stage'[v] \notin {"body", "newline"}
BY DEF LogTypeOK, WriterOK, Holds

LEMMA WriterStep ==
    ASSUME LogTypeOK, WriterOK, [LogNext]_logVars, LogTypeOK'
    PROVE  WriterOK'
<1> USE DEF WriterOK, fileVars, memVars
<1>1. ASSUME NEW w \in Writers, Log(w)
      PROVE  WriterOK'
  <2>1. queue # <<>> => queue' # <<>> /\ Head(queue') = Head(queue)
    BY <1>1, HeadOfAppend DEF Log, LogTypeOK
  <2>2. QED
    BY <1>1, <2>1 DEF Log, LogTypeOK
<1>2. ASSUME NEW w \in Writers, Seal(w)
      PROVE  WriterOK'
  <2>1. <<w, calls[w]>> \in Frames
    BY <1>2 DEF Seal, Frames, LogTypeOK
  <2>2. /\ entry' \in Entries
        /\ entry'.frame = <<w, calls[w]>>
        /\ entry'.i < counter'
    BY <1>2, <2>1 DEF Seal, Entries, LogTypeOK
  <2>3. \A v \in Writers : stage[v] \in {"body", "newline"} => v = w
    BY <1>2 DEF Seal, Holds
  <2>4. \A v \in Writers : stage'[v] \in {"body", "newline"} => v = w /\ stage'[v] = "body"
    BY <1>2, <2>3 DEF Seal, LogTypeOK
  <2>5. QED
    BY <1>2, <2>2, <2>4 DEF Seal, Holds, LogTypeOK
<1>3. ASSUME NEW w \in Writers, WriteBody(w)
      PROVE  WriterOK'
  BY <1>3 DEF WriteBody, AppendText, Holds, LogTypeOK
<1>4. ASSUME NEW w \in Writers, BodyFails(w) \/ WriteNewline(w) \/ NewlineFails(w)
      PROVE  WriterOK'
  <2>1. Holds(w) /\ stage[w] \in {"body", "newline"} /\ stage' = [stage EXCEPT ![w] = "idle"]
    BY <1>4 DEF BodyFails, WriteNewline, NewlineFails, Return
  <2>2. \A v \in Writers : stage'[v] \notin {"body", "newline"}
    BY <2>1, HeadLeaves
  <2>3. UNCHANGED <<node, calls>>
    BY <1>4 DEF BodyFails, WriteNewline, NewlineFails
  <2>4. QED
    BY <2>1, <2>2, <2>3 DEF LogTypeOK
<1>5. CASE Crash
  BY <1>5 DEF Crash
<1>6. CASE Restart
  <2>1. \A w \in Writers : stage[w] = "idle"
    BY <1>6 DEF Restart
  <2>2. QED
    BY <1>6, <2>1 DEF Restart
<1>7. CASE UNCHANGED logVars
  BY <1>7 DEF logVars
<1>8. QED
  BY <1>1, <1>2, <1>3, <1>4, <1>5, <1>6, <1>7 DEF LogNext, Step

-----------------------------------------------------------------------------
(* The effect of each step on the text *)

LEMMA WriteBodyText ==
    ASSUME LogTypeOK, NEW w \in Writers, WriteBody(w), entry \in Entries
    PROVE  \/ open = Empty /\ Text' = Append(Text, entry)
           \/ Spoiled
<1>1. CASE open = Empty
  BY <1>1, TraceAssumption DEF WriteBody, AppendText, Text
<1>2. CASE open # Empty
  BY <1>2, TextTorn DEF WriteBody, AppendText
<1>3. QED
  BY <1>1, <1>2

LEMMA WriteNewlineText ==
    ASSUME LogTypeOK, WriterOK, NEW w \in Writers, WriteNewline(w)
    PROVE  Text' = Text
<1>1. open # Empty
  BY TraceAssumption DEF WriterOK, WriteNewline
<1>2. QED
  BY <1>1 DEF Text, WriteNewline

LEMMA OtherText ==
    ASSUME LogTypeOK, [LogNext]_logVars,
           \A w \in Writers : ~WriteBody(w) /\ ~WriteNewline(w)
    PROVE  Text' = Text \/ Spoiled
<1>1. lines' = lines /\ open' \in {open, Garbled}
  BY DEF LogNext, Step, Log, Seal, BodyFails, NewlineFails, Crash, Restart, logVars, fileVars
<1>2. QED
  BY <1>1, TextTorn, TextKept DEF fileVars

\* Every line that parses was already there.
Shrinks ==
    \A n \in 1 .. Len(Text') :
        Text'[n] = Garbled \/ (n \in 1 .. Len(Text) /\ Text'[n] = Text[n])

LEMMA ShrinksIfKept == Text' = Text => Shrinks
BY DEF Shrinks

LEMMA ShrinksIfSpoiled == Spoiled => Shrinks
BY DEF Shrinks, Spoiled

\* No step but the writing of a line adds one.
LEMMA TextEffect ==
    ASSUME LogTypeOK, WriterOK, [LogNext]_logVars
    PROVE  \/ Shrinks
           \/ \E w \in Writers : WriteBody(w) /\ Text' = Append(Text, entry)
<1>1. ASSUME NEW w \in Writers, WriteBody(w)
      PROVE  Shrinks \/ Text' = Append(Text, entry)
  <2>1. entry \in Entries
    BY <1>1 DEF WriterOK, WriteBody
  <2>2. QED
    BY <1>1, <2>1, WriteBodyText, ShrinksIfSpoiled
<1>2. QED
  BY <1>1, WriteNewlineText, OtherText, ShrinksIfKept, ShrinksIfSpoiled

-----------------------------------------------------------------------------
(* NothingLost *)

LEMMA NothingLostStep ==
    ASSUME LogTypeOK, WriterOK, NothingLost, [LogNext]_logVars
    PROVE  NothingLost'
<1>1. Text \in Seq(Entries \cup {Garbled}) /\ Len(Text) \in Nat
  BY TextType
<1>2. ASSUME Spoiled
      PROVE  NothingLost'
  BY <1>2 DEF Spoiled, NothingLost
<1>3. ASSUME Text' = Text, acked' = acked
      PROVE  NothingLost'
  BY <1>3 DEF NothingLost, HasGarbled, Recorded
<1>4. ASSUME NEW w \in Writers, WriteBody(w)
      PROVE  NothingLost'
  <2>1. entry \in Entries /\ acked' = acked
    BY <1>4 DEF WriterOK, WriteBody
  <2>2. CASE Text' = Append(Text, entry)
    <3>1. /\ Len(Text') = Len(Text) + 1
          /\ \A n \in 1 .. Len(Text) : n \in 1 .. Len(Text') /\ Text'[n] = Text[n]
      BY <1>1, <2>1, <2>2
    <3>2. HasGarbled => HasGarbled'
      BY <3>1 DEF HasGarbled
    <3>3. Recorded \subseteq Recorded'
      BY <3>1 DEF Recorded
    <3>4. QED
      BY <2>1, <3>2, <3>3 DEF NothingLost
  <2>3. QED
    BY <1>2, <1>4, <2>1, <2>2, WriteBodyText
<1>5. ASSUME NEW w \in Writers, WriteNewline(w)
      PROVE  NothingLost'
  <2>1. Text' = Text
    BY <1>5, WriteNewlineText
  <2>2. open \in {entry, Garbled} /\ entry \in Entries /\ open # Empty
    BY <1>5, TraceAssumption DEF WriterOK, WriteNewline
  <2>3. /\ Text = Append(lines, open) /\ lines \in Seq(Entries \cup {Garbled})
        /\ Len(lines) \in Nat
    BY <2>2 DEF Text, LogTypeOK
  <2>4. Len(lines) + 1 \in 1 .. Len(Text) /\ Text[Len(lines) + 1] = open
    BY <2>2, <2>3
  <2>5. CASE open = Garbled
    BY <2>1, <2>4, <2>5 DEF NothingLost, HasGarbled
  <2>6. CASE open = entry
    <3>1. entry # Garbled
      BY <2>2, TraceAssumption
    <3>2. entry.frame \in Recorded
      BY <2>4, <2>6, <3>1 DEF Recorded
    <3>3. acked' = acked \cup {entry.frame}
      BY <1>5 DEF WriteNewline
    <3>4. Recorded' = Recorded /\ (HasGarbled' <=> HasGarbled)
      BY <2>1 DEF Recorded, HasGarbled
    <3>5. QED
      BY <3>2, <3>3, <3>4 DEF NothingLost
  <2>7. QED
    BY <2>2, <2>5, <2>6
<1>6. ASSUME \A w \in Writers : ~WriteBody(w) /\ ~WriteNewline(w)
      PROVE  NothingLost'
  <2>1. acked' = acked
    BY <1>6 DEF LogNext, Step, Log, Seal, BodyFails, NewlineFails, Crash, Restart, logVars
  <2>2. QED
    BY <1>2, <1>3, <1>6, <2>1, OtherText
<1>7. QED
  BY <1>4, <1>5, <1>6

-----------------------------------------------------------------------------
(* OlderThanNext and RecordsInOrder *)

\* The bound that OlderThanNext puts on indices.
NextIndex == IF Writing THEN entry.i ELSE counter

\* The present lines stay below the index bound, and no task goes for
\* another line without a new call.
StillBelow ==
    node' = "up" =>
        \A n \in 1 .. Len(Text) : Text[n] # Garbled => Text[n].i < NextIndex'

CallsAdvance ==
    \A w \in Writers :
        /\ calls[w] <= calls'[w]
        /\ stage'[w] \in {"waiting", "body"} =>
               stage[w] \in {"waiting", "body"} \/ calls[w] < calls'[w]

\* Enough for OlderThanNext to survive a step that adds no line.
LEMMA OlderIfShrinks ==
    ASSUME LogTypeOK, LogTypeOK', OlderThanNext, Shrinks, StillBelow, CallsAdvance
    PROVE  OlderThanNext'
<1> SUFFICES ASSUME NEW n \in 1 .. Len(Text'), Text'[n] # Garbled
             PROVE  /\ node' = "up" => Text'[n].i < NextIndex'
                    /\ \A w \in Writers : Text'[n].frame[1] = w =>
                           /\ Text'[n].frame[2] <= calls'[w]
                           /\ stage'[w] \in {"waiting", "body"} => Text'[n].frame[2] < calls'[w]
  BY DEF OlderThanNext, NextIndex
<1>1. n \in 1 .. Len(Text) /\ Text'[n] = Text[n] /\ Text[n] # Garbled
  BY DEF Shrinks
<1>2. Text[n] \in Entries
  BY <1>1, TextType
<1>3. node' = "up" => Text'[n].i < NextIndex'
  BY <1>1 DEF StillBelow
<1>4. ASSUME NEW w \in Writers, Text'[n].frame[1] = w
      PROVE  /\ Text'[n].frame[2] <= calls'[w]
             /\ stage'[w] \in {"waiting", "body"} => Text'[n].frame[2] < calls'[w]
  <2>1. Text[n].frame[2] \in Nat
    BY <1>2, TraceAssumption DEF Entries, Frames
  <2>2. calls[w] \in Nat /\ calls'[w] \in Nat /\ calls[w] <= calls'[w]
    BY TraceAssumption DEF LogTypeOK, CallsAdvance
  <2>3. /\ Text[n].frame[2] <= calls[w]
        /\ stage[w] \in {"waiting", "body"} => Text[n].frame[2] < calls[w]
    BY <1>1, <1>4 DEF OlderThanNext
  <2>4. QED
    BY <1>1, <2>1, <2>2, <2>3 DEF CallsAdvance
<1>5. QED
  BY <1>3, <1>4

\* The line being written comes after every line in the file.
LEMMA NewLineIsNewest ==
    ASSUME LogTypeOK, WriterOK, OlderThanNext, NEW w \in Writers, WriteBody(w),
           NEW n \in 1 .. Len(Text), Text[n] # Garbled
    PROVE  /\ Text[n].i < entry.i
           /\ Text[n].frame[1] = entry.frame[1] => Text[n].frame[2] < entry.frame[2]
<1>1. stage[w] = "body" /\ Writing /\ node = "up" /\ entry.frame = <<w, calls[w]>>
  BY DEF WriteBody, WriterOK, Writing
<1>2. QED
  BY <1>1 DEF OlderThanNext

LEMMA OlderStep ==
    ASSUME LogTypeOK, WriterOK, OlderThanNext, RecordsInOrder, [LogNext]_logVars, LogTypeOK', WriterOK'
    PROVE  OlderThanNext'
<1>1. Text \in Seq(Entries \cup {Garbled}) /\ Len(Text) \in Nat
  BY TextType
<1>2. \A n \in 1 .. Len(Text) : Text[n] # Garbled =>
          Text[n] \in Entries /\ Text[n].i \in Nat /\ (node = "up" => Text[n].i < NextIndex)
  BY <1>1 DEF Entries, OlderThanNext, NextIndex
<1>3. counter \in Nat /\ calls \in [Writers -> 0 .. MaxCalls] /\ calls' \in [Writers -> 0 .. MaxCalls]
  BY DEF LogTypeOK
<1>4. \A w \in Writers : stage[w] \in {"body", "newline"} => entry.i \in Nat /\ entry.i < counter
  BY DEF WriterOK, Entries
<1>5. ASSUME NEW w \in Writers, Log(w)
      PROVE  OlderThanNext'
  <2>1. Shrinks
    BY <1>5, TextKept, ShrinksIfKept DEF Log
  <2>2. (Writing' <=> Writing) /\ node' = node /\ NextIndex' = NextIndex
    BY <1>5 DEF Log, Writing, NextIndex, LogTypeOK
  <2>3. CallsAdvance
    BY <1>3, <1>5, TraceAssumption DEF Log, LogTypeOK, CallsAdvance
  <2>4. StillBelow
    BY <1>2, <2>2 DEF StillBelow
  <2>5. QED
    BY <2>1, <2>3, <2>4, OlderIfShrinks
<1>6. ASSUME NEW w \in Writers, Seal(w)
      PROVE  OlderThanNext'
  <2>1. Shrinks
    BY <1>6, TextKept, ShrinksIfKept DEF Seal
  <2>2. ~Writing
    BY <1>6 DEF Seal, Holds, WriterOK, Writing
  <2>3. Writing' /\ entry'.i = counter
    BY <1>6 DEF Seal, Writing, LogTypeOK
  <2>4. node' = node /\ NextIndex' = NextIndex
    BY <1>6, <2>2, <2>3 DEF Seal, NextIndex
  <2>5. CallsAdvance
    BY <1>3, <1>6, TraceAssumption DEF Seal, LogTypeOK, CallsAdvance
  <2>6. StillBelow
    BY <1>2, <2>4 DEF StillBelow
  <2>7. QED
    BY <2>1, <2>5, <2>6, OlderIfShrinks
<1>7. ASSUME NEW w \in Writers, BodyFails(w) \/ WriteNewline(w) \/ NewlineFails(w)
      PROVE  OlderThanNext'
  <2>1. Shrinks
    <3>1. ~WriteBody(w)
      BY <1>7 DEF BodyFails, WriteNewline, NewlineFails, WriteBody, Return, LogTypeOK
    <3>2. CASE WriteNewline(w)
      BY <3>2, WriteNewlineText, ShrinksIfKept
    <3>3. CASE NewlineFails(w)
      BY <3>3, TextKept, ShrinksIfKept DEF NewlineFails
    <3>4. CASE BodyFails(w)
      <4>1. lines' = lines /\ open' \in {open, Garbled}
        BY <3>4 DEF BodyFails
      <4>2. QED
        BY <4>1, TextTorn, TextKept, ShrinksIfKept, ShrinksIfSpoiled DEF fileVars
    <3>5. QED
      BY <1>7, <3>2, <3>3, <3>4
  <2>2. /\ Holds(w) /\ stage[w] \in {"body", "newline"}
        /\ stage' = [stage EXCEPT ![w] = "idle"] /\ UNCHANGED <<counter, calls, node>>
    BY <1>7 DEF BodyFails, WriteNewline, NewlineFails, Return
  <2>3. ~Writing'
    BY <2>2, HeadLeaves DEF Writing
  <2>4. NextIndex' = counter
    BY <2>2, <2>3 DEF NextIndex
  <2>5. Writing => entry.i \in Nat /\ entry.i < counter
    BY <1>4 DEF Writing
  <2>6. StillBelow
    BY <1>2, <1>3, <2>2, <2>4, <2>5 DEF NextIndex, StillBelow
  <2>7. CallsAdvance
    BY <1>3, <2>2, TraceAssumption DEF LogTypeOK, CallsAdvance
  <2>8. QED
    BY <2>1, <2>6, <2>7, OlderIfShrinks
<1>8. ASSUME NEW w \in Writers, WriteBody(w)
      PROVE  OlderThanNext'
  <2>1. /\ Holds(w) /\ stage[w] = "body" /\ stage' = [stage EXCEPT ![w] = "newline"]
        /\ UNCHANGED <<counter, calls, node, entry>> /\ Writing /\ node = "up"
    BY <1>8 DEF WriteBody, Writing, WriterOK
  <2>2. ~Writing'
    BY <2>1 DEF Writing, WriterOK, Holds, LogTypeOK
  <2>3. NextIndex' = counter /\ NextIndex = entry.i
    BY <2>1, <2>2 DEF NextIndex
  <2>4. entry \in Entries /\ entry.i \in Nat /\ entry.i < counter /\ entry.frame = <<w, calls[w]>>
    BY <2>1 DEF WriterOK, Entries
  <2>5. \A n \in 1 .. Len(Text) : Text[n] # Garbled => Text[n].i < counter
    BY <1>2, <1>3, <2>1, <2>3, <2>4
  <2>6. CASE Shrinks
    <3>1. CallsAdvance
      BY <1>3, <2>1, TraceAssumption DEF LogTypeOK, CallsAdvance
    <3>2. StillBelow
      BY <2>3, <2>5 DEF StillBelow
    <3>3. QED
      BY <2>6, <3>1, <3>2, OlderIfShrinks
  <2>7. CASE Text' = Append(Text, entry)
    <3> SUFFICES ASSUME NEW n \in 1 .. Len(Text'), Text'[n] # Garbled
                 PROVE  /\ Text'[n].i < counter
                        /\ \A v \in Writers : Text'[n].frame[1] = v =>
                               /\ Text'[n].frame[2] <= calls[v]
                               /\ stage'[v] \in {"waiting", "body"} => Text'[n].frame[2] < calls[v]
      BY <2>1, <2>2 DEF OlderThanNext
    <3>1. CASE n \in 1 .. Len(Text)
      <4>1. Text'[n] = Text[n]
        BY <1>1, <2>4, <2>7, <3>1
      <4>2. \A v \in Writers : stage'[v] \in {"waiting", "body"} => stage[v] \in {"waiting", "body"}
        BY <2>1 DEF LogTypeOK
      <4>3. QED
        BY <2>5, <3>1, <4>1, <4>2 DEF OlderThanNext
    <3>2. CASE n = Len(Text) + 1
      <4>1. Text'[n] = entry
        BY <1>1, <2>4, <2>7, <3>2
      <4>2. stage'[w] = "newline" /\ calls[w] \in Nat
        BY <1>3, <2>1 DEF LogTypeOK
      <4>3. QED
        BY <1>3, <2>4, <4>1, <4>2
    <3>3. QED
      BY <1>1, <2>4, <2>7, <3>1, <3>2
  <2>8. QED
    BY <1>8, <2>4, <2>6, <2>7, WriteBodyText, ShrinksIfSpoiled
<1>9. CASE Crash
  <2>1. lines' = lines /\ open' \in {open, Garbled} /\ calls' = calls /\ node' = "down"
    BY <1>9 DEF Crash
  <2>2. Shrinks
    BY <2>1, TextTorn, TextKept, ShrinksIfKept, ShrinksIfSpoiled DEF fileVars
  <2>3. CallsAdvance
    BY <1>3, <1>9, <2>1, TraceAssumption DEF Crash, CallsAdvance
  <2>4. StillBelow
    BY <2>1 DEF StillBelow
  <2>5. QED
    BY <2>2, <2>3, <2>4, OlderIfShrinks
<1>10. CASE Restart
  <2>1. Shrinks /\ Text' = Text
    BY <1>10, TextKept, ShrinksIfKept DEF Restart
  <2>2. \A v \in Writers : stage[v] = "idle" /\ stage'[v] = "idle" /\ calls[v] <= calls'[v]
    BY <1>3, <1>10, TraceAssumption DEF Restart, WriterOK
  <2>3. NextIndex' = counter'
    BY <2>2 DEF NextIndex, Writing
  <2>4. node' = "up" => \A n \in 1 .. Len(Text) : Text[n] # Garbled => Text[n].i < counter'
    <3>1. CASE Text = <<>>
      BY <3>1
    <3>2. CASE Text # <<>>
      <4> DEFINE last == Text[Len(Text)]
      <4>1. Len(Text) \in 1 .. Len(Text)
        BY <1>1, <3>2
      <4>2. node' = "up" => last # Garbled /\ counter' = last.i + 1
        BY <1>10, <3>2, TraceAssumption DEF Restart
      <4>3. ASSUME NEW n \in 1 .. Len(Text), Text[n] # Garbled, last # Garbled, n # Len(Text)
            PROVE  Text[n].i < last.i
        <5>1. n \in 1 .. Len(Text) - 1
          BY <1>1, <4>3
        <5>2. QED
          BY <4>1, <4>3, <5>1 DEF RecordsInOrder
      <4>4. QED
        BY <1>2, <4>1, <4>2, <4>3
    <3>3. QED
      BY <3>1, <3>2
  <2>5. CallsAdvance /\ StillBelow
    BY <2>2, <2>3, <2>4 DEF CallsAdvance, StillBelow
  <2>6. QED
    BY <2>1, <2>5, OlderIfShrinks
<1>11. CASE UNCHANGED logVars
  BY <1>11, TextKept DEF logVars, memVars, OlderThanNext, Writing
<1>12. QED
  BY <1>5, <1>6, <1>7, <1>8, <1>9, <1>10, <1>11 DEF LogNext, Step

LEMMA OrderStep ==
    ASSUME LogTypeOK, WriterOK, OlderThanNext, RecordsInOrder, [LogNext]_logVars
    PROVE  RecordsInOrder'
<1>1. Text \in Seq(Entries \cup {Garbled}) /\ Len(Text) \in Nat
  BY TextType
<1>2. CASE Shrinks
  BY <1>1, <1>2 DEF Shrinks, RecordsInOrder
<1>3. ASSUME NEW w \in Writers, WriteBody(w), Text' = Append(Text, entry)
      PROVE  RecordsInOrder'
  <2> SUFFICES ASSUME NEW n \in 1 .. Len(Text'), NEW m \in 1 .. n - 1,
                      Text'[m] # Garbled, Text'[n] # Garbled
               PROVE  /\ Text'[m].i < Text'[n].i
                      /\ Text'[m].frame[1] = Text'[n].frame[1] =>
                             Text'[m].frame[2] < Text'[n].frame[2]
    BY DEF RecordsInOrder
  <2>1. entry \in Entries
    BY <1>3 DEF WriteBody, WriterOK
  <2>2. m \in 1 .. Len(Text) /\ Text'[m] = Text[m]
    BY <1>1, <1>3, <2>1
  <2>3. CASE n \in 1 .. Len(Text)
    BY <1>1, <1>3, <2>1, <2>2, <2>3 DEF RecordsInOrder
  <2>4. CASE n = Len(Text) + 1
    <3>1. Text'[n] = entry
      BY <1>1, <1>3, <2>1, <2>4
    <3>2. QED
      BY <1>3, <2>2, <3>1, NewLineIsNewest
  <2>5. QED
    BY <1>1, <1>3, <2>1, <2>3, <2>4
<1>4. QED
  BY <1>2, <1>3, TextEffect

-----------------------------------------------------------------------------
(* Continues *)

\* What is read off the text does not change when the text does not.
LEMMA SameText == Text' = Text => (Verified' <=> Verified) /\ EndHash' = EndHash
BY DEF Verified, VerifyLine, EndHash

\* A line that continues a verified text makes a verified text.
LEMMA ExtendVerified ==
    ASSUME LogTypeOK, Verified, entry \in Entries, Text' = Append(Text, entry),
           entry.i = Len(Text), entry.prev = EndHash,
           entry.hash = Append(EndHash, entry.frame)
    PROVE  Verified' /\ EndHash' = entry.hash /\ Len(Text') = Len(Text) + 1
<1>1. Text \in Seq(Entries \cup {Garbled}) /\ Len(Text) \in Nat
  BY TextType
<1>2. /\ Len(Text') = Len(Text) + 1
      /\ Text'[Len(Text) + 1] = entry
      /\ \A n \in 1 .. Len(Text) : Text'[n] = Text[n]
  BY <1>1
<1>3. entry # Garbled
  BY TraceAssumption
<1>4. ASSUME NEW n \in 1 .. Len(Text)
      PROVE  VerifyLine(n)'
  <2>1. VerifyLine(n) /\ Text'[n] = Text[n] /\ (n # 1 => Text'[n - 1] = Text[n - 1])
    BY <1>1, <1>2 DEF Verified
  <2>2. QED
    BY <2>1 DEF VerifyLine
<1>5. ASSUME NEW n \in Nat, n = Len(Text) + 1
      PROVE  VerifyLine(n)'
  <2>1. Text'[n] = entry /\ entry.i = n - 1
    BY <1>1, <1>2, <1>5
  <2>2. CASE n = 1
    <3>1. EndHash = Genesis
      BY <1>1, <1>5, <2>2 DEF EndHash
    <3>2. QED
      BY <1>3, <2>1, <2>2, <3>1 DEF VerifyLine
  <2>3. CASE n # 1
    <3>1. EndHash = Text'[n - 1].hash
      BY <1>1, <1>2, <1>5, <2>3 DEF EndHash
    <3>2. QED
      BY <1>3, <2>1, <2>3, <3>1 DEF VerifyLine
  <2>4. QED
    BY <2>2, <2>3
<1>6. Verified'
  BY <1>1, <1>2, <1>4, <1>5 DEF Verified
<1>7. EndHash' = entry.hash
  BY <1>1, <1>2 DEF EndHash
<1>8. QED
  BY <1>2, <1>6, <1>7

LEMMA ContinuesStep ==
    ASSUME LogTypeOK, WriterOK, ~damaged => Continues, [LogNext]_logVars, ~damaged'
    PROVE  Continues'
<1>1. ~damaged /\ Continues
  <2>1. ASSUME NEW w \in Writers, Log(w) \/ Step(w)
        PROVE  ~damaged
    BY <2>1 DEF Step, Log, Seal, WriteBody, BodyFails, WriteNewline, NewlineFails
  <2>2. Crash \/ Restart \/ UNCHANGED logVars => ~damaged
    BY DEF Crash, Restart, logVars
  <2>3. QED
    BY <2>1, <2>2 DEF LogNext
<1>2. Text \in Seq(Entries \cup {Garbled}) /\ Len(Text) \in Nat
  BY TextType
<1>3. ASSUME NEW w \in Writers, Log(w)
      PROVE  Continues'
  <2>1. Text' = Text
    BY <1>3, TextKept DEF Log
  <2>2. /\ Writing' <=> Writing
        /\ (\E v \in Writers : stage[v] = "newline") => \E v \in Writers : stage'[v] = "newline"
    BY <1>3 DEF Log, Writing, LogTypeOK
  <2>3. QED
    BY <1>1, <1>3, <2>1, <2>2, SameText DEF Continues, Log, fileVars
<1>4. ASSUME NEW w \in Writers, Seal(w)
      PROVE  Continues'
  <2>1. Text' = Text /\ node = "up" /\ open = Empty
    BY <1>1, <1>4, TextKept DEF Seal, Holds, WriterOK, Continues
  <2>2. ~Writing /\ Writing'
    BY <1>4 DEF Seal, Holds, WriterOK, Writing, LogTypeOK
  <2>3. counter = Len(Text) /\ last_hash = EndHash /\ Verified
    BY <1>1, <2>1, <2>2 DEF Continues
  <2>4. /\ entry'.i = counter /\ entry'.prev = last_hash
        /\ entry'.hash = Append(last_hash, entry'.frame)
        /\ counter' = counter + 1 /\ last_hash' = entry'.hash /\ open' = open
    BY <1>4 DEF Seal, fileVars
  <2>5. QED
    BY <2>1, <2>2, <2>3, <2>4, SameText DEF Continues
<1>5. ASSUME NEW w \in Writers, WriteBody(w)
      PROVE  Continues'
  <2>1. Writing /\ node = "up" /\ entry \in Entries /\ open = Empty
    BY <1>1, <1>5 DEF WriteBody, Holds, Writing, WriterOK, Continues
  <2>2. /\ ~Writing' /\ stage'[w] = "newline"
        /\ UNCHANGED <<counter, last_hash, node, entry>>
    BY <1>5 DEF WriteBody, Holds, Writing, WriterOK, LogTypeOK
  <2>3. Text' = Append(Text, entry)
    BY <1>5, <2>1, TraceAssumption DEF WriteBody, AppendText, Text
  <2>4. /\ Verified /\ entry.i = Len(Text) /\ entry.prev = EndHash
        /\ entry.hash = Append(EndHash, entry.frame)
        /\ counter = Len(Text) + 1 /\ last_hash = entry.hash
    BY <1>1, <2>1 DEF Continues
  <2>5. Verified' /\ EndHash' = entry.hash /\ Len(Text') = Len(Text) + 1
    BY <2>1, <2>3, <2>4, ExtendVerified
  <2>6. QED
    BY <2>2, <2>4, <2>5 DEF Continues
<1>6. ASSUME NEW w \in Writers, WriteNewline(w)
      PROVE  Continues'
  <2>1. Text' = Text /\ open' = Empty
    BY <1>6, WriteNewlineText DEF WriteNewline
  <2>2. ~Writing
    BY <1>6 DEF WriteNewline, Holds, WriterOK, Writing
  <2>3. ~Writing' /\ UNCHANGED <<counter, last_hash, node>>
    BY <1>6, <2>2 DEF WriteNewline, Return, Writing, LogTypeOK
  <2>4. QED
    BY <1>1, <2>1, <2>2, <2>3, SameText DEF Continues
<1>7. ASSUME NEW w \in Writers, BodyFails(w) \/ NewlineFails(w)
      PROVE  Continues'
  BY <1>7 DEF BodyFails, NewlineFails
<1>8. CASE Crash
  <2>1. open' = Empty /\ open = Empty /\ lines' = lines /\ node' = "down"
    BY <1>8, TraceAssumption DEF Crash
  <2>2. Text' = Text
    BY <2>1 DEF Text
  <2>3. QED
    BY <1>1, <2>1, <2>2, SameText DEF Continues
<1>9. CASE Restart
  <2>1. Text' = Text /\ open' = open /\ stage' = stage
    BY <1>9, TextKept DEF Restart, fileVars
  <2>2. \A v \in Writers : stage[v] = "idle"
    BY <1>9 DEF Restart, WriterOK
  <2>3. ~Writing' /\ open' = Empty
    BY <1>1, <2>1, <2>2 DEF Writing, Continues
  <2>4. counter' = Len(Text) /\ last_hash' = EndHash
    <3>1. CASE Text = <<>>
      BY <1>9, <3>1 DEF Restart, EndHash
    <3>2. CASE Text # <<>>
      <4>1. Len(Text) \in 1 .. Len(Text)
        BY <1>2, <3>2
      <4>2. Text[Len(Text)] # Garbled /\ Text[Len(Text)].i = Len(Text) - 1
        BY <1>1, <4>1 DEF Continues, Verified, VerifyLine
      <4>3. counter' = Text[Len(Text)].i + 1 /\ last_hash' = Text[Len(Text)].hash
        BY <1>9, <3>2, <4>2 DEF Restart
      <4>4. QED
        BY <1>2, <3>2, <4>2, <4>3 DEF EndHash
    <3>3. QED
      BY <3>1, <3>2
  <2>5. QED
    BY <1>1, <2>1, <2>3, <2>4, SameText DEF Continues
<1>10. CASE UNCHANGED logVars
  <2>1. Text' = Text
    BY <1>10, TextKept DEF logVars
  <2>2. QED
    BY <1>1, <1>10, <2>1, SameText DEF logVars, fileVars, memVars, Continues, Writing
<1>11. QED
  BY <1>3, <1>4, <1>5, <1>6, <1>7, <1>8, <1>9, <1>10 DEF LogNext, Step

-----------------------------------------------------------------------------
(* The theorems *)

LEMMA IndInvInit == LogInit => IndInv
<1> SUFFICES ASSUME LogInit PROVE IndInv
  OBVIOUS
<1>1. LogTypeOK
  BY TypeInit
<1>2. Text = <<>> /\ Len(Text) = 0 /\ ~Writing
  BY DEF LogInit, Text, Writing
<1>3. WriterOK
  BY DEF LogInit, WriterOK
<1>4. NothingLost /\ OlderThanNext /\ RecordsInOrder
  BY <1>2 DEF LogInit, NothingLost, OlderThanNext, RecordsInOrder
<1>5. Continues
  BY <1>2 DEF LogInit, Continues, Verified, EndHash
<1>6. QED
  BY <1>1, <1>3, <1>4, <1>5 DEF IndInv

LEMMA IndInvStep ==
    ASSUME IndInv, [LogNext]_logVars
    PROVE  IndInv'
<1>1. LogTypeOK /\ WriterOK /\ NothingLost /\ OlderThanNext /\ RecordsInOrder
  BY DEF IndInv
<1>2. ~damaged => Continues
  BY DEF IndInv
<1>3. LogTypeOK' /\ WriterOK'
  BY <1>1, TypeStep, WriterStep
<1>4. NothingLost' /\ OlderThanNext' /\ RecordsInOrder'
  BY <1>1, <1>3, NothingLostStep, OlderStep, OrderStep
<1>5. ~damaged' => Continues'
  BY <1>1, <1>2, ContinuesStep
<1>6. QED
  BY <1>3, <1>4, <1>5 DEF IndInv

LEMMA IndInvAlways == LogSpec => []IndInv
<1>1. IndInv /\ [LogNext]_logVars => IndInv'
  BY IndInvStep
<1>2. QED
  BY <1>1, IndInvInit, PTL DEF LogSpec

\* Type correctness of the log: the file only ever holds whole entries and
\* torn text, and counters stay natural numbers across recovery.
THEOREM TypeCorrect == LogSpec => []LogTypeOK
<1>1. IndInv => LogTypeOK
  BY DEF IndInv
<1>2. QED
  BY <1>1, IndInvAlways, PTL

\* Order, for any number of tasks, failed writes and crashes: indices grow
\* along the file and each task's frames are in the order it logged them.
THEOREM OrderCorrect == LogSpec => []RecordsInOrder
<1>1. IndInv => RecordsInOrder
  BY DEF IndInv
<1>2. QED
  BY <1>1, IndInvAlways, PTL

\* Concurrent appends and clean restarts keep the chain that verify_trace
\* checks, at every moment.
THEOREM CleanCorrect == LogSpec => []CleanLogVerifies
<1>1. IndInv => CleanLogVerifies
  BY DEF IndInv, Continues, CleanLogVerifies
<1>2. QED
  BY <1>1, IndInvAlways, PTL

\* Acceptance by verify_trace implies that no acknowledged frame is missing,
\* whatever writes failed and wherever the node crashed.
THEOREM CompleteCorrect == LogSpec => []VerifiedLogIsComplete
<1>1. IndInv => VerifiedLogIsComplete
  <2>1. Verified => ~HasGarbled
    BY DEF Verified, VerifyLine, HasGarbled
  <2>2. QED
    BY <2>1 DEF IndInv, NothingLost, VerifiedLogIsComplete
<1>2. QED
  BY <1>1, IndInvAlways, PTL

-----------------------------------------------------------------------------
(* ltp-inspect: the frames, as the node writes them and as JSON.stringify      *)
(* prints them                                                               *)

\* Every frame is a record, and JSON.stringify changes only whole floats.
FrameOK(f) ==
    /\ f.whole \in BOOLEAN
    /\ ~f.whole => JsText(f) = f
    /\ f.status \in {None} \cup Statuses
    /\ f.status # None => f.type = "orientation"

Rec(f) == f = [x \in DOMAIN f |-> f[x]] /\ "whole" \in DOMAIN f

LEMMA JsIdent == ASSUME NEW f, Rec(f), f.whole = FALSE PROVE JsText(f) = f
  <1>1. ASSUME NEW no, f.whole = no PROVE [f EXCEPT !.whole = no] = f
    BY <1>1 DEF Rec
  <1> QED BY <1>1 DEF JsText

LEMMA PlainRec == Rec(Plain)
  BY DEF Rec, Plain

LEMMA PlainOK == FrameOK(Plain) /\ JsText(Plain) = Plain
  <1>1. Plain.whole = FALSE /\ Plain.status = None
    BY DEF Plain
  <1> QED
    BY <1>1, PlainRec, JsIdent DEF FrameOK

LEMMA OrientationOK == ASSUME NEW f \in Orientations PROVE FrameOK(f)
  <1>1. PICK s \in {None} \cup Statuses : f = [Plain EXCEPT !.type = "orientation", !.identity = TRUE, !.status = s]
    BY DEF Orientations
  <1>2. f.whole = FALSE
    BY <1>1 DEF Plain
  <1>3. f.status = s /\ f.type = "orientation"
    BY <1>1 DEF Plain
  <1>4. Rec(f)
    BY <1>1, PlainRec DEF Rec
  <1>5. JsText(f) = f
    BY <1>2, <1>4, JsIdent
  <1> QED BY <1>2, <1>3, <1>5 DEF FrameOK

LEMMA SnapshotOK == ASSUME NEW f \in Snapshots PROVE FrameOK(f)
  BY DEF Snapshots, FrameOK, JsText, Plain, None

LEMMA ResponseRec ==
    ASSUME NEW branches
    PROVE  LET r == Response(branches) IN Rec(r) /\ r.whole = FALSE /\ r.status = None
  <1>1. Rec(Response(branches))
    BY PlainRec DEF Response, Rec
  <1>2. Response(branches).whole = FALSE /\ Response(branches).status = None
    BY DEF Response, Plain
  <1> QED
    BY <1>1, <1>2

LEMMA ResponseOK == ASSUME NEW branches PROVE FrameOK(Response(branches))
  BY ResponseRec, JsIdent DEF FrameOK

LEMMA ActionOK ==
    ASSUME NEW target, NEW admissible, NEW w, NEW c
    PROVE  FrameOK(Action(target, admissible, w, c))
  <1> DEFINE a == Action(target, admissible, w, c)
  <1>1. PICK r : /\ r = Response(<<Branch(1, Missing), Branch(2, Missing)>>)
                 /\ Rec(r) /\ r.whole = FALSE /\ r.status = None
    BY ResponseRec
  <1>2. a = [r EXCEPT !.target = target, !.admissible = admissible, !.web = w, !.cap = c]
    BY <1>1 DEF Action
  <1> HIDE DEF a
  <1>3. Rec(a) /\ a.whole = r.whole
    BY <1>1, <1>2 DEF Rec
  <1>4. a.status = r.status
    BY <1>1, <1>2 DEF Action, Response, Plain
  <1>5. FrameOK(a)
    BY <1>1, <1>3, <1>4, JsIdent DEF FrameOK
  <1> QED
    BY <1>5 DEF a

\* A frame that has the fields of Plain and its float and status.
LEMMA LikePlainOK ==
    ASSUME NEW f, Rec(f), f.whole = Plain.whole, f.status = Plain.status
    PROVE  FrameOK(f)
  <1>1. Plain.whole = FALSE /\ Plain.status = None
    BY DEF Plain
  <1>2. JsText(f) = f
    BY <1>1, JsIdent
  <1> QED
    BY <1>1, <1>2 DEF FrameOK

LEMMA GreetingOK == ASSUME NEW f \in Greetings PROVE FrameOK(f)
  <1>1. PICK t \in Tokens : f = [Plain EXCEPT !.token = t]
    BY DEF Greetings
  <1>2. Rec(f) /\ f.whole = Plain.whole /\ f.status = Plain.status
    BY <1>1, PlainRec DEF Rec
  <1> QED
    BY <1>2, LikePlainOK

LEMMA MalformedOK == ASSUME NEW f \in Malformed PROVE FrameOK(f)
  <1>1. ASSUME NEW v, \/ f = [Plain EXCEPT !.v = v] \/ f = [Plain EXCEPT !.shape = v]
                      \/ f = [Plain EXCEPT !.constraints = v]
        PROVE  FrameOK(f)
    <2>1. Rec(f)
      BY <1>1, PlainRec DEF Rec
    <2>2. f.whole = Plain.whole /\ f.status = Plain.status
      BY <1>1 DEF Plain
    <2> QED
      BY <2>1, <2>2, LikePlainOK
  <1>2. CASE f = [Plain EXCEPT !.shape = FALSE]
    BY <1>1, <1>2
  <1> QED
    BY <1>1, <1>2 DEF Malformed

LEMMA FramesOK == ASSUME NEW f \in TraceFrames PROVE FrameOK(f)
  <1>1. CASE f \in Responses
    BY <1>1, ResponseOK DEF Responses
  <1>2. CASE f \in Actions
    BY <1>2, ActionOK DEF Actions
  <1> QED
    BY <1>1, <1>2, OrientationOK, SnapshotOK, GreetingOK, MalformedOK DEF TraceFrames

-----------------------------------------------------------------------------
(* The inspector: what is in the file *)

Texts == TraceFrames \cup {Plain}

Lines == [frame : Texts, prev : Seq(Texts), hash : Seq(Texts), garbled : BOOLEAN]

\* The hash of the node after d frames.
Upto(d) == [k \in 1 .. d |-> written[k]]

\* A line has the hashes of an entry the node wrote, and its frame unless it
\* was edited.
LineOK(l) ==
    \E d \in 1 .. Len(written) :
        /\ l.prev = Upto(d - 1)
        /\ l.hash = Upto(d)
        /\ l.frame \in {written[d], Plain}

FileInv ==
    /\ written \in Seq(TraceFrames)
    /\ file \in Seq(Lines)
    /\ \A k \in 1 .. Len(file) : LineOK(file[k])

\* Before the first fault the file is what the node wrote.
IntactInv ==
    faults = 0 =>
        /\ Len(file) = Len(written)
        /\ \A k \in 1 .. Len(file) : /\ file[k].prev = Upto(k - 1)
                                     /\ file[k].hash = Upto(k)
                                     /\ file[k].frame = written[k]

ReportInv == report = <<>> \/ report = [a \in Args |-> Execute(file, kind = "audit", a)]

InspectInv == faults \in Nat /\ FileInv /\ IntactInv /\ ReportInv

LEMMA UptoIs ==
    ASSUME FileInv, NEW d \in 0 .. Len(written)
    PROVE  /\ Upto(d) \in Seq(Texts) /\ Len(Upto(d)) = d
           /\ \A k \in 1 .. d : Upto(d)[k] = written[k]
  BY DEF FileInv, Upto, Texts

LEMMA InspectInvInit == InspectInit => InspectInv
  BY DEF InspectInit, InspectInv, FileInv, IntactInv, ReportInv

LEMMA LogFrameFile ==
    ASSUME InspectInv, NEW f \in TraceFrames, LogFrame(f)
    PROVE  InspectInv'
  <1>1. PICK n : n = Len(written)
    OBVIOUS
  <1>2. PICK e : e = Entry(LastHash, f)
    OBVIOUS
  <1>3. /\ report = <<>> /\ faults = 0
        /\ written' = Append(written, f) /\ file' = Append(file, e)
        /\ UNCHANGED <<kind, faults, report>>
    BY <1>2 DEF LogFrame
  <1>4. /\ written \in Seq(TraceFrames) /\ n \in Nat /\ file \in Seq(Lines)
        /\ Len(file) = n /\ Len(written) = n
    BY <1>3, <1>1 DEF InspectInv, FileInv, IntactInv
  <1>5. LastHash = Upto(n)
    BY <1>4 DEF LastHash, RustText, Upto
  <1>6. Upto(n) \in Seq(Texts) /\ Len(Upto(n)) = n /\ \A k \in 1 .. n : Upto(n)[k] = written[k]
    BY <1>4, UptoIs DEF InspectInv
  <1>7. /\ written' \in Seq(TraceFrames) /\ Len(written') = n + 1 /\ written'[n + 1] = f
        /\ \A k \in 1 .. n : written'[k] = written[k]
    BY <1>3, <1>4
  <1>8. ASSUME NEW d \in 0 .. n PROVE Upto(d)' = Upto(d)
    BY <1>4, <1>7 DEF Upto
  <1>9. Append(Upto(n), f) = Upto(n + 1)'
    <2>1. f \in Texts
      BY DEF Texts
    <2>2. PICK q : q = Append(Upto(n), f)
      OBVIOUS
    <2>3. /\ q \in Seq(Texts) /\ Len(q) = n + 1 /\ q[n + 1] = f
          /\ \A k \in 1 .. n : q[k] = written[k]
      BY <1>4, <1>6, <2>1, <2>2
    <2>4. \A k \in 1 .. n + 1 : q[k] = written'[k]
      BY <1>4, <1>7, <2>3
    <2>5. q = [k \in 1 .. n + 1 |-> written'[k]]
      BY <2>3, <2>4
    <2> QED
      BY <2>2, <2>5 DEF Upto
  <1>10. /\ e = [frame |-> f, prev |-> Upto(n), hash |-> Append(Upto(n), f), garbled |-> FALSE]
    BY <1>5, <1>2 DEF Entry, HashOf, RustText
  <1>11. e \in Lines
    <2>1. f \in Texts /\ Append(Upto(n), f) \in Seq(Texts)
      BY <1>6 DEF Texts
    <2> DEFINE no == FALSE
    <2>2. no \in BOOLEAN /\ e = [frame |-> f, prev |-> Upto(n), hash |-> Append(Upto(n), f), garbled |-> no]
      BY <1>10
    <2> HIDE DEF no
    <2> QED
      BY <1>6, <2>1, <2>2 DEF Lines
  <1>12. e.frame = f /\ e.prev = Upto(n)' /\ e.hash = Upto(n + 1)'
    BY <1>4, <1>8, <1>9, <1>10
  <1>13. /\ file' \in Seq(Lines) /\ Len(file') = n + 1 /\ file'[n + 1] = e
         /\ \A k \in 1 .. n : file'[k] = file[k]
    BY <1>3, <1>4, <1>11
  <1>14. \A k \in 1 .. n + 1 : /\ file'[k].prev = Upto(k - 1)'
                               /\ file'[k].hash = Upto(k)'
                               /\ file'[k].frame = written'[k]
    <2> SUFFICES ASSUME NEW k \in 1 .. n + 1
                 PROVE  /\ file'[k].prev = Upto(k - 1)'
                        /\ file'[k].hash = Upto(k)'
                        /\ file'[k].frame = written'[k]
      OBVIOUS
    <2>1. CASE k = n + 1
      BY <1>4, <1>7, <1>12, <1>13, <2>1
    <2>2. CASE k \in 1 .. n
      <3>1. file[k].prev = Upto(k - 1) /\ file[k].hash = Upto(k) /\ file[k].frame = written[k]
        BY <1>3, <1>4, <2>2 DEF InspectInv, IntactInv
      <3>2. k - 1 \in 0 .. n /\ k \in 0 .. n
        BY <1>4, <2>2
      <3> QED
        BY <1>7, <1>8, <1>13, <2>2, <3>1, <3>2
    <2> QED
      BY <1>4, <2>1, <2>2
  <1>15. \A k \in 1 .. Len(file') : LineOK(file[k])'
    BY <1>4, <1>7, <1>13, <1>14 DEF LineOK
  <1>16. FileInv'
    BY <1>7, <1>13, <1>15 DEF FileInv
  <1>17. IntactInv'
    BY <1>7, <1>13, <1>14 DEF IntactInv
  <1> QED
    BY <1>3, <1>16, <1>17 DEF InspectInv, ReportInv

\* A fault that puts lines in the file which are well formed.
LEMMA FaultFile ==
    ASSUME InspectInv, NEW rows \in Seq(Lines), Fault(rows),
           \A k \in 1 .. Len(rows) : LineOK(rows[k])
    PROVE  InspectInv'
  <1>1. /\ report = <<>> /\ faults' = faults + 1 /\ file' = rows
        /\ UNCHANGED <<written, kind, report>>
    BY DEF Fault
  <1>2. faults' \in Nat /\ faults' # 0
    BY <1>1 DEF InspectInv
  <1>3. \A l : LineOK(l)' <=> LineOK(l)
    BY <1>1 DEF LineOK, Upto
  <1>4. FileInv'
    BY <1>1, <1>3 DEF InspectInv, FileInv
  <1> QED
    BY <1>1, <1>2, <1>4 DEF InspectInv, IntactInv, ReportInv

LEMMA DropOK == ASSUME InspectInv, NEW k \in DOMAIN file, Drop(k) PROVE InspectInv'
  <1> DEFINE rows == [j \in 1 .. Len(file) - 1 |-> file[IF j < k THEN j ELSE j + 1]]
  <1>1. file \in Seq(Lines) /\ \A j \in 1 .. Len(file) : LineOK(file[j])
    BY DEF InspectInv, FileInv
  <1>2. Len(file) \in Nat /\ k \in 1 .. Len(file)
    BY <1>1
  <1>3. \A j \in 1 .. Len(file) - 1 : (IF j < k THEN j ELSE j + 1) \in 1 .. Len(file)
    BY <1>2
  <1>4. \A j \in 1 .. Len(file) - 1 : rows[j] \in Lines /\ LineOK(rows[j])
    BY <1>1, <1>3
  <1>5. rows \in Seq(Lines) /\ Len(rows) = Len(file) - 1
    BY <1>2, <1>4
  <1>6. Fault(rows)
    BY DEF Drop
  <1> HIDE DEF rows
  <1> QED
    BY <1>4, <1>5, <1>6, FaultFile

LEMMA SwapOK == ASSUME InspectInv, NEW k \in DOMAIN file, Swap(k) PROVE InspectInv'
  <1> DEFINE rows == [file EXCEPT ![k] = file[k + 1], ![k + 1] = file[k]]
  <1>1. file \in Seq(Lines) /\ \A j \in 1 .. Len(file) : LineOK(file[j])
    BY DEF InspectInv, FileInv
  <1>2. Len(file) \in Nat /\ k \in 1 .. Len(file) /\ k + 1 \in 1 .. Len(file) /\ Fault(rows)
    BY <1>1 DEF Swap
  <1>3. /\ rows \in Seq(Lines) /\ Len(rows) = Len(file)
        /\ \A j \in 1 .. Len(file) : rows[j] \in {file[k], file[k + 1], file[j]}
    BY <1>1, <1>2
  <1>4. \A j \in 1 .. Len(file) : LineOK(rows[j])
    BY <1>1, <1>2, <1>3
  <1> HIDE DEF rows
  <1> QED
    BY <1>2, <1>3, <1>4, FaultFile

LEMMA RepeatOK == ASSUME InspectInv, NEW k \in DOMAIN file, Repeat(k) PROVE InspectInv'
  <1> DEFINE a == SubSeq(file, 1, k)
             b == SubSeq(file, k, Len(file))
  <1>1. file \in Seq(Lines) /\ \A j \in 1 .. Len(file) : LineOK(file[j])
    BY DEF InspectInv, FileInv
  <1>2. Len(file) \in Nat /\ k \in 1 .. Len(file)
    BY <1>1
  <1>3. /\ a \in Seq(Lines) /\ Len(a) = k
        /\ \A j \in 1 .. k : a[j] = file[j]
    BY <1>1, <1>2
  <1>4. /\ b \in Seq(Lines) /\ Len(b) = Len(file) - k + 1
        /\ \A j \in 1 .. Len(file) - k + 1 : b[j] = file[k + j - 1]
    BY <1>1, <1>2
  <1>5. Fault(a \o b)
    BY DEF Repeat
  <1> HIDE DEF a, b
  <1>6. \A j \in 1 .. Len(b) : LineOK(b[j])
    <2>1. \A j \in 1 .. Len(file) - k + 1 : k + j - 1 \in 1 .. Len(file)
      BY <1>2
    <2> QED
      BY <1>1, <1>4, <2>1
  <1>7. \A j \in 1 .. Len(a) : LineOK(a[j])
    BY <1>1, <1>2, <1>3
  <1>8. /\ a \o b \in Seq(Lines)
        /\ \A j \in 1 .. Len(a \o b) : \/ j \in 1 .. Len(a) /\ (a \o b)[j] = a[j]
                                       \/ j - Len(a) \in 1 .. Len(b) /\ (a \o b)[j] = b[j - Len(a)]
    BY <1>2, <1>3, <1>4
  <1>9. \A j \in 1 .. Len(a \o b) : LineOK((a \o b)[j])
    BY <1>6, <1>7, <1>8
  <1> QED
    BY <1>5, <1>8, <1>9, FaultFile

LEMMA EditOK == ASSUME InspectInv, NEW k \in DOMAIN file, Edit(k) PROVE InspectInv'
  <1> DEFINE rows == [file EXCEPT ![k].frame = Plain]
  <1>1. file \in Seq(Lines) /\ \A j \in 1 .. Len(file) : LineOK(file[j])
    BY DEF InspectInv, FileInv
  <1>2. Len(file) \in Nat /\ k \in 1 .. Len(file) /\ Fault(rows)
    BY <1>1 DEF Edit
  <1>3. PICK l : l = [file[k] EXCEPT !.frame = Plain]
    OBVIOUS
  <1>4. l \in Lines /\ l.frame = Plain /\ l.prev = file[k].prev /\ l.hash = file[k].hash
    <2>1. file[k] \in Lines /\ Plain \in Texts
      BY <1>1, <1>2 DEF Texts
    <2> QED
      BY <1>3, <2>1 DEF Lines
  <1>5. LineOK(l)
    BY <1>1, <1>2, <1>4 DEF LineOK
  <1>6. rows = [file EXCEPT ![k] = l]
    BY <1>3
  <1> HIDE DEF rows
  <1>7. /\ rows \in Seq(Lines) /\ Len(rows) = Len(file)
        /\ \A j \in 1 .. Len(file) : rows[j] \in {l, file[j]}
    BY <1>1, <1>2, <1>4, <1>6
  <1>8. \A j \in 1 .. Len(file) : LineOK(rows[j])
    BY <1>1, <1>5, <1>7
  <1> QED
    BY <1>2, <1>7, <1>8, FaultFile

LEMMA GarbleOK == ASSUME InspectInv, Garble PROVE InspectInv'
  <1> DEFINE n == Len(file)
             rows == [file EXCEPT ![Len(file)].garbled = TRUE]
  <1>1. file \in Seq(Lines) /\ \A j \in 1 .. n : LineOK(file[j])
    BY DEF InspectInv, FileInv
  <1>2. n \in Nat /\ n \in 1 .. n /\ Fault(rows)
    BY <1>1 DEF Garble
  <1>3. PICK l, yes : yes \in BOOLEAN /\ yes = TRUE /\ l = [file[n] EXCEPT !.garbled = yes]
    OBVIOUS
  <1>4. l \in Lines /\ l.frame = file[n].frame /\ l.prev = file[n].prev /\ l.hash = file[n].hash
    <2>1. file[n] \in Lines
      BY <1>1, <1>2
    <2>2. yes \in BOOLEAN /\ l = [file[n] EXCEPT !.garbled = yes]
      BY <1>3
    <2> QED
      BY <2>1, <2>2 DEF Lines
  <1>5. LineOK(l)
    BY <1>1, <1>2, <1>4 DEF LineOK
  <1>6. rows = [file EXCEPT ![n] = l]
    BY <1>3
  <1> HIDE DEF rows, n
  <1>7. /\ rows \in Seq(Lines) /\ Len(rows) = n
        /\ \A j \in 1 .. n : rows[j] \in {l, file[j]}
    BY <1>1, <1>2, <1>4, <1>6 DEF n
  <1>8. \A j \in 1 .. n : LineOK(rows[j])
    BY <1>1, <1>5, <1>7
  <1> QED
    BY <1>2, <1>7, <1>8, FaultFile

\* The parts that speak of the file only, when the file stays as it is.
LEMMA SameFile ==
    ASSUME InspectInv, UNCHANGED <<written, file, faults>>
    PROVE  FileInv' /\ IntactInv' /\ faults' \in Nat
  <1>1. \A l : LineOK(l)' <=> LineOK(l)
    BY DEF LineOK, Upto
  <1>2. FileInv'
    BY <1>1 DEF InspectInv, FileInv
  <1>3. \A d : Upto(d)' = Upto(d)
    BY DEF Upto
  <1>4. IntactInv'
    BY <1>3 DEF InspectInv, IntactInv
  <1> QED
    BY <1>2, <1>4 DEF InspectInv

LEMMA InspectInvNext == InspectInv /\ [InspectNext]_inspectVars => InspectInv'
  <1> SUFFICES ASSUME InspectInv, [InspectNext]_inspectVars PROVE InspectInv'
    OBVIOUS
  <1>1. CASE Inspect
    <2>1. UNCHANGED <<written, file, kind, faults>>
      BY <1>1 DEF Inspect
    <2>2. FileInv' /\ IntactInv' /\ faults' \in Nat
      BY <2>1, SameFile
    <2>3. ReportInv'
      BY <1>1 DEF Inspect, ReportInv
    <2> QED
      BY <2>2, <2>3 DEF InspectInv
  <1>2. CASE UNCHANGED inspectVars
    <2>1. UNCHANGED <<written, file, kind, faults, report>>
      BY <1>2 DEF inspectVars
    <2>2. ReportInv'
      BY <2>1 DEF InspectInv, ReportInv
    <2> QED
      BY <2>1, <2>2, SameFile DEF InspectInv
  <1>3. CASE Done
    BY <1>2, <1>3 DEF Done
  <1> QED
    BY <1>1, <1>2, <1>3, LogFrameFile, DropOK, SwapOK, RepeatOK, EditOK, GarbleOK DEF InspectNext

-----------------------------------------------------------------------------
(* The inspector: what a verified chain says *)

LEMMA FirstFailure ==
    ASSUME NEW T \in SUBSET Nat, T # {}
    PROVE  \E m \in T : \A k \in T : m <= k
  <1>1. PICK m \in T : \A k \in T : ~ (<<k, m>> \in OpToRel(<, Nat))
    BY WFMin, NatLessThanWellFounded
  <1>2. \A k \in T : ~ (k < m)
    BY <1>1 DEF OpToRel
  <1> QED
    BY <1>2

\* A line whose hash is right holds the frame that the node wrote.
LEMMA VerifiedLine ==
    ASSUME InspectInv, VerifyTraceIntegrity(file), NEW k \in 1 .. Len(file)
    PROVE  /\ Len(file[k].prev) + 1 \in 1 .. Len(written)
           /\ Len(file[k].hash) = Len(file[k].prev) + 1
           /\ file[k].frame = written[Len(file[k].prev) + 1]
  <1>1. FileInv
    BY DEF InspectInv
  <1>2. PICK d \in 1 .. Len(written) : /\ file[k].prev = Upto(d - 1)
                                       /\ file[k].hash = Upto(d)
                                       /\ file[k].frame \in {written[d], Plain}
    BY <1>1 DEF FileInv, LineOK
  <1>3. Len(written) \in Nat /\ d \in 1 .. Len(written) /\ d - 1 \in 0 .. Len(written) /\ d \in 0 .. Len(written)
    BY <1>1, <1>2 DEF FileInv
  <1>4. /\ Upto(d - 1) \in Seq(Texts) /\ Len(Upto(d - 1)) = d - 1
        /\ Len(Upto(d)) = d /\ Upto(d)[d] = written[d]
    BY <1>1, <1>3, UptoIs
  <1>5. PICK t : t = JsText(file[k].frame)
    OBVIOUS
  <1>6. file[k].hash = Append(file[k].prev, t)
    BY <1>1, <1>5 DEF VerifyTraceIntegrity, HashOf, FileInv
  <1>7. written[d] = t
    <2>1. Append(Upto(d - 1), t)[d] = t
      BY <1>3, <1>4
    <2> QED
      BY <1>2, <1>4, <1>6, <2>1
  <1>8. file[k].frame = written[d]
    BY <1>2, <1>5, <1>7, PlainOK
  <1> QED
    BY <1>2, <1>3, <1>4, <1>8

\* In a verified chain each entry is the successor of the one before.
LEMMA VerifiedRun ==
    ASSUME InspectInv, VerifyTraceIntegrity(file), NEW n \in 1 .. Len(file)
    PROVE  Len(file[n].prev) = Len(file[1].prev) + n - 1
  <1>1. Len(file) \in Nat /\ DOMAIN file = 1 .. Len(file)
    BY DEF InspectInv, FileInv
  <1> DEFINE D(k) == Len(file[k].prev)
             bad == {k \in 1 .. Len(file) : D(k) # D(1) + k - 1}
  <1>2. \A k \in 1 .. Len(file) : D(k) \in Nat /\ (k < Len(file) => D(k + 1) = D(k) + 1)
    <2> SUFFICES ASSUME NEW k \in 1 .. Len(file)
                 PROVE  D(k) \in Nat /\ (k < Len(file) => D(k + 1) = D(k) + 1)
      OBVIOUS
    <2>1. D(k) + 1 \in 1 .. Len(written) /\ Len(file[k].hash) = D(k) + 1
      BY VerifiedLine
    <2>2. file[k] \in Lines
      BY DEF InspectInv, FileInv
    <2>3. file[k].prev \in Seq(Texts)
      BY <2>2 DEF Lines
    <2>4. k < Len(file) => file[k + 1].prev = file[k].hash
      BY <1>1 DEF VerifyTraceIntegrity
    <2> QED
      BY <2>1, <2>3, <2>4
  <1>3. ASSUME bad # {} PROVE FALSE
    <2>1. bad \in SUBSET Nat
      BY <1>1
    <2>2. PICK m \in bad : \A k \in bad : m <= k
      BY <1>3, <2>1, FirstFailure
    <2> HIDE DEF D
    <2>3. m \in 1 .. Len(file) /\ D(m) # D(1) + m - 1 /\ m # 1
      BY <1>1, <1>2, <2>2
    <2>4. m - 1 \in 1 .. Len(file) /\ m - 1 < Len(file) /\ (m - 1) + 1 = m /\ m - 1 \notin bad
      BY <1>1, <2>2, <2>3
    <2>5. D(m) = D(m - 1) + 1
      BY <1>2, <2>4
    <2>6. D(m - 1) = D(1) + (m - 1) - 1
      BY <2>4
    <2>7. D(1) \in Nat
      BY <1>1, <1>2, <2>4
    <2> QED
      BY <2>3, <2>5, <2>6, <2>7
  <1> QED
    BY <1>3

LEMMA VerifiedSegment ==
    ASSUME InspectInv, VerifyTraceIntegrity(file), file # <<>>
    PROVE  /\ IsSegment
           /\ file[1].prev = ChainStart =>
                /\ Len(file) <= Len(written)
                /\ \A k \in 1 .. Len(file) : file[k].frame = written[k]
  <1>1. /\ file \in Seq(Lines) /\ Len(file) \in Nat \ {0} /\ DOMAIN file = 1 .. Len(file)
        /\ Len(written) \in Nat
    BY DEF InspectInv, FileInv
  <1>2. PICK d : d = Len(file[1].prev)
    OBVIOUS
  <1>3. /\ d \in Nat
        /\ \A k \in 1 .. Len(file) : /\ d + k \in 1 .. Len(written)
                                     /\ file[k].frame = written[d + k]
    <2>1. file[1] \in Lines
      BY <1>1
    <2>2. file[1].prev \in Seq(Texts)
      BY <2>1 DEF Lines
    <2>3. d \in Nat
      BY <1>2, <2>2
    <2>4. ASSUME NEW k \in 1 .. Len(file)
          PROVE  d + k \in 1 .. Len(written) /\ file[k].frame = written[d + k]
      <3>1. Len(file[k].prev) = d + k - 1
        BY <1>2, VerifiedRun
      <3>2. Len(file[k].prev) + 1 = d + k
        BY <1>1, <2>3, <3>1
      <3> QED
        BY <3>2, VerifiedLine
    <2> QED
      BY <2>3, <2>4
  <1>4. d + Len(file) \in 1 .. Len(written)
    BY <1>1, <1>3
  <1>5. IsSegment
    <2>1. d \in 0 .. Len(written) /\ Len(file) <= Len(written) - d
      BY <1>1, <1>3, <1>4
    <2>2. \A k \in DOMAIN file : file[k].frame = written[d + k]
      BY <1>1, <1>3
    <2> QED
      BY <2>1, <2>2 DEF IsSegment
  <1>6. file[1].prev = ChainStart => d = 0
    BY <1>2 DEF ChainStart
  <1> QED
    BY <1>1, <1>3, <1>4, <1>5, <1>6

-----------------------------------------------------------------------------
(* The inspector: what its answers say *)

\* The trace command accepts an audit log only if its chain is verified.
LEMMA AcceptedVerified ==
    ASSUME NEW a, a.command = "trace",
           \/ Execute(file, TRUE, a).exit # 2
           \/ Execute(file, TRUE, a).verdict = "PASS"
    PROVE  Loads(file) /\ VerifyTraceIntegrity(file)
  <1>1. ASSUME ~Loads(file) PROVE FALSE
    <2>1. PICK e : e = Execute(file, TRUE, a)
      OBVIOUS
    <2>2. e = [exit |-> 2, verdict |-> None]
      BY <1>1, <2>1 DEF Execute
    <2>3. e.exit # 2 \/ e.verdict = "PASS"
      BY <2>1
    <2> QED
      BY <2>2, <2>3 DEF None
  <1>2. Execute(file, TRUE, a) = HandleTrace(file, TRUE, a)
    BY <1>1 DEF Execute
  <1>3. PICK fs : fs = FramesOf(file)
    OBVIOUS
  <1>4. PICK c : c = Compliance(file, fs, TRUE)
    OBVIOUS
  <1>5. c.integrity = IF VerifyTraceIntegrity(file) THEN "verified" ELSE "broken"
    BY <1>4 DEF Compliance
  <1>6. CASE HandleTrace(file, TRUE, a).exit # 2
    <2>1. ~Breaches(file, TRUE, a)
      BY <1>6 DEF HandleTrace
    <2>2. c.integrity = "verified"
      BY <1>3, <1>4, <2>1 DEF Breaches
    <2> QED
      BY <1>1, <1>5, <2>2
  <1>7. CASE HandleTrace(file, TRUE, a).verdict = "PASS"
    <2>1. AuditSummary(c, fs, a.profile).verdict = "PASS"
      BY <1>3, <1>4, <1>7 DEF HandleTrace, None
    <2>2. c.integrity = "verified"
      BY <2>1 DEF AuditSummary
    <2> QED
      BY <1>1, <1>5, <2>2
  <1> QED
    BY <1>2, <1>6, <1>7

LEMMA ReportEntry ==
    ASSUME InspectInv, NEW a \in DOMAIN report
    PROVE  a \in Args /\ report[a] = Execute(file, kind = "audit", a)
  <1>1. DOMAIN report # {}
    OBVIOUS
  <1> QED
    BY <1>1 DEF InspectInv, ReportInv

LEMMA InvAccepts == InspectInv => AcceptedIsSegment
  <1> SUFFICES ASSUME InspectInv, NEW a \in DOMAIN report, kind = "audit", a.command = "trace",
                      report[a].exit # 2 \/ report[a].verdict = "PASS"
               PROVE  IsSegment
    BY DEF AcceptedIsSegment
  <1>1. report[a] = Execute(file, TRUE, a)
    BY ReportEntry
  <1>2. Loads(file) /\ VerifyTraceIntegrity(file)
    BY <1>1, AcceptedVerified
  <1> QED
    BY <1>2, VerifiedSegment DEF Loads

\* An action that the node let through in an outage is seen by the continuity check.
LEMMA OutageSeen ==
    ASSUME InspectInv, NEW k \in 1 .. Len(file), Len(file) <= Len(written),
           \A j \in 1 .. Len(file) : file[j].frame = written[j],
           ActsWhile(k, {"FAILED", "UNSTABLE"}), ~IsRecovery(written[k])
    PROVE  Unsafe(FramesOf(file), k)
  <1>1. /\ Len(file) \in Nat /\ Len(written) \in Nat /\ DOMAIN file = 1 .. Len(file)
        /\ written \in Seq(TraceFrames)
    BY DEF InspectInv, FileInv
  <1>2. PICK fs : fs = FramesOf(file)
    OBVIOUS
  <1>3. \A j \in 1 .. Len(file) : fs[j] = written[j]
    BY <1>1, <1>2 DEF FramesOf
  <1>4. \A j \in 1 .. k - 1 : /\ fs[j] = written[j]
                              /\ fs[j].status # None => fs[j].type = "orientation"
    <2> SUFFICES ASSUME NEW j \in 1 .. k - 1
                 PROVE  /\ fs[j] = written[j]
                        /\ FrameOK(written[j])
      BY DEF FrameOK
    <2>1. j \in 1 .. Len(file) /\ j \in 1 .. Len(written)
      BY <1>1
    <2>2. written[j] \in TraceFrames
      BY <1>1, <2>1
    <2> QED
      BY <1>3, <2>1, <2>2, FramesOK
  <1>5. PICK j \in 1 .. k - 1 : /\ fs[j].status \in {"FAILED", "UNSTABLE"}
                                /\ \A i \in j + 1 .. k - 1 : fs[i].status = None
    <2>1. PICK j \in 1 .. k - 1 : /\ written[j].status \in {"FAILED", "UNSTABLE"}
                                  /\ \A i \in j + 1 .. k - 1 : written[i].status = None
      BY DEF ActsWhile
    <2>2. \A i \in j + 1 .. k - 1 : i \in 1 .. k - 1
      BY <1>1
    <2>3. fs[j].status \in {"FAILED", "UNSTABLE"}
      BY <1>4, <2>1
    <2>4. \A i \in j + 1 .. k - 1 : fs[i].status = None
      BY <1>4, <2>1, <2>2
    <2> QED
      BY <2>3, <2>4
  <1> DEFINE said == {i \in 1 .. k - 1 : fs[i].type = "orientation" /\ fs[i].status # None}
  <1>6. j \in said /\ \A i \in said : i <= j
    BY <1>1, <1>4, <1>5 DEF None
  <1>7. PICK m : m = CHOOSE i \in said : \A l \in said : l <= i
    OBVIOUS
  <1>8. m \in said /\ \A i \in said : i <= m
    BY <1>6, <1>7
  <1>9. m = j
    BY <1>1, <1>6, <1>8
  <1>10. StateBefore(fs, k) = fs[j].status
    BY <1>6, <1>7, <1>9 DEF StateBefore
  <1>11. fs[k] = written[k]
    BY <1>3
  <1> QED
    BY <1>2, <1>5, <1>10, <1>11 DEF Unsafe, ActsWhile

LEMMA InvOutage == InspectInv => OutageRespected
  <1> SUFFICES ASSUME InspectInv, NEW a \in DOMAIN report, kind = "audit", a.strict, a.continuity,
                      report[a].exit # 2, file[1].prev = ChainStart,
                      NEW k \in DOMAIN file, ActsWhile(k, {"FAILED", "UNSTABLE"}), ~IsRecovery(written[k])
               PROVE  FALSE
    BY DEF OutageRespected
  <1>1. a \in Args /\ report[a] = Execute(file, TRUE, a)
    BY ReportEntry
  <1>2. a.command = "trace"
    BY <1>1 DEF Args
  <1>3. Loads(file) /\ VerifyTraceIntegrity(file)
    BY <1>1, <1>2, AcceptedVerified
  <1>4. /\ Len(file) <= Len(written) /\ k \in 1 .. Len(file)
        /\ \A j \in 1 .. Len(file) : file[j].frame = written[j]
    BY <1>3, VerifiedSegment DEF Loads, InspectInv, FileInv
  <1>5. Unsafe(FramesOf(file), k)
    BY <1>4, OutageSeen
  <1>6. k \in DOMAIN FramesOf(file)
    BY DEF FramesOf
  <1>7. Breaches(file, TRUE, a)
    BY <1>5, <1>6 DEF Breaches
  <1>8. Execute(file, TRUE, a) = HandleTrace(file, TRUE, a)
    BY <1>2, <1>3 DEF Execute
  <1>9. HandleTrace(file, TRUE, a).exit = 2
    BY <1>7 DEF HandleTrace
  <1> QED
    BY <1>1, <1>8, <1>9

\* A log as the node wrote it, without whole floats, is verified.
LEMMA IntactVerified ==
    ASSUME InspectInv, faults = 0, ~Has(written, LAMBDA f : f.whole)
    PROVE  VerifyTraceIntegrity(file) /\ FramesOf(file) = written
  <1>1. /\ Len(file) = Len(written) /\ Len(written) \in Nat
        /\ written \in Seq(TraceFrames) /\ DOMAIN written = 1 .. Len(written)
        /\ DOMAIN file = 1 .. Len(written)
        /\ \A k \in 1 .. Len(written) : /\ file[k].prev = Upto(k - 1)
                                        /\ file[k].hash = Upto(k)
                                        /\ file[k].frame = written[k]
    BY DEF InspectInv, FileInv, IntactInv
  <1>2. FramesOf(file) = written
    BY <1>1 DEF FramesOf
  <1>3. ASSUME NEW k \in 1 .. Len(written)
        PROVE  file[k].hash = HashOf(file[k].prev, JsText(file[k].frame))
    <2>1. FrameOK(written[k]) /\ written[k] \in Texts
      BY <1>1, FramesOK DEF Texts
    <2>2. ~written[k].whole
      BY <1>1 DEF Has
    <2>3. JsText(written[k]) = written[k]
      BY <2>1, <2>2 DEF FrameOK
    <2>4. k - 1 \in 0 .. Len(written) /\ k \in 0 .. Len(written) /\ k \in Nat
      BY <1>1
    <2>5. /\ Upto(k - 1) \in Seq(Texts) /\ Len(Upto(k - 1)) = k - 1
          /\ \A i \in 1 .. k - 1 : Upto(k - 1)[i] = written[i]
          /\ Upto(k) \in Seq(Texts) /\ Len(Upto(k)) = k
          /\ \A i \in 1 .. k : Upto(k)[i] = written[i]
      BY <2>4, UptoIs DEF InspectInv
    <2>6. PICK p, q, w : p = Upto(k - 1) /\ q = Upto(k) /\ w = written[k]
      OBVIOUS
    <2>7. Append(p, w) = q
      <3>1. PICK r : r = Append(p, w)
        OBVIOUS
      <3>2. r \in Seq(Texts) /\ Len(r) = k /\ r[k] = w /\ \A i \in 1 .. k - 1 : r[i] = p[i]
        BY <2>1, <2>4, <2>5, <2>6, <3>1
      <3>3. \A i \in 1 .. k : r[i] = q[i]
        BY <2>4, <2>5, <2>6, <3>2
      <3>4. q \in Seq(Texts) /\ Len(q) = k
        BY <2>5, <2>6
      <3> QED
        BY <3>1, <3>2, <3>3, <3>4
    <2> QED
      BY <1>1, <2>3, <2>6, <2>7 DEF HashOf
  <1>4. \A k \in 1 .. Len(written) : k < Len(file) => file[k + 1].prev = file[k].hash
    <2> SUFFICES ASSUME NEW k \in 1 .. Len(written), k < Len(file)
                 PROVE  file[k + 1].prev = file[k].hash
      OBVIOUS
    <2>1. k + 1 \in 1 .. Len(written) /\ (k + 1) - 1 = k
      BY <1>1
    <2> QED
      BY <1>1, <2>1
  <1> QED
    BY <1>1, <1>2, <1>3, <1>4 DEF VerifyTraceIntegrity

LEMMA InvNeutral == InspectInv => RecordingIsNeutral
  <1> SUFFICES ASSUME InspectInv, NEW a \in DOMAIN report, kind = "audit", faults = 0, a.profile = None,
                      ~Has(written, LAMBDA f : f.whole), ExtractIdentity(written)
               PROVE  report[a].exit = Execute(file, FALSE, a).exit
    BY DEF RecordingIsNeutral
  <1>1. a \in Args /\ report[a] = Execute(file, TRUE, a)
    BY ReportEntry
  <1>2. VerifyTraceIntegrity(file) /\ FramesOf(file) = written
    BY IntactVerified
  <1>3. PICK c : c = Compliance(file, FramesOf(file), TRUE)
    OBVIOUS
  <1>4. c.integrity = "verified" /\ c.identity /\ c.determinism
    BY <1>2, <1>3 DEF Compliance, VerifyReplayDeterminism
  <1>5. Breaches(file, TRUE, a) <=> Breaches(file, FALSE, a)
    BY <1>3, <1>4 DEF Breaches
  <1>6. HandleTrace(file, TRUE, a).exit = HandleTrace(file, FALSE, a).exit
    BY <1>5 DEF HandleTrace
  <1>7. CASE Loads(file) /\ a.command = "trace"
    BY <1>1, <1>6, <1>7 DEF Execute
  <1>8. CASE ~(Loads(file) /\ a.command = "trace")
    BY <1>1, <1>8 DEF Execute
  <1> QED
    BY <1>7, <1>8

-----------------------------------------------------------------------------
(* The inspector: theorems *)

\* The lines of the file stay lines of the node, whatever is dropped, swapped,
\* repeated, edited or garbled, and the report is computed from the file.
THEOREM FileStaysLinked == InspectSpec => []InspectInv
  <1> QED
    BY InspectInvInit, InspectInvNext, PTL DEF InspectSpec

\* An audit log that the trace command accepts is a contiguous part of what the
\* node wrote (verifyTraceIntegrity, execute), for logs and tampering of any length.
THEOREM AcceptedLogsAreSegments == InspectSpec => []AcceptedIsSegment
  <1> QED
    BY FileStaysLinked, InvAccepts, PTL

\* trace --continuity --strict overlooks no action while FAILED or UNSTABLE is the status
\* declared last, other than recovery (handleTrace), whatever statuses come and go.
THEOREM OutagesAreRespected == InspectSpec => []OutageRespected
  <1> QED
    BY FileStaysLinked, InvOutage, PTL

\* Recording alone never breaks a contract (summarize, execute).
THEOREM RecordingStaysNeutral == InspectSpec => []RecordingIsNeutral
  <1> QED
    BY FileStaysLinked, InvNeutral, PTL

=============================================================================
