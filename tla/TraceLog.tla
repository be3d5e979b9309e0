------------------------------ MODULE TraceLog ------------------------------
(***************************************************************************)
(* The audit log of the LTP Rust node: TraceLogger (append, hash chain,    *)
(* recovery at startup; nodes/ltp-rust-node/src/trace.rs) and the offline  *)
(* checker verify_trace (src/bin/verify_trace.rs), with failing writes and *)
(* with crashes at any point of an append.                                 *)
(*                                                                         *)
(* SHA-256 is taken to be collision free, so the hash of an entry is the   *)
(* sequence of frames it commits to.                                       *)
(***************************************************************************)
EXTENDS Integers, Sequences, FiniteSets

CONSTANTS
    Writers,     \* connection tasks that call log()
    MaxCalls,    \* bound: calls of log() per task
    MaxCrashes,  \* bound: crashes of the node
    Garbled,     \* text that is not exactly one JSON object
    Empty        \* no text

Frames == Writers \X (1 .. MaxCalls)
Entries == [i : Nat, prev : Seq(Frames), frame : Frames, hash : Seq(Frames)]

ASSUME TraceAssumption ==
    /\ MaxCalls \in Nat
    /\ MaxCrashes \in Nat
    /\ Garbled # Empty
    /\ Garbled \notin Entries
    /\ Empty \notin Entries

VARIABLES
    lines,     \* the file: its newline-terminated lines
    open,      \* the file: the text after the last newline
    last_hash, \* TraceLogger.last_hash
    counter,   \* TraceLogger.counter
    queue,     \* tasks at the last_hash mutex, in order; the head holds it
    stage,        \* where each task is in log()
    entry,     \* the TraceEntry the holder has built
    node,      \* "up", "down", or "refused": startup failed in recover_state
    calls,     \* calls of log() so far, per task
    crashes,   \* crashes so far
    acked,     \* history: frames for which log() returned Ok
    damaged    \* history: a write failed, or a crash cut a line short

fileVars == <<lines, open>>
memVars == <<last_hash, counter, queue, stage, entry>>
logVars == <<fileVars, memVars, node, calls, crashes, acked, damaged>>

Genesis == <<>>
NoEntry == [i |-> 0, prev |-> <<>>, frame |-> <<>>, hash |-> <<>>]
InLog == {"waiting", "body", "newline"}

\* The state is well formed: what the file holds is entries and torn text.
LogTypeOK ==
    /\ lines \in Seq(Entries \cup {Garbled})
    /\ open \in Entries \cup {Garbled, Empty}
    /\ last_hash \in Seq(Frames)
    /\ counter \in Nat
    /\ queue \in Seq(Writers)
    /\ stage \in [Writers -> InLog \cup {"idle"}]
    /\ entry \in Entries \cup {NoEntry}
    /\ node \in {"up", "down", "refused"}
    /\ calls \in [Writers -> 0 .. MaxCalls]
    /\ crashes \in 0 .. MaxCrashes
    /\ acked \subseteq Frames
    /\ damaged \in BOOLEAN

LogInit ==
    /\ lines = <<>>
    /\ open = Empty
    /\ last_hash = Genesis
    /\ counter = 0
    /\ queue = <<>>
    /\ stage = [w \in Writers |-> "idle"]
    /\ entry = NoEntry
    /\ node = "up"
    /\ calls = [w \in Writers |-> 0]
    /\ crashes = 0
    /\ acked = {}
    /\ damaged = FALSE

-----------------------------------------------------------------------------
(* TraceLogger::log *)

Holds(w) == queue # <<>> /\ Head(queue) = w

\* A task calls log() and queues for the locks (tokio mutexes are fair).
Log(w) ==
    /\ node = "up"
    /\ stage[w] = "idle"
    /\ calls[w] < MaxCalls
    /\ calls' = [calls EXCEPT ![w] = @ + 1]
    /\ queue' = Append(queue, w)
    /\ stage' = [stage EXCEPT ![w] = "waiting"]
    /\ UNCHANGED <<fileVars, last_hash, counter, entry, node, crashes, acked,
                   damaged>>

\* Mutant: last_hash is not advanced with the counter.
SealKeepsHash(w) ==
    LET frame == <<w, calls[w]>>
    IN  /\ Holds(w)
        /\ stage[w] = "waiting"
        /\ entry' = [i |-> counter, prev |-> last_hash, frame |-> frame,
                     hash |-> Append(last_hash, frame)]
        /\ counter' = counter + 1
        /\ stage' = [stage EXCEPT ![w] = "body"]
        /\ UNCHANGED <<fileVars, last_hash, queue, node, calls, crashes,
                       acked, damaged>>

\* The holder builds its entry; counter and last_hash move on before
\* anything is written.
Seal(w) ==
    LET frame == <<w, calls[w]>>
        hash  == Append(last_hash, frame)
    IN  /\ Holds(w)
        /\ stage[w] = "waiting"
        /\ entry' = [i |-> counter, prev |-> last_hash, frame |-> frame,
                     hash |-> hash]
        /\ counter' = counter + 1
        /\ last_hash' = hash
        /\ stage' = [stage EXCEPT ![w] = "body"]
        /\ UNCHANGED <<fileVars, queue, node, calls, crashes, acked, damaged>>

\* log() returns and its guards are dropped.
Return(w) ==
    /\ queue' = Tail(queue)
    /\ stage' = [stage EXCEPT ![w] = "idle"]
    /\ entry' = NoEntry
    /\ UNCHANGED <<last_hash, counter>>

\* The file is open for append: text lands after whatever is there.
AppendText(t) == IF open = Empty THEN t ELSE Garbled

WriteBody(w) ==
    /\ Holds(w)
    /\ stage[w] = "body"
    /\ open' = AppendText(entry)
    /\ stage' = [stage EXCEPT ![w] = "newline"]
    /\ UNCHANGED <<lines, last_hash, counter, queue, entry, node, calls,
                   crashes, acked, damaged>>

\* Mutant: the error path does not release the locks.
BodyFailsKeepsLock(w) ==
    /\ Holds(w)
    /\ stage[w] = "body"
    /\ open' \in {open, Garbled}
    /\ damaged' = TRUE
    /\ stage' = [stage EXCEPT ![w] = "idle"]
    /\ entry' = NoEntry
    /\ UNCHANGED <<lines, last_hash, counter, queue, node, calls, crashes,
                   acked>>

\* write_all fails with nothing written, or with a part of the line.
BodyFails(w) ==
    /\ Holds(w)
    /\ stage[w] = "body"
    /\ open' \in {open, Garbled}
    /\ damaged' = TRUE
    /\ Return(w)
    /\ UNCHANGED <<lines, node, calls, crashes, acked>>

\* The newline is written and flushed: log() returns Ok.
WriteNewline(w) ==
    /\ Holds(w)
    /\ stage[w] = "newline"
    /\ lines' = Append(lines, open)
    /\ open' = Empty
    /\ acked' = acked \cup {entry.frame}
    /\ Return(w)
    /\ UNCHANGED <<node, calls, crashes, damaged>>

NewlineFails(w) ==
    /\ Holds(w)
    /\ stage[w] = "newline"
    /\ damaged' = TRUE
    /\ Return(w)
    /\ UNCHANGED <<fileVars, node, calls, crashes, acked>>

-----------------------------------------------------------------------------
(* Crash, and TraceLogger::new at the next start *)

\* The process ends wherever its tasks are; the write it was making may
\* have put a part of the line into the file.
Crash ==
    /\ node = "up"
    /\ crashes < MaxCrashes
    /\ crashes' = crashes + 1
    /\ node' = "down"
    /\ open' \in {open} \cup
                 (IF \E w \in Writers : stage[w] = "body" THEN {Garbled} ELSE {})
    /\ damaged' = (damaged \/ open' # Empty)
    /\ queue' = <<>>
    /\ stage' = [w \in Writers |-> "idle"]
    /\ entry' = NoEntry
    /\ UNCHANGED <<lines, last_hash, counter, calls, acked>>

\* The lines of the file, as a reader sees them: a missing final newline
\* makes no difference.
Text == IF open = Empty THEN lines ELSE Append(lines, open)

\* Mutant: the final newline is not skipped, so the last line looks blank.
RestartSeesBlankLine ==
    /\ node = "down"
    /\ IF open = Empty
       THEN node' = "up" /\ last_hash' = Genesis /\ counter' = 0
       ELSE IF open = Garbled
            THEN node' = "refused" /\ UNCHANGED <<last_hash, counter>>
            ELSE /\ node' = "up"
                 /\ last_hash' = open.hash
                 /\ counter' = open.i + 1
    /\ UNCHANGED <<fileVars, queue, stage, entry, calls, crashes, acked, damaged>>

\* recover_state resumes from the last line.
Restart ==
    /\ node = "down"
    /\ IF Text = <<>>
       THEN node' = "up" /\ last_hash' = Genesis /\ counter' = 0
       ELSE LET last == Text[Len(Text)]
            IN  IF last = Garbled
                THEN node' = "refused" /\ UNCHANGED <<last_hash, counter>>
                ELSE /\ node' = "up"
                     /\ last_hash' = last.hash
                     /\ counter' = last.i + 1
    /\ UNCHANGED <<fileVars, queue, stage, entry, calls, crashes, acked, damaged>>

-----------------------------------------------------------------------------
Step(w) ==
    Seal(w) \/ WriteBody(w) \/ BodyFails(w) \/ WriteNewline(w) \/ NewlineFails(w)

LogNext ==
    \/ \E w \in Writers : Log(w) \/ Step(w)
    \/ Crash
    \/ Restart

LogSpec == LogInit /\ [][LogNext]_logVars

\* The runtime goes on with a task that can, and writes complete or fail.
LogFairSpec == LogSpec /\ \A w \in Writers : WF_logVars(Step(w))

-----------------------------------------------------------------------------
(* verify_trace *)

\* Mutant: a line that does not parse is skipped like a blank one.
VerifyLineLenient(n) ==
    LET e == Text[n]
        prev_hash == IF n = 1 THEN Genesis ELSE Text[n - 1].hash
    IN  \/ e = Garbled
        \/ /\ n > 1 => Text[n - 1] # Garbled
           /\ e.i = n - 1
           /\ e.prev = prev_hash
           /\ e.hash = Append(prev_hash, e.frame)

\* Line n carries the next index, the hash of the line before it, and the
\* hash of its own frame on top of that.
VerifyLine(n) ==
    LET e == Text[n]
        prev_hash == IF n = 1 THEN Genesis ELSE Text[n - 1].hash
    IN  /\ e # Garbled
        /\ e.i = n - 1
        /\ e.prev = prev_hash
        /\ e.hash = Append(prev_hash, e.frame)

Verified == \A n \in 1 .. Len(Text) : VerifyLine(n)

-----------------------------------------------------------------------------
(* Properties *)

Recorded == {Text[n].frame : n \in {m \in 1 .. Len(Text) : Text[m] # Garbled}}

\* Concurrent writers and clean restarts never break the chain: as long as
\* no write has failed and no crash has cut a line short, verify_trace
\* accepts the file, at every moment.
CleanLogVerifies == ~damaged => Verified

\* An accepted file is complete: whatever failed or crashed before, a file
\* that verify_trace accepts holds every frame whose log() returned Ok.
VerifiedLogIsComplete == Verified => acked \subseteq Recorded

\* Among the lines that parse, indices increase and the frames of one task
\* are in the order it logged them, even across failed writes and restarts.
RecordsInOrder ==
    \A n \in 1 .. Len(Text) : \A m \in 1 .. n - 1 :
        Text[m] # Garbled /\ Text[n] # Garbled =>
            /\ Text[m].i < Text[n].i
            /\ Text[m].frame[1] = Text[n].frame[1] =>
                   Text[m].frame[2] < Text[n].frame[2]

\* Every call of log() returns, whichever writes fail: no error path keeps
\* the locks, and no task starves at them.
LogReturns == \A w \in Writers : stage[w] = "waiting" ~> stage[w] = "idle"
=============================================================================
