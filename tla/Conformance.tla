---------------------------- MODULE Conformance ----------------------------
(***************************************************************************)
(* The verifiers of the repository judge one capture of LTP frames side by *)
(* side: the HTTP endpoint (conformanceVerifier.ts), the conformance kit   *)
(* (verify.ts) and the SDK's self test (selfTest.ts).  Each reads the      *)
(* capture frame by frame into a state of its own and gives a verdict at   *)
(* the end.  Around them, the kit's commands sum captures up in an exit    *)
(* code and a badge, ltp:verify and conformance:report write one report    *)
(* file, and ltp:badge reads it.                                           *)
(*                                                                         *)
(* A frame is reduced to what the verifiers look at.  Identifiers are      *)
(* numbered in the order in which a capture first uses them, since they    *)
(* are only compared; a frame without a string for its identifier has      *)
(* NoId, and the name the kit makes up for it is taken to be nobody's      *)
(* else.  A number 0.1 in place of the version "0.1" is "number".          *)
(* Verdicts depend on whether there are errors or warnings, never on how   *)
(* many, so each list is a Boolean.                                        *)
(***************************************************************************)
EXTENDS Integers, Sequences, FiniteSets

CONSTANTS
    Senders,      \* values of a frame's from field
    MAX_FRAMES,   \* limit of the HTTP endpoint (5000 in the code)
    MaxLength,    \* bound: frames in the captures of a directory
    MaxCaptures,  \* bound: captures in a directory
    MaxOdd        \* bound: odd frames in a directory

ASSUME ConformanceAssumption ==
    /\ "global" \in Senders
    /\ MAX_FRAMES \in Nat \ {0}
    /\ MaxLength \in Nat /\ MaxCaptures \in Nat /\ MaxOdd \in Nat

VARIABLES
    capture,   \* the capture being read: index, names in use, what its name promises
    http,      \* state of verifyConformance
    kit,       \* state of verifyFrames
    self,      \* state of runSelfTest
    verdict,   \* the verdicts on the last capture, or empty
    batch,     \* what verifyDirectoryReports has collected
    outcome,   \* what the kit's last command left: exit code, badge, suite status
    artifact,  \* what artifacts/conformance-report.json holds, or empty
    svg        \* artifacts/ltp-badge.svg

conformanceVars == <<capture, http, kit, self, verdict, batch, outcome, artifact, svg>>

NoId == 0
NoTs == -1
Nothing == "none"

\* Besides these, "other" is a type the protocol does not know, "untyped" one that
\* is not a string, and "scalar" an entry that is not an object at all.
FRAME_TYPES == {"hello", "heartbeat", "orientation",
                "route_request", "route_response", "focus_snapshot"}

\* Fresh, valid frames of known type for a capture that uses the identifiers 1..top.  2
\* branches stand for two or more.
FreshFrames(top) ==
    LET Shape(types, seqs, branches) ==
            [type : types, id : {top + 1}, from : {"global"}, ts : {0}, v : {"0.1"},
             payload : {TRUE}, seq : seqs, branches : branches]
    IN  Shape({"heartbeat"}, 0 .. 1, {0})
          \cup Shape({"route_response"}, {0}, {2})
          \cup Shape(FRAME_TYPES \ {"heartbeat", "route_response"}, {0}, {0})

\* Such a frame with one thing odd: no identifier or the last one again, by the
\* same or another sender, another or no timestamp, a bad version, a payload that
\* breaks the schema, too few branches, no known type, no object at all.
With(f, field, values) == {[f EXCEPT ![field] = x] : x \in values}

ScalarFrame == [type |-> "scalar", id |-> NoId, from |-> "global", ts |-> NoTs, v |-> "bad",
                payload |-> FALSE, seq |-> 0, branches |-> 0]

OddVariants(f, top) ==
         With(f, "from", Senders)
    \cup With([f EXCEPT !.id = NoId], "from", Senders)
    \cup With([f EXCEPT !.id = top], "from", Senders)
    \cup With(f, "ts", {NoTs, 1})
    \cup With(f, "v", {"number", "bad"})
    \cup With(f, "type", {"other", "untyped"})
    \cup With([f EXCEPT !.payload = FALSE], "branches", {0})
    \cup (IF f.type = "route_response" THEN With(f, "branches", 0 .. 1) ELSE {ScalarFrame})

OddFrames(top) == UNION {OddVariants(f, top) : f \in FreshFrames(top)}

IsLTPFrame(f) ==
    /\ f.type \in FRAME_TYPES
    /\ f.v = "0.1"
    /\ f.id # NoId
    /\ f.ts # NoTs
    /\ f.payload

-----------------------------------------------------------------------------
(* src/server/conformanceVerifier.ts *)

HttpStart == [err |-> FALSE, warn |-> FALSE, semantic |-> FALSE, last |-> NoTs, seen |-> {}]

Regresses(s, f) == f.ts # NoTs /\ s.last # NoTs /\ f.ts < s.last

HttpSeen(s, f) == IF f.id = NoId THEN s.seen ELSE s.seen \cup {<<f.from, f.id>>}

HttpFrame(s, f, i) ==
    LET noHello == i = 0 /\ f.type # "hello"
        name    == <<f.from, f.id>>
    IN  [err      |-> \/ s.err
                      \/ f.id = NoId
                      \/ noHello
                      \/ f.v # "0.1"
                      \/ f.ts = NoTs
                      \/ f.type \in {"untyped", "scalar"}
                      \/ f.type \in FRAME_TYPES /\ ~IsLTPFrame(f),
         warn     |-> \/ s.warn
                      \/ f.id # NoId /\ name \in s.seen
                      \/ Regresses(s, f)
                      \/ f.type = "other",
         semantic |-> s.semantic \/ noHello \/ Regresses(s, f),
         last     |-> IF f.ts = NoTs THEN s.last ELSE f.ts,
         seen     |-> HttpSeen(s, f)]

HttpStatus(s, n) ==
    IF n = 0 THEN 400
    ELSE IF n > MAX_FRAMES THEN 413
    ELSE IF ~s.err THEN 200
    ELSE IF s.semantic THEN 422 ELSE 400

\* POST /conformance/verify answers with the endpoint's status if the body arrives
\* whole.  A chunk that takes it past MAX_BODY_BYTES ends the request, whatever was
\* in it, and so does a connection that breaks before the end.
Bodies == {"whole", "large", "broken"}

PostVerify(body, status) ==
    CASE body = "whole"  -> status
      [] body = "large"  -> 413
      [] body = "broken" -> 500

-----------------------------------------------------------------------------
(* src/tools/conformance-kit/src/verify.ts *)

KitStart == [err |-> FALSE, warn |-> FALSE, last |-> NoTs, seen |-> {}, met |-> {}]

NormalizeFrame(f, i) ==
    [f EXCEPT !.v    = IF @ = "number" THEN "0.1" ELSE @,
              !.id   = IF @ = NoId THEN -(i + 1) ELSE @,
              !.type = IF @ = "untyped" THEN "other" ELSE @]

KitFrameError(s, f, i) ==
    \/ f.v # "0.1"
    \/ f.ts = NoTs
    \/ <<f.from, f.id>> \in s.seen
    \/ i = 0 /\ f.type # "hello"
    \/ i # 0 /\ f.type = "hello"
    \/ f.type # "hello" /\ "hello" \notin s.met
    \/ f.type \in FRAME_TYPES /\ ~IsLTPFrame(f)

\* A heartbeat, an orientation or a request before hello is an error already.
KitFlowError(s, f) ==
    /\ f.type = "route_response"
    /\ "route_request" \notin s.met \/ f.branches = 0

KitFlowWarning(s, f) ==
    \/ f.type = "route_request" /\ "orientation" \notin s.met
    \/ f.type = "route_response" /\ f.branches = 1

KitObject(s, f, i) ==
    [err  |-> s.err \/ KitFrameError(s, f, i) \/ KitFlowError(s, f),
     warn |-> \/ s.warn
              \/ Regresses(s, f)
              \/ f.type \notin FRAME_TYPES
              \/ KitFlowWarning(s, f),
     last |-> IF f.ts = NoTs THEN s.last ELSE f.ts,
     seen |-> s.seen \cup {<<f.from, f.id>>},
     met  |-> s.met \cup ({f.type} \cap FRAME_TYPES)]

\* Mutant: the payload is not checked against the schema.
KitFrameNoSchema(s, f, i) ==
    IF f.type = "scalar" THEN [s EXCEPT !.err = TRUE]
                         ELSE KitObject(s, [NormalizeFrame(f, i) EXCEPT !.payload = TRUE], i)

KitFrame(s, f, i) ==
    IF f.type = "scalar" THEN [s EXCEPT !.err = TRUE]
                         ELSE KitObject(s, NormalizeFrame(f, i), i)

KitStatus(s) ==
    IF s.err \/ ~(FRAME_TYPES \ {"focus_snapshot"} \subseteq s.met) THEN "FAIL"
    ELSE IF s.warn \/ "focus_snapshot" \notin s.met THEN "WARN"
    ELSE "OK"

-----------------------------------------------------------------------------
(* src/sdk/js/src/conformance/selfTest.ts *)

SelfStart == [err |-> FALSE, hello |-> FALSE, lastSeq |-> -1, requested |-> FALSE,
              branches |-> 0, seen |-> {}]

\* Mutant: the frame that must be hello is the second.
HelloGateLate(s, f, i) == f.type # "hello" /\ (i = 1 \/ ~s.hello)

\* The order checks of the single types repeat the gate's.
HelloGate(s, f, i) == f.type # "hello" /\ (i = 0 \/ ~s.hello)

ProcessFrame(s, f, i) ==
    [err       |-> \/ s.err
                   \/ HelloGate(s, f, i)
                   \/ f.type = "heartbeat" /\ f.seq <= s.lastSeq
                   \/ f.type = "route_response" /\ (~s.requested \/ f.branches < 2),
     hello     |-> s.hello \/ f.type = "hello",
     lastSeq   |-> IF f.type = "heartbeat" /\ s.hello THEN f.seq ELSE s.lastSeq,
     requested |-> s.requested \/ f.type = "route_request",
     branches  |-> IF f.type = "route_response" THEN f.branches ELSE s.branches,
     seen      |-> s.seen \cup {f.id}]

SelfFrame(s, f, i) ==
    IF f.type \in FRAME_TYPES /\ f.v # "0.1" THEN [s EXCEPT !.err = TRUE]
    ELSE IF ~IsLTPFrame(f) \/ f.id \in s.seen THEN s
    ELSE ProcessFrame(s, f, i)

SelfOk(s) == ~s.err /\ s.hello /\ ~(s.requested /\ s.branches = 0)

SelfLevel(s) ==
    IF SelfOk(s) THEN "LTP-Canonical"
    ELSE IF s.hello /\ s.requested /\ s.branches >= 2 THEN "LTP-Flow"
    ELSE "LTP-Core"

\* The built-in vector: three heartbeats, a full exchange, a frame of unknown
\* type and a repeated heartbeat.
InlineCanonicalFrames ==
    LET F(type, id, ts, seq, branches) ==
            [type |-> type, id |-> id, from |-> "global", ts |-> ts, v |-> "0.1",
             payload |-> TRUE, seq |-> seq, branches |-> branches]
    IN  << F("hello", 1, 1, 0, 0), F("heartbeat", 2, 2, 1, 0), F("heartbeat", 3, 3, 2, 0),
           F("heartbeat", 4, 4, 3, 0), F("orientation", 5, 5, 0, 0),
           F("route_request", 6, 6, 0, 0), F("route_response", 7, 7, 0, 2),
           F("focus_snapshot", 8, 8, 0, 0), F("other", 9, 9, 0, 0),
           F("heartbeat", 3, 10, 2, 0) >>

SelfTestModes == {"calm", "storm", "recovery"}

\* Storm adds a branch and a fourth heartbeat; recovery changes only fields
\* that no check reads.
SelfTestFrames(mode) ==
    InlineCanonicalFrames
      \o (IF mode = "storm"
          THEN <<[InlineCanonicalFrames[2] EXCEPT !.id = 10, !.ts = 11, !.seq = 4]>>
          ELSE << >>)

RunSelfTest(frames) ==
    LET state[i \in 0 .. Len(frames)] ==
            IF i = 0 THEN SelfStart ELSE SelfFrame(state[i - 1], frames[i], i - 1)
    IN  state[Len(frames)]

-----------------------------------------------------------------------------
NoBatch == [cases |-> 0, frames |-> 0, odd |-> 0, unexpected |-> FALSE, errors |-> FALSE,
            warnings |-> FALSE, failNamed |-> FALSE, httpRefused |-> FALSE]

Closed == [open |-> FALSE, n |-> 0, top |-> 0, plain |-> TRUE, rising |-> TRUE]

ConformanceInit ==
    /\ capture = Closed
    /\ http = HttpStart /\ kit = KitStart /\ self = SelfStart
    /\ verdict = {}
    /\ batch = NoBatch
    /\ outcome = {}
    /\ artifact = {}
    /\ svg = Nothing

\* The next file of the directory.  A sweep is a job of its own: it starts in a
\* workspace without reports.
OpenCapture ==
    /\ ~capture.open /\ batch.cases < MaxCaptures
    /\ capture' = [Closed EXCEPT !.open = TRUE]
    /\ verdict' = {}
    /\ outcome' = {}
    /\ artifact' = {} /\ svg' = Nothing
    /\ UNCHANGED <<http, kit, self, batch>>

\* plain and rising remember what the properties ask of a capture: strings
\* wherever the protocol wants strings, and increasing heartbeats.
ReadFrame(f, odd) ==
    /\ capture.open /\ batch.frames < MaxLength /\ batch.odd + odd <= MaxOdd
    /\ http' = HttpFrame(http, f, capture.n)
    /\ kit' = KitFrame(kit, f, capture.n)
    /\ self' = SelfFrame(self, f, capture.n)
    /\ capture' = [capture EXCEPT
                     !.n = @ + 1,
                     !.top = IF f.id > @ THEN f.id ELSE @,
                     !.plain = @ /\ f.id # NoId /\ f.v # "number" /\ f.type # "untyped",
                     !.rising = @ /\ (f.type = "heartbeat" => f.seq > self.lastSeq)]
    /\ batch' = [batch EXCEPT !.frames = @ + 1, !.odd = @ + odd]
    /\ UNCHANGED <<verdict, outcome, artifact, svg>>

\* What the name of a file promises: fail_, warn_ or anything else.
ExpectedOutcome == {"OK", "WARN", "FAIL"}

\* Mutant: a failure is welcome where a warning was expected.
MatchesWorse(expected, status) ==
    \/ expected = "FAIL" /\ status = "FAIL"
    \/ expected = "WARN"
    \/ expected = "OK" /\ status = "OK"

Matches(expected, status) ==
    \/ expected = "FAIL" /\ status = "FAIL"
    \/ expected = "WARN" /\ status \in {"WARN", "OK"}
    \/ expected = "OK" /\ status = "OK"

AddCase(b, expected, status, refused) ==
    [cases       |-> b.cases + 1,
     frames      |-> b.frames,
     odd         |-> b.odd,
     unexpected  |-> b.unexpected \/ ~Matches(expected, status),
     errors      |-> b.errors \/ status = "FAIL",
     warnings    |-> b.warnings \/ status = "WARN",
     failNamed   |-> b.failNamed \/ expected = "FAIL",
     httpRefused |-> b.httpRefused \/ (expected # "FAIL" /\ refused)]

ForgetCapture ==
    /\ capture' = Closed
    /\ http' = HttpStart /\ kit' = KitStart /\ self' = SelfStart

\* The end of a capture whose file name promises e, and which was posted to the
\* endpoint too: what remains of it is the verdicts, with what the properties
\* need to know of it.
CloseCapture(e, body) ==
    LET status == KitStatus(kit)
        code   == HttpStatus(http, capture.n)
        small  == capture.n <= MAX_FRAMES
    IN  /\ capture.open
        /\ verdict' = {[http |-> PostVerify(body, code), whole |-> body = "whole", kit |-> status, level |-> SelfLevel(self),
                        plain |-> capture.plain, small |-> small, rising |-> capture.rising,
                        shared |-> \E p, q \in kit.seen : p[2] = q[2] /\ p # q]}
        /\ batch' = AddCase(batch, e, status, capture.plain /\ small /\ code # 200)
        /\ ForgetCapture
        /\ UNCHANGED <<outcome, artifact, svg>>

\* A file that holds no list of frames has an error of its own.
CloseInvalid(e) ==
    /\ capture.open /\ capture.n = 0
    /\ batch' = AddCase(batch, e, "FAIL", FALSE)
    /\ ForgetCapture
    /\ UNCHANGED <<verdict, outcome, artifact, svg>>

\* The status of a set of reports, as every summary derives it.
Worst(errors, warnings) == IF errors THEN "FAIL" ELSE IF warnings THEN "WARN" ELSE "OK"

\* The colour of the badge.
WriteBadge(errors, warnings) ==
    IF errors THEN "red" ELSE IF warnings THEN "yellow" ELSE "brightgreen"

\* The kit exits, leaving the summary of what it judged and the badge.
KitExits(command, exit, b) ==
    /\ outcome' = {[command     |-> command,
                    exit        |-> exit,
                    suite       |-> Worst(b.errors, b.warnings),
                    badge       |-> WriteBadge(b.errors, b.warnings),
                    failNamed   |-> b.failNamed,
                    httpRefused |-> b.httpRefused]}
    /\ batch' = NoBatch
    /\ verdict' = {}

\* verify:dir, once every capture of the directory is judged.
EndDirectory ==
    /\ ~capture.open /\ outcome = {}
    /\ KitExits("verify:dir", IF batch.unexpected THEN 2 ELSE 0, batch)
    /\ UNCHANGED <<capture, http, kit, self, artifact, svg>>

DeriveExitCode(status, strict) ==
    CASE status = "FAIL" -> 1
      [] status = "WARN" -> IF strict THEN 1 ELSE 2
      [] status = "OK"   -> 0

\* verify, of the one capture that was read.
VerifyFile(strict) ==
    LET status  == KitStatus(kit)
        refused == capture.plain /\ capture.n <= MAX_FRAMES /\ HttpStatus(http, capture.n) # 200
    IN  /\ capture.open /\ batch.cases = 0
        /\ KitExits("verify", DeriveExitCode(status, strict), AddCase(NoBatch, "OK", status, refused))
        /\ ForgetCapture
        /\ UNCHANGED <<artifact, svg>>

\* selftest, with a report of the kit's form around the self test's errors.
RunSelfTestCommand(mode, strict) ==
    LET ok == SelfOk(RunSelfTest(SelfTestFrames(mode)))
    IN  /\ ~capture.open /\ batch = NoBatch
        /\ KitExits("selftest", IF ok THEN 0 ELSE IF strict THEN 1 ELSE 2, [NoBatch EXCEPT !.errors = ~ok])
        /\ UNCHANGED <<capture, http, kit, self, artifact, svg>>

\* A file that is not JSON ends the command with an exception, before it has
\* written a badge.
UnreadableFile ==
    /\ capture.open /\ capture.n = 0
    /\ outcome' = {[command |-> "verify:dir", exit |-> 4, suite |-> "FAIL", badge |-> Nothing,
                    failNamed |-> batch.failNamed, httpRefused |-> batch.httpRefused]}
    /\ batch' = NoBatch
    /\ verdict' = {}
    /\ ForgetCapture
    /\ UNCHANGED <<artifact, svg>>

VerifyExitCode(overall) == IF overall = "FAIL" THEN 2 ELSE 0

\* The commands of a job follow one another.  ltp:verify sweeps the fixtures and
\* writes a report of its own form, no badge; others is whether its build, tests,
\* type checks and demo succeed.
LtpVerify(o, others) ==
    LET overall == Worst(~others \/ o.suite = "FAIL", o.suite = "WARN")
    IN  /\ o.command = "verify:dir"
        /\ artifact' = {[schema |-> Nothing, overall |-> overall]}
        /\ outcome' = {[o EXCEPT !.command = "ltp:verify", !.badge = Nothing,
                                 !.exit = VerifyExitCode(overall)]}
        /\ UNCHANGED <<capture, http, kit, self, verdict, batch, svg>>

\* conformance:report writes the report of the self test to the same path.
ConformanceReport(mode) ==
    /\ ~capture.open
    /\ artifact' = {[schema  |-> "v0.1",
                     overall |-> Worst(~SelfOk(RunSelfTest(SelfTestFrames(mode))), FALSE)]}
    /\ UNCHANGED <<capture, http, kit, self, verdict, batch, outcome, svg>>

\* ltp:badge draws the overall status of a report of schema v0.1 and refuses
\* any other.
LtpBadge(a) ==
    /\ ~capture.open
    /\ a.schema = "v0.1"
    /\ svg' = a.overall
    /\ UNCHANGED <<capture, http, kit, self, verdict, batch, outcome, artifact>>

\* ltp:report:validate accepts a report that has what the schema v0.1 requires:
\* that of conformance:report has all of it, that of ltp:verify has not.
ValidateReport ==
    /\ ~capture.open /\ batch = NoBatch
    /\ outcome' = {[command     |-> "ltp:report:validate",
                    exit        |-> IF artifact = {} THEN 1
                                    ELSE IF \E a \in artifact : a.schema = "v0.1" THEN 0 ELSE 2,
                    suite       |-> Nothing,
                    badge       |-> Nothing,
                    failNamed   |-> FALSE,
                    httpRefused |-> FALSE]}
    /\ UNCHANGED <<capture, http, kit, self, verdict, batch, artifact, svg>>

ConformanceNext ==
    \/ OpenCapture
    \/ \E f \in FreshFrames(capture.top) : ReadFrame(f, 0)
    \/ /\ capture.open /\ batch.odd < MaxOdd
       /\ \E f \in OddFrames(capture.top) : ReadFrame(f, 1)
    \/ \E e \in ExpectedOutcome :
         CloseInvalid(e) \/ \E body \in Bodies : CloseCapture(e, body)
    \/ EndDirectory
    \/ \E strict \in BOOLEAN :
         VerifyFile(strict) \/ \E mode \in SelfTestModes : RunSelfTestCommand(mode, strict)
    \/ UnreadableFile
    \/ \E o \in outcome, others \in BOOLEAN : LtpVerify(o, others)
    \/ \E mode \in SelfTestModes : ConformanceReport(mode)
    \/ \E a \in artifact : LtpBadge(a)
    \/ ValidateReport

ConformanceSpec == ConformanceInit /\ [][ConformanceNext]_conformanceVars

-----------------------------------------------------------------------------

\* A capture in which the kit finds no error is answered with 200 by the HTTP
\* endpoint, when it gets there whole, is not too long and has strings where the
\* protocol wants strings: the two implementations of the same rules agree in that direction,
\* although the kit reports repeated identifiers as errors, the endpoint as
\* warnings, and only the kit demands the whole exchange.
KitImpliesHttp ==
    \A r \in verdict : r.whole /\ r.plain /\ r.small /\ r.kit # "FAIL" => r.http = 200

\* A capture the kit passes without a warning reaches the highest level of the
\* self test, when its heartbeats count upwards and no identifier is shared by
\* two senders (the self test drops a repeated identifier whoever sends it).
KitImpliesCanonical ==
    \A r \in verdict :
      r.kit = "OK" /\ r.plain /\ r.rising /\ ~r.shared => r.level = "LTP-Canonical"

\* When verify, verify:dir or ltp:verify exits with 0, the HTTP endpoint accepts every
\* capture that was judged and is not named fail_, and the kit's badge is red, or the
\* conformance suite fails, only because of captures that are named so.
CleanSweep ==
    \A o \in outcome : o.exit = 0 =>
      /\ ~o.httpRefused
      /\ o.suite = "FAIL" \/ o.badge = "red" => o.failNamed

=============================================================================
