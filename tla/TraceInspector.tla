--------------------------- MODULE TraceInspector ---------------------------
(***************************************************************************)
(* ltp-inspect reads an audit log of the node, or a file of bare frames,   *)
(* and judges it by an exit code: 0, 1 for warnings, 2 for a breach of the *)
(* contract.  The node appends entries, each chained to the one before;    *)
(* the file is tampered with or damaged; the inspector is run on what is   *)
(* there.                                                                  *)
(*                                                                         *)
(* A hash is the sequence of the texts it covers, so two hashes are equal  *)
(* only if everything under them is.  A number that the node keeps as a    *)
(* float and that is whole ("whole") has two texts: serde_json prints 1.0, *)
(* JSON.stringify prints 1.  Lists of messages matter for whether they are *)
(* empty, and are Booleans.                                                *)
(***************************************************************************)
EXTENDS Integers, Sequences, FiniteSets

CONSTANTS
    Tokens,      \* continuity tokens
    MaxFrames,   \* bound: frames the node writes
    MaxFaults    \* bound: faults of the file

ASSUME InspectorAssumption ==
    /\ Tokens # {}
    /\ MaxFrames \in Nat /\ MaxFaults \in Nat

VARIABLES
    written,   \* the frames the node has logged
    file,      \* the lines of the file
    kind,      \* "audit" for entries with hashes, "raw" for bare frames
    faults,    \* how often the file was tampered with
    report     \* the results of the inspector, by its arguments, or empty

inspectVars == <<written, file, kind, faults, report>>

None == "none"
Missing == -1    \* a branch without a numeric confidence

-----------------------------------------------------------------------------
(* TraceFrames and entries *)

Plain == [type |-> "hello", v |-> "0.1", shape |-> TRUE, identity |-> FALSE, token |-> None,
          constraints |-> None, whole |-> FALSE, status |-> None, drift |-> None,
          branches |-> <<>>, target |-> None, admissible |-> FALSE, web |-> FALSE, cap |-> FALSE]

\* A confidence is a number 0 .. 2, for values in [0,1]; 3 is out of range.
Branch(i, c) == [id |-> i, confidence |-> c]

\* A response without branches and routes offers the fields of its payload as
\* branches, which have no confidence: Action lists two of them in order.
Response(branches) == [Plain EXCEPT !.type = "route_response", !.branches = branches]

Action(target, admissible, web, cap) ==
    [Response(<<Branch(1, Missing), Branch(2, Missing)>>)
        EXCEPT !.target = target, !.admissible = admissible, !.web = web, !.cap = cap]

\* Any text may be declared as a status.  RECOVERING is one that the repository's documents
\* name and the inspector does not.
Statuses == {"HEALTHY", "FAILED", "UNSTABLE", "RECOVERING"}

Orientations == {[Plain EXCEPT !.type = "orientation", !.identity = TRUE, !.status = s]
                   : s \in {None} \cup Statuses}

Snapshots == {[Plain EXCEPT !.type = "focus_snapshot", !.drift = "low", !.whole = w] : w \in BOOLEAN}

Responses == {Response(<<Branch(1, 2), Branch(2, 1)>>), Response(<<Branch(1, 2), Branch(2, 3)>>),
              Response(<<Branch(1, 1), Branch(1, 1)>>)}

Actions == {Action("transfer_money", TRUE, w, TRUE) : w \in BOOLEAN}
      \cup {Action("transfer_money", TRUE, w, FALSE) : w \in BOOLEAN}
      \cup {Action(t, TRUE, FALSE, TRUE) : t \in {"read", "STATUS_CHECK"}}

Greetings == {[Plain EXCEPT !.token = t] : t \in Tokens}

Malformed == {[Plain EXCEPT !.v = None], [Plain EXCEPT !.shape = FALSE],
              [Plain EXCEPT !.constraints = "list"]}

TraceFrames == Orientations \cup Snapshots \cup Responses \cup Actions \cup Greetings \cup Malformed

CRITICAL_ACTIONS == {"transfer_money"}
RECOVERY_ACTIONS == {"RECOVERY", "PING", "STATUS", "HANDSHAKE"}

\* A target contains a word, in any place, for the targets of Actions.
Includes(target, w) == target = w \/ <<target, w>> = <<"STATUS_CHECK", "STATUS">>

IsRecovery(f) == \E w \in RECOVERY_ACTIONS : Includes(f.target, w)

RustText(f) == f
JsText(f) == [f EXCEPT !.whole = FALSE]

ChainStart == <<>>

HashOf(prev, text) == Append(prev, text)

\* The chain that the node has in memory: last_hash in trace.rs.
LastHash == [k \in DOMAIN written |-> RustText(written[k])]

Entry(prev, f) == [frame |-> f, prev |-> prev, hash |-> HashOf(prev, RustText(f)), garbled |-> FALSE]

-----------------------------------------------------------------------------
(* What the inspector computes *)

\* Mutant: the link from one entry to the next is not checked.
HashesOnly(es) ==
    \A k \in DOMAIN es : es[k].hash = HashOf(es[k].prev, JsText(es[k].frame))

VerifyTraceIntegrity(es) ==
    \A k \in DOMAIN es :
        /\ es[k].hash = HashOf(es[k].prev, JsText(es[k].frame))
        /\ k < Len(es) => es[k + 1].prev = es[k].hash

VerifyReplayDeterminism(es) == VerifyTraceIntegrity(es)

FramesOf(es) == [k \in DOMAIN es |-> es[k].frame]

Has(fs, P(_)) == \E k \in DOMAIN fs : P(fs[k])

ValidateTraceFrames(fs) == Has(fs, LAMBDA f : f.v # "0.1" \/ ~f.shape)

NormalizeConstraints(fs) == Has(fs, LAMBDA f : f.constraints = "list")

DetectContinuity(fs) ==
    Cardinality({fs[k].token : k \in DOMAIN fs} \ {None}) <= 1

CollectDriftHistory(fs) == Has(fs, LAMBDA f : f.type = "focus_snapshot" /\ f.drift # None)

LastResponse(fs) == {k \in DOMAIN fs : /\ fs[k].type = "route_response"
                                       /\ \A j \in k + 1 .. Len(fs) : fs[j].type # "route_response"}

LastBranches(fs) == UNION {{<<j, fs[k].branches[j]>> : j \in DOMAIN fs[k].branches} : k \in LastResponse(fs)}

\* The first branch with an identifier is kept, the others are violations.
KeptBranches(bs) == {b \in bs : \A c \in bs : c[1] < b[1] => c[2].id # b[2].id}

SortsBefore(b, c) == \/ b.confidence > c.confidence
                     \/ b.confidence = c.confidence /\ b.id < c.id

Reordered(bs) == \E b, c \in KeptBranches(bs) : b[1] < c[1] /\ SortsBefore(c[2], b[2])

NormalizeBranches(bs) ==
    [violations     |-> KeptBranches(bs) # bs \/ \E b \in KeptBranches(bs) : b[2].confidence > 2,
     notes          |-> \/ \E b \in KeptBranches(bs) : b[2].confidence \notin 0 .. 2
                        \/ Reordered(bs),
     normalizations |-> Reordered(bs)]

ExtractIdentity(fs) == Has(fs, LAMBDA f : f.identity \/ f.token # None)

\* Critical actions that the agentic profile objects to.
AgentViolation(f) ==
    /\ f.type = "route_response"
    /\ f.target \in CRITICAL_ACTIONS
    /\ f.admissible
    /\ f.web \/ ~f.cap

\* Mutant: a log without an orientation frame cannot be replayed.
ComplianceNeedsOrientation(es, fs, isAudit) ==
    [integrity   |-> IF ~isAudit THEN "unchecked"
                     ELSE IF VerifyTraceIntegrity(es) THEN "verified" ELSE "broken",
     identity    |-> ExtractIdentity(fs),
     determinism |-> isAudit => /\ VerifyTraceIntegrity(es)
                                /\ Has(fs, LAMBDA f : f.type = "orientation")]

Compliance(es, fs, isAudit) ==
    [integrity   |-> IF ~isAudit THEN "unchecked"
                     ELSE IF VerifyTraceIntegrity(es) THEN "verified" ELSE "broken",
     identity    |-> ExtractIdentity(fs),
     determinism |-> isAudit => VerifyReplayDeterminism(es)]

AuditSummary(c, fs, profile) ==
    LET critical == \/ c.integrity # "verified"
                    \/ profile = "agentic" /\ Has(fs, AgentViolation)
    IN  [critical |-> critical,
         verdict  |-> IF critical \/ ~c.identity \/ ~c.determinism THEN "FAIL" ELSE "PASS"]

Summarize(fs) ==
    LET branches == NormalizeBranches(LastBranches(fs))
    IN  [violations     |-> ValidateTraceFrames(fs) \/ branches.violations,
         normalizations |-> NormalizeConstraints(fs) \/ branches.normalizations,
         warnings       |-> \/ branches.notes
                            \/ ~DetectContinuity(fs)
                            \/ ~Has(fs, LAMBDA f : f.type = "orientation")
                            \/ ~CollectDriftHistory(fs)
                            \/ LastResponse(fs) = {}]

\* The state that the last orientation frame with a status has declared.
StateBefore(fs, k) ==
    LET said == {j \in 1 .. k - 1 : fs[j].type = "orientation" /\ fs[j].status # None}
    IN  IF said = {} THEN "HEALTHY" ELSE fs[CHOOSE j \in said : \A i \in said : i <= j].status

\* Mutant: an orientation that declares UNSTABLE is taken for a healthy one.
UnsafeWhenFailed(fs, k) ==
    /\ fs[k].type = "route_response" /\ fs[k].admissible
    /\ StateBefore(fs, k) = "FAILED"
    /\ ~IsRecovery(fs[k])

Unsafe(fs, k) ==
    /\ fs[k].type = "route_response" /\ fs[k].admissible
    /\ StateBefore(fs, k) \in {"FAILED", "UNSTABLE"}
    /\ ~IsRecovery(fs[k])

-----------------------------------------------------------------------------
(* The commands *)

Args == [command : {"trace"}, strict : BOOLEAN, continuity : BOOLEAN,
         profile : {None, "fintech", "agentic"}, at : {0}]
    \cup [command : {"replay", "explain"}, strict : {FALSE}, continuity : {FALSE},
          profile : {None}, at : 1 .. MaxFrames]

Loads(es) == es # <<>> /\ \A k \in DOMAIN es : ~es[k].garbled

Breaches(es, isAudit, a) ==
    LET fs      == FramesOf(es)
        s       == Summarize(fs)
        c       == Compliance(es, fs, isAudit)
        checked == a.profile # None \/ isAudit
    IN  \/ s.violations
        \/ a.strict /\ s.normalizations
        \/ a.strict /\ a.continuity /\ (\E k \in DOMAIN fs : Unsafe(fs, k))
        \/ checked /\ (c.integrity # "verified" \/ ~c.identity \/ ~c.determinism)
        \/ a.profile # None /\ AuditSummary(c, fs, a.profile).critical

HasWarnings(es, a) ==
    LET fs == FramesOf(es)
        s  == Summarize(fs)
    IN  \/ s.warnings \/ s.normalizations
        \/ a.continuity /\ ~a.strict /\ (\E k \in DOMAIN fs : Unsafe(fs, k))

HandleTrace(es, isAudit, a) ==
    [exit    |-> IF Breaches(es, isAudit, a) THEN 2 ELSE IF HasWarnings(es, a) THEN 1 ELSE 0,
     verdict |-> IF a.profile = None THEN None
                 ELSE AuditSummary(Compliance(es, FramesOf(es), isAudit), FramesOf(es), a.profile).verdict]

HandleReplay == [exit |-> 0, verdict |-> None]

\* The window up to the frame asked for, without the entries' hashes.
HandleExplain(es, at) ==
    LET window == SubSeq(FramesOf(es), 1, IF at <= Len(es) THEN at ELSE Len(es))
    IN  [exit |-> IF Summarize(window).violations THEN 2 ELSE 0, verdict |-> None]

Execute(es, isAudit, a) ==
    CASE ~Loads(es) -> [exit |-> 2, verdict |-> None]
      [] Loads(es) /\ a.command = "trace"   -> HandleTrace(es, isAudit, a)
      [] Loads(es) /\ a.command = "replay"  -> HandleReplay
      [] Loads(es) /\ a.command = "explain" -> HandleExplain(es, a.at)

-----------------------------------------------------------------------------
(* The node, the faults of the file and the runs of the inspector *)

\* Faults come after the last frame: they change lines that are there already.
InspectInit ==
    /\ written = <<>> /\ file = <<>> /\ faults = 0 /\ report = <<>>
    /\ kind \in {"audit", "raw"}

LogFrame(f) ==
    /\ report = <<>>
    /\ faults = 0
    /\ Len(written) < MaxFrames
    /\ written' = Append(written, f)
    /\ file' = Append(file, Entry(LastHash, f))
    /\ UNCHANGED <<kind, faults, report>>

Fault(lines) ==
    /\ report = <<>>
    /\ kind = "audit"
    /\ faults < MaxFaults
    /\ faults' = faults + 1
    /\ file' = lines
    /\ UNCHANGED <<written, kind, report>>

Drop(k) == Fault([j \in 1 .. Len(file) - 1 |-> file[IF j < k THEN j ELSE j + 1]])

Swap(k) == k < Len(file) /\ Fault([file EXCEPT ![k] = file[k + 1], ![k + 1] = file[k]])

Repeat(k) == Fault(SubSeq(file, 1, k) \o SubSeq(file, k, Len(file)))

Edit(k) == file[k].frame # Plain /\ Fault([file EXCEPT ![k].frame = Plain])

Garble == file # <<>> /\ Fault([file EXCEPT ![Len(file)].garbled = TRUE])

\* The inspector only reads: its runs with different arguments do not affect one
\* another and are taken together.
Inspect ==
    /\ report = <<>>
    /\ report' = [a \in Args |-> Execute(file, kind = "audit", a)]
    /\ UNCHANGED <<written, file, kind, faults>>

Done == report # <<>> /\ UNCHANGED inspectVars

InspectNext ==
    \/ \E f \in TraceFrames : LogFrame(f)
    \/ \E k \in DOMAIN file : Drop(k) \/ Swap(k) \/ Repeat(k) \/ Edit(k)
    \/ Garble
    \/ Inspect
    \/ Done

InspectSpec == InspectInit /\ [][InspectNext]_inspectVars

-----------------------------------------------------------------------------
(* Properties *)

\* The lines of the file are one contiguous part of what the node wrote.
IsSegment ==
    \E d \in 0 .. Len(written) :
        /\ Len(file) <= Len(written) - d
        /\ \A k \in DOMAIN file : file[k].frame = written[d + k]

\* An audit log that the trace command does not refuse with exit code 2, or whose report
\* is ready for a regulator (execute and the audit summary in summarize), is a contiguous
\* part of what the node wrote: no entry was edited, repeated, moved or lost in between.
\* Entries may be lost at both ends: see TamperingShows.
AcceptedIsSegment ==
    \A a \in DOMAIN report :
        (kind = "audit" /\ a.command = "trace" /\ (report[a].exit # 2 \/ report[a].verdict = "PASS"))
            => IsSegment

\* What docs/fintech/Compliance-Inspection.md:54 says: "If the log file was tampered with
\* (lines edited, deleted, or reordered), `trace_integrity` will be `broken`."
\* verifyTraceIntegrity checks neither the first prev_hash nor the length of the log.
TamperingShows ==
    (kind = "audit" /\ report # <<>> /\ Loads(file) /\ FramesOf(file) # written)
        => Compliance(file, FramesOf(file), TRUE).integrity = "broken"

\* The node let an action through while the status declared last was one of these.
ActsWhile(k, statuses) ==
    /\ written[k].type = "route_response" /\ written[k].admissible
    /\ \E j \in 1 .. k - 1 : /\ written[j].status \in statuses
                            /\ \A i \in j + 1 .. k - 1 : written[i].status = None

\* If trace --continuity --strict accepts an audit log that starts where the node's log
\* starts, then in what the node wrote up to there no action was let through while the
\* status declared last was FAILED or UNSTABLE, other than one whose name contains a
\* recovery word (continuity check of handleTrace).
OutageRespected ==
    \A a \in DOMAIN report :
        (/\ kind = "audit" /\ a.strict /\ a.continuity /\ report[a].exit # 2
         /\ file[1].prev = ChainStart)
            => \A k \in DOMAIN file : ActsWhile(k, {"FAILED", "UNSTABLE"}) => IsRecovery(written[k])

\* What docs/devtools/continuity-inspection.md:16 says of the continuity check: "Verifies
\* that no `Critical Actions` (e.g., `transfer_money`, `execute_order`) are permitted when
\* the system status is `FAILED`, `UNSTABLE`, or `RECOVERING`."  For handleTrace any status
\* other than the first two ends the outage.
NothingCriticalInRecovery ==
    \A a \in DOMAIN report :
        (faults = 0 /\ a.strict /\ a.continuity /\ report[a].exit # 2)
            => \A k \in DOMAIN written :
                   written[k].target \in CRITICAL_ACTIONS
                       => ~ActsWhile(k, {"FAILED", "UNSTABLE", "RECOVERING"})

\* An undamaged audit log without whole floats is judged as its bare frames are, except that
\* it must name an identity: recording alone never breaks a contract (summarize, execute).
RecordingIsNeutral ==
    \A a \in DOMAIN report :
        (/\ kind = "audit" /\ faults = 0 /\ a.profile = None
         /\ ~Has(written, LAMBDA f : f.whole)
         /\ ExtractIdentity(written))
            => report[a].exit = Execute(file, FALSE, a).exit

=============================================================================
