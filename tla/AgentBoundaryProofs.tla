------------------------ MODULE AgentBoundaryProofs ------------------------
(***************************************************************************)
(* Proofs about AgentBoundary for any number of calls and of objects the   *)
(* engine shares, any targets it proposes and any policy: the pipelines    *)
(* implement CheckedAction, and the audit logs account for the actions.    *)
(***************************************************************************)
EXTENDS AgentBoundary, TLAPS

-----------------------------------------------------------------------------
(* The inductive invariant *)

LogPipes == {"sample", "boundary", "web"}
Types == {"EVENT", "PROPOSAL", "CHECK", "ACTION", "BLOCKED"}
Entries == [call : Calls, type : Types, ok : BOOLEAN]
Outcomes == {"BLOCKED", "ALLOWED", "ALLOWED, failed", "rejected", "EnforcementError", "executed",
             "trace", "thrown", "called"}

TypeOK ==
  /\ heap \in [Objects -> [context : Contexts, target : EngineTargets, injected : BOOLEAN]]
  /\ pc \in [Calls -> {"idle", "proposing", "checked", "acting", "done"}]
  /\ pipe \in [Calls -> Pipes \cup {None}]
  /\ source \in [Calls -> Contexts \cup {None}]
  /\ token \in [Calls -> Targets \cup {None, "refused"}]
  /\ acted \in [Calls -> Targets \cup {None}]
  /\ outcome \in [Calls -> Outcomes \cup {None}]
  /\ log \in [LogPipes -> Seq(Entries)]

\* What is known of a call where it waits.
CallOK(c) ==
  /\ pc[c] = "idle" <=> pipe[c] = None
  /\ pc[c] # "idle" => source[c] \in Contexts
  /\ pc[c] \in {"idle", "proposing"} => token[c] = None
  /\ pc[c] \in {"idle", "proposing", "checked"} => acted[c] = None
  /\ pc[c] = "proposing" => pipe[c] \in {"reference", "sample"}
  /\ pc[c] = "checked" => pipe[c] \in {"reference", "sample", "tool"} /\ token[c] # None
  /\ pc[c] = "acting" => pipe[c] \in {"reference", "sample", "direct"} /\ acted[c] # None
  /\ pipe[c] = "direct" => token[c] = None

\* The entries of c in log l are those of the stages 1 .. n, in order.
Scripted(l, c, n) ==
  /\ \A i \in DOMAIN l : l[i].call = c => Stage(l[i].type) \in 1 .. n
  /\ \A i, j \in DOMAIN l :
       l[i].call = c /\ l[j].call = c /\ i < j => Stage(l[i].type) < Stage(l[j].type)
  /\ \A s \in 1 .. n : \E i \in DOMAIN l : l[i].call = c /\ Stage(l[i].type) = s

HasEntry(l, c, type) == \E i \in DOMAIN l : l[i].call = c /\ l[i].type = type
HasCheck(l, c) == \E i \in DOMAIN l : l[i].call = c /\ l[i].type = "CHECK" /\ l[i].ok

\* A log has entries of the calls of its own pipeline only, those up to where
\* the call waits, and the admissible CHECK and the ACTION of what was done.
LoggedOK(p, c) ==
  IF pipe[c] # p THEN Scripted(log[p], c, 0)
  ELSE /\ pc[c] = "proposing" => Scripted(log[p], c, 1)
       /\ pc[c] = "checked" => Scripted(log[p], c, 2)
       /\ pc[c] = "acting" => Scripted(log[p], c, 3)
       /\ pc[c] = "done" => \E n \in 1 .. 4 : Scripted(log[p], c, n)
       /\ acted[c] # None => HasCheck(log[p], c)
       /\ pc[c] = "done"
            => (HasEntry(log[p], c, "ACTION") <=> acted[c] # None /\ outcome[c] # "rejected")

CallsOK == TypeOK /\ \A c \in Calls : CallOK(c)
LogsOK == \A p \in LogPipes, c \in Calls : LoggedOK(p, c)

-----------------------------------------------------------------------------
(* Types, and what is known of a call where it waits *)

LEMMA LogAppended ==
  ASSUME TypeOK, NEW p \in LogPipes, NEW es \in Seq(Entries), Append_(p, es)
  PROVE  /\ log' \in [LogPipes -> Seq(Entries)]
         /\ log'[p] = log[p] \o es
         /\ \A q \in LogPipes : q # p => log'[q] = log[q]
<1>1. log \in [LogPipes -> Seq(Entries)]
  BY DEF TypeOK
<1>2. log[p] \o es \in Seq(Entries)
  BY <1>1
<1>3. log' = [log EXCEPT ![p] = log[p] \o es]
  BY DEF Append_
<1>4. QED
  BY <1>1, <1>2, <1>3

LEMMA EntryType ==
  ASSUME NEW c \in Calls, NEW t \in Types, NEW ok \in BOOLEAN
  PROVE  Entry(c, t, ok) \in Entries /\ <<Entry(c, t, ok)>> \in Seq(Entries)
BY DEF Entry, Entries

LEMMA OutcomeType ==
  ASSUME TypeOK, NEW c \in Calls, NEW r \in Outcomes, Return(c, r)
  PROVE  outcome' \in [Calls -> Outcomes \cup {None}]
BY DEF TypeOK, Return

LEMMA OutcomesAre ==
  /\ "BLOCKED" \in Outcomes /\ "ALLOWED" \in Outcomes /\ "ALLOWED, failed" \in Outcomes
  /\ "rejected" \in Outcomes /\ "EnforcementError" \in Outcomes /\ "executed" \in Outcomes
  /\ "trace" \in Outcomes /\ "thrown" \in Outcomes /\ "called" \in Outcomes
BY DEF Outcomes

\* The step of a call that writes no log.
LEMMA QuietTypes ==
  ASSUME CallsOK, NEW c \in Calls,
         \/ \E x \in EventTypes : Process(c, x)
         \/ \E o \in Objects : Proposed(c, o)
         \/ EngineFails(c)
         \/ CheckFails(c)
         \/ Checked(c)
         \/ ActedRejects(c)
         \/ ExecuteUnverified(c)
         \/ \E t \in EngineTargets : ExecuteMinted(c, t)
         \/ \E t \in {"delete_database", "reply"} : CallTool(c, t)
         \/ ToolAnswered(c)
  PROVE  CallsOK'
<1>0. outcome' \in [Calls -> Outcomes \cup {None}]
  <2>1. CASE UNCHANGED outcome
    BY <2>1 DEF CallsOK, TypeOK
  <2>2. CASE \E r \in Outcomes : Return(c, r)
    BY <2>2, OutcomeType DEF CallsOK
  <2>3. \/ UNCHANGED outcome
        \/ Return(c, "rejected") \/ Return(c, "BLOCKED") \/ Return(c, "EnforcementError")
        \/ Return(c, "thrown") \/ Return(c, "called")
    BY Zenon DEF Process, Proposed, EngineFails, CheckFails, Checked, ActedRejects,
       ExecuteUnverified, ExecuteMinted, CallTool, ToolAnswered
  <2>4. QED
    BY <2>1, <2>2, <2>3, OutcomesAre, Zenon
<1> USE BoundaryAssumption DEF CallsOK, TypeOK, CallOK, Contexts, Pipes, Targets
<1>1. CASE \E x \in EventTypes : Process(c, x)
  BY <1>0, <1>1 DEF Process, Start, Classify
<1>2. CASE \E o \in Objects : Proposed(c, o)
  <2>1. PICK o \in Objects : Proposed(c, o)
    BY <1>2
  <2>2. source[c] \in Contexts
    BY <2>1 DEF Proposed
  <2>3. heap' \in [Objects -> [context : Contexts, target : EngineTargets, injected : BOOLEAN]]
    BY <2>1, <2>2 DEF Proposed
  <2>4. heap[o].target \in EngineTargets
    OBVIOUS
  <2>5. QED
    BY <1>0, <2>1, <2>3, <2>4 DEF Proposed
<1>3. CASE EngineFails(c)
  <2>1. /\ pc[c] = "proposing" /\ pc' = [pc EXCEPT ![c] = "done"]
        /\ UNCHANGED <<heap, pipe, source, token, acted, log>>
    BY <1>3 DEF EngineFails, Return
  <2>2. TypeOK'
    BY <1>0, <2>1
  <2>3. ASSUME NEW d \in Calls
        PROVE  CallOK(d)'
    BY <2>1
  <2>4. QED
    BY <2>2, <2>3
<1>4. CASE Checked(c)
  <2>1. /\ pc[c] = "checked" /\ pipe[c] = "reference"
        /\ UNCHANGED <<heap, pipe, source, token, log>>
        /\ \/ pc' = [pc EXCEPT ![c] = "done"] /\ UNCHANGED acted
           \/ /\ token[c] \notin {None, "refused"}
              /\ acted' = [acted EXCEPT ![c] = token[c]]
              /\ pc' = [pc EXCEPT ![c] = "acting"]
    BY <1>4 DEF Checked, Return, Execute, IsVerifiedTransition
  <2>2. TypeOK'
    BY <1>0, <2>1
  <2>3. ASSUME NEW d \in Calls
        PROVE  CallOK(d)'
    BY <2>1
  <2>4. QED
    BY <2>2, <2>3
<1>5. CASE ExecuteUnverified(c)
  BY <1>0, <1>5 DEF ExecuteUnverified, Return
<1>6. CASE \E t \in {"delete_database", "reply"} : CallTool(c, t)
  BY <1>0, <1>6 DEF CallTool, Start
<1>7. CASE ToolAnswered(c)
  BY <1>0, <1>7 DEF ToolAnswered, Return
<1>8. CASE CheckFails(c)
  BY <1>0, <1>8 DEF CheckFails, Return
<1>9. CASE ActedRejects(c)
  BY <1>0, <1>9 DEF ActedRejects, Return
<1>10. CASE \E t \in EngineTargets : ExecuteMinted(c, t)
  BY <1>0, <1>10 DEF ExecuteMinted, Execute, IsVerifiedTransition
<1>11. QED
  BY <1>1, <1>2, <1>3, <1>4, <1>5, <1>6, <1>7, <1>8, <1>9, <1>10

\* The step of the sample that writes its log.
LEMMA SampleTypes ==
  ASSUME CallsOK, NEW c \in Calls,
         \/ \E x \in EventTypes \ {None} : ProcessSample(c, x)
         \/ \E o \in Objects : ProposedSample(c, o)
         \/ CheckedSample(c)
         \/ \E ok \in BOOLEAN : Acted(c, ok)
  PROVE  CallsOK'
<1> USE BoundaryAssumption DEF CallsOK, CallOK, Contexts, Pipes, Targets
<1>0. "sample" \in LogPipes
  BY DEF LogPipes
<1>1. CASE \E x \in EventTypes \ {None} : ProcessSample(c, x)
  <2>1. PICK x \in EventTypes \ {None} : ProcessSample(c, x)
    BY <1>1
  <2>2. log' \in [LogPipes -> Seq(Entries)]
    BY <1>0, <2>1, EntryType, LogAppended DEF ProcessSample, Types
  <2>3. QED
    BY <2>1, <2>2 DEF ProcessSample, Start, TypeOK
<1>2. CASE \E o \in Objects : ProposedSample(c, o)
  <2>1. PICK o \in Objects : ProposedSample(c, o)
    BY <1>2
  <2>2. log' \in [LogPipes -> Seq(Entries)]
    BY <1>0, <2>1, EntryType, LogAppended DEF ProposedSample, Types
  <2>3. heap[o].target \in EngineTargets
    BY DEF TypeOK
  <2>4. QED
    BY <2>1, <2>2, <2>3 DEF ProposedSample, TypeOK
<1>3. CASE CheckedSample(c)
  <2>1. log' \in [LogPipes -> Seq(Entries)]
    <3>1. (token[c] # "refused") \in BOOLEAN
      OBVIOUS
    <3>2. <<Entry(c, "CHECK", token[c] # "refused")>> \in Seq(Entries)
      BY <3>1, EntryType DEF Types
    <3>3. QED
      BY <1>0, <1>3, <3>2, LogAppended DEF CheckedSample
  <2>2. /\ pc[c] = "checked" /\ pipe[c] = "sample"
        /\ UNCHANGED <<heap, pipe, source, token>>
        /\ \/ /\ pc' = [pc EXCEPT ![c] = "done"] /\ UNCHANGED acted
              /\ outcome' = [outcome EXCEPT ![c] = "BLOCKED"]
           \/ /\ token[c] \notin {None, "refused"}
              /\ acted' = [acted EXCEPT ![c] = token[c]]
              /\ pc' = [pc EXCEPT ![c] = "acting"]
              /\ UNCHANGED outcome
    BY <1>3, Zenon DEF CheckedSample, Return, Execute, IsVerifiedTransition
  <2>3. TypeOK'
    <3> HIDE DEF Contexts, Pipes, Targets, CallOK
    <3>1. acted' \in [Calls -> Targets \cup {None}]
      BY <2>2 DEF TypeOK
    <3>2. pc' \in [Calls -> {"idle", "proposing", "checked", "acting", "done"}]
      BY <2>2 DEF TypeOK
    <3>3. outcome' \in [Calls -> Outcomes \cup {None}]
      BY <2>2 DEF TypeOK, Outcomes
    <3>4. QED
      BY <2>1, <2>2, <3>1, <3>2, <3>3 DEF TypeOK
  <2>4. ASSUME NEW d \in Calls
        PROVE  CallOK(d)'
    BY <2>2 DEF TypeOK
  <2>5. QED
    BY <2>3, <2>4
<1>4. CASE \E ok \in BOOLEAN : Acted(c, ok)
  <2>1. PICK ok \in BOOLEAN : Acted(c, ok)
    BY <1>4
  <2>2. log' \in [LogPipes -> Seq(Entries)]
    <3>1. CASE pipe[c] = "sample"
      BY <1>0, <2>1, <3>1, EntryType, LogAppended DEF Acted, Types
    <3>2. CASE pipe[c] # "sample"
      BY <2>1, <3>2 DEF Acted, TypeOK
    <3>3. QED
      BY <3>1, <3>2
  <2>3. /\ pc[c] = "acting" /\ pc' = [pc EXCEPT ![c] = "done"]
        /\ outcome' = [outcome EXCEPT ![c] = IF ok THEN "ALLOWED" ELSE "ALLOWED, failed"]
        /\ UNCHANGED <<heap, pipe, source, token, acted>>
    BY <2>1, Zenon DEF Acted, Return
  <2>4. outcome' \in [Calls -> Outcomes \cup {None}]
    <3>1. PICK r : r = IF ok THEN "ALLOWED" ELSE "ALLOWED, failed"
      OBVIOUS
    <3>2. r \in Outcomes
      BY <3>1, OutcomesAre
    <3>3. Return(c, r) /\ TypeOK
      BY <2>1, <3>1, Zenon DEF Acted
    <3>4. QED
      BY <3>2, <3>3, OutcomeType
  <2>5. TypeOK'
    BY <2>2, <2>3, <2>4 DEF TypeOK
  <2>6. ASSUME NEW d \in Calls
        PROVE  CallOK(d)'
    BY <2>3 DEF TypeOK
  <2>7. QED
    BY <2>5, <2>6
<1>5. QED
  BY <1>1, <1>2, <1>3, <1>4

\* What the pipelines without an await propose are targets, and what they log
\* are entries.
PassEntries(c, admissible, blockedEntry) ==
  <<Entry(c, "EVENT", TRUE), Entry(c, "PROPOSAL", TRUE), Entry(c, "CHECK", admissible)>>
    \o IF admissible THEN <<Entry(c, "ACTION", TRUE)>> ELSE blockedEntry

LEMMA ThreeFirst ==
  ASSUME NEW S, NEW x \in S, NEW y \in S, NEW z \in S, NEW s \in Seq(S)
  PROVE  <<x, y, z>> \o s \in Seq(S)
OBVIOUS

LEMMA PassEntriesType ==
  ASSUME NEW c \in Calls, NEW a \in BOOLEAN, NEW b \in Seq(Entries)
  PROVE  PassEntries(c, a, b) \in Seq(Entries)
<1>1. /\ Entry(c, "EVENT", TRUE) \in Entries
      /\ Entry(c, "PROPOSAL", TRUE) \in Entries
      /\ Entry(c, "CHECK", a) \in Entries
      /\ <<Entry(c, "ACTION", TRUE)>> \in Seq(Entries)
  BY EntryType DEF Types
<1>2. CASE a
  BY <1>1, <1>2, ThreeFirst, Zenon DEF PassEntries
<1>3. CASE ~ a
  BY <1>1, <1>3, ThreeFirst, Zenon DEF PassEntries
<1>4. QED
  BY <1>2, <1>3

LEMMA PassTypes ==
  ASSUME CallsOK, NEW c \in Calls, NEW p \in {"boundary", "web"}, NEW x \in Contexts,
         NEW t \in Targets, NEW a \in BOOLEAN, NEW r \in Outcomes, NEW b \in Seq(Entries),
         Pass(c, p, x, t, a, r, b)
  PROVE  CallsOK'
<1> USE BoundaryAssumption DEF CallsOK, CallOK, Contexts, Pipes
<1>1. log' \in [LogPipes -> Seq(Entries)]
  <2>1. p \in LogPipes /\ Append_(p, PassEntries(c, a, b))
    BY DEF LogPipes, Pass, PassEntries
  <2>2. QED
    BY <2>1, PassEntriesType, LogAppended
<1>2. outcome' \in [Calls -> Outcomes \cup {None}]
  BY DEF Pass, Return, TypeOK, Outcomes
<1>3. QED
  BY <1>1, <1>2 DEF Pass, Return, TypeOK

LEMMA BoundaryPass ==
  ASSUME NEW c \in Calls, NEW x \in EventTypes \ {None}, NEW k, ProcessBoundary(c, x, k)
  PROVE  \E t \in Targets, a \in BOOLEAN :
           /\ a => t # "transfer_funds"
           /\ <<Entry(c, "BLOCKED", FALSE)>> \in Seq(Entries)
           /\ Pass(c, "boundary", x, t, a, "executed", <<Entry(c, "BLOCKED", FALSE)>>)
<1>1. /\ BoundaryProposal(k) \in Targets
      /\ BoundaryAdmissible(BoundaryProposal(k)) \in BOOLEAN
      /\ BoundaryAdmissible(BoundaryProposal(k)) => BoundaryProposal(k) # "transfer_funds"
  BY DEF BoundaryProposal, Targets, BoundaryAdmissible
<1>2. <<Entry(c, "BLOCKED", FALSE)>> \in Seq(Entries)
  BY EntryType DEF Types
<1>3. QED
  BY <1>1, <1>2 DEF ProcessBoundary

LEMMA WebPass ==
  ASSUME NEW c \in Calls, NEW x \in EventTypes \ {None}, NEW k, RunPipeline(c, x, k)
  PROVE  \E t \in Targets, a \in BOOLEAN :
           /\ a => t # "transfer_money" \/ x \in {"USER", "ADMIN"}
           /\ Pass(c, "web", x, t, a, "trace", <<>>)
<1>1. /\ WebProposal(k) \in Targets
      /\ WebAdmissible(WebProposal(k), x) \in BOOLEAN
      /\ WebAdmissible(WebProposal(k), x)
           => WebProposal(k) # "transfer_money" \/ x \in {"USER", "ADMIN"}
  BY DEF WebProposal, Targets, WebAdmissible
<1>2. QED
  BY <1>1 DEF RunPipeline

LEMMA CallsStep == CallsOK /\ [BoundaryNext]_boundaryVars => CallsOK'
<1> SUFFICES ASSUME CallsOK, [BoundaryNext]_boundaryVars
             PROVE  CallsOK'
  OBVIOUS
<1>1. CASE UNCHANGED boundaryVars
  BY <1>1 DEF boundaryVars, CallsOK, TypeOK, CallOK
<1>2. CASE \E f \in FileLists : EditFile(f)
  BY <1>2 DEF EditFile, CallsOK, TypeOK, CallOK
<1>3. CASE \E o \in Objects, q \in Proposals : EngineWrites(o, q)
  <2>1. PICK o \in Objects, q \in Proposals : EngineWrites(o, q)
    BY <1>3
  <2>2. q \in [context : Contexts, target : EngineTargets, injected : BOOLEAN]
    BY DEF Proposals, Contexts
  <2>3. QED
    BY <2>1, <2>2 DEF EngineWrites, CallsOK, TypeOK, CallOK
<1>4. ASSUME NEW c \in Calls, NEW x \in EventTypes \ {None}, NEW k,
             ProcessBoundary(c, x, k) \/ RunPipeline(c, x, k)
      PROVE  CallsOK'
  <2>1. x \in Contexts /\ <<>> \in Seq(Entries) /\ {"executed", "trace"} \subseteq Outcomes
    BY BoundaryAssumption DEF Outcomes
  <2>2. CASE ProcessBoundary(c, x, k)
    BY <2>1, <2>2, BoundaryPass, PassTypes
  <2>3. CASE RunPipeline(c, x, k)
    BY <2>1, <2>3, WebPass, PassTypes
  <2>4. QED
    BY <1>4, <2>2, <2>3
<1>5. QED
  BY <1>1, <1>2, <1>3, <1>4, QuietTypes, SampleTypes DEF BoundaryNext

LEMMA CallsInit == BoundaryInit => CallsOK
<1> SUFFICES ASSUME BoundaryInit
             PROVE  CallsOK
  OBVIOUS
<1>1. \A q \in Proposals : q \in [context : Contexts, target : EngineTargets, injected : BOOLEAN]
  BY DEF Proposals, Contexts
<1>2. <<>> \in Seq(Entries)
  OBVIOUS
<1>3. QED
  BY <1>1, <1>2 DEF BoundaryInit, CallsOK, TypeOK, CallOK, LogPipes

-----------------------------------------------------------------------------
(* The checks, against the rules of the specification *)

LEMMA SameWords == CriticalWords(<<env, file>>) = GetCriticalActions
BY DEF CriticalWords, GetCriticalActions

LEMMA ReferenceAllowed ==
  ASSUME NEW p, EnforceActionBoundary(p)
  PROVE  ~ Forbids(<<env, file>>, <<"reference", p.context>>, p.target)
<1>1. /\ ~ Mentions(p.target, {"rm -rf"})
      /\ ~ (p.context = "WEB" /\ Mentions(p.target, CriticalWords(<<env, file>>)))
  BY SameWords, Zenon DEF EnforceActionBoundary, Mentions, GetGloballyBannedActions
<1>2. QED
  BY <1>1 DEF Forbids

LEMMA SampleAllowed ==
  ASSUME NEW p, NEW x, NEW cfg, ~ IsViolation(p)
  PROVE  ~ Forbids(cfg, <<"sample", x>>, p.target)
<1>1. p.target \notin {"delete_database", "transfer_money", "rm -rf /"}
  BY DEF IsViolation, Mentions, Includes
<1>2. QED
  BY <1>1 DEF Forbids

LEMMA PassAllowed ==
  ASSUME NEW t, NEW x, NEW cfg
  PROVE  /\ t # "transfer_funds" => ~ Forbids(cfg, <<"boundary", x>>, t)
         /\ t # "transfer_money" \/ x \in {"USER", "ADMIN"} => ~ Forbids(cfg, <<"web", x>>, t)
         /\ CheckToolCall(t) => ~ Forbids(cfg, <<"tool", x>>, t)
BY DEF Forbids, CheckToolCall

-----------------------------------------------------------------------------
(* The refinement: every step is a step of CheckedAction, or changes nothing *)
(* it sees                                                                 *)

Origin == [c \in Calls |-> IF InPipeline(c) THEN <<pipe[c], source[c]>> ELSE None]
Cleared == [c \in Calls |-> IF token[c] = "refused" THEN None ELSE token[c]]
Performed == [c \in Calls |-> IF InPipeline(c) THEN acted[c] ELSE None]

\* What the specification sees of a call.
LEMMA Seen ==
  ASSUME CallsOK, NEW c \in Calls
  PROVE  /\ pc[c] = "idle" => Origin[c] = None /\ Performed[c] = None
         /\ pc[c] \in {"proposing", "checked"} =>
              /\ InPipeline(c)
              /\ Origin[c] = <<pipe[c], source[c]>> /\ Origin[c] # None
              /\ Performed[c] = None
         /\ Cleared[c] = None <=> token[c] \in {None, "refused"}
         /\ Cleared[c] # None => Cleared[c] = token[c]
<1>1. /\ pc[c] = "idle" => pipe[c] = None
      /\ pc[c] \in {"proposing", "checked"} =>
           pipe[c] \in {"reference", "sample", "tool"} /\ source[c] \in Contexts /\ acted[c] = None
  BY DEF CallsOK, CallOK
<1>2. pc[c] \in {"proposing", "checked"} => InPipeline(c) /\ pipe[c] \in Pipes
  BY <1>1, BoundaryAssumption DEF InPipeline, Pipes
<1>3. pc[c] \in {"proposing", "checked"} => <<pipe[c], source[c]>> # None
  BY <1>1, <1>2, BoundaryAssumption
<1>4. "refused" # None
  BY BoundaryAssumption
<1>5. pc[c] = "idle" => ~ InPipeline(c)
  BY <1>1 DEF InPipeline
<1>6. /\ Cleared[c] = IF token[c] = "refused" THEN None ELSE token[c]
      /\ Origin[c] = IF InPipeline(c) THEN <<pipe[c], source[c]>> ELSE None
      /\ Performed[c] = IF InPipeline(c) THEN acted[c] ELSE None
  BY DEF Cleared, Origin, Performed
<1>7. QED
  BY <1>1, <1>2, <1>3, <1>4, <1>5, <1>6

\* A step that leaves the calls alone.
LEMMA SeesNothing ==
  ASSUME UNCHANGED <<pipe, source, token, acted>>
  PROVE  Gate!Next
BY DEF Gate!Next, Gate!ChangePolicy, InPipeline

\* A call of the boundary itself, outside of the pipelines.
LEMMA SeesDirect ==
  ASSUME CallsOK, NEW c \in Calls, NEW x,
         pc[c] = "idle",
         pipe' = [pipe EXCEPT ![c] = "direct"],
         source' = [source EXCEPT ![c] = x],
         acted' \in {acted, [acted EXCEPT ![c] = acted'[c]]},
         UNCHANGED token
  PROVE  Gate!Next
<1>1. pipe[c] = None /\ pipe \in [Calls -> Pipes \cup {None}] /\ acted \in [Calls -> Targets \cup {None}]
      /\ source \in [Calls -> Contexts \cup {None}]
  BY DEF CallsOK, CallOK, TypeOK
<1>2. /\ ~ InPipeline(c) /\ ~ InPipeline(c)'
      /\ \A d \in Calls \ {c} : /\ pipe'[d] = pipe[d] /\ source'[d] = source[d]
                               /\ acted'[d] = acted[d]
  BY <1>1 DEF InPipeline
<1>3. Origin' = Origin /\ Performed' = Performed
  BY <1>1, <1>2 DEF Origin, Performed, InPipeline
<1>4. QED
  BY <1>3 DEF Gate!Next, Gate!ChangePolicy, Origin, Performed

\* A call begins.
LEMMA SeesBegin ==
  ASSUME CallsOK, NEW c \in Calls, NEW p \in Pipes \ {"direct"}, NEW x \in Contexts,
         pc[c] = "idle",
         pipe' = [pipe EXCEPT ![c] = p],
         source' = [source EXCEPT ![c] = x],
         token' \in {token, [token EXCEPT ![c] = "refused"]},
         UNCHANGED <<env, file, acted>>
  PROVE  Gate!Next
<1>1. Origin[c] = None /\ token[c] = None /\ acted[c] = None /\ p # None /\ pipe[c] = None
  BY Seen, BoundaryAssumption DEF CallsOK, CallOK
<1>2. Origin' = [Origin EXCEPT ![c] = <<p, x>>]
  BY <1>1 DEF Origin, InPipeline, CallsOK, TypeOK
<1>3. Cleared' = Cleared
  BY <1>1, BoundaryAssumption DEF Cleared, CallsOK, TypeOK
<1>4. Performed' = Performed
  BY <1>1 DEF Performed, InPipeline, CallsOK, TypeOK
<1>5. <<p, x>> \in (Pipes \ {"direct"}) \X Contexts
  OBVIOUS
<1>6. Gate!Begin(c, <<p, x>>)
  BY <1>1, <1>2, <1>3, <1>4 DEF Gate!Begin, Origin, Cleared, Performed
<1>7. QED
  BY <1>5, <1>6 DEF Gate!Next

\* A call is cleared, or refused.
LEMMA SeesClear ==
  ASSUME CallsOK, NEW c \in Calls, NEW t \in Targets \cup {"refused"},
         pc[c] = "proposing",
         t # "refused" => ~ Forbids(<<env, file>>, <<pipe[c], source[c]>>, t),
         token' = [token EXCEPT ![c] = t],
         UNCHANGED <<env, file, pipe, source, acted>>
  PROVE  Gate!Next
<1>1. token[c] = None /\ Origin' = Origin /\ Performed' = Performed
  BY DEF CallsOK, CallOK, Origin, Performed, InPipeline
<1>2. CASE t = "refused"
  <2>1. Cleared' = Cleared
    BY <1>1, <1>2, BoundaryAssumption DEF Cleared, CallsOK, TypeOK
  <2>2. QED
    BY <1>1, <2>1 DEF Gate!Next, Gate!ChangePolicy, Origin, Cleared, Performed
<1>3. CASE t # "refused"
  <2>1. Cleared' = [Cleared EXCEPT ![c] = t]
    BY <1>3 DEF Cleared, CallsOK, TypeOK
  <2>2. Cleared[c] = None /\ Origin[c] # None /\ Origin[c] = <<pipe[c], source[c]>>
    BY <1>1, Seen
  <2>3. Gate!Clear(c, t)
    BY <1>1, <1>3, <2>1, <2>2 DEF Gate!Clear, Origin, Cleared, Performed
  <2>4. QED
    BY <1>3, <2>3 DEF Gate!Next
<1>4. QED
  BY <1>2, <1>3

\* A call performs what it is cleared for.
LEMMA SeesPerform ==
  ASSUME CallsOK, NEW c \in Calls, pc[c] = "checked", token[c] # "refused",
         acted' = [acted EXCEPT ![c] = token[c]],
         UNCHANGED <<env, file, pipe, source, token>>
  PROVE  Gate!Next
<1>1. token[c] # None /\ InPipeline(c) /\ Performed[c] = None
  BY Seen DEF CallsOK, CallOK
<1>2. Cleared[c] # None /\ Cleared[c] = token[c]
  BY <1>1, Seen
<1>3. Performed' = [Performed EXCEPT ![c] = token[c]]
  BY <1>1 DEF Performed, InPipeline, CallsOK, TypeOK
<1>4. Origin' = Origin /\ Cleared' = Cleared
  BY DEF Origin, Cleared, InPipeline
<1>5. Gate!Perform(c)
  BY <1>1, <1>2, <1>3, <1>4 DEF Gate!Perform, Origin, Cleared, Performed
<1>6. QED
  BY <1>5 DEF Gate!Next

\* A call begins and is cleared in one step, and perhaps performs.
LEMMA SeesPass ==
  ASSUME CallsOK, NEW c \in Calls, NEW p \in Pipes \ {"direct"}, NEW x \in Contexts,
         NEW t \in Targets,
         t # "refused",
         pc[c] = "idle",
         ~ Forbids(<<env, file>>, <<p, x>>, t),
         pipe' = [pipe EXCEPT ![c] = p],
         source' = [source EXCEPT ![c] = x],
         token' = [token EXCEPT ![c] = t],
         acted' \in {acted, [acted EXCEPT ![c] = t]},
         UNCHANGED <<env, file>>
  PROVE  Gate!Next
<1>1. Origin[c] = None /\ p # None /\ pipe[c] = None /\ acted[c] = None
  BY Seen, BoundaryAssumption DEF CallsOK, CallOK
<1>2. Origin' = [Origin EXCEPT ![c] = <<p, x>>]
  BY <1>1 DEF Origin, InPipeline, CallsOK, TypeOK
<1>3. Cleared' = [Cleared EXCEPT ![c] = t]
  BY DEF Cleared, CallsOK, TypeOK
<1>4. Performed' \in {Performed, [Performed EXCEPT ![c] = t]}
  <2>1. CASE acted' = acted
    BY <1>1, <2>1 DEF Performed, InPipeline, CallsOK, TypeOK
  <2>2. CASE acted' = [acted EXCEPT ![c] = t]
    BY <1>1, <2>2 DEF Performed, InPipeline, CallsOK, TypeOK
  <2>3. QED
    BY <2>1, <2>2
<1>5. Gate!BeginCleared(c, <<p, x>>, t)
  BY <1>1, <1>2, <1>3, <1>4 DEF Gate!BeginCleared, Origin, Cleared, Performed
<1>6. <<p, x>> \in (Pipes \ {"direct"}) \X Contexts
  OBVIOUS
<1>7. QED
  BY <1>5, <1>6 DEF Gate!Next

LEMMA QuietSeen ==
  ASSUME CallsOK, NEW c \in Calls,
         \/ \E x \in EventTypes : Process(c, x)
         \/ \E o \in Objects : Proposed(c, o)
         \/ EngineFails(c)
         \/ CheckFails(c)
         \/ Checked(c)
         \/ ActedRejects(c)
         \/ ExecuteUnverified(c)
         \/ \E t \in EngineTargets : ExecuteMinted(c, t)
         \/ \E t \in {"delete_database", "reply"} : CallTool(c, t)
         \/ ToolAnswered(c)
  PROVE  Gate!Next
<1>1. ASSUME NEW x \in EventTypes, Process(c, x)
      PROVE  Gate!Next
  <2>1. Classify(x) \in Contexts
    BY BoundaryAssumption DEF Classify, Contexts
  <2>2. QED
    BY <1>1, <2>1, SeesBegin DEF Process, Start, configVars, Pipes
<1>2. ASSUME NEW o \in Objects, Proposed(c, o)
      PROVE  Gate!Next
  <2>1. heap'[o].context = source[c] /\ heap'[o].target = heap[o].target
    BY <1>2 DEF Proposed, CallsOK, TypeOK
  <2>2. /\ pc[c] = "proposing" /\ pipe[c] = "reference"
        /\ UNCHANGED <<env, file, pipe, source, acted>>
        /\ token' = [token EXCEPT ![c] =
                       IF EnforceActionBoundary(heap'[o]) THEN heap[o].target ELSE "refused"]
    BY <1>2, Zenon DEF Proposed, configVars
  <2>3. CASE EnforceActionBoundary(heap'[o])
    <3>1. ~ Forbids(<<env, file>>, <<pipe[c], source[c]>>, heap[o].target)
      BY <2>1, <2>2, <2>3, ReferenceAllowed
    <3>2. heap[o].target \in Targets
      BY DEF CallsOK, TypeOK, Targets
    <3>3. QED
      BY <2>2, <2>3, <3>1, <3>2, SeesClear
  <2>4. CASE ~ EnforceActionBoundary(heap'[o])
    BY <2>2, <2>4, SeesClear
  <2>5. QED
    BY <2>3, <2>4
<1>3. ASSUME EngineFails(c)
      PROVE  Gate!Next
  BY <1>3, SeesNothing DEF EngineFails
<1>4. ASSUME Checked(c)
      PROVE  Gate!Next
  BY <1>4, SeesNothing, SeesPerform DEF Checked, Execute, IsVerifiedTransition, configVars
<1>5. ASSUME ExecuteUnverified(c)
      PROVE  Gate!Next
  BY <1>5, SeesDirect DEF ExecuteUnverified
<1>6. ASSUME NEW t \in {"delete_database", "reply"}, CallTool(c, t)
      PROVE  Gate!Next
  <2>1. t \in Targets /\ t # "refused" /\ "tool" \in Pipes \ {"direct"} /\ "SYSTEM" \in Contexts
    BY DEF Targets, Pipes, Contexts
  <2>2. CASE CheckToolCall(t)
    BY <1>6, <2>1, <2>2, PassAllowed, SeesPass DEF CallTool, Start, configVars
  <2>3. CASE ~ CheckToolCall(t)
    BY <1>6, <2>1, <2>3, SeesBegin DEF CallTool, Start, configVars
  <2>4. QED
    BY <2>2, <2>3
<1>7. ASSUME ToolAnswered(c)
      PROVE  Gate!Next
  <2>1. CASE token[c] = "refused"
    <3>1. acted' = acted
      BY <1>7, <2>1 DEF ToolAnswered, CallsOK, TypeOK
    <3>2. QED
      BY <1>7, <3>1, SeesNothing DEF ToolAnswered
  <2>2. CASE token[c] # "refused"
    BY <1>7, <2>2, SeesPerform DEF ToolAnswered, configVars
  <2>3. QED
    BY <2>1, <2>2
<1>8. ASSUME CheckFails(c) \/ ActedRejects(c)
      PROVE  Gate!Next
  BY <1>8, SeesNothing DEF CheckFails, ActedRejects
<1>9. ASSUME NEW t \in EngineTargets, ExecuteMinted(c, t)
      PROVE  Gate!Next
  <2>1. acted' = [acted EXCEPT ![c] = acted'[c]]
    BY <1>9 DEF ExecuteMinted, Execute, CallsOK, TypeOK
  <2>2. QED
    BY <1>9, <2>1, SeesDirect DEF ExecuteMinted
<1>10. QED
  BY <1>1, <1>2, <1>3, <1>4, <1>5, <1>6, <1>7, <1>8, <1>9

LEMMA SampleSeen ==
  ASSUME CallsOK, NEW c \in Calls,
         \/ \E x \in EventTypes \ {None} : ProcessSample(c, x)
         \/ \E o \in Objects : ProposedSample(c, o)
         \/ CheckedSample(c)
         \/ \E ok \in BOOLEAN : Acted(c, ok)
  PROVE  Gate!Next
<1>1. ASSUME NEW x \in EventTypes \ {None}, ProcessSample(c, x)
      PROVE  Gate!Next
  BY <1>1, BoundaryAssumption, SeesBegin DEF ProcessSample, Start, configVars, Pipes
<1>2. ASSUME NEW o \in Objects, ProposedSample(c, o)
      PROVE  Gate!Next
  <2>1. /\ pc[c] = "proposing" /\ pipe[c] = "sample"
        /\ UNCHANGED <<env, file, pipe, source, acted>>
        /\ token' = [token EXCEPT ![c] = IF IsViolation(heap[o]) THEN "refused" ELSE heap[o].target]
    BY <1>2, Zenon DEF ProposedSample, configVars
  <2>2. CASE IsViolation(heap[o])
    BY <2>1, <2>2, SeesClear
  <2>3. CASE ~ IsViolation(heap[o])
    <3>1. ~ Forbids(<<env, file>>, <<pipe[c], source[c]>>, heap[o].target)
      BY <2>1, <2>3, SampleAllowed
    <3>2. heap[o].target \in Targets
      BY DEF CallsOK, TypeOK, Targets
    <3>3. QED
      BY <2>1, <2>3, <3>1, <3>2, SeesClear
  <2>4. QED
    BY <2>2, <2>3
<1>3. ASSUME CheckedSample(c)
      PROVE  Gate!Next
  <2>1. /\ pc[c] = "checked"
        /\ UNCHANGED <<env, file, pipe, source, token>>
        /\ \/ UNCHANGED acted
           \/ token[c] \notin {None, "refused"} /\ acted' = [acted EXCEPT ![c] = token[c]]
    BY <1>3, Zenon DEF CheckedSample, Execute, IsVerifiedTransition, configVars
  <2>2. QED
    BY <2>1, SeesNothing, SeesPerform
<1>4. ASSUME NEW ok \in BOOLEAN, Acted(c, ok)
      PROVE  Gate!Next
  BY <1>4, SeesNothing DEF Acted
<1>5. QED
  BY <1>1, <1>2, <1>3, <1>4

LEMMA PassSeen ==
  ASSUME CallsOK, NEW c \in Calls, NEW p \in {"boundary", "web"}, NEW x \in Contexts,
         NEW t \in Targets, NEW a \in BOOLEAN, NEW r, NEW b,
         t # "refused", a => ~ Forbids(<<env, file>>, <<p, x>>, t),
         Pass(c, p, x, t, a, r, b)
  PROVE  Gate!Next
<1>1. /\ pc[c] = "idle"
      /\ pipe' = [pipe EXCEPT ![c] = p]
      /\ source' = [source EXCEPT ![c] = x]
      /\ token' = [token EXCEPT ![c] = IF a THEN t ELSE "refused"]
      /\ acted' = [acted EXCEPT ![c] = IF a THEN t ELSE @]
      /\ UNCHANGED <<env, file>>
  BY Zenon DEF Pass, configVars
<1>2. p \in Pipes \ {"direct"}
  BY DEF Pipes
<1>3. CASE a
  BY <1>1, <1>2, <1>3, SeesPass
<1>4. CASE ~ a
  <2>1. acted' = acted
    BY <1>1, <1>4 DEF CallsOK, TypeOK
  <2>2. QED
    BY <1>1, <1>2, <1>4, <2>1, SeesBegin
<1>5. QED
  BY <1>3, <1>4

LEMMA StepSeen == CallsOK /\ [BoundaryNext]_boundaryVars => [Gate!Next]_(Gate!vars)
<1> SUFFICES ASSUME CallsOK, [BoundaryNext]_boundaryVars
             PROVE  Gate!Next
  OBVIOUS
<1>1. CASE UNCHANGED boundaryVars
  BY <1>1, SeesNothing DEF boundaryVars
<1>2. CASE \E f \in FileLists : EditFile(f)
  BY <1>2, SeesNothing DEF EditFile
<1>3. CASE \E o \in Objects, q \in Proposals : EngineWrites(o, q)
  BY <1>3, SeesNothing DEF EngineWrites
<1>4. ASSUME NEW c \in Calls, NEW x \in EventTypes \ {None}, NEW k,
             ProcessBoundary(c, x, k) \/ RunPipeline(c, x, k)
      PROVE  Gate!Next
  <2>1. x \in Contexts /\ "refused" \notin Targets
    BY BoundaryAssumption DEF Targets
  <2>2. CASE ProcessBoundary(c, x, k)
    BY <2>1, <2>2, BoundaryPass, PassSeen, PassAllowed
  <2>3. CASE RunPipeline(c, x, k)
    <3>1. PICK t \in Targets, a \in BOOLEAN :
             /\ a => t # "transfer_money" \/ x \in {"USER", "ADMIN"}
             /\ Pass(c, "web", x, t, a, "trace", <<>>)
      BY <2>3, WebPass
    <3>2. a => ~ Forbids(<<env, file>>, <<"web", x>>, t)
      BY <3>1, PassAllowed
    <3>3. QED
      BY <2>1, <3>1, <3>2, PassSeen
  <2>4. QED
    BY <1>4, <2>2, <2>3
<1>5. QED
  BY <1>1, <1>2, <1>3, <1>4, QuietSeen, SampleSeen DEF BoundaryNext

LEMMA InitSeen == BoundaryInit => Gate!Init
<1> SUFFICES ASSUME BoundaryInit
             PROVE  Gate!Init
  OBVIOUS
<1>1. "refused" # None
  BY BoundaryAssumption
<1>2. QED
  BY <1>1 DEF BoundaryInit, Gate!Init, InPipeline

\* Type correctness of the pipelines, and where each call may be waiting with
\* which fields set.
THEOREM CallsCorrect == BoundarySpec => []CallsOK
<1>1. BoundaryInit => CallsOK
  BY CallsInit
<1>2. CallsOK /\ [BoundaryNext]_boundaryVars => CallsOK'
  BY CallsStep
<1>3. QED
  BY <1>1, <1>2, PTL DEF BoundarySpec

\* Every pipeline is a checked action (CheckedAction): whatever the engine
\* writes into the objects it shares, whenever the policy file is edited, and
\* whatever transitions callers mint and execute besides, the executor of a call
\* of process() is called once at most, with the target that was checked, which
\* was not forbidden to the real context of the event at the moment of the check.
THEOREM BoundaryIsGate == BoundarySpec => ImplementsGate
<1>1. BoundaryInit => Gate!Init
  BY InitSeen
<1>2. CallsOK /\ [BoundaryNext]_boundaryVars => [Gate!Next]_(Gate!vars)
  BY StepSeen
<1>3. QED
  BY <1>1, <1>2, CallsCorrect, PTL DEF BoundarySpec, ImplementsGate, Gate!Spec

-----------------------------------------------------------------------------
(* What appending an entry does to the script of a call *)

LEMMA StageOf ==
  /\ \A t : Stage(t) \in 1 .. 4
  /\ Stage("EVENT") = 1 /\ Stage("PROPOSAL") = 2 /\ Stage("CHECK") = 3
  /\ Stage("ACTION") = 4 /\ Stage("BLOCKED") = 4
BY DEF Stage

LEMMA Appended ==
  ASSUME NEW l \in Seq(Entries), NEW e \in Entries
  PROVE  /\ Append(l, e) \in Seq(Entries)
         /\ DOMAIN Append(l, e) = DOMAIN l \cup {Len(l) + 1}
         /\ \A i \in DOMAIN l : Append(l, e)[i] = l[i] /\ i < Len(l) + 1 /\ i \in Nat
         /\ Append(l, e)[Len(l) + 1] = e
         /\ Len(l) + 1 \notin DOMAIN l
         /\ Len(l) \in Nat
OBVIOUS

\* What the invariant says of a call is as true of log m as it was of l.
SameScript(l, m, c) ==
  /\ \A n \in 0 .. 4 : Scripted(l, c, n) => Scripted(m, c, n)
  /\ \A t \in Types : HasEntry(l, c, t) <=> HasEntry(m, c, t)
  /\ HasCheck(l, c) <=> HasCheck(m, c)

LEMMA AppendOther ==
  ASSUME NEW l \in Seq(Entries), NEW e \in Entries, NEW c \in Calls, e.call # c
  PROVE  SameScript(l, Append(l, e), c)
<1> DEFINE m == Append(l, e)
<1>1. \A i \in DOMAIN m : m[i].call = c => i \in DOMAIN l /\ m[i] = l[i]
  BY Appended
<1>2. \A i \in DOMAIN l : i \in DOMAIN m /\ m[i] = l[i]
  BY Appended
<1> HIDE DEF m
<1>3. \A n \in 0 .. 4 : Scripted(l, c, n) => Scripted(m, c, n)
  BY <1>1, <1>2 DEF Scripted
<1>4. \A t \in Types : HasEntry(l, c, t) <=> HasEntry(m, c, t)
  BY <1>1, <1>2, Zenon DEF HasEntry
<1>5. HasCheck(l, c) <=> HasCheck(m, c)
  BY <1>1, <1>2, Zenon DEF HasCheck
<1>6. QED
  BY <1>3, <1>4, <1>5 DEF SameScript, m

LEMMA AppendOwn ==
  ASSUME NEW l \in Seq(Entries), NEW e \in Entries, NEW c \in Calls, e.call = c,
         NEW n \in 0 .. 3, Scripted(l, c, n), Stage(e.type) = n + 1
  PROVE  Scripted(Append(l, e), c, n + 1)
<1> DEFINE m == Append(l, e)
           k == Len(l) + 1
<1>1. /\ DOMAIN m = DOMAIN l \cup {k}
      /\ \A i \in DOMAIN l : m[i] = l[i] /\ i < k /\ i \in Nat
      /\ m[k] = e
      /\ k \in Nat
  BY Appended
<1> HIDE DEF m, k
<1>2. ASSUME NEW i \in DOMAIN m, m[i].call = c
      PROVE  Stage(m[i].type) \in 1 .. n + 1
  BY <1>1, <1>2 DEF Scripted
<1>3. ASSUME NEW i \in DOMAIN m, NEW j \in DOMAIN m, m[i].call = c, m[j].call = c, i < j
      PROVE  Stage(m[i].type) < Stage(m[j].type)
  <2>1. i \in DOMAIN l
    BY <1>1, <1>3
  <2>2. m[i] = l[i] /\ Stage(l[i].type) \in 1 .. n
    BY <1>1, <1>3, <2>1 DEF Scripted
  <2>3. CASE j = k
    BY <1>1, <2>2, <2>3
  <2>4. CASE j \in DOMAIN l
    BY <1>1, <1>3, <2>1, <2>4 DEF Scripted
  <2>5. QED
    BY <1>1, <2>3, <2>4
<1>4. ASSUME NEW s \in 1 .. n + 1
      PROVE  \E i \in DOMAIN m : m[i].call = c /\ Stage(m[i].type) = s
  <2>1. CASE s = n + 1
    BY <1>1, <2>1
  <2>2. CASE s \in 1 .. n
    BY <1>1, <2>2 DEF Scripted
  <2>3. QED
    BY <2>1, <2>2
<1>5. QED
  BY <1>2, <1>3, <1>4 DEF Scripted, m

LEMMA AppendHas ==
  ASSUME NEW l \in Seq(Entries), NEW e \in Entries, NEW c \in Calls, e.call = c
  PROVE  /\ \A t \in Types : HasEntry(Append(l, e), c, t) <=> HasEntry(l, c, t) \/ e.type = t
         /\ HasCheck(l, c) => HasCheck(Append(l, e), c)
         /\ e.type = "CHECK" /\ e.ok => HasCheck(Append(l, e), c)
<1> DEFINE m == Append(l, e)
           k == Len(l) + 1
<1>1. /\ DOMAIN m = DOMAIN l \cup {k}
      /\ \A i \in DOMAIN l : m[i] = l[i]
      /\ m[k] = e
  BY Appended
<1> HIDE DEF m, k
<1>2. QED
  BY <1>1, Zenon DEF HasEntry, HasCheck, m

\* A call has no entry of a stage its script has not reached.
LEMMA NotYet ==
  ASSUME NEW l, NEW c, NEW n \in 0 .. 3, Scripted(l, c, n)
  PROVE  ~ HasEntry(l, c, "ACTION")
BY StageOf DEF Scripted, HasEntry

LEMMA EntryIs ==
  ASSUME NEW c \in Calls, NEW t \in Types, NEW ok \in BOOLEAN, NEW e, e = Entry(c, t, ok)
  PROVE  e \in Entries /\ e.call = c /\ e.type = t /\ (ok => e.ok)
BY DEF Entry, Entries

-----------------------------------------------------------------------------
(* The logs, step by step *)

LEMMA SameItself ==
  ASSUME NEW l, NEW c
  PROVE  SameScript(l, l, c)
BY DEF SameScript

\* A call that does not move keeps what is known of its entries.
LEMMA Kept ==
  ASSUME LogsOK, NEW p \in LogPipes, NEW d \in Calls,
         pc'[d] = pc[d], pipe'[d] = pipe[d], acted'[d] = acted[d], outcome'[d] = outcome[d],
         SameScript(log[p], log'[p], d)
  PROVE  LoggedOK(p, d)'
<1>1. LoggedOK(p, d)
  BY DEF LogsOK
<1>2. \A n \in 0 .. 4 : Scripted(log[p], d, n) => Scripted(log'[p], d, n)
  BY DEF SameScript
<1>3. HasEntry(log[p], d, "ACTION") <=> HasEntry(log'[p], d, "ACTION")
  BY DEF SameScript, Types
<1>4. HasCheck(log[p], d) <=> HasCheck(log'[p], d)
  BY DEF SameScript
<1>5. CASE pipe[d] # p
  BY <1>1, <1>2, <1>5 DEF LoggedOK
<1>6. CASE pipe[d] = p
  <2>1. pc[d] = "done" => \E n \in 1 .. 4 : Scripted(log'[p], d, n)
    BY <1>1, <1>2, <1>6 DEF LoggedOK
  <2>2. QED
    BY <1>1, <1>2, <1>3, <1>4, <1>6, <2>1 DEF LoggedOK
<1>7. QED
  BY <1>5, <1>6

\* Only call c moves.
Alone(c) == \A d \in Calls \ {c} : /\ pc'[d] = pc[d] /\ pipe'[d] = pipe[d]
                                   /\ acted'[d] = acted[d] /\ outcome'[d] = outcome[d]

\* The logs stay as they are.
LEMMA LogsSame ==
  ASSUME LogsOK, NEW c \in Calls, Alone(c), UNCHANGED log,
         \A p \in LogPipes : LoggedOK(p, c)'
  PROVE  LogsOK'
BY SameItself, Kept DEF LogsOK, Alone

\* Call c writes the log of its own pipeline.
LEMMA LogsWritten ==
  ASSUME LogsOK, NEW c \in Calls, Alone(c), NEW p \in LogPipes,
         \A q \in LogPipes \ {p} : log'[q] = log[q],
         \A d \in Calls \ {c} : SameScript(log[p], log'[p], d),
         pipe[c] \in {None, p}, pipe'[c] = p,
         LoggedOK(p, c)'
  PROVE  LogsOK'
<1>0. None \notin LogPipes
  BY BoundaryAssumption DEF LogPipes, Pipes
<1>1. ASSUME NEW q \in LogPipes, NEW d \in Calls \ {c}
      PROVE  LoggedOK(q, d)'
  BY <1>1, SameItself, Kept DEF Alone
<1>2. ASSUME NEW q \in LogPipes \ {p}
      PROVE  LoggedOK(q, c)'
  <2>1. pipe[c] # q /\ pipe'[c] # q
    BY <1>0, <1>2
  <2>2. Scripted(log[q], c, 0)
    BY <2>1 DEF LogsOK, LoggedOK
  <2>3. QED
    BY <2>1, <2>2 DEF LoggedOK
<1>3. QED
  BY <1>1, <1>2 DEF LogsOK

\* Steps of the calls that write no log.
LEMMA QuietLogs ==
  ASSUME CallsOK, LogsOK, NEW c \in Calls,
         \/ \E x \in EventTypes : Process(c, x)
         \/ \E o \in Objects : Proposed(c, o)
         \/ EngineFails(c)
         \/ CheckFails(c)
         \/ Checked(c)
         \/ ActedRejects(c)
         \/ ExecuteUnverified(c)
         \/ \E t \in EngineTargets : ExecuteMinted(c, t)
         \/ \E t \in {"delete_database", "reply"} : CallTool(c, t)
         \/ ToolAnswered(c)
  PROVE  LogsOK'
<1>0. /\ None \notin LogPipes /\ "reference" \notin LogPipes
      /\ "tool" \notin LogPipes /\ "direct" \notin LogPipes
  BY BoundaryAssumption DEF LogPipes, Pipes
<1>1. CASE EngineFails(c) \/ CheckFails(c) \/ ActedRejects(c)
  <2>1. /\ pc[c] \in {"proposing", "checked", "acting"} /\ pc' = [pc EXCEPT ![c] = "done"]
        /\ outcome' = [outcome EXCEPT ![c] = "rejected"]
        /\ UNCHANGED <<pipe, acted, log>>
    BY <1>1 DEF EngineFails, CheckFails, ActedRejects, Return
  <2>2. Alone(c) /\ pc'[c] = "done" /\ outcome'[c] = "rejected"
    BY <2>1 DEF Alone, CallsOK, TypeOK
  <2>3. ASSUME NEW p \in LogPipes
        PROVE  LoggedOK(p, c)'
    <3>1. LoggedOK(p, c)
      BY DEF LogsOK
    <3>2. CASE pipe[c] # p
      BY <2>1, <3>1, <3>2 DEF LoggedOK
    <3>3. CASE pipe[c] = p
      <4>1. PICK n \in 1 .. 3 : Scripted(log[p], c, n)
        BY <2>1, <3>1, <3>3 DEF LoggedOK
      <4>2. ~ HasEntry(log[p], c, "ACTION")
        BY <4>1, NotYet
      <4>3. acted[c] # None => HasCheck(log[p], c)
        BY <3>1, <3>3 DEF LoggedOK
      <4>4. QED
        BY <2>1, <2>2, <3>3, <4>1, <4>2, <4>3 DEF LoggedOK
    <3>4. QED
      BY <3>2, <3>3
  <2>4. QED
    BY <2>1, <2>2, <2>3, LogsSame
<1>2. CASE ~ (EngineFails(c) \/ CheckFails(c) \/ ActedRejects(c))
  <2>1. /\ UNCHANGED log
        /\ Alone(c)
        /\ pipe[c] \in {None, "reference", "tool"}
        /\ pipe'[c] \in {"reference", "tool", "direct"}
    <3> USE DEF CallsOK, TypeOK, CallOK, Alone
    <3>1. CASE \E x \in EventTypes : Process(c, x)
      BY <3>1 DEF Process, Start
    <3>2. CASE \E o \in Objects : Proposed(c, o)
      <4>1. /\ UNCHANGED <<log, acted, pipe, outcome>>
            /\ pipe[c] = "reference" /\ pc' = [pc EXCEPT ![c] = "checked"]
        BY <3>2, Zenon DEF Proposed
      <4>2. QED
        BY <4>1
    <3>3. CASE Checked(c)
      BY <3>3 DEF Checked, Return, Execute
    <3>4. CASE ExecuteUnverified(c)
      BY <3>4 DEF ExecuteUnverified, Return
    <3>5. CASE \E t \in {"delete_database", "reply"} : CallTool(c, t)
      BY <3>5 DEF CallTool, Start
    <3>6. CASE ToolAnswered(c)
      BY <3>6 DEF ToolAnswered, Return
    <3>7. CASE \E t \in EngineTargets : ExecuteMinted(c, t)
      BY <3>7 DEF ExecuteMinted, Execute
    <3>8. QED
      BY <1>2, <3>1, <3>2, <3>3, <3>4, <3>5, <3>6, <3>7
  <2>2. ASSUME NEW p \in LogPipes
        PROVE  LoggedOK(p, c)'
    <3>1. pipe[c] # p /\ pipe'[c] # p
      BY <1>0, <2>1
    <3>2. Scripted(log[p], c, 0)
      BY <3>1 DEF LogsOK, LoggedOK
    <3>3. QED
      BY <2>1, <3>1, <3>2 DEF LoggedOK
  <2>3. QED
    BY <2>1, <2>2, LogsSame
<1>3. QED
  BY <1>1, <1>2

LEMMA ConcatOne ==
  ASSUME NEW S, NEW l \in Seq(S), NEW e \in S
  PROVE  l \o <<e>> = Append(l, e)
OBVIOUS

\* Call c of the sample logs one entry.
LEMMA SampleLogs ==
  ASSUME CallsOK, LogsOK, NEW c \in Calls, NEW t \in Types, NEW ok \in BOOLEAN,
         Append_("sample", <<Entry(c, t, ok)>>), Alone(c),
         pipe[c] \in {None, "sample"}, pipe'[c] = "sample"
  PROVE  /\ log["sample"] \in Seq(Entries)
         /\ log'["sample"] = Append(log["sample"], Entry(c, t, ok))
         /\ LoggedOK("sample", c)' => LogsOK'
<1>0. "sample" \in LogPipes
  BY DEF LogPipes
<1>1. log["sample"] \in Seq(Entries)
  BY <1>0 DEF CallsOK, TypeOK
<1>2. Entry(c, t, ok) \in Entries /\ <<Entry(c, t, ok)>> \in Seq(Entries)
  BY EntryType, Zenon
<1>3. /\ log'["sample"] = log["sample"] \o <<Entry(c, t, ok)>>
      /\ \A q \in LogPipes \ {"sample"} : log'[q] = log[q]
  BY <1>0, <1>2, LogAppended, Zenon DEF CallsOK
<1>4. log'["sample"] = Append(log["sample"], Entry(c, t, ok))
  BY <1>1, <1>2, <1>3, ConcatOne, Zenon
<1>5. ASSUME NEW d \in Calls \ {c}
      PROVE  SameScript(log["sample"], log'["sample"], d)
  <2>1. PICK e : e = Entry(c, t, ok)
    OBVIOUS
  <2>2. e \in Entries /\ e.call # d /\ log'["sample"] = Append(log["sample"], e)
    BY <1>4, <2>1, EntryIs
  <2>3. QED
    BY <1>1, <2>2, AppendOther
<1>6. LoggedOK("sample", c)' => LogsOK'
  BY <1>0, <1>3, <1>5, LogsWritten, Zenon
<1>7. QED
  BY <1>1, <1>4, <1>6

LEMMA ProcessSampleLogs ==
  ASSUME CallsOK, LogsOK, NEW c \in Calls, NEW x \in EventTypes \ {None}, ProcessSample(c, x)
  PROVE  LogsOK'
<1>e. PICK e : e = Entry(c, "EVENT", TRUE)
  OBVIOUS
<1>0. "sample" \in LogPipes /\ "sample" # None /\ "EVENT" \in Types
  BY BoundaryAssumption DEF LogPipes, Pipes, Types
<1>1. pc[c] = "idle" /\ pipe[c] = None /\ acted[c] = None
  BY DEF ProcessSample, Start, CallsOK, CallOK
<1>2. Alone(c) /\ pc'[c] = "proposing" /\ pipe'[c] = "sample" /\ acted'[c] = None
  BY <1>1 DEF ProcessSample, Start, Alone, CallsOK, TypeOK
<1>3. Append_("sample", <<e>>)
  BY <1>e, Zenon DEF ProcessSample
<1>4. e \in Entries /\ e.call = c /\ e.type = "EVENT" /\ Stage(e.type) = 1
  <2>1. e \in Entries /\ e.call = c /\ e.type = "EVENT"
    BY <1>e, <1>0 DEF Entry, Entries
  <2>2. QED
    BY <2>1, StageOf
<1>5. Scripted(log["sample"], c, 0)
  BY <1>0, <1>1 DEF LogsOK, LoggedOK
<1>6. /\ log["sample"] \in Seq(Entries) /\ log'["sample"] = Append(log["sample"], e)
      /\ LoggedOK("sample", c)' => LogsOK'
  BY <1>0, <1>1, <1>2, <1>3, <1>e, SampleLogs, Zenon
<1>7. Scripted(log'["sample"], c, 1)
  BY <1>4, <1>5, <1>6, AppendOwn
<1>8. LoggedOK("sample", c)'
  BY <1>2, <1>7 DEF LoggedOK
<1>9. QED
  BY <1>6, <1>8

LEMMA ProposedSampleLogs ==
  ASSUME CallsOK, LogsOK, NEW c \in Calls, NEW o \in Objects, ProposedSample(c, o)
  PROVE  LogsOK'
<1>e. PICK e : e = Entry(c, "PROPOSAL", TRUE)
  OBVIOUS
<1>0. "sample" \in LogPipes /\ "PROPOSAL" \in Types
  BY DEF LogPipes, Types
<1>1. /\ pc[c] = "proposing" /\ pipe[c] = "sample" /\ acted[c] = None
      /\ pc' = [pc EXCEPT ![c] = "checked"] /\ UNCHANGED <<pipe, acted, outcome>>
  BY Zenon DEF ProposedSample, CallsOK, CallOK
<1>2. Alone(c) /\ pc'[c] = "checked" /\ pipe'[c] = "sample" /\ acted'[c] = None
  BY <1>1 DEF Alone, CallsOK, TypeOK
<1>3. Append_("sample", <<e>>)
  BY <1>e, Zenon DEF ProposedSample
<1>4. e \in Entries /\ e.call = c /\ e.type = "PROPOSAL" /\ Stage(e.type) = 2
  <2>1. e \in Entries /\ e.call = c /\ e.type = "PROPOSAL"
    BY <1>e, <1>0 DEF Entry, Entries
  <2>2. QED
    BY <2>1, StageOf
<1>5. Scripted(log["sample"], c, 1)
  BY <1>0, <1>1 DEF LogsOK, LoggedOK
<1>6. /\ log["sample"] \in Seq(Entries) /\ log'["sample"] = Append(log["sample"], e)
      /\ LoggedOK("sample", c)' => LogsOK'
  BY <1>0, <1>1, <1>2, <1>3, <1>e, SampleLogs, Zenon
<1>7. Scripted(log'["sample"], c, 2)
  BY <1>4, <1>5, <1>6, AppendOwn
<1>8. LoggedOK("sample", c)'
  BY <1>2, <1>7 DEF LoggedOK
<1>9. QED
  BY <1>6, <1>8

LEMMA CheckedSampleLogs ==
  ASSUME CallsOK, LogsOK, NEW c \in Calls, CheckedSample(c)
  PROVE  LogsOK'
<1>ok. PICK ok \in BOOLEAN : ok = (token[c] # "refused")
  OBVIOUS
<1>e. PICK e : e = Entry(c, "CHECK", ok)
  OBVIOUS
<1>0. "sample" \in LogPipes /\ "CHECK" \in Types
  BY DEF LogPipes, Types
<1>1. /\ pc[c] = "checked" /\ pipe[c] = "sample" /\ acted[c] = None
      /\ UNCHANGED pipe
      /\ \/ /\ pc' = [pc EXCEPT ![c] = "done"] /\ UNCHANGED acted
            /\ outcome' = [outcome EXCEPT ![c] = "BLOCKED"]
         \/ /\ ok
            /\ acted' = [acted EXCEPT ![c] = token[c]]
            /\ pc' = [pc EXCEPT ![c] = "acting"]
            /\ UNCHANGED outcome
  BY <1>ok, Zenon DEF CheckedSample, Return, Execute, IsVerifiedTransition, CallsOK, CallOK
<1>2. /\ Alone(c) /\ pipe'[c] = "sample"
      /\ \/ pc'[c] = "done" /\ acted'[c] = None
         \/ pc'[c] = "acting" /\ ok
  BY <1>1 DEF Alone, CallsOK, TypeOK
<1>3. Append_("sample", <<e>>)
  BY <1>e, <1>ok, Zenon DEF CheckedSample
<1>4. e \in Entries /\ e.call = c /\ e.type = "CHECK" /\ Stage(e.type) = 3
  <2>1. e \in Entries /\ e.call = c /\ e.type = "CHECK"
    BY <1>e, <1>0 DEF Entry, Entries
  <2>2. QED
    BY <2>1, StageOf
<1>5. ok => e.ok
  BY <1>e, <1>0 DEF Entry, Entries
<1>6. Scripted(log["sample"], c, 2)
  BY <1>0, <1>1 DEF LogsOK, LoggedOK
<1>7. /\ log["sample"] \in Seq(Entries) /\ log'["sample"] = Append(log["sample"], e)
      /\ LoggedOK("sample", c)' => LogsOK'
  BY <1>0, <1>1, <1>2, <1>3, <1>e, SampleLogs, Zenon
<1>8. ok => HasCheck(log'["sample"], c)
  BY <1>4, <1>5, <1>7, AppendHas
<1>9. Scripted(log'["sample"], c, 3)
  BY <1>4, <1>6, <1>7, AppendOwn
<1>10. ~ HasEntry(log'["sample"], c, "ACTION")
  BY <1>9, NotYet
<1>11. LoggedOK("sample", c)'
  BY <1>2, <1>8, <1>9, <1>10 DEF LoggedOK
<1>12. QED
  BY <1>7, <1>11

LEMMA ActedLogs ==
  ASSUME CallsOK, LogsOK, NEW c \in Calls, NEW ok \in BOOLEAN, Acted(c, ok)
  PROVE  LogsOK'
<1>e. PICK e : e = Entry(c, "ACTION", ok)
  OBVIOUS
<1>0. "sample" \in LogPipes /\ "ACTION" \in Types
  BY DEF LogPipes, Types
<1>1. /\ pc[c] = "acting" /\ pipe[c] \in {"reference", "sample", "direct"} /\ acted[c] # None
      /\ pc' = [pc EXCEPT ![c] = "done"] /\ UNCHANGED <<pipe, acted>>
      /\ outcome' = [outcome EXCEPT ![c] = IF ok THEN "ALLOWED" ELSE "ALLOWED, failed"]
  BY Zenon DEF Acted, Return, CallsOK, CallOK
<1>2. /\ Alone(c) /\ pc'[c] = "done" /\ pipe'[c] = pipe[c] /\ acted'[c] # None
      /\ outcome'[c] # "rejected"
  BY <1>1 DEF Alone, CallsOK, TypeOK
<1>3. CASE pipe[c] = "sample"
  <2>1. Append_("sample", <<e>>)
    BY <1>e, <1>3, Zenon DEF Acted
  <2>2. e \in Entries /\ e.call = c /\ e.type = "ACTION" /\ Stage(e.type) = 4
    <3>1. e \in Entries /\ e.call = c /\ e.type = "ACTION"
      BY <1>e, <1>0 DEF Entry, Entries
    <3>2. QED
      BY <3>1, StageOf
  <2>3. Scripted(log["sample"], c, 3) /\ HasCheck(log["sample"], c)
    BY <1>0, <1>1, <1>3 DEF LogsOK, LoggedOK
  <2>4. /\ log["sample"] \in Seq(Entries) /\ log'["sample"] = Append(log["sample"], e)
        /\ LoggedOK("sample", c)' => LogsOK'
    BY <1>0, <1>2, <1>3, <2>1, <1>e, SampleLogs, Zenon
  <2>5. HasCheck(log'["sample"], c) /\ HasEntry(log'["sample"], c, "ACTION")
    BY <1>0, <2>2, <2>3, <2>4, AppendHas
  <2>6. Scripted(log'["sample"], c, 4)
    BY <2>2, <2>3, <2>4, AppendOwn
  <2>7. LoggedOK("sample", c)'
    BY <1>2, <1>3, <2>5, <2>6 DEF LoggedOK
  <2>8. QED
    BY <2>4, <2>7
<1>4. CASE pipe[c] # "sample"
  <2>1. UNCHANGED log
    BY <1>4, Zenon DEF Acted
  <2>2. ASSUME NEW p \in LogPipes
        PROVE  LoggedOK(p, c)'
    <3>1. pipe[c] # p
      BY <1>1, <1>4, <2>2 DEF LogPipes
    <3>2. QED
      BY <1>2, <2>1, <3>1 DEF LogsOK, LoggedOK
  <2>3. QED
    BY <1>2, <2>1, <2>2, LogsSame
<1>5. QED
  BY <1>3, <1>4

\* The script of a call that a pipeline without an await writes at once: three
\* entries, and the last one that it writes or does not.
LEMMA PassScript ==
  ASSUME NEW l \in Seq(Entries), NEW c \in Calls, Scripted(l, c, 0),
         NEW e1 \in Entries, e1.call = c, e1.type = "EVENT",
         NEW e2 \in Entries, e2.call = c, e2.type = "PROPOSAL",
         NEW e3 \in Entries, e3.call = c, e3.type = "CHECK",
         NEW m, m = Append(Append(Append(l, e1), e2), e3)
  PROVE  /\ m \in Seq(Entries)
         /\ Scripted(m, c, 3)
         /\ e3.ok => HasCheck(m, c)
         /\ ~ HasEntry(m, c, "ACTION")
         /\ \A d \in Calls \ {c} : SameScript(l, m, d)
<1> DEFINE l1 == Append(l, e1)
           l2 == Append(l1, e2)
<1>1. l1 \in Seq(Entries) /\ l2 \in Seq(Entries) /\ m = Append(l2, e3) /\ m \in Seq(Entries)
  BY Appended
<1>2. Stage(e1.type) = 0 + 1 /\ Stage(e2.type) = 1 + 1 /\ Stage(e3.type) = 2 + 1
  BY StageOf
<1>3. Scripted(l1, c, 1)
  BY <1>1, <1>2, AppendOwn
<1>4. \A d \in Calls \ {c} : SameScript(l, l1, d)
  BY <1>1, AppendOther
<1> HIDE DEF l1
<1>5. Scripted(l2, c, 2)
  BY <1>1, <1>2, <1>3, AppendOwn
<1>6. \A d \in Calls \ {c} : SameScript(l1, l2, d)
  BY <1>1, AppendOther
<1> HIDE DEF l2
<1>7. Scripted(m, c, 3)
  BY <1>1, <1>2, <1>5, AppendOwn
<1>8. \A d \in Calls \ {c} : SameScript(l2, m, d)
  BY <1>1, AppendOther
<1>9. e3.ok => HasCheck(m, c)
  BY <1>1, AppendHas
<1>10. ~ HasEntry(m, c, "ACTION")
  BY <1>7, NotYet
<1>11. \A d \in Calls \ {c} : SameScript(l, m, d)
  BY <1>4, <1>6, <1>8 DEF SameScript
<1>12. QED
  BY <1>1, <1>7, <1>9, <1>10, <1>11

LEMMA ConcatLast ==
  ASSUME NEW S, NEW l \in Seq(S), NEW t \in Seq(S), NEW w \in S
  PROVE  l \o (t \o <<>>) = l \o t /\ l \o (t \o <<w>>) = Append(l \o t, w)
<1>1. t \o <<>> = t
  OBVIOUS
<1>2. l \o (t \o <<w>>) = Append(l \o t, w)
  OBVIOUS
<1>3. QED
  BY <1>1, <1>2

LEMMA PassLogs ==
  ASSUME CallsOK, LogsOK, NEW c \in Calls, NEW p \in {"boundary", "web"}, NEW x,
         NEW t \in Targets, NEW a \in BOOLEAN, NEW r, r # "rejected",
         NEW b \in {<<>>, <<Entry(c, "BLOCKED", FALSE)>>},
         Pass(c, p, x, t, a, r, b)
  PROVE  LogsOK'
<1>0. /\ p \in LogPipes /\ None \notin LogPipes /\ None \notin Targets
      /\ {"EVENT", "PROPOSAL", "CHECK", "ACTION", "BLOCKED"} \subseteq Types
  BY BoundaryAssumption DEF LogPipes, Pipes, Types
<1>1. /\ pc[c] = "idle"
      /\ pc' = [pc EXCEPT ![c] = "done"]
      /\ pipe' = [pipe EXCEPT ![c] = p]
      /\ acted' = [acted EXCEPT ![c] = IF a THEN t ELSE @]
      /\ outcome' = [outcome EXCEPT ![c] = IF a THEN r ELSE "BLOCKED"]
      /\ Append_(p, PassEntries(c, a, b))
  BY Zenon DEF Pass, Return, PassEntries
<1>2. pipe[c] = None /\ acted[c] = None
  BY <1>1 DEF CallsOK, CallOK
<1>3. /\ Alone(c) /\ pc'[c] = "done" /\ pipe'[c] = p /\ (acted'[c] # None <=> a)
      /\ outcome'[c] # "rejected"
  BY <1>0, <1>1, <1>2 DEF Alone, CallsOK, TypeOK
<1>4. log[p] \in Seq(Entries) /\ Scripted(log[p], c, 0)
  BY <1>0, <1>2 DEF CallsOK, TypeOK, LogsOK, LoggedOK
<1>5. PICK e1 : e1 = Entry(c, "EVENT", TRUE)
  OBVIOUS
<1>6. PICK e2 : e2 = Entry(c, "PROPOSAL", TRUE)
  OBVIOUS
<1>7. PICK e3 : e3 = Entry(c, "CHECK", a)
  OBVIOUS
<1>8. PICK e4 : e4 = IF a THEN Entry(c, "ACTION", TRUE) ELSE Entry(c, "BLOCKED", FALSE)
  OBVIOUS
<1>9. /\ e1 \in Entries /\ e1.call = c /\ e1.type = "EVENT"
      /\ e2 \in Entries /\ e2.call = c /\ e2.type = "PROPOSAL"
      /\ e3 \in Entries /\ e3.call = c /\ e3.type = "CHECK" /\ (a => e3.ok)
  BY <1>0, <1>5, <1>6, <1>7 DEF Entry, Entries
<1>10. e4 \in Entries /\ e4.call = c /\ e4.type = IF a THEN "ACTION" ELSE "BLOCKED"
  BY <1>0, <1>8 DEF Entry, Entries
<1>11. PICK m : m = Append(Append(Append(log[p], e1), e2), e3)
  OBVIOUS
<1>12. /\ m \in Seq(Entries)
       /\ Scripted(m, c, 3)
       /\ a => HasCheck(m, c)
       /\ ~ HasEntry(m, c, "ACTION")
       /\ \A d \in Calls \ {c} : SameScript(log[p], m, d)
  BY <1>4, <1>9, <1>11, PassScript
<1>13. /\ \A q \in LogPipes \ {p} : log'[q] = log[q]
       /\ log'[p] = log[p] \o PassEntries(c, a, b)
  <2>1. b \in Seq(Entries)
    <3>1. <<>> \in Seq(Entries)
      OBVIOUS
    <3>2. <<Entry(c, "BLOCKED", FALSE)>> \in Seq(Entries)
      BY EntryType DEF Types
    <3>3. QED
      BY <3>1, <3>2, Zenon
  <2>2. PassEntries(c, a, b) \in Seq(Entries)
    BY <2>1, PassEntriesType
  <2>3. QED
    BY <1>0, <1>1, <2>2, LogAppended DEF CallsOK
<1>14. \/ ~ a /\ log'[p] = m
       \/ log'[p] = Append(m, e4)
  <2>1. \/ ~ a /\ PassEntries(c, a, b) = <<e1, e2, e3>> \o <<>>
        \/ PassEntries(c, a, b) = <<e1, e2, e3>> \o <<e4>>
    <3>1. CASE a
      BY <3>1, <1>5, <1>6, <1>7, <1>8, Zenon DEF PassEntries
    <3>2. CASE ~ a /\ b = <<>>
      BY <3>2, <1>5, <1>6, <1>7, <1>8, Zenon DEF PassEntries
    <3>3. CASE ~ a /\ b = <<Entry(c, "BLOCKED", FALSE)>>
      BY <3>3, <1>5, <1>6, <1>7, <1>8, Zenon DEF PassEntries
    <3>4. QED
      BY <3>1, <3>2, <3>3, Zenon
  <2>2. /\ log[p] \o (<<e1, e2, e3>> \o <<>>) = m
        /\ log[p] \o (<<e1, e2, e3>> \o <<e4>>) = Append(m, e4)
    <3>1. e1 \in Entries /\ e2 \in Entries /\ e3 \in Entries /\ e4 \in Entries
      BY <1>9, <1>10
    <3>2. log[p] \in Seq(Entries) /\ <<e1, e2, e3>> \in Seq(Entries)
      BY <1>4, <3>1
    <3>3. log[p] \o (<<e1, e2, e3>> \o <<>>) = log[p] \o <<e1, e2, e3>>
      BY <3>1, <3>2, ConcatLast
    <3>4. log[p] \o (<<e1, e2, e3>> \o <<e4>>) = Append(log[p] \o <<e1, e2, e3>>, e4)
      BY <3>1, <3>2, ConcatLast
    <3>5. log[p] \o <<e1, e2, e3>> = Append(Append(Append(log[p], e1), e2), e3)
      BY <3>1, <3>2
    <3>6. QED
      BY <1>11, <3>3, <3>4, <3>5, Zenon
  <2>3. QED
    BY <1>13, <2>1, <2>2, Zenon
<1>15. LoggedOK(p, c)' /\ \A d \in Calls \ {c} : SameScript(log[p], log'[p], d)
  <2>1. CASE ~ a /\ log'[p] = m
    BY <1>3, <1>12, <2>1 DEF LoggedOK
  <2>2. CASE log'[p] = Append(m, e4)
    <3>1. Scripted(log'[p], c, 4)
      <4>1. Stage(e4.type) = 3 + 1
        BY <1>10, StageOf
      <4>2. QED
        BY <1>10, <1>12, <2>2, <4>1, AppendOwn
    <3>2. /\ HasEntry(log'[p], c, "ACTION") <=> a
          /\ a => HasCheck(log'[p], c)
      BY <1>0, <1>10, <1>12, <2>2, AppendHas
    <3>3. \A d \in Calls \ {c} : SameScript(m, log'[p], d)
      BY <1>10, <1>12, <2>2, AppendOther
    <3>4. \A d \in Calls \ {c} : SameScript(log[p], log'[p], d)
      BY <1>12, <3>3 DEF SameScript
    <3>5. LoggedOK(p, c)'
      BY <1>3, <3>1, <3>2 DEF LoggedOK
    <3>6. QED
      BY <3>4, <3>5
  <2>3. QED
    BY <1>14, <2>1, <2>2
<1>16. QED
  BY <1>0, <1>2, <1>3, <1>13, <1>15, LogsWritten

LEMMA LogsStep == CallsOK /\ LogsOK /\ [BoundaryNext]_boundaryVars => LogsOK'
<1> SUFFICES ASSUME CallsOK, LogsOK, [BoundaryNext]_boundaryVars
             PROVE  LogsOK'
  OBVIOUS
<1>1. CASE UNCHANGED <<pc, pipe, acted, outcome, log>>
  BY <1>1, SameItself, Kept DEF LogsOK
<1>2. CASE UNCHANGED boundaryVars
  BY <1>1, <1>2 DEF boundaryVars
<1>3. CASE \E f \in FileLists : EditFile(f)
  BY <1>1, <1>3 DEF EditFile
<1>4. CASE \E o \in Objects, q \in Proposals : EngineWrites(o, q)
  BY <1>1, <1>4 DEF EngineWrites
<1>5. ASSUME NEW c \in Calls, NEW x \in EventTypes \ {None}, NEW k, ProcessBoundary(c, x, k)
      PROVE  LogsOK'
  BY <1>5, BoundaryPass, PassLogs
<1>6. ASSUME NEW c \in Calls, NEW x \in EventTypes \ {None}, NEW k, RunPipeline(c, x, k)
      PROVE  LogsOK'
  <2>1. PICK t \in Targets, a \in BOOLEAN : Pass(c, "web", x, t, a, "trace", <<>>)
    BY <1>6, WebPass
  <2>2. QED
    BY <2>1, PassLogs, Zenon
<1>7. QED
  BY <1>2, <1>3, <1>4, <1>5, <1>6, QuietLogs, ProcessSampleLogs, ProposedSampleLogs,
     CheckedSampleLogs, ActedLogs DEF BoundaryNext

LEMMA LogsInit == BoundaryInit => LogsOK
<1> SUFFICES ASSUME BoundaryInit, NEW p \in LogPipes, NEW c \in Calls
             PROVE  LoggedOK(p, c)
  BY DEF LogsOK
<1>1. pipe[c] # p
  BY BoundaryAssumption DEF BoundaryInit, LogPipes, Pipes
<1>2. log[p] = <<>>
  BY DEF BoundaryInit, LogPipes
<1>3. Scripted(<<>>, c, 0)
  BY DEF Scripted
<1>4. QED
  BY <1>1, <1>2, <1>3 DEF LoggedOK

LEMMA LogsAccount == CallsOK /\ LogsOK => ActionsAccounted
<1> SUFFICES ASSUME CallsOK, LogsOK, NEW p \in DOMAIN log, NEW c \in Calls, pipe[c] = p
             PROVE
    LET mine == {i \in DOMAIN log[p] : log[p][i].call = c}
        At(i) == Stage(log[p][i].type)
    IN  /\ \A i, j \in mine : i < j => At(i) < At(j)
        /\ \A i \in mine : \A s \in 1 .. At(i) : \E j \in mine : At(j) = s
        /\ acted[c] # None => \E i \in mine : log[p][i].type = "CHECK" /\ log[p][i].ok
        /\ pc[c] = "done" => ((\E i \in mine : log[p][i].type = "ACTION")
                                <=> acted[c] # None /\ outcome[c] # "rejected")
  BY DEF ActionsAccounted
<1> DEFINE l == log[p]
           mine == {i \in DOMAIN l : l[i].call = c}
<1>1. p \in LogPipes /\ LoggedOK(p, c) /\ pc[c] # "idle"
  BY BoundaryAssumption DEF CallsOK, TypeOK, LogsOK, CallOK, LogPipes, Pipes
<1>2. PICK n \in 1 .. 4 : Scripted(l, c, n)
  BY <1>1 DEF LoggedOK, CallsOK, TypeOK
<1>3. acted[c] # None => HasCheck(l, c)
  BY <1>1 DEF LoggedOK
<1>4. pc[c] = "done" => (HasEntry(l, c, "ACTION") <=> acted[c] # None /\ outcome[c] # "rejected")
  BY <1>1 DEF LoggedOK
<1> HIDE DEF l
<1>5. \A i, j \in mine : i < j => Stage(l[i].type) < Stage(l[j].type)
  BY <1>2 DEF Scripted
<1>6. \A i \in mine : \A s \in 1 .. Stage(l[i].type) : \E j \in mine : Stage(l[j].type) = s
  BY <1>2 DEF Scripted
<1>7. acted[c] # None => \E i \in mine : l[i].type = "CHECK" /\ l[i].ok
  BY <1>3, Zenon DEF HasCheck
<1>8. pc[c] = "done" => ((\E i \in mine : l[i].type = "ACTION")
                           <=> acted[c] # None /\ outcome[c] # "rejected")
  BY <1>4, Zenon DEF HasEntry
<1>9. QED
  BY <1>5, <1>6, <1>7, <1>8 DEF l

\* The audit logs account for the actions under every interleaving of calls:
\* the entries of a call come in the order of the pipeline, without a gap and
\* each once, an executor runs only behind a logged admissible CHECK, and a call
\* that has ended has an ACTION entry exactly when its executor was called and
\* its promise was not rejected afterwards.
THEOREM LogsAccountForActions == BoundarySpec => []ActionsAccounted
<1>1. BoundaryInit => LogsOK
  BY LogsInit
<1>2. CallsOK /\ LogsOK /\ [BoundaryNext]_boundaryVars => LogsOK'
  BY LogsStep
<1>3. CallsOK /\ LogsOK => ActionsAccounted
  BY LogsAccount
<1>4. QED
  BY <1>1, <1>2, <1>3, CallsCorrect, PTL DEF BoundarySpec
=============================================================================
