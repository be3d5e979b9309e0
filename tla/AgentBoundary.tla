---------------------------- MODULE AgentBoundary ----------------------------
(***************************************************************************)
(* The action boundaries of the repository: agents/reference-agent, the    *)
(* sample of examples/agents/reference-pipeline with its audit log, the    *)
(* synchronous pipelines of examples/agent-boundary and                    *)
(* examples/agents/action-boundary, and the LangChain wrapper.             *)
(*                                                                         *)
(* Calls of process() run concurrently: every await lets another call in.  *)
(* The proposal engine and the executor are supplied by the application.   *)
(* The engine hands out objects it keeps: it may overwrite one at any      *)
(* time, give the same one to two calls, and lie about the context.        *)
(* Targets and policy words are kept as names, and text.includes(word) as  *)
(* the relation Includes.  traceIds are random: a pipeline's is its call,  *)
(* the checker mints another.                                              *)
(***************************************************************************)
EXTENDS Naturals, Sequences

CONSTANTS
  Calls,          \* calls of the pipelines
  Objects,        \* the proposal objects of the engine
  EventTypes,     \* contexts events carry; None when type is absent
  EngineTargets,  \* target states the engine may propose
  EnvLists,       \* values of LTP_CRITICAL_ACTIONS; None when unset or empty
  FileLists,      \* what LTP_CRITICAL_ACTIONS_FILE holds; None when not a list
  None

VARIABLES
  env, file,      \* the policy configuration
  heap,           \* the engine's proposal objects
  pc,             \* where each call waits
  pipe,           \* the pipeline a call runs in
  source,         \* context its event was classified with
  token,          \* the checker's answer: a verified target, or "refused"
  acted,          \* the target its executor was called with
  outcome,        \* what the call returned
  log             \* audit log of each logging pipeline

configVars == <<env, file>>
boundaryVars == <<env, file, heap, pc, pipe, source, token, acted, outcome, log>>

Contexts == {"USER", "SYSTEM", "WEB", "MEMORY", "ADMIN"}
Pipes == {"reference", "sample", "boundary", "web", "tool", "direct"}
Targets == EngineTargets \cup
  {"block_user", "transfer_funds", "process_request", "transfer_money", "unknown",
   "delete_database", "reply"}
Proposals == [context : {"USER", "WEB"}, target : EngineTargets, injected : BOOLEAN]

\* Events carry known contexts, and what stands for nothing or for a refusal is
\* the name of nothing else.
ASSUME BoundaryAssumption ==
  /\ EventTypes \ {None} \subseteq Contexts
  /\ None \notin Targets \cup Pipes \cup Contexts \cup (Pipes \X Contexts) \cup {"refused"}
  /\ "refused" \notin EngineTargets

Includes(t, w) == w = "" \/ <<t, w>> \in
  {<<"transfer_money", "transfer_money">>, <<"send_email", "send_email">>,
   <<"delete_database", "delete_data">>, <<"delete_database", "delete">>,
   <<"rm -rf /", "rm -rf">>}
Mentions(t, words) == \E w \in words : Includes(t, w)

-----------------------------------------------------------------------------
(* The checks *)

\* ConfigLoader.getCriticalActions, read again at every check: the variable,
\* then the file when it holds a list, then the defaults.
GetCriticalActions ==
  IF env # None THEN env
  ELSE IF file # None THEN file
  ELSE {"transfer_money", "delete_data", "send_email", "approve_trade", "modify_system", "delete_file"}
GetGloballyBannedActions == {"rm -rf", "format_disk"}

EnforceActionBoundary(p) ==
  /\ ~ Mentions(p.target, GetGloballyBannedActions)
  /\ ~ (p.context = "WEB" /\ Mentions(p.target, GetCriticalActions))
  /\ ~ p.injected

\* The sample's checker looks at keywords and never at the context.
IsViolation(p) ==
  Mentions(p.target, {"delete", "transfer_money", "rm -rf", "drop table"}) \/ p.injected

\* examples/agent-boundary: what is proposed for an event, and the rules.
BoundaryProposal(content) ==
  CASE content = "injection" -> "block_user"
    [] content = "transfer" -> "transfer_funds"
    [] OTHER -> "process_request"
BoundaryAdmissible(t) == t \notin {"exec", "eval", "transfer_funds"}

\* examples/agents/action-boundary.
WebProposal(intent) == IF intent = "pay" THEN "transfer_money" ELSE "unknown"
WebAdmissible(t, x) ==
  t \in {"transfer_money", "delete_data", "execute_code", "modify_system"}
    => x # "WEB" /\ x \in {"USER", "ADMIN"}

CheckToolCall(t) == t # "delete_database"

-----------------------------------------------------------------------------
(* The audit log *)

Entry(c, type, ok) == [call |-> c, type |-> type, ok |-> ok]
Append_(p, entries) == log' = [log EXCEPT ![p] = @ \o entries]

\* HashChainLogger.hasProcessed asks for an ACTION under the checker's traceId;
\* entries carry the pipeline's, so no entry of a call answers it.
PipelineTrace(c) == <<"pipeline", c>>
CheckTrace(c) == <<"check", c>>
HasProcessed(trace) ==
  \E i \in DOMAIN log["sample"] :
    /\ PipelineTrace(log["sample"][i].call) = trace
    /\ log["sample"][i].type = "ACTION"

-----------------------------------------------------------------------------
(* AgentPipeline.process *)

BoundaryInit ==
  /\ env \in EnvLists
  /\ file \in FileLists
  /\ heap \in [Objects -> Proposals]
  /\ pc = [c \in Calls |-> "idle"]
  /\ pipe = [c \in Calls |-> None]
  /\ source = [c \in Calls |-> None]
  /\ token = [c \in Calls |-> None]
  /\ acted = [c \in Calls |-> None]
  /\ outcome = [c \in Calls |-> None]
  /\ log = [p \in {"sample", "boundary", "web"} |-> <<>>]

Start(c, p, x, at) ==
  /\ pc[c] = "idle"
  /\ pc' = [pc EXCEPT ![c] = at]
  /\ pipe' = [pipe EXCEPT ![c] = p]
  /\ source' = [source EXCEPT ![c] = x]

Return(c, result) ==
  /\ pc' = [pc EXCEPT ![c] = "done"]
  /\ outcome' = [outcome EXCEPT ![c] = result]

\* ContextClassifier.classify
Classify(type) == IF type = None THEN "USER" ELSE type

\* process() up to the await of the engine.
Process(c, type) ==
  /\ Start(c, "reference", Classify(type), "proposing")
  /\ UNCHANGED <<configVars, heap, token, acted, outcome, log>>

\* The sample does not classify: its checker has no use for the context.
ProcessSample(c, type) ==
  /\ Start(c, "sample", type, "proposing")
  /\ Append_("sample", <<Entry(c, "EVENT", TRUE)>>)
  /\ UNCHANGED <<configVars, heap, token, acted, outcome>>

\* Mutant: the context the engine wrote is believed.
ProposedUnstamped(c, o) ==
  /\ pc[c] = "proposing" /\ pipe[c] = "reference"
  /\ token' = [token EXCEPT ![c] =
       IF EnforceActionBoundary(heap[o]) THEN heap[o].target ELSE "refused"]
  /\ pc' = [pc EXCEPT ![c] = "checked"]
  /\ UNCHANGED <<configVars, heap, pipe, source, acted, outcome, log>>

\* The engine answers with object o: its context is overwritten, and check()
\* runs up to its result without an await.  A verified transition copies the
\* target state.
Proposed(c, o) ==
  /\ pc[c] = "proposing" /\ pipe[c] = "reference"
  /\ heap' = [heap EXCEPT ![o].context = source[c]]
  /\ token' = [token EXCEPT ![c] =
       IF EnforceActionBoundary(heap'[o]) THEN heap[o].target ELSE "refused"]
  /\ pc' = [pc EXCEPT ![c] = "checked"]
  /\ UNCHANGED <<configVars, pipe, source, acted, outcome, log>>

ProposedSample(c, o) ==
  /\ pc[c] = "proposing" /\ pipe[c] = "sample"
  /\ Append_("sample", <<Entry(c, "PROPOSAL", TRUE)>>)
  /\ token' = [token EXCEPT ![c] = IF IsViolation(heap[o]) THEN "refused" ELSE heap[o].target]
  /\ pc' = [pc EXCEPT ![c] = "checked"]
  /\ UNCHANGED <<configVars, heap, pipe, source, acted, outcome>>

\* The engine's promise is rejected, or its answer is no object or cannot be
\* serialised for the PROPOSAL entry: the call's promise is rejected.
EngineFails(c) ==
  /\ pc[c] = "proposing"
  /\ Return(c, "rejected")
  /\ UNCHANGED <<configVars, heap, pipe, source, token, acted, log>>

\* check() throws on a proposal it cannot read, or its answer cannot be
\* serialised for the CHECK entry.
CheckFails(c) ==
  /\ pc[c] = "checked" /\ pipe[c] \in {"reference", "sample"}
  /\ Return(c, "rejected")
  /\ UNCHANGED <<configVars, heap, pipe, source, token, acted, log>>

\* ActionBoundary.execute up to the await of the executor: a refusal does not
\* carry the brand.
IsVerifiedTransition(t) == t \notin {None, "refused"}
Execute(c, t) ==
  /\ IsVerifiedTransition(t)
  /\ acted' = [acted EXCEPT ![c] = t]
  /\ pc' = [pc EXCEPT ![c] = "acting"]

\* The check's answer: a refusal is returned, a verified transition executed.
Checked(c) ==
  /\ pc[c] = "checked" /\ pipe[c] = "reference"
  /\ \/ /\ token[c] = "refused"
        /\ Return(c, "BLOCKED")
        /\ UNCHANGED acted
     \/ Execute(c, token[c]) /\ UNCHANGED outcome
  /\ UNCHANGED <<configVars, heap, pipe, source, token, log>>

CheckedSample(c) ==
  /\ pc[c] = "checked" /\ pipe[c] = "sample"
  /\ Append_("sample", <<Entry(c, "CHECK", token[c] # "refused")>>)
  /\ \/ /\ (token[c] = "refused" \/ HasProcessed(CheckTrace(c)))
        /\ Return(c, "BLOCKED")
        /\ UNCHANGED acted
     \/ /\ ~ HasProcessed(CheckTrace(c))
        /\ Execute(c, token[c])
        /\ UNCHANGED outcome
  /\ UNCHANGED <<configVars, heap, pipe, source, token>>

\* Mutant: an action whose executor failed is not logged.
ActedSuccessfully(c, ok) ==
  /\ pc[c] = "acting"
  /\ Return(c, IF ok THEN "ALLOWED" ELSE "ALLOWED, failed")
  /\ IF pipe[c] = "sample" /\ ok THEN Append_("sample", <<Entry(c, "ACTION", ok)>>) ELSE UNCHANGED log
  /\ UNCHANGED <<configVars, heap, pipe, source, token, acted>>

\* The executor answers or throws; execute() turns an exception into a result
\* without success, which process() returns, and the sample logs, as ALLOWED.
Acted(c, ok) ==
  /\ pc[c] = "acting"
  /\ Return(c, IF ok THEN "ALLOWED" ELSE "ALLOWED, failed")
  /\ IF pipe[c] = "sample" THEN Append_("sample", <<Entry(c, "ACTION", ok)>>) ELSE UNCHANGED log
  /\ UNCHANGED <<configVars, heap, pipe, source, token, acted>>

\* The executor throws null or undefined, which has no message to read, or the
\* sample's logger cannot serialise the result: the promise is rejected after
\* the executor ran, before the ACTION entry is pushed.
ActedRejects(c) ==
  /\ pc[c] = "acting"
  /\ Return(c, "rejected")
  /\ UNCHANGED <<configVars, heap, pipe, source, token, acted, log>>

\* A caller that hands the boundary an object of its own: without the brand it
\* is refused.
ExecuteUnverified(c) ==
  /\ pc[c] = "idle"
  /\ pipe' = [pipe EXCEPT ![c] = "direct"]
  /\ source' = [source EXCEPT ![c] = "SYSTEM"]
  /\ Return(c, "EnforcementError")
  /\ UNCHANGED <<configVars, heap, token, acted, log>>

\* With the brand it is executed: mintVerifiedTransition, and the sample's
\* VERIFIED_BRAND, are exported, so that any target can be branded, and execute()
\* takes the same transition as often as it is called with it.
ExecuteMinted(c, t) ==
  /\ pc[c] = "idle"
  /\ pipe' = [pipe EXCEPT ![c] = "direct"]
  /\ source' = [source EXCEPT ![c] = "SYSTEM"]
  /\ Execute(c, t)
  /\ UNCHANGED <<configVars, heap, token, outcome, log>>

-----------------------------------------------------------------------------
(* The pipelines without an await, and the LangChain wrapper *)

\* A call that is decided, logged and, when admissible, executed in one step.
Pass(c, p, x, t, admissible, result, blockedEntry) ==
  /\ pc[c] = "idle"
  /\ pipe' = [pipe EXCEPT ![c] = p]
  /\ source' = [source EXCEPT ![c] = x]
  /\ token' = [token EXCEPT ![c] = IF admissible THEN t ELSE "refused"]
  /\ acted' = [acted EXCEPT ![c] = IF admissible THEN t ELSE @]
  /\ Return(c, IF admissible THEN result ELSE "BLOCKED")
  /\ Append_(p, <<Entry(c, "EVENT", TRUE), Entry(c, "PROPOSAL", TRUE),
                  Entry(c, "CHECK", admissible)>>
                \o IF admissible THEN <<Entry(c, "ACTION", TRUE)>> ELSE blockedEntry)
  /\ UNCHANGED <<configVars, heap>>

\* AgentBoundaryPipeline.process
ProcessBoundary(c, x, content) ==
  LET t == BoundaryProposal(content) IN
  Pass(c, "boundary", x, t, BoundaryAdmissible(t), "executed", <<Entry(c, "BLOCKED", FALSE)>>)

\* runPipeline; its trace is local to the call and returned.
RunPipeline(c, x, intent) ==
  LET t == WebProposal(intent) IN
  Pass(c, "web", x, t, WebAdmissible(t, x), "trace", <<>>)

\* LTPLangChainAdapter.wrapTool: the wrapped call asks, and after the await it
\* throws or calls the tool.
CallTool(c, name) ==
  /\ Start(c, "tool", "SYSTEM", "checked")
  /\ token' = [token EXCEPT ![c] = IF CheckToolCall(name) THEN name ELSE "refused"]
  /\ UNCHANGED <<configVars, heap, acted, outcome, log>>

ToolAnswered(c) ==
  /\ pc[c] = "checked" /\ pipe[c] = "tool"
  /\ acted' = [acted EXCEPT ![c] = IF token[c] = "refused" THEN @ ELSE token[c]]
  /\ Return(c, IF token[c] = "refused" THEN "thrown" ELSE "called")
  /\ UNCHANGED <<configVars, heap, pipe, source, token, log>>

-----------------------------------------------------------------------------
(* The application *)

\* The engine writes one of its objects, whoever else has it.
EngineWrites(o, p) ==
  /\ p # heap[o]
  /\ heap' = [heap EXCEPT ![o] = p]
  /\ UNCHANGED <<configVars, pc, pipe, source, token, acted, outcome, log>>

EditFile(f) ==
  /\ f # file
  /\ file' = f
  /\ UNCHANGED <<env, heap, pc, pipe, source, token, acted, outcome, log>>

BoundaryNext ==
  \/ \E f \in FileLists : EditFile(f)
  \/ \E o \in Objects, p \in Proposals : EngineWrites(o, p)
  \/ \E c \in Calls :
       \/ \E x \in EventTypes : Process(c, x)
       \/ \E x \in EventTypes \ {None} : ProcessSample(c, x)
       \/ \E o \in Objects : Proposed(c, o) \/ ProposedSample(c, o)
       \/ EngineFails(c)
       \/ Checked(c)
       \/ CheckedSample(c)
       \/ CheckFails(c)
       \/ \E ok \in BOOLEAN : Acted(c, ok)
       \/ ActedRejects(c)
       \/ ExecuteUnverified(c)
       \/ \E t \in EngineTargets : ExecuteMinted(c, t)
       \/ \E x \in EventTypes \ {None}, k \in {"injection", "transfer", "plain"} :
            ProcessBoundary(c, x, k)
       \/ \E x \in EventTypes \ {None}, k \in {"pay", "other"} : RunPipeline(c, x, k)
       \/ \E t \in {"delete_database", "reply"} : CallTool(c, t)
       \/ ToolAnswered(c)

BoundarySpec == BoundaryInit /\ [][BoundaryNext]_boundaryVars

-----------------------------------------------------------------------------
(* Properties *)

\* The policies as rules on the pipeline, the context the event really had,
\* and the target; cfg is the configuration <<env, file>> in force.
CriticalWords(cfg) ==
  CASE cfg[1] # None -> cfg[1]
    [] cfg[1] = None /\ cfg[2] # None -> cfg[2]
    [] OTHER -> {"transfer_money", "delete_data", "send_email", "approve_trade", "modify_system",
                 "delete_file"}
Forbids(cfg, origin, t) ==
  LET p == origin[1]
      x == origin[2]
  IN  \/ p = "reference" /\ Mentions(t, {"rm -rf"})
      \/ p = "reference" /\ x = "WEB" /\ Mentions(t, CriticalWords(cfg))
      \/ p = "sample" /\ t \in {"delete_database", "transfer_money", "rm -rf /"}
      \/ p = "boundary" /\ t = "transfer_funds"
      \/ p = "web" /\ t = "transfer_money" /\ x \notin {"USER", "ADMIN"}
      \/ p = "tool" /\ t = "delete_database"

InPipeline(c) == pipe[c] \notin {None, "direct"}

Gate == INSTANCE CheckedAction WITH
  Origins <- (Pipes \ {"direct"}) \X Contexts,
  Actions <- Targets,
  policy <- <<env, file>>,
  origin <- [c \in Calls |-> IF InPipeline(c) THEN <<pipe[c], source[c]>> ELSE None],
  cleared <- [c \in Calls |-> IF token[c] = "refused" THEN None ELSE token[c]],
  performed <- [c \in Calls |-> IF InPipeline(c) THEN acted[c] ELSE None]

\* Every pipeline is a checked action: whatever the engine writes into the
\* objects it shares, whenever the policy file is edited, and whatever callers
\* of ActionBoundary.execute do besides, the executor of a call of process() is
\* called once at most, with the target that was checked, and that target was
\* not forbidden to the real context of the event when it was checked.
ImplementsGate == Gate!Spec

\* What docs/agents/VerifiedTransition-Unforgeable.md:21 says: "This ensures that
\* **only** transitions that have passed the `LTPAdmissibilityChecker` logic can
\* ever reach the execution stage."  mintVerifiedTransition is exported.
OnlyCheckedExecute ==
  \A c \in Calls : acted[c] # None => \E d \in Calls : token[d] = acted[c]

\* Which entry of a call an entry is, when the log is kept as it should be.
Stage(type) ==
  CASE type = "EVENT"    -> 1
    [] type = "PROPOSAL" -> 2
    [] type = "CHECK"    -> 3
    [] OTHER             -> 4

\* The audit logs account for the actions under every interleaving of calls:
\* the entries of a call come in the order of the pipeline, without a gap and
\* each once, ending with ACTION or BLOCKED if they get that far, an executor
\* runs only behind a logged admissible CHECK, and a call that has ended has an
\* ACTION entry exactly when its executor was called and its promise was not
\* rejected afterwards (error.message in execute(), JSON.stringify in append()).
ActionsAccounted ==
  \A p \in DOMAIN log : \A c \in Calls : pipe[c] = p =>
    LET mine == {i \in DOMAIN log[p] : log[p][i].call = c}
        At(i) == Stage(log[p][i].type)
    IN  /\ \A i, j \in mine : i < j => At(i) < At(j)
        /\ \A i \in mine : \A s \in 1 .. At(i) : \E j \in mine : At(j) = s
        /\ acted[c] # None => \E i \in mine : log[p][i].type = "CHECK" /\ log[p][i].ok
        /\ pc[c] = "done" => ((\E i \in mine : log[p][i].type = "ACTION")
                                <=> acted[c] # None /\ outcome[c] # "rejected")
=============================================================================
