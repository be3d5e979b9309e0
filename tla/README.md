# A formal model of LTP (Liminal Thread Secure Protocol)

TLA+ modules for the parts of LTP that keep state or give verdicts: the Rust node, the
JavaScript SDK, the reference agent, the verifiers and the inspector, and the programs around
a node. TLC checks each module on a small instance; TLAPS proves the safety properties of every
module and the refinement, for every value of the constants. Paths below are relative to the
repository.

    tlc -workers 2 -config Node.cfg NodeMC
    tlapm NodeSessionsProofs.tla

`PROJECT.json` holds the map from definitions to source lines, the runs, the mutants (for each
property a plausible bug that breaks it), the findings, the hazards and the theorems.

## 1. Inventory

### Rust node (`nodes/ltp-rust-node/src`)

One tokio task per connection, an accept loop, a janitor, a key reload task and, for the
trace, one logger shared by all tasks.

| Part | State | Operations | Hard part |
|---|---|---|---|
| Sessions and connections (`main.rs`, `state.rs`) | `DashMap` of sessions behind `Arc<Mutex>`, `ltp_sessions_total`, `ltp_ws_connections_current` | accept, upgrade, hello, heartbeat, orientation, route_request, teardown, `expire_idle` | insertion, capacity check, count and removal are separate steps of several tasks; error returns between an increment and its decrement; a janitor that works on keys it collected earlier |
| Audit trace (`trace.rs`, `bin/verify_trace.rs`) | file of JSON lines, `last_hash`, `counter`, file handle, each behind a mutex | `log`, `recover_state`, `verify_trace` | writes fail after the chain has moved on; a crash inside a line; recovery from what is left |
| Rate limiting (`main.rs`) | a `TokenBucket` per connection and per address | `allow`, `check_ip_rate_limit`, `cleanup_ip_limiters` | connections share an address bucket that the janitor may forget |
| Authentication (`main.rs`) | keys, hash of the loaded file, `fail_closed`, gauge of keys | startup, reload, header check at upgrade, key check at hello | startup with an unreadable file; reload between two reads of one handshake |
| Configuration, metrics endpoint, logging, shutdown | environment, counters | - | I/O |

The parts meet in `handle_connection`: authentication decides whether a hello is accepted, the
rate limit whether a message is looked at, the session table what it does, and the trace
records it. They share no other state, so each has a module of its own, in which the decisions
of the others are nondeterministic choices.

Correct means: the gauges, which the node itself uses as limits, account for what they count;
the caps hold; abandoned sessions go; an undamaged trace verifies and an accepted one is
complete; rates are bounded and nobody within them is closed; only listed keys are admitted and
a rotation takes effect.

### SDK clients

| Part | State | Operations | Hard part |
|---|---|---|---|
| JS: connection (`sdk/js/src/client.ts`) | `ws`, `isConnecting`, `isConnected`, timers, `reconnectAttempts`, thread id, the promise of `connect()` | `connect`, `disconnect`, `onopen`, `onclose`, `onerror`, handshake answers, pong, heartbeat timeout, reconnect timer | events of a socket that has been replaced; calls in the middle of an attempt |
| JS: message channel (same file) | `lastSentHash`, `lastReceivedHash`, `seenNonces` | `send`, `handleMessageAsync`, `cleanupExpiredNonces`, resets | state read before an await and used after it; loss, repetition, reordering; clocks that differ |
| JS: threads, consciousness web (`sdk/js/src/threads`, `consciousnessWeb`) | map of threads with phase, energy, resonance; links over it | register, update from an event, build the web | the phase is decided on the levels before an event, which then moves them |
| JS: orientation web and ring (`orientation`, `src/turtle`) | forces of sectors, active sector; frame, angle, previous frame | updates, rotations and steps | values moved by differences over any number of turns |
| JS: time weave, temporal orientation (`time`, `temporalOrientation`) | branches of nodes, the view, the last summary | anchor one event or a batch, build the view, suggest, summarise | events that come late; a summary compared with one kept from earlier; suggestions followed one after the other |
| Python (`sdk/python/ltp_client/client.py`) | as JS, with asyncio tasks in place of timers | `connect`, `disconnect`, `_message_loop`, `_heartbeat_loop`, `_handle_disconnect`, `_reconnect_after_delay` | a task that reschedules itself; cancellation; checks whose order moves state before a refusal |
| Rust (`sdk/rust`) | session, sending hash chain | `connect`, `send_state_update`, `send_event` | little: no reconnect, and incoming messages are only printed |
| Elixir (`sdk/elixir/lib/ltp/connection.ex`) | WebSockex process state, timer references | its callbacks | timers are messages to the process; states that are computed and dropped |

Correct means: one live connection, nothing left running after `disconnect()`, every
`connect()` answered, retries made and bounded, nonces used once, the hash chain neither
spliced nor refused without cause.

### Agents

| Part | State | Operations | Hard part |
|---|---|---|---|
| Reference agent (`agents/reference-agent`) | proposal objects of the engine, policy from environment and file | `process`: classify, propose, check, execute, with an await before each of the last three | an engine that shares or overwrites its objects, a policy that changes between check and action |
| Samples and adapter (`examples/agents`, `examples/agent-boundary`, LangChain) | audit log of the sample, otherwise as above | `process`, `runPipeline`, `callTool` | calls whose log entries interleave; an executor that throws |

Correct means: an executor runs at most once in a call, with the target that was checked, and
that target was not forbidden to where the event really came from.

### Verifiers, inspector, programs around a node

| Part | State | Operations | Hard part |
|---|---|---|---|
| HTTP endpoint, conformance kit, SDK self test | what each has seen of a capture; report and badge files | one frame after another, then a verdict; `verify`, `verify:dir`, the self test command, `ltp:verify`, `conformance:report`, `ltp:report:validate`, `ltp:badge` | three implementations of one set of rules; one bad capture among others |
| Trace inspector (`tools/ltp-inspect`) | none: a judgement of a file | `trace`, `replay`, `explain` with their options | damage of the log; a status declared many frames earlier; the same value as two texts |
| Developer console (`scripts/dev/ltp-node-demo.ts`) | link health, last acknowledgement, two intervals | socket events, heartbeat, health check, SIGINT | late and bundled answers against two timers |
| Transport client and HUD (`scripts/transport`, `scripts/monitor`) | the socket, one heartbeat timer, a snapshot | `connect`, `disconnect`, socket events, snapshots | events of a socket that has been replaced |
| Gateway (`scripts/gateway`) | upstream socket, reconnect timer, back-off | socket events, forwarding | error and close of one failure |
| Minimal server (`examples/js-minimal-server`) | sessions by socket, threads, rate entries | handshakes, messages, close, the sweep | windows at their edge; a sweep against sessions in use |

Correct means: a milder verifier accepts what a stricter one does and exit codes say so; what
the inspector accepts is what the node wrote; shown health is that of the link; one connection
or one retry; limits hold and threads in use stay.

## 2. Modules

Every component has a module (state, actions, properties). The `MC` modules give TLC its sets,
and four of them (`NodeMC`, `LogClientMC`, `ChannelMC`, `ViewsMC`) put components side by side
(section 3). The proofs are in eight `Proofs` modules (section 4), some of which hold those of
several components. Components that are extended together have names of their own for what
every specification has (`RateInit`, `ClientNext`, `LogSpec`, `InspectNext`). A definition marked as a mutant in its comment is used by no
action: it is a bug that a property is tried against.

### NodeSessions

`pc[c]` is where the task of connection `c` stands, one value for each point between two
operations on shared state: `idle`, `upgrade`, `hello`, then for a message that needs a session
entry `touch`, `check`, `over` or `under`, then `ack` or `active`, and for teardown `closing`,
`uncount`, `hangup`. `tracked` is the key set of the `DashMap`, `age` the idle time of an entry
in units capped at `IdleTtl`, `orient` its orientation, `idleKeys` the keys a sweep collected.
`told` is a ghost: the last orientation the client sent.

`Entry` is the lookup or insertion of `touch_heartbeat` and `update_orientation`, `Touch` their
update under the entry's lock,
`CheckCapacity`, `RejectSession`, `CountSession` the capacity check of a new entry,
`RemoveOnDisconnect`, `UncountSession`, `HangUp` the teardown. A failed hello_ack
(`HelloAckFails`) ends the task before its teardown and its connection is `leaked`: the gauge
goes on counting it, which `ConnectionsNeverUndercounted` leaves room for and `GaugeIsCurrent`,
what the gauge's help text says, does not. The
janitor collects idle keys (`CollectIdle`), confirms or skips each (`ConfirmExpire`,
`ConfirmSkip`; it skips one whose lock is taken), and subtracts the total (`FinishSweep`).
`DashMap` operations are atomic; `len()` is taken as one step, although it adds up the shards
one after the other. A unit of time (`Tick`) is long against a handler's or a sweep's run of
instructions: it does not pass between two steps of these, only while tasks wait for the
network or a timer.

### TraceLog

The file is `lines` (terminated) and `open` (what follows the last newline). A hash is the
sequence of the frames it covers, so hashes are free of collisions. `queue` is the mutex that
`log()` takes first and holds to its end, in arrival order as tokio's mutex is fair; with it
held the other locks are free. `Seal` moves counter and hash, `WriteBody` and `WriteNewline`
write; `BodyFails` and `NewlineFails` leave nothing or a part of a line behind. `Crash` may hit
anywhere and cuts the line being written, `Restart` is `recover_state`: it fails on a last line
that does not parse. Loss of written data by a power failure is left out: the process dies,
the operating system does not. `Verified` is `verify_trace`.

### NodeRateLimit

Tokens are counted in units of `1/Sec` of a token, exactly; the rounding of `f64` is left out.
`Refilled` is the refill of `TokenBucket::allow`; `IpRefuses`, `ConnRefuses` and `Admit` are
the three ways of a message through the checks of `handle_connection`, the address first. `StartSweep` reads the clock and `SweepEntry` visits
entries later. `taken`, `takenBefore`, `ipTaken`, `ipTakenBefore` are ghosts: how many messages
were let through, and how many before each moment.

### NodeAuth

`mode`, `file` and `EditFile` are the operator's. `LoadFile`, `StoreKeys`, `OpenAuth` are the
three steps of a reload; `UpgradeOpen`, `RefuseJwt`, `CheckEmpty`, `RefuseEmpty`, `CheckClosed`,
`ValidateHeader` the upgrade callback, `AuthHello` the check in `perform_handshake`. A node without
`AUTH_KEYS_FILE` never changes its keys and is left out.

### JsClient

`sock[s]` is the state of a socket as the protocol sees it: `connecting`, `init` or `resume`
(open, that handshake sent), `open`, `closing` (`close()` called, close event to come), `none`.
Sockets are reused after their close event, so the number of attempts is not bounded by the
number of sockets, only the number of closes that are still to be reported. `ws` is `this.ws`.
Operators named after the methods of the class (`ConnectWebSocket`, `ScheduleReconnect`,
`HandleDisconnect`, `StopTimers`) make up the actions. A closing socket delivers no messages,
as the WHATWG specification has it. `cleanups` counts nonce cleanup intervals: the code keeps
one handle, so a second interval would be lost, and `ConnectedIsBacked` says there is none.
`handleMessageAsync` awaits the verification of a pong before it arms the heartbeat timeout
again, without looking at the connection: `PongArrives` starts one of at most `MaxPongs`
verifications, `PongVerified` and `PongRefused` end one at any later time, after `disconnect()`
too. A timeout armed then closes nothing and starts nothing, and `DisconnectIsFinal` says that
no socket, session or retry comes back.
Left out: callbacks of the application that call the client (section 5), and the ECDH
branch: the constructor never copies `enableEcdhKeyExchange`, so it is dead.

### JsChannel

One direction between two ends that run the SDK with signatures required. A message is a
number, which also stands for its hash and its nonce; `prev` is its `prev_message_hash`.
`Send`, `ChainMessage`, `Transmit` cut `send()` at its awaits, `Arrive`, `CheckChain`, `Deliver`
cut `handleMessageAsync`, and `SendFails`, `HandlerFails` are an await that throws. The network
delivers what was sent in any order, any number of times, or not at all. The sender's clock runs
ahead by one of `ClockOffsets`. `HandshakeAck`, `ConnectionLost`, `Disconnect` do to chains and
nonces what the client's code does there. Ghosts: `sendOverlap` and `recvOverlap` (two sends, or
two handlers, were under way at once, or one outlived its session), `excuse` (the network or a
clock gave the receiver a reason to refuse). `NoSplice` allows overlapping sends, `ChainsAgree`
says what each kind of overlap leaves: with sends that wait for one another the wire is a chain,
with handlers that do, everything on the wire up to the first message that is not chained to
the one before is delivered. `EveryEnvelopeChained` has no such condition, and sends that do not
wait break it. Both ends are taken to reset together, and "socket open" in
`sendRaw` is taken to be "session up". Signatures and hashes are perfect. Encrypted metadata
and TOON encoding are left out.

### Conformance

A capture is read by the three verifiers side by side: `ReadFrame` gives one frame to
`HttpFrame` (`conformanceVerifier.ts`), `KitFrame` (`verify.ts`) and `SelfFrame`
(`selfTest.ts`), each with a state of its own, and `CloseCapture` takes their verdicts. Frames
are produced while they are read, so a capture is any sequence of frames up to `MaxLength`, with
one *odd* frame anywhere: a repeated identifier, a missing or numeric field, an unknown type, an
entry that is no object, a timestamp that goes back. A frame is reduced to what the verifiers
look at, and identifiers are numbered in the order of their first use. `ExpectedOutcome` and
`AddCase` are the kit's directory sweep, which judges a capture by its name (`fail_`, `warn_` or
neither); `EndDirectory`, `VerifyFile`, `RunSelfTestCommand` are its commands with exit code and
badge; `LtpVerify`, `ConformanceReport`, `ValidateReport`, `LtpBadge` write and read the report
file. `PostVerify` is the request that carries the capture to the endpoint: its body may be too
large or break off.
`InlineCanonicalFrames` and `SelfTestFrames` are the frames built into the self test.

### TraceInspector

`LogFrame` appends an entry as the node does, `Drop`, `Swap`, `Repeat`, `Edit`, `Garble` damage the
file, `Inspect` runs the inspector with every combination of arguments at once (`Args`) and
keeps the results. A status is one of four (`Statuses`), of which the check treats two as an
outage; a recovery word counts when it is part of an action's name (`Includes`: `STATUS_CHECK`). A hash is the sequence of the texts it covers. The node prints a whole
float as `1.0`, the inspector as `1` (`RustText`, `JsText`), so an intact log with such a
number does not verify. `VerifyTraceIntegrity`, `DetectContinuity`, `NormalizeBranches`,
`Compliance`, `AuditSummary`, `Unsafe` and the three `Handle...` operators carry the names of
the functions they translate.

### Orientation, TemporalOrientation

Levels are in hundredths, the forces of sectors in tenths. The code adds floats, where a sum
that meets a threshold may fall on either side of it, so a comparison of equal numbers goes
either way (`Less`). `UpdateThreadFromEvent` computes the phase from the levels before the
event and then moves the levels, as the code does. `RotateTurtleMatrix` moves the angle by
differences. TemporalOrientation adds the weave (`AnchorEventToWeave`, a single event or a
batch, `AnchorEventsBatch`), the view (`BuildViewFromWebAndAnchors`) with `SuggestNextSector` and `PickNextSector`,
which are sets where equal scores leave the answer open, and the summary, compared with the
last (`DetectBranchCollapse`). The stable sort of a branch is stated by ranks: a node comes
after the nodes of smaller ticks and those of its tick that were before it. `SuggestionsSettle`
is about following `suggestNextSector`; where `pickNextSector` leads is `PicksAreBetter`'s, what
its documentation says, which the code does not keep to. `arrivals` is a ghost: the events in the order they came.
The parts read one another and change nothing of one another, so `OrientationMC` moves one
part in a behaviour.

### AgentBoundary, CheckedAction

Five pipelines, `reference`, `sample`, `boundary`, `web` and `tool`, and `direct`: a caller of
`ActionBoundary.execute` that hands it an object without the brand, which is refused
(`ExecuteUnverified`), or with it, minted or used before, which is executed (`ExecuteMinted`).
Every await ends an action,
so calls interleave there: `Process`, `Proposed`, `Checked`, `Acted` for the reference agent,
the same with log entries for the sample; `EngineFails`, `CheckFails` and `ActedRejects` are the
ways in which the promise of `process()` is rejected, the last after the executor ran and
before the sample's ACTION entry: on a rejection with null, or a result that cannot be
serialised. The synchronous pipelines are one action. The engine
keeps the objects it returns and overwrites them at any time (`EngineWrites`); the policy file
is edited at any time (`EditFile`). CheckedAction is the abstract specification: a call is
cleared for one action at most, under the policy in force, for its real origin, and performs
that one. `Gate == INSTANCE CheckedAction WITH ...` maps a pipeline and context to the origin,
the checker's token to the clearance, the executor's call to the performance, and
`ImplementsGate` is `Gate!Spec`. It is about the calls of the pipelines, whatever direct callers
do beside them; what the documentation says of all executions is `OnlyCheckedExecute`, which
direct callers break.

### LinkMonitor

The console, the transport client with the HUD, and the gateway share only the clock, so a
behaviour of the run moves one of them. A tick is the console's interval of 5 s; the two loops
fire in either order within it. `HeartbeatAck` answers the oldest heartbeat whenever the node
likes, `AckLost` never. `SocketOpens`, `SocketCloses`, `LtpConnect`, `LtpDisconnect` are the
transport client, whose sockets close long after `disconnect()` has forgotten them; `UpstreamOpens`,
`UpstreamError`, `UpstreamCloses`, `UpstreamConnect`, `UpstreamMessage` the gateway, whose
process ends (`Ended`) on SIGINT and on a snapshot whose numeric timestamp is out of the range
of a date (`ThrowsRangeError`): `toISOString` throws and nothing catches it.

### MinimalServer

Several sockets may act for one client, and clients keep the thread and session they were last
given. `HandshakeInit`, `HandshakeResume`, `HandleMessage` (with `StateUpdate`), `CloseSocket`,
`Sweep` are the handlers; `Current`, `Allowed`, `Counted` are `checkRateLimit` with its first
message that is not counted. The assumption has `Grace >= Window`, as in the code (5 minutes
and 1). Ghosts: `handled` and `handledBefore` (how many messages of a client
were handled, in all and before each moment), `touched` (when a thread was last used).

## 3. Runs

Five runs pass and seven show a violation of what the repository says of itself.

| Run | Part | Instance | What it shows |
|---|---|---|---|
| `node` | NodeSessions | 2 connections, 1 connection slot, 1 session slot, 2 directions | `SessionsGaugeAccounts`: the sessions gauge accounts exactly; `ConnectionsNeverUndercounted`: the connections gauge never counts too few, and exactly until a hello_ack fails; `AdmittedWithinCapacity`: the session cap holds; `RouteNeverStale`: no route follows a replaced orientation; `DrainedNodeForgetsSessions`: a drained node empties its table |
| | NodeRateLimit | 2 connections of 1 address, 5 clock steps of 1/2 s | `IpRateBounded`, `ConnRateBounded`: burst plus rate; `ClosesOnlyExcess`: none is closed within them |
| | NodeAuth | 2 connections, 2 keys, 2 edits, every mode | `OnlyListedKeysAdmitted`; `RotationTakesEffect`: the node ends up with the file's keys |
| `log_and_client` | TraceLog | 2 tasks, 3 calls each, 2 crashes | `RecordsInOrder`; `CleanLogVerifies`: an undamaged log verifies; `VerifiedLogIsComplete`: an accepted log has every frame whose `log()` returned Ok; `LogReturns`: every `log()` returns |
| | TraceInspector | 3 frames of 21 kinds, 2 tokens, 1 fault, all arguments | `AcceptedIsSegment`: an accepted log is a contiguous part of what was written; `OutageRespected`: while the last status was FAILED or UNSTABLE no action passes but recovery; `RecordingIsNeutral`: the chain alone breaks no contract |
| | JsClient | 4 sockets, 3 retries, 2 pongs in verification | `OnlyCurrentSocketLives`: one live connection; `ConnectedIsBacked`: timers match the session; `DisconnectIsFinal`; `NeverStranded`: who waits for a connection has an event coming; `ConnectSettles` |
| `channel_and_server` | JsChannel | 2 messages, 2 handlers, 3 arrivals, 3 clock steps | `NonceUsedOnce`; `NoSplice`: what is verified one message at a time is a chain; `ChainsAgree`: sends that wait for one another make a chain, and an undisturbed wire is delivered up to the first message outside it |
| | MinimalServer | 2 clients, 2 sockets, limit, window, grace, TTL and period of 1, 4 steps | `RateBounded`: two windows' worth in the length of one, at most; `ThreadsKeptWhileActive` |
| `views` | Conformance | 2 senders, captures of up to 6 frames (the endpoint's limit scaled to 5), 1 odd frame, directories of 2 | `KitImpliesHttp`, `KitImpliesCanonical`: a verdict of the kit implies those of the other two; `CleanSweep`: exit code 0 of `verify`, `verify:dir` or `ltp:verify` leaves no capture the endpoint refuses, and no red badge but for `fail_` captures |
| | Orientation, TemporalOrientation | 2 threads with 3 starts, 2 sectors, 12 frames, 4 anchored events, `TREND_WINDOW` 3 (5 in the code) | `PhaseNeedsEnergy`, `AngleMatchesFrame`; `WeaveInTickOrder`: branches hold their events by tick however late they come; `SuggestionsSettle`: who follows `suggestNextSector` arrives; `MergeIsNews`: a merge is reported once |
| | LinkMonitor | thresholds of 2 and 5 ticks (10 s and 25 s), 9 ticks, 3 sockets, 2 upstream sockets | `HealthHonest`: shown health is off by one check at most; `NoOrphanHeartbeat`: no heartbeat without an open or closing socket; `OneUpstream`: one upstream socket or one retry, as long as the process runs |
| `agent_boundary` | AgentBoundary | 2 calls, 1 object they share, 3 targets, 3 pipelines with awaits and 2 without, direct callers | `ImplementsGate`: the refinement; `ActionsAccounted`: the audit logs have an action entry exactly for the calls whose executor ran and whose promise was not rejected |

Where a run has several parts, they share no state that any of them changes, and the variable
`part` of its `MC` module, chosen at the start, says which of them moves. A step of the whole is
then a step of one part, so a state of a part that can be reached in the composition of all can
be reached in the run, and an invariant of one part, an action property or, with that part's
fairness, a liveness property, holds in the run exactly if it holds of the part. Where another
part moves, a part with several initial states starts in one of them. A part that a bound brings
to rest (a clock, the number of calls or edits, sockets that are used up, a process that ended)
stutters there, and every other state without a successor is an error. `agent_boundary`
ends when its calls have, so there deadlock is not looked for.

| Violation | Property | What the repository says | What the code does |
|---|---|---|---|
| `node_gauge` | `GaugeIsCurrent` | "Current websocket connections" (`main.rs:456`) | a failed hello_ack leaves the gauge one too high for good (`main.rs:941`) |
| `channel_chain` | `EveryEnvelopeChained` | "every envelope carries the previous message hash" (`SECURITY_HARDENING.md:10`) | two sends without a pause carry the same `prev_message_hash`, and the receiver refuses the second (`client.ts:1023`) |
| `inspector_tampering` | `TamperingShows` | deleted lines make `trace_integrity` `broken` (`docs/fintech/Compliance-Inspection.md:54`) | lines deleted at either end do not show (`inspect.ts:286`) |
| `inspector_recovery` | `NothingCriticalInRecovery` | no critical action in FAILED, UNSTABLE or RECOVERING (`docs/devtools/continuity-inspection.md:16`) | RECOVERING, as any other status, ends the outage for the check (`inspect.ts:1238`) |
| `next_sector` | `PicksAreBetter` | "If there is no better temporal signal, it recommends staying in place" (`temporalOrientation/README.md:60`) | `pickNextSector` sends a rising sector to a plateau, and back and forth between two plateaus (`temporalOrientationEngine.ts:288`) |
| `server_rate` | `RateAsPromised` | "100 messages per minute per client" (`index.js:23`, also `:200`) | 101 in a client's first minute, 200 in the minute across an edge (`index.js:32`) |
| `agent_token` | `OnlyCheckedExecute` | only transitions that passed the checker are executed (`docs/agents/VerifiedTransition-Unforgeable.md:21`) | `mintVerifiedTransition` is exported and a token may be used again (`agents/reference-agent/enforcement.ts:20`) |

Why the bounds are enough: the interesting cases need two of everything. Two connections on one
slot make every race for the slot happen, and every counter is a sum over connections. Two log
tasks with three calls let one fail, one follow it and one follow a restart; two crashes put a
crash after a recovery. Four sockets hold a current one and three whose close is still to be
reported; three retries pass through the first, a middle and the last. A second arrival of a
message, one after the nonce's cleanup, and a third that meets the first in its verification
fit into three arrivals and three clock steps, with `MaxAge` 1 and a skew of 1, the boundary
case of the assumption. The rate limit's clock passes the time to live once. The shortest
capture without an error has five frames, one without a warning six, which is also one more
than the endpoint's scaled limit. An outage, an action and a frame between them are three
frames. Levels start next to each threshold and are explored until no new ones come. Four
anchored events exceed the scaled window of a trend and put a late one before others. Two calls
on one object are the smallest sharing. Nine ticks take a link from ok through warn to critical
and back. Four steps of the minimal server see two windows, their grace and two sweeps. Each of
these bounds is a constant; the theorems of section 4 hold for every value of theirs.

Within Orientation, too, a behaviour of the run moves one part while the others rest; the
theorems are about the whole specification, in which all move. The type invariants are theorems,
or parts of them, not runs.

### Fairness

- NodeSessions: the runtime runs ready tasks (`WF` of a handler's own steps, of the
  janitor's); a client owes nothing. Time passes however busy the node is (`SF` of `Tick`, which
  waits for a sweep to end).
- TraceLog: a task that can go on does, and a write completes or fails (`WF` of its steps).
- NodeAuth: the reload task's timer fires (`WF` of `Reload`).
- JsClient: timers fire and a closed socket reports it (`WF`). One assumption concerns the
  environment: an attempt to connect succeeds or fails, and the server answers a handshake or
  the connection is lost. The code has no timeout for either; without the assumption
  `connect()` may wait for ever (section 5).

### Observed while modelling

What the code does that a reader of the documentation might not expect, beside the seven
violations above. Where it concerns state that a module keeps, the module does it too, and the
properties are stated so that they hold with it; counters, string ticks and NaN are outside the
models.

*Node.* After a failed hello_ack the session stays tracked until it is idle
(`docs/rust-node-ops.md:54`), and the slot of the connection is lost to
`LTP_NODE_MAX_CONNECTIONS`. Upgrades that are in flight together exceed `LTP_NODE_MAX_CONNECTIONS` (`main.rs:806`).
`route_request` does not renew `last_seen` (`docs/rust-node-ops.md:56`). A crash before the
newline glues the next entry to the last line: it is lost although `log()` returned Ok; after a
failed write the next entry links to one that is not in the file (`trace.rs:123`). A wrong key
at hello is not counted in `auth_failures_total`; `ip_rate_limit_violations_total` counts twice
(`main.rs:1545`, `main.rs:971`).

*JS client.* A message that arrives while another is being verified is compared with the hash
before that one, and refused, or let through out of order (`client.ts:764`). A pong whose
verification ends after `disconnect()` arms the heartbeat timeout of a client that has no
connection (`client.ts:606`). The late `onclose` of a replaced socket takes a live session down
and reconnects; a rejected init handshake reports a permanent failure and then reconnects
(`client.ts:920`).

*Verifiers and inspector.* `ltp:verify` writes its report without `schemaVersion`, which
`ltp:badge` and `ltp:report:validate` demand (`ltpVerify.ts:197`, `ltpBadge.ts:22`,
`docs/conformance/badge.md:13`). A
directory with an expected failing capture exits with 0 and a red badge. A whole float is text
`1.0` to the node and `1` to the inspector, which then finds the hash of an intact entry wrong
(`inspect.ts:268`). `EMERGENCY_STOP`, which `docs/devtools/continuity-inspection.md:17` names as
an exception, is no recovery word of the code (`critical_actions.ts:11`).

*Orientation.* A soft merge shows in one
summary only. Ticks that are strings compare by character. `clampIntensity` lets NaN through.

*Agents.* `MockLLMAdapter` maps a web event to SYSTEM. The sample exports `VERIFIED_BRAND`
itself (`types.ts:29`), its checker ignores the context, and its replay check never fires: a
token handed to `execute()` again runs again, where `docs/agents/Action-Boundary-Guarantees.md:41`
says that it is rejected. An action whose executor rejects with null, or whose result cannot be
serialised, is not in the sample's log (`enforcement.ts:131`, `logger.ts:26`), where
`docs/agents/Action-Boundary-Guarantees.md:32` says that every step is. An empty word in
`LTP_CRITICAL_ACTIONS` makes every action of a WEB event critical.

*Programs around a node.* The HUD does not evaluate health again when acknowledgements stop.
`connect()` soon after `disconnect()` loses its heartbeat to the close of the old socket. A
hello_ack that comes after SIGINT starts the console's loops until the close. The gateway drops
snapshots while the HUD's socket is closed, and a snapshot with a numeric timestamp outside the
range of a date ends its process (`ltp-node-gateway.ts:53`). A ping to the minimal server does
not renew `lastSeen`, and a socket may hold a session for a thread that was swept.

## 4. Proofs

Each theorem is for every value of the constants that meets the module's assumption. Eight
modules hold them.

- **NodeSessionsProofs** (`NodeAssumption`: finitely many connections, caps are naturals, the
  idle time is positive). `IndInv` adds to the properties the shape of the state,
  `CreatedIsFresh` (a handler that has created an entry and not yet been through its capacity
  check still finds it there: the entry is too young for the janitor, hence the positive idle
  time, and nobody else removes it) and `OrientationIsLast` (an entry's orientation is the one
  told last, or none). Gauges and capacity follow by counting: each action moves one connection
  into or out of one of the sets.
- **TraceLogProofs**, the logger (`TraceAssumption`). `WriterOK` ties the entry being written to
  counter and hash, `OlderThanNext` bounds what is in the file by what comes next, `NothingLost`
  says that a frame reported as written is in the file unless a line is garbled, and `Continues`
  says that in an undamaged log the chain in memory continues the one in the file. A garbled line
  is never repaired, so a log that verifies has none, and then nothing is lost.
- **TraceLogProofs**, the inspector (`InspectorAssumption`). `FileInv`: every line has the two
  hashes of some entry the node wrote, and its frame unless it was edited; `IntactInv`: before
  the first fault the file is the node's chain; `ReportInv`: the report is that of the file. A
  hash determines how many frames it covers, so two lines whose hashes link are neighbours in
  what was written, and an accepted file is a segment (`AcceptedLogsAreSegments`); a segment that
  starts at the start has the node's statuses, and the one before an action is found by its
  largest index (`OutagesAreRespected`); on an intact file the checks that the chain adds all
  succeed (`RecordingStaysNeutral`).
- **NodeRateLimitProofs**, the node's buckets (`RateAssumption`). The argument is a potential:
  tokens in the bucket plus tokens taken since a moment `s` is at most the capacity plus the rate
  times the time since `s`. Forgetting a bucket gives a full one, which keeps to this only if an
  idle bucket would have filled up anyway: hence `TtlCoversRefill` for an address (true of the
  defaults) and no condition for a connection. That the potential also reaches the allowance for
  some `s` (`IpLower`, `ConnLower`) gives `ClosesOnlyExcess`, an action property.
- **NodeRateLimitProofs**, authentication (`AuthAssumption`). `AuthInv`: what the file
  holds and a reload has read was listed, and the keys of `AUTH_KEYS`, which the file may never
  have listed, are gone before authentication opens, and so before any connection passes the
  header check.
- **NodeRateLimitProofs**, the minimal server (`MinimalServerAssumption`, of which
  `Grace >= Window` is needed: an entry may only be swept when its window is out of reach, or the
  uncounted message would come on top of two windows). `RateInv` bounds what
  was handled by the rate entry: since its window began by its count, and either by the limit in
  the window's length before that, or, if the first message was not counted, by one more and
  nothing before; nothing was handled after the window, and without an entry nothing is within
  reach. `Settled` is the property for the stretches that are over. `ThreadInv` bounds the age of a
  stored thread by its last use and the time to the next sweep.
- **JsClientProofs**, the client (`ClientAssumption`). `IndInv` adds to the properties that an
  attempt in progress has a socket whose event will end it. No conjunct is about the heartbeat
  timeout: whenever it is armed, and by whatever pong, it only closes an open socket.
- **JsClientProofs**, console, transport client and gateway (`MonitorAssumption`: the thresholds
  are ordered). `ConsoleInv` adds to `HealthHonest` that no heartbeat, answered or not, is from the
  future. `NoOrphanHeartbeat` and `OneUpstream` are inductive with the fields of their records;
  `OneUpstream` is for as long as the gateway's process runs.
- **JsChannelProofs** (`ChannelAssumption`, of which `Skew <= MaxAge` is needed: the cleanup
  after twice `MaxAge` is late enough only then). `NonceInv`: a nonce that was used is cached, or
  its message is too old. `ChainInv`: without overlapping handlers, `lastReceivedHash` is the message
  delivered last, or none, and the one being checked continues it. `WireInv`: without overlapping sends the chain goes on
  from the end of the wire, and no nonce is cached before its message is sent. `IntakeInv`: what
  has arrived is the beginning of the wire, what is to come is unseen, and what was dealt
  with is delivered as far as it is chained.
- **AgentBoundaryProofs** (`BoundaryAssumption`: the values that stand for nothing are not
  targets, contexts or pipelines). `CallOK` says which fields are set where a call waits;
  with it each action is a step of CheckedAction (`Begin`, `Clear`, `Perform`, `BeginCleared`)
  or a stutter, whatever the engine writes into shared objects: the token holds a copy of the
  target. Direct calls of the boundary are stutters: they concern no call of a pipeline. `LoggedOK` ties the log to where a call waits: its entries are those of stages 1 to n.
- **ConformanceProofs** (`ConformanceAssumption`). `Reading` relates the states of the three
  verifiers in the middle of a capture: while the kit has no error the endpoint has none, and
  while the kit has no warning either the self test has taken in the same frames. `AtRest`:
  between captures they start afresh. `Tallies` carries the verdicts through the sums of a
  directory to the outcomes.
- **OrientationProofs** (`OrientationAssumption`, `TemporalAssumption`). Threads that energy
  backs go to such threads under every event; the angle moves by the frame's angle times the
  steps, modulo 360, which needs that the number of frames divides 360; a view's summary lists
  exactly the sectors of each trend. `WeaveInv` is for the weave: `Woven` says where every
  arrival is in its branch, `Counted` adds that the branches hold as many events as have
  arrived, and `SummaryOK` that a summary counts no more events and branches than there are,
  and with as many events has the same share. Ranks order a list one to one (`RankOrder`,
  `RankOnto`), so the sort puts every node in its place (`SortPlaces`); that the place of an
  event among its thread's arrivals is its place in the branch needs that the two are in the
  same order (`RankRenamed`). Sums and batches are recursive functions over `0 .. n`; `Loop`, an
  induction as a lemma about sets, shows that they satisfy their equations (`SumsAre`,
  `BatchIs`) and what follows from them.

Only model-checked: the four liveness properties (`DrainedNodeForgetsSessions`, `LogReturns`,
`RotationTakesEffect`, `ConnectSettles`), which need fairness and `ENABLED`.

## 5. Not modelled

**Components.**

- *Python SDK client*: the protocol of the JS client over asyncio tasks; it needs a module of
  its own, with tasks and their cancellation in place of timers. Its hazards are below.
- *Elixir SDK client*: the same over WebSockex callbacks. *Rust SDK client*: a handshake and a
  sending chain; incoming messages are printed, so there is no receiving state to relate it to.
- *Cryptography* (all SDKs): library primitives. JsChannel, TraceLog and TraceInspector take
  hashes and signatures as perfect.
- *Fuzzy routing*, momentum, depth scores, postures, centrality, `summarizeThreadMap`: formulas
  on floats without state. Integers would not reproduce their values, and the order of scores
  alone says nothing.
- *Node configuration, metrics endpoint, logging*: I/O. Shutdown is a crash to TraceLog.
- *Demo servers (but for the HTTP conformance request), `wsConformanceServer`, scenario mode,
  rendering, stories, benchmarks*: stateless wrappers, fixed scripts and output.

**Hazards outside the models.**

- The node's handshake waits for a hello without a timeout (`main.rs:1190`); the JS client has
  no timer between `onopen` and the answer to its handshake (`client.ts:446`). The second
  is the assumption under JsClient's fairness; in NodeSessions a connection may stay at its
  hello for ever.
- A callback of the application that calls `disconnect()` inside `onMessage` (`client.ts:594`).
- `disconnect()` clears nonces of messages that are still young (`client.ts:277`); a handler or a
  send that outlives its session writes its hash after the reset (`client.ts:778`). JsChannel has
  both steps: `NonceUsedOnce` counts from the last `disconnect()`, and `NoSplice` and
  `ChainsAgree` leave out sessions with such an overlap.
- Python: a reconnect that fails reschedules from a task that is not done yet
  (`client.py:537`); `disconnect()` leaves a sleeping reconnect (`client.py:198`); the received
  hash moves before the signature is checked (`client.py:377`).
- Elixir: timers whose references are dropped are never cancelled (`connection.ex:534`).
