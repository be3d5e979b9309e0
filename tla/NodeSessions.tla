---------------------------- MODULE NodeSessions ----------------------------
(***************************************************************************)
(* The session table of the LTP Rust node and everything that changes it:  *)
(* the accept loop, one task per WebSocket connection (upgrade, hello      *)
(* handshake, message loop, teardown), the janitor that expires idle       *)
(* sessions, and the two Prometheus gauges that mirror the table and the   *)
(* connections (nodes/ltp-rust-node/src/main.rs, state.rs, node.rs).       *)
(*                                                                         *)
(* Tasks run on a multi-threaded tokio runtime, so an action is one        *)
(* operation on shared state: a DashMap call, the critical section of a    *)
(* session's mutex, a gauge update.                                        *)
(***************************************************************************)
EXTENDS Integers, FiniteSets

CONSTANTS
    Conns,          \* connection attempts; each is used once
    MaxConnections, \* LTP_NODE_MAX_CONNECTIONS
    MaxSessions,    \* LTP_NODE_MAX_SESSIONS
    IdleTtl,        \* LTP_NODE_IDLE_TTL_MS, in clock ticks
    Directions,     \* time_orientation.direction values clients send
    None            \* Option::None

\* build_route_suggestion: the sector each direction is answered with.
SectorOf == [past    |-> "retrospective_safe",
             present |-> "present_focus",
             future  |-> "future_planning",
             multi   |-> "multi_bridge"]

ASSUME NodeAssumption ==
    /\ IsFiniteSet(Conns)
    /\ MaxConnections \in Nat
    /\ MaxSessions \in Nat
    /\ IdleTtl \in Nat \ {0}
    /\ Directions \subseteq DOMAIN SectorOf
    /\ None \notin Directions

(***************************************************************************)
(* A connection performs at most one successful handshake, and the session *)
(* id it draws there (Uuid::new_v4) is unique, so the connection itself    *)
(* stands for its session id.                                              *)
(***************************************************************************)
VARIABLES
    pc,        \* where each connection's task is
    kind,      \* the message whose handler the task is running
    payload,   \* the time_orientation that message carries
    created,   \* the handler's local `created`: its entry() call inserted
    tracked,   \* keys of LtpNodeState.sessions
    age,       \* clock ticks since last_seen, capped at IdleTtl
    orient,    \* SessionState.time_orientation
    connGauge, \* ltp_ws_connections_current
    sessGauge, \* ltp_sessions_total
    jpc,       \* where the janitor is
    idleKeys,  \* the janitor's candidates, collected by its first pass
    expired,   \* stats.expired of the sweep under way
    told       \* history: the last time_orientation the client sent

connVars == <<pc, kind, payload, created>>
tableVars == <<tracked, age, orient>>
gaugeVars == <<connGauge, sessGauge>>
janitorVars == <<jpc, idleKeys, expired>>
vars == <<connVars, tableVars, gaugeVars, janitorVars,
                   told>>

Payloads == Directions \cup {None}
Kinds == {"none", "hello", "heartbeat", "orientation"}

\* Counted by the connections gauge: past the upgrade, not yet hung up.
Established == {"hello", "touch", "check", "over", "under", "ack",
                "active", "closing", "uncount", "hangup"}
Steps == Established \cup {"idle", "upgrade", "closed", "leaked"}

\* Between two instructions of one handler, where no await can park the
\* task for long.
Busy == {"touch", "check", "over", "under", "closing", "uncount", "hangup"}

\* The state is well formed; the two signed gauges never go negative, which
\* the accept loop relies on when it casts one to usize.
TypeOK ==
    /\ pc \in [Conns -> Steps]
    /\ kind \in [Conns -> Kinds]
    /\ payload \in [Conns -> Payloads]
    /\ created \in [Conns -> BOOLEAN]
    /\ tracked \subseteq Conns
    /\ age \in [Conns -> 0 .. IdleTtl]
    /\ orient \in [Conns -> Payloads]
    /\ connGauge \in Nat
    /\ sessGauge \in Nat
    /\ jpc \in {"sleep", "confirm"}
    /\ idleKeys \subseteq Conns
    /\ expired \in Nat
    /\ told \in [Conns -> Payloads]

Init ==
    /\ pc = [c \in Conns |-> "idle"]
    /\ kind = [c \in Conns |-> "none"]
    /\ payload = [c \in Conns |-> None]
    /\ created = [c \in Conns |-> FALSE]
    /\ tracked = {}
    /\ age = [c \in Conns |-> 0]
    /\ orient = [c \in Conns |-> None]
    /\ connGauge = 0
    /\ sessGauge = 0
    /\ jpc = "sleep"
    /\ idleKeys = {}
    /\ expired = 0
    /\ told = [c \in Conns |-> None]

GoTo(c, s) == pc' = [pc EXCEPT ![c] = s]

-----------------------------------------------------------------------------
(* Accept loop and WebSocket upgrade *)

\* The cap is tested against the gauge, which counts a connection only
\* after its upgrade; a refused socket is dropped.
Accept(c) ==
    /\ pc[c] = "idle"
    /\ GoTo(c, IF connGauge >= MaxConnections THEN "closed" ELSE "upgrade")
    /\ UNCHANGED <<kind, payload, created, tableVars, gaugeVars, janitorVars,
                   told>>

\* accept_hdr_async succeeds and the proxy check passes.
Upgrade(c) ==
    /\ pc[c] = "upgrade"
    /\ GoTo(c, "hello")
    /\ connGauge' = connGauge + 1
    /\ UNCHANGED <<kind, payload, created, tableVars, sessGauge, janitorVars,
                   told>>

\* The upgrade fails, times out, is refused by header authentication, or
\* comes from a peer outside LTP_ALLOW_PROXY_CIDR.
UpgradeFails(c) ==
    /\ pc[c] = "upgrade"
    /\ GoTo(c, "closed")
    /\ UNCHANGED <<kind, payload, created, tableVars, gaugeVars, janitorVars,
                   told>>

-----------------------------------------------------------------------------
(* LtpNodeState: the two halves of touch_heartbeat and update_orientation *)

\* Mutant: a re-created session inherits the evicted session's orientation.
EntryKeepsOrientation(c, k, p) ==
    /\ GoTo(c, "touch")
    /\ kind' = [kind EXCEPT ![c] = k]
    /\ payload' = [payload EXCEPT ![c] = p]
    /\ created' = [created EXCEPT ![c] = c \notin tracked]
    /\ tracked' = tracked \cup {c}
    /\ age' = [age EXCEPT ![c] = IF c \in tracked THEN @ ELSE 0]
    /\ UNCHANGED <<orient, gaugeVars, janitorVars, told>>

\* sessions.entry(id).or_insert_with(..).clone(): a missing session is
\* inserted with SessionState::new().
Entry(c, k, p) ==
    /\ GoTo(c, "touch")
    /\ kind' = [kind EXCEPT ![c] = k]
    /\ payload' = [payload EXCEPT ![c] = p]
    /\ created' = [created EXCEPT ![c] = c \notin tracked]
    /\ tracked' = tracked \cup {c}
    /\ age' = [age EXCEPT ![c] = IF c \in tracked THEN @ ELSE 0]
    /\ orient' = [orient EXCEPT ![c] = IF c \in tracked THEN @ ELSE None]
    /\ UNCHANGED <<gaugeVars, janitorVars, told>>

\* The handler has nothing left to do: forget its locals.
Rest(c, s) ==
    /\ GoTo(c, s)
    /\ kind' = [kind EXCEPT ![c] = "none"]
    /\ payload' = [payload EXCEPT ![c] = None]
    /\ created' = [created EXCEPT ![c] = FALSE]

\* session.lock().await and the body of the critical section. When the
\* janitor evicted the session after entry() returned, the Arc is an
\* orphan and the table is not affected.
Touch(c) ==
    LET stores == kind[c] = "orientation" /\ payload[c] # None
    IN  /\ pc[c] = "touch"
        /\ IF c \in tracked
           THEN /\ age' = [age EXCEPT ![c] = 0]
                /\ orient' = [orient EXCEPT ![c] =
                                  IF stores THEN payload[c] ELSE @]
           ELSE UNCHANGED <<age, orient>>
        /\ told' = [told EXCEPT ![c] = IF stores THEN payload[c] ELSE @]
        /\ IF created[c]
           THEN GoTo(c, "check") /\ UNCHANGED <<kind, payload, created>>
           ELSE Rest(c, "active")
        /\ UNCHANGED <<tracked, gaugeVars, janitorVars>>

-----------------------------------------------------------------------------
(* reject_when_over_capacity, for the handler that created a session *)

\* Mutant: only a hello is checked, a re-creation by a message is not.
CheckHelloOnly(c) ==
    /\ pc[c] = "check"
    /\ GoTo(c, IF kind[c] = "hello" /\ Cardinality(tracked) > MaxSessions
               THEN "over" ELSE "under")
    /\ UNCHANGED <<kind, payload, created, tableVars, gaugeVars, janitorVars,
                   told>>

\* ctx.state.len() > max_sessions_total
CheckCapacity(c) ==
    /\ pc[c] = "check"
    /\ GoTo(c, IF Cardinality(tracked) > MaxSessions THEN "over" ELSE "under")
    /\ UNCHANGED <<kind, payload, created, tableVars, gaugeVars, janitorVars,
                   told>>

\* ctx.state.remove(session_id); the RATE_LIMIT error ends the connection.
RejectSession(c) ==
    /\ pc[c] = "over"
    /\ tracked' = tracked \ {c}
    /\ Rest(c, IF kind[c] = "hello" THEN "hangup" ELSE "closing")
    /\ UNCHANGED <<age, orient, gaugeVars, janitorVars, told>>

\* ctx.metrics.sessions.inc()
CountSession(c) ==
    /\ pc[c] = "under"
    /\ sessGauge' = sessGauge + 1
    /\ Rest(c, IF kind[c] = "hello" THEN "ack" ELSE "active")
    /\ UNCHANGED <<tableVars, connGauge, janitorVars,
                   told>>

-----------------------------------------------------------------------------
(* perform_handshake *)

\* A hello whose api_key is configured draws a fresh session id.
Hello(c) == pc[c] = "hello" /\ Entry(c, "hello", None)

\* Mutant: the early return forgets connections.dec().
RefusedWithoutDec(c) ==
    /\ pc[c] = "hello"
    /\ GoTo(c, "closed")
    /\ UNCHANGED <<kind, payload, created, tableVars, gaugeVars, janitorVars,
                   told>>

\* An oversized, malformed, binary, unexpected or unauthorized first
\* message, a close frame, or a read error.
HandshakeRefused(c) ==
    /\ pc[c] = "hello"
    /\ GoTo(c, "hangup")
    /\ UNCHANGED <<kind, payload, created, tableVars, gaugeVars, janitorVars,
                   told>>

HelloAck(c) ==
    /\ pc[c] = "ack"
    /\ GoTo(c, "active")
    /\ UNCHANGED <<kind, payload, created, tableVars, gaugeVars, janitorVars,
                   told>>

\* send_json(write, &ack).await? fails: the error leaves handle_connection
\* through `?`, past every cleanup.
HelloAckFails(c) ==
    /\ pc[c] = "ack"
    /\ GoTo(c, "leaked")
    /\ UNCHANGED <<kind, payload, created, tableVars, gaugeVars, janitorVars,
                   told>>

-----------------------------------------------------------------------------
(* The message loop: process_message for a message naming this session *)

Heartbeat(c) == pc[c] = "active" /\ Entry(c, "heartbeat", None)

Orientation(c, p) == pc[c] = "active" /\ Entry(c, "orientation", p)

\* build_route_suggestion: the sector a route_request of c is answered with,
\* from a snapshot; the request changes nothing, not even last_seen.
SuggestedSector(c) ==
    IF c \in tracked /\ orient[c] # None
    THEN SectorOf[orient[c]]
    ELSE "base_neutral"

\* The loop ends: a close frame, a read error, a rate limit, an oversized
\* message, another session's id (FORBIDDEN), or a failed error reply.
LeaveLoop(c) ==
    /\ pc[c] = "active"
    /\ GoTo(c, "closing")
    /\ UNCHANGED <<kind, payload, created, tableVars, gaugeVars, janitorVars,
                   told>>

-----------------------------------------------------------------------------
(* Teardown *)

\* if ctx.state.remove(&active_session)
RemoveOnDisconnect(c) ==
    /\ pc[c] = "closing"
    /\ tracked' = tracked \ {c}
    /\ GoTo(c, IF c \in tracked THEN "uncount" ELSE "hangup")
    /\ UNCHANGED <<kind, payload, created, age, orient, gaugeVars,
                   janitorVars, told>>

\* ctx.metrics.sessions.dec()
UncountSession(c) ==
    /\ pc[c] = "uncount"
    /\ sessGauge' = sessGauge - 1
    /\ GoTo(c, "hangup")
    /\ UNCHANGED <<kind, payload, created, tableVars, connGauge, janitorVars,
                   told>>

\* ctx.metrics.connections.dec()
HangUp(c) ==
    /\ pc[c] = "hangup"
    /\ connGauge' = connGauge - 1
    /\ GoTo(c, "closed")
    /\ UNCHANGED <<kind, payload, created, tableVars, sessGauge, janitorVars,
                   told>>

-----------------------------------------------------------------------------
(* The janitor: LtpNodeState::expire_idle, then the metrics update *)

Idle(c) == c \in tracked /\ age[c] >= IdleTtl

\* try_lock can fail only while the owner is inside its critical section.
LockMayBeHeld(c) == pc[c] = "touch"

\* First pass: every idle session except those whose lock was busy.
CollectIdle ==
    /\ jpc = "sleep"
    /\ jpc' = "confirm"
    /\ \E skipped \in SUBSET {c \in Conns : LockMayBeHeld(c)} :
           idleKeys' = {c \in Conns : Idle(c)} \ skipped
    /\ UNCHANGED <<connVars, tableVars, gaugeVars, expired, told>>

\* Mutant: a candidate that went away since the first pass counts as expired.
ConfirmCountsGone(c) ==
    /\ jpc = "confirm"
    /\ c \in idleKeys
    /\ idleKeys' = idleKeys \ {c}
    /\ IF Idle(c) \/ c \notin tracked
       THEN /\ tracked' = tracked \ {c}
            /\ expired' = expired + 1
       ELSE UNCHANGED <<tracked, expired>>
    /\ UNCHANGED <<connVars, age, orient, gaugeVars, jpc, told>>

\* Second pass over the collected keys: an entry still idle is removed.
ConfirmExpire(c) ==
    /\ jpc = "confirm"
    /\ c \in idleKeys
    /\ idleKeys' = idleKeys \ {c}
    /\ IF Idle(c)
       THEN /\ tracked' = tracked \ {c}
            /\ expired' = expired + 1
       ELSE UNCHANGED <<tracked, expired>>
    /\ UNCHANGED <<connVars, age, orient, gaugeVars, jpc, told>>

\* The lock is busy again: stats.skipped_locks.
ConfirmSkip(c) ==
    /\ jpc = "confirm"
    /\ c \in idleKeys
    /\ LockMayBeHeld(c)
    /\ idleKeys' = idleKeys \ {c}
    /\ UNCHANGED <<connVars, tableVars, gaugeVars, jpc, expired, told>>

\* Mutant: the sweep does not report to ltp_sessions_total.
SweepWithoutSub ==
    /\ jpc = "confirm"
    /\ idleKeys = {}
    /\ expired' = 0
    /\ jpc' = "sleep"
    /\ UNCHANGED <<connVars, tableVars, gaugeVars, idleKeys, told>>

\* ctx.metrics.sessions.sub(stats.expired)
FinishSweep ==
    /\ jpc = "confirm"
    /\ idleKeys = {}
    /\ sessGauge' = sessGauge - expired
    /\ expired' = 0
    /\ jpc' = "sleep"
    /\ UNCHANGED <<connVars, tableVars, connGauge, idleKeys, told>>

-----------------------------------------------------------------------------
(* Time *)

Older(n) == IF n < IdleTtl THEN n + 1 ELSE n

\* A tick is long against a handler's or a sweep's run of instructions.
Tick ==
    /\ jpc = "sleep"
    /\ \A c \in Conns : pc[c] \notin Busy
    /\ age' = [c \in Conns |-> IF c \in tracked THEN Older(age[c]) ELSE age[c]]
    /\ UNCHANGED <<connVars, tracked, orient, gaugeVars, janitorVars, told>>

-----------------------------------------------------------------------------
\* What a task does next once it holds the processor, whatever the client
\* does: these are the steps the runtime must eventually take.
HandlerStep(c) ==
    \/ Touch(c)
    \/ CheckCapacity(c)
    \/ RejectSession(c)
    \/ CountSession(c)
    \/ RemoveOnDisconnect(c)
    \/ UncountSession(c)
    \/ HangUp(c)

\* What the client and the network may do, or may never do.
ClientStep(c) ==
    \/ Accept(c)
    \/ Upgrade(c)
    \/ UpgradeFails(c)
    \/ Hello(c)
    \/ HandshakeRefused(c)
    \/ HelloAck(c)
    \/ HelloAckFails(c)
    \/ Heartbeat(c)
    \/ \E p \in Payloads : Orientation(c, p)
    \/ LeaveLoop(c)

JanitorStep ==
    \/ CollectIdle
    \/ \E c \in Conns : ConfirmExpire(c) \/ ConfirmSkip(c)
    \/ FinishSweep

Next ==
    \/ \E c \in Conns : HandlerStep(c) \/ ClientStep(c)
    \/ JanitorStep
    \/ Tick

Spec == Init /\ [][Next]_vars

\* The runtime schedules ready tasks and the janitor's timer fires. Time
\* goes on however often handlers run, hence strong fairness for Tick.
Fairness ==
    /\ \A c \in Conns : WF_vars(HandlerStep(c))
    /\ WF_vars(JanitorStep)
    /\ SF_vars(Tick)

FairSpec == Spec /\ Fairness

-----------------------------------------------------------------------------
(* Properties *)

\* Sessions a handler has inserted and not yet counted or rolled back.
Uncounted ==
    {c \in Conns : created[c] /\ pc[c] \in {"touch", "check", "over", "under"}}

\* Sessions a handler has inserted and not yet found within capacity.
OnTrial ==
    {c \in Conns : created[c] /\ pc[c] \in {"touch", "check", "over"}}

\* ltp_sessions_total is decremented by three parties (a disconnect, the
\* janitor, the rollback of an over-capacity insert must not) and
\* incremented by a fourth, none of them atomically with the table. It
\* still accounts for the table exactly: the tracked sessions already
\* counted, plus the removals whose decrement is still owed.
SessionsGaugeAccounts ==
    sessGauge = Cardinality(tracked \ Uncounted)
                + Cardinality({c \in Conns : pc[c] = "uncount"})
                + expired

\* LTP_NODE_MAX_SESSIONS: a session is inserted first and checked after,
\* concurrently with other handlers, yet the sessions that have passed
\* their check never exceed the cap.
AdmittedWithinCapacity ==
    Cardinality(tracked \ OnTrial) <= MaxSessions

\* The connections that exist: upgraded and not yet hung up.
Upgraded == {c \in Conns : pc[c] \in Established}

\* ltp_ws_connections_current is raised and lowered by tasks that leave
\* handle_connection on many paths, and the accept loop admits by comparing
\* it with LTP_NODE_MAX_CONNECTIONS. It never counts fewer connections than
\* there are, so the loop never admits on the strength of a lost count, and
\* it counts them exactly as long as no hello_ack has failed.
ConnectionsNeverUndercounted ==
    /\ connGauge >= Cardinality(Upgraded)
    /\ (\A c \in Conns : pc[c] # "leaked") => connGauge = Cardinality(Upgraded)

\* What the gauge's help text says of it: "Current websocket connections"
\* (main.rs:456). The code breaks it: a hello_ack that cannot be sent ends
\* the task on the `?` of main.rs:941, before connections.dec().
GaugeIsCurrent == connGauge = Cardinality(Upgraded)

\* A route_suggestion follows the orientation the client sent last or is
\* neutral; an eviction and a re-creation in between may lose that
\* orientation, and never bring back an older one.
RouteNeverStale ==
    \A c \in Conns :
        pc[c] = "active" =>
            SuggestedSector(c) \in
                {"base_neutral"} \cup {SectorOf[d] : d \in {told[c]} \ {None}}

\* Once every connection has ended, even by a failed hello_ack that skips
\* the teardown, the janitor empties the table and ltp_sessions_total
\* returns to zero.
DrainedNodeForgetsSessions ==
    (\A c \in Conns : pc[c] \in {"closed", "leaked"})
        ~> (tracked = {} /\ sessGauge = 0)
=============================================================================
