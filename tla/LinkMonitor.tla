----------------------------- MODULE LinkMonitor -----------------------------
(***************************************************************************)
(* The programs that watch a node: the developer console                   *)
(* (scripts/dev/ltp-node-demo.ts), the transport client with the focus HUD *)
(* on it (scripts/transport/ltpClient.ts, scripts/monitor), and the        *)
(* gateway (scripts/gateway/ltp-node-gateway.ts).  They are separate       *)
(* processes and share only the clock.                                     *)
(*                                                                         *)
(* A tick is the console's heartbeat and health interval of 5 s; the node  *)
(* answers heartbeats in order, after any delay, or not at all.  Momentum  *)
(* values are left out: only how many are kept is.  Rendering is left out. *)
(***************************************************************************)
EXTENDS Naturals, Sequences

CONSTANTS
  OkTicks,         \* HEALTH_OK_THRESHOLD_MS
  WarnTicks,       \* HEALTH_WARN_THRESHOLD_MS
  HistoryLimit,    \* FOCUS_HISTORY_LIMIT
  LtpSockets,      \* sockets the transport client may create
  Latencies,       \* latencies in milliseconds, including a slow and a fast one
  UpstreamSockets, \* sockets the gateway may create upstream
  MaxTime,
  None

ASSUME MonitorAssumption ==
  /\ OkTicks \in Nat /\ WarnTicks \in Nat /\ 0 < OkTicks /\ OkTicks <= WarnTicks
  /\ MaxTime \in Nat
  /\ None \notin Nat

VARIABLES
  now,
  con,    \* the console
  acks,   \* heartbeat timestamps the node has not answered yet
  ltp,    \* the transport client
  hud,    \* the HUD's snapshot
  gw      \* the gateway

monitorVars == <<now, con, acks, ltp, hud, gw>>

-----------------------------------------------------------------------------
(* The developer console *)

\* determineLinkHealth of the console.
LinkHealth(last, t) ==
  IF last = None THEN "critical"
  ELSE IF t - last < OkTicks THEN "ok"
  ELSE IF t - last < WarnTicks THEN "warn"
  ELSE "critical"

\* recordFocusMomentum
Recorded(n) == IF n < HistoryLimit THEN n + 1 ELSE HistoryLimit

ConsoleInit ==
  [ws |-> "connecting", connected |-> FALSE, loops |-> FALSE, beatDue |-> FALSE,
   checkDue |-> FALSE, last |-> None, health |-> "critical", focus |-> 0, routed |-> FALSE]

ConsoleUnchanged == UNCHANGED <<now, ltp, hud, gw>>

\* The functions that change devState, on a console c.
UpdateOrientationSnapshot(c) == [c EXCEPT !.focus = Recorded(@)]

\* The debug of a suggestion may carry the momentum, recorded a second time.
UpdateRoutingSnapshot(c, debug) ==
  [c EXCEPT !.routed = TRUE, !.focus = IF debug THEN Recorded(@) ELSE @]

\* The heartbeat counts from when it was sent, and every answered link is ok.
RecordHeartbeat(c, sent) == [c EXCEPT !.last = sent, !.health = "ok"]

Evaluated(c) == [c EXCEPT !.health = LinkHealth(c.last, now)]

StopLoops(c) == [c EXCEPT !.loops = FALSE]

\* "open": hello is sent.
ConsoleOpens ==
  /\ con.ws = "connecting"
  /\ con' = [con EXCEPT !.ws = "open"]
  /\ UNCHANGED acks /\ ConsoleUnchanged

\* hello_ack: an accepted hello starts the loops, the orientation loop and the
\* health monitor with a first round at once; a rejected one closes.  It may
\* still come while the socket closes, and starts the loops again then.
HelloAck(accepted) ==
  /\ con.ws \in {"open", "closing"} /\ ~ con.connected
  /\ con' = IF accepted
            THEN Evaluated(UpdateOrientationSnapshot([con EXCEPT !.connected = TRUE, !.loops = TRUE]))
            ELSE [con EXCEPT !.ws = "closing"]
  /\ UNCHANGED acks /\ ConsoleUnchanged

\* startHeartbeatLoop: the interval sends a heartbeat with the current time.
SendHeartbeat ==
  /\ con.loops /\ con.beatDue
  /\ con' = [con EXCEPT !.beatDue = FALSE]
  /\ acks' = IF con.ws = "open" THEN Append(acks, now) ELSE acks
  /\ ConsoleUnchanged

\* sendOrientationAndRoute, every 12 s: any time here.
OrientationAndRoute ==
  /\ con.loops
  /\ con' = UpdateOrientationSnapshot(con)
  /\ UNCHANGED acks /\ ConsoleUnchanged

\* startHealthMonitor: evaluateLinkHealth on its interval.
EvaluateLinkHealth ==
  /\ con.loops /\ con.checkDue
  /\ con' = Evaluated([con EXCEPT !.checkDue = FALSE])
  /\ UNCHANGED acks /\ ConsoleUnchanged

\* Mutant: the answer is recorded and the health left to the next check.
HeartbeatAckUnevaluated ==
  /\ con.ws \in {"open", "closing"} /\ acks # <<>>
  /\ acks' = Tail(acks)
  /\ con' = [con EXCEPT !.last = Head(acks)]
  /\ ConsoleUnchanged

\* heartbeat_ack: the link that was just called ok is evaluated, for the answer
\* may be late.
HeartbeatAck ==
  /\ con.ws \in {"open", "closing"} /\ acks # <<>>
  /\ acks' = Tail(acks)
  /\ con' = Evaluated(RecordHeartbeat(con, Head(acks)))
  /\ ConsoleUnchanged

\* The node drops what it would have answered (its rate limit, or an error).
AckLost ==
  /\ acks # <<>>
  /\ acks' = Tail(acks)
  /\ UNCHANGED con /\ ConsoleUnchanged

\* route_suggestion: the sector becomes the next hint.
RouteSuggestion(debug) ==
  /\ con.ws \in {"open", "closing"} /\ con.connected
  /\ con' = UpdateRoutingSnapshot(con, debug)
  /\ UNCHANGED acks /\ ConsoleUnchanged

\* SIGINT: the loops stop and the socket begins to close.
Sigint ==
  /\ con.ws # "exited"
  /\ con' = StopLoops([con EXCEPT !.ws = "closing"])
  /\ UNCHANGED acks /\ ConsoleUnchanged

\* "close": the loops stop and the process exits.
ConsoleCloses ==
  /\ con.ws # "exited"
  /\ con' = StopLoops([con EXCEPT !.ws = "exited"])
  /\ acks' = <<>>
  /\ ConsoleUnchanged

\* Time passes when the intervals that are due have fired.
Tick ==
  /\ now < MaxTime
  /\ con.loops => ~ con.beatDue /\ ~ con.checkDue
  /\ now' = now + 1
  /\ con' = [con EXCEPT !.beatDue = con.loops, !.checkDue = con.loops]
  /\ UNCHANGED <<acks, ltp, hud, gw>>

ConsoleNext ==
  \/ ConsoleOpens \/ SendHeartbeat \/ OrientationAndRoute \/ EvaluateLinkHealth
  \/ HeartbeatAck \/ AckLost \/ Sigint \/ ConsoleCloses \/ Tick
  \/ \E b \in BOOLEAN : HelloAck(b) \/ RouteSuggestion(b)

-----------------------------------------------------------------------------
(* createLtpClient, used by the HUD *)

LiveStates == {"connecting", "open", "closing"}
LtpInit == [sock |-> [s \in LtpSockets |-> "unused"], ws |-> None, timer |-> FALSE, latency |-> None]
LtpUnchanged == UNCHANGED <<now, con, acks, gw>>

\* connect() replaces the current socket and leaves an earlier one as it is.
LtpConnect(s) ==
  /\ ltp.sock[s] = "unused"
  /\ ltp' = [ltp EXCEPT !.sock[s] = "connecting", !.ws = s]
  /\ UNCHANGED hud /\ LtpUnchanged

\* There is one timer, which sends on the current socket when that is open.
StartHeartbeatLoop(c) == [c EXCEPT !.timer = TRUE]
StopHeartbeatLoop(c) == [c EXCEPT !.timer = FALSE]

\* "open" of any socket starts the heartbeat.
SocketOpens(s) ==
  /\ ltp.sock[s] = "connecting"
  /\ ltp' = StartHeartbeatLoop([ltp EXCEPT !.sock[s] = "open"])
  /\ UNCHANGED hud /\ LtpUnchanged

\* Mutant: only the close of the current socket stops the heartbeat.
CloseOfCurrentStops(s) ==
  /\ ltp.sock[s] \in LiveStates
  /\ ltp' = [ltp EXCEPT !.sock[s] = "closed", !.timer = @ /\ ltp.ws # s]
  /\ UNCHANGED hud /\ LtpUnchanged

\* "close" of any socket stops the heartbeat.
SocketCloses(s) ==
  /\ ltp.sock[s] \in LiveStates
  /\ ltp' = StopHeartbeatLoop([ltp EXCEPT !.sock[s] = "closed"])
  /\ UNCHANGED hud /\ LtpUnchanged

LtpDisconnect ==
  /\ ltp.ws # None
  /\ ltp' = StopHeartbeatLoop([ltp EXCEPT !.ws = None,
                                 !.sock[ltp.ws] = IF @ = "closed" THEN @ ELSE "closing"])
  /\ UNCHANGED hud /\ LtpUnchanged

\* determineLinkHealth of the HUD, from latency and jitter.
HudHealth(latency, jitter) ==
  IF latency = None THEN "CRIT"
  ELSE IF latency < 80 /\ (jitter = None \/ jitter < 15) THEN "OK"
  ELSE IF latency < 200 THEN "WARN"
  ELSE "CRIT"

Or(x, y) == IF x # None THEN x ELSE y
Distance(x, y) == IF x > y THEN x - y ELSE y - x

\* The HUD's onHeartbeatAck.
OnHeartbeatAck(latency, jitter) ==
  hud' = [hud EXCEPT !.latency = latency, !.jitter = jitter, !.health = HudHealth(latency, jitter)]

\* heartbeat_ack
LtpHeartbeatAck(s, latency) ==
  /\ ltp.sock[s] \in {"open", "closing"}
  /\ OnHeartbeatAck(latency, IF ltp.latency = None THEN None ELSE Distance(latency, ltp.latency))
  /\ ltp' = [ltp EXCEPT !.latency = latency]
  /\ LtpUnchanged

\* onFocusSnapshot: link metadata, when there is any, overrides what acks said.
FocusSnapshot(s, latency, jitter) ==
  /\ ltp.sock[s] \in {"open", "closing"}
  /\ hud' = [hud EXCEPT !.latency = Or(latency, @), !.jitter = Or(jitter, @),
                        !.health = HudHealth(Or(latency, hud.latency), Or(jitter, hud.jitter))]
  /\ UNCHANGED ltp /\ LtpUnchanged

LtpNext ==
  \/ LtpDisconnect
  \/ \E s \in LtpSockets :
       \/ LtpConnect(s) \/ SocketOpens(s) \/ SocketCloses(s)
       \/ \E l \in Latencies : LtpHeartbeatAck(s, l)
       \/ \E l \in Latencies \cup {None}, j \in {None, 5, 50} : FocusSnapshot(s, l, j)

-----------------------------------------------------------------------------
(* The gateway *)

Backoff == <<1, 2, 5, 10>>    \* seconds
BackoffDelay(attempt) == Backoff[IF attempt < 4 THEN attempt + 1 ELSE 4]

GwInit == [process |-> "runs", sock |-> [u \in UpstreamSockets |-> "unused"], socket |-> None, attempt |-> 0,
           timers |-> 1, monitor |-> "connecting", hud |-> "none", forwarded |-> 0, dropped |-> 0]
GwUnchanged == UNCHANGED <<now, con, acks, ltp, hud>>

\* connect(), at the start and from the timer a close armed.
UpstreamConnect(u) ==
  /\ gw.timers > 0
  /\ gw.sock[u] = "unused"
  /\ gw' = [gw EXCEPT !.timers = @ - 1, !.sock[u] = "connecting", !.socket = u]
  /\ GwUnchanged

UpstreamOpens(u) ==
  /\ gw.sock[u] = "connecting"
  /\ gw' = [gw EXCEPT !.sock[u] = "open", !.attempt = 0]
  /\ GwUnchanged

\* Mutant: an error arms the timer as well as the close it leads to.
ErrorReconnects(u) ==
  /\ gw.sock[u] \in {"connecting", "open"}
  /\ gw' = [gw EXCEPT !.sock[gw.socket] = "closing", !.timers = @ + 1]
  /\ GwUnchanged

\* "error" closes the current socket.
UpstreamError(u) ==
  /\ gw.sock[u] \in {"connecting", "open"}
  /\ gw' = [gw EXCEPT !.sock[gw.socket] = "closing"]
  /\ GwUnchanged

\* "close" arms the timer with the delay of this attempt; the slot is free again.
UpstreamCloses(u) ==
  /\ gw.sock[u] \in LiveStates
  /\ gw' = [gw EXCEPT !.sock[u] = "unused", !.timers = @ + 1,
                      !.attempt = IF BackoffDelay(@) = 10 THEN @ ELSE @ + 1]
  /\ GwUnchanged

\* The HUD monitor's socket; hudSocket is set by its open and never cleared.
MonitorChanges(state) ==
  /\ <<gw.monitor, state>> \in {<<"connecting", "open">>, <<"connecting", "closed">>,
                                <<"open", "closed">>, <<"closed", "connecting">>}
  /\ gw' = [gw EXCEPT !.monitor = state, !.hud = IF state = "open" THEN "set" ELSE @]
  /\ GwUnchanged

\* A snapshot reaches the HUD if its socket is open just then.
Forwarded(g) ==
  IF g.hud = "set" /\ g.monitor = "open"
  THEN [g EXCEPT !.forwarded = @ + 1] ELSE [g EXCEPT !.dropped = @ + 1]

\* The process ends, with its sockets and timers.
Ended(g) == [g EXCEPT !.process = "ended", !.timers = 0,
                      !.sock = [u \in UpstreamSockets |-> "unused"]]

\* toJson and mapToFocusSnapshotEnvelope: whether a message yields an envelope,
\* and whether it throws, for a timestamp that is a number but not a date.
YieldsEnvelope(message) == message = "focus_snapshot"
ThrowsRangeError(message) == message = "focus_snapshot out of range"

\* Anything else from upstream is ignored.  Nothing catches what the listener
\* throws.
UpstreamMessage(u, message) ==
  /\ gw.sock[u] \in {"open", "closing"}
  /\ gw.forwarded + gw.dropped < 2
  /\ gw' = IF ThrowsRangeError(message) THEN Ended(gw)
           ELSE IF YieldsEnvelope(message) THEN Forwarded(gw) ELSE gw
  /\ GwUnchanged

\* SIGINT closes both sockets and exits at once.
GatewaySigint == gw' = Ended(gw) /\ GwUnchanged

UpstreamMessages == {"focus_snapshot", "focus_snapshot out of range", "other", "not json"}

GatewayNext ==
  /\ gw.process = "runs"
  /\ \/ \E u \in UpstreamSockets :
          \/ UpstreamConnect(u) \/ UpstreamOpens(u) \/ UpstreamError(u) \/ UpstreamCloses(u)
          \/ \E message \in UpstreamMessages : UpstreamMessage(u, message)
     \/ \E state \in {"connecting", "open", "closed"} : MonitorChanges(state)
     \/ GatewaySigint

-----------------------------------------------------------------------------
MonitorInit ==
  /\ now = 0
  /\ con = ConsoleInit
  /\ acks = <<>>
  /\ ltp = LtpInit
  /\ hud = [latency |-> None, jitter |-> None, health |-> "CRIT"]
  /\ gw = GwInit

MonitorNext == ConsoleNext \/ LtpNext \/ GatewayNext
MonitorSpec == MonitorInit /\ [][MonitorNext]_monitorVars

-----------------------------------------------------------------------------
(* Properties *)

\* While its loops run, the console never shows a link better or worse than the
\* last acknowledged heartbeat makes it at one of the last two checks, however
\* late and in whatever bursts the answers come (recordHeartbeat first calls
\* every answered link ok, evaluateLinkHealth runs on its own interval).
HealthHonest ==
  con.loops =>
    con.health \in {LinkHealth(con.last, now)} \cup
                   (IF con.checkDue /\ now > 0 /\ con.last # now
                    THEN {LinkHealth(con.last, now - 1)} ELSE {})

\* The transport client leaves no heartbeat behind: whatever the order of
\* connect, disconnect and the events of old and new sockets, an armed timer
\* means that some socket is open or closing.
NoOrphanHeartbeat == ltp.timer => \E s \in LtpSockets : ltp.sock[s] \in {"open", "closing"}

\* One upstream socket that is not closed and no reconnect timer, or one timer.
SingleUpstream ==
  \/ gw.timers = 1 /\ \A u \in UpstreamSockets : gw.sock[u] = "unused"
  \/ gw.timers = 0 /\ \E u \in UpstreamSockets :
       /\ gw.sock[u] \in LiveStates
       /\ gw.socket = u
       /\ \A v \in UpstreamSockets \ {u} : gw.sock[v] = "unused"

\* As long as its process runs, the gateway never gives up and never doubles: in
\* any order of errors and closes it has exactly one upstream socket that is not
\* closed, or one reconnect timer (createUpstreamConnector).
OneUpstream == gw.process = "runs" => SingleUpstream
=============================================================================
