------------------------------ MODULE JsClient ------------------------------
(***************************************************************************)
(* The connection life cycle of the JavaScript SDK's LtpClient             *)
(* (sdk/js/src/client.ts): connect() and disconnect(), the WebSocket       *)
(* events, the handshake with its fallback from resume to init, the        *)
(* heartbeat timeout and the reconnect timer.                              *)
(*                                                                         *)
(* JavaScript runs one task at a time, so an action is one task: an API    *)
(* call, a socket event or a timer, with everything its handler calls. A   *)
(* socket's close event is a task of its own, after close() has returned.  *)
(* Application callbacks are taken not to call the client back.            *)
(***************************************************************************)
EXTENDS Integers

CONSTANTS
    Sockets,          \* bound: WebSocket objects that have not reported their
                      \* close yet; an object is reused after it
    NoSocket,         \* null
    MaxPongs,         \* bound: pongs whose verification is under way
    maxRetries,       \* reconnectConfig.maxRetries
    HeartbeatEnabled  \* heartbeatConfig.enabled

ASSUME ClientAssumption ==
    /\ NoSocket \notin Sockets
    /\ MaxPongs \in Nat
    /\ maxRetries \in Nat
    /\ HeartbeatEnabled \in BOOLEAN

VARIABLES
    sock,               \* each socket as the client sees it
    ws,                 \* this.ws
    isConnecting,
    connected,          \* isConnected, always equal to isHandshakeComplete
    pending,            \* connectPromise and its resolvers are set
    manualDisconnect,
    isAttemptingResume,
    threadId,           \* a thread id is known, and stored
    reconnectAttempts,
    reconnectTimer,     \* armed
    heartbeatTimer,     \* the ping interval, running
    heartbeatTimeout,   \* armed
    cleanups,           \* nonce cache cleanup intervals running
    pongs               \* pongs received whose verification awaits

timerVars == <<heartbeatTimer, heartbeatTimeout, cleanups>>
retryVars == <<reconnectTimer, reconnectAttempts>>
clientVars == <<sock, ws, isConnecting, connected, pending, manualDisconnect,
          isAttemptingResume, threadId, retryVars, timerVars, pongs>>

\* An open socket, by the handshake request that the server has yet to
\* answer; "open" when there is none.
OpenStates == {"init", "resume", "open"}
Live == OpenStates \cup {"connecting"}
SocketStates == Live \cup {"closing", "none"}

\* The state is well formed; no more than maxRetries attempts are counted.
ClientTypeOK ==
    /\ sock \in [Sockets -> SocketStates]
    /\ ws \in Sockets \cup {NoSocket}
    /\ isConnecting \in BOOLEAN
    /\ connected \in BOOLEAN
    /\ pending \in BOOLEAN
    /\ manualDisconnect \in BOOLEAN
    /\ isAttemptingResume \in BOOLEAN
    /\ threadId \in BOOLEAN
    /\ reconnectAttempts \in 0 .. maxRetries
    /\ reconnectTimer \in BOOLEAN
    /\ heartbeatTimer \in BOOLEAN
    /\ heartbeatTimeout \in BOOLEAN
    /\ cleanups \in Nat
    /\ pongs \in 0 .. MaxPongs

\* The constructor: a thread id may be left in storage from an earlier run.
ClientInit ==
    /\ sock = [s \in Sockets |-> "none"]
    /\ ws = NoSocket
    /\ isConnecting = FALSE
    /\ connected = FALSE
    /\ pending = FALSE
    /\ manualDisconnect = FALSE
    /\ isAttemptingResume = FALSE
    /\ threadId \in BOOLEAN
    /\ reconnectAttempts = 0
    /\ reconnectTimer = FALSE
    /\ heartbeatTimer = FALSE
    /\ heartbeatTimeout = FALSE
    /\ cleanups = 0
    /\ pongs = 0

-----------------------------------------------------------------------------
(* What several tasks share *)

WsIsOpen == ws # NoSocket /\ sock[ws] \in OpenStates

\* The sockets after this.ws.close(), if this.ws is set.
WsClosed ==
    [s \in Sockets |-> IF s = ws /\ sock[s] \in Live THEN "closing" ELSE sock[s]]

\* sendHandshakeInit and sendHandshakeResume: sendRaw drops the request
\* when this.ws is not open.
SendHandshake(socks, request) ==
    [s \in Sockets |-> IF s = ws /\ socks[s] \in OpenStates THEN request ELSE socks[s]]

\* Mutant: a connection attempt in progress is abandoned, not waited for.
ConnectWithoutClose ==
    IF isConnecting
    THEN UNCHANGED <<sock, ws, isConnecting>>
    ELSE \E s \in Sockets :
             /\ sock[s] = "none"
             /\ sock' = [sock EXCEPT ![s] = "connecting"]
             /\ ws' = s
             /\ isConnecting' = TRUE

\* connectWebSocket: the old socket is closed in any case, a new one made
\* unless an attempt is in progress.
ConnectWebSocket ==
    IF isConnecting
    THEN sock' = WsClosed /\ UNCHANGED <<ws, isConnecting>>
    ELSE \E s \in Sockets :
             /\ sock[s] = "none"
             /\ sock' = [WsClosed EXCEPT ![s] = "connecting"]
             /\ ws' = s
             /\ isConnecting' = TRUE

\* clearHeartbeatTimers and stopNonceCleanup.
StopTimers ==
    /\ heartbeatTimer' = FALSE
    /\ heartbeatTimeout' = FALSE
    /\ cleanups' = IF cleanups > 0 THEN cleanups - 1 ELSE 0

\* Mutant: attempts are not counted.
ScheduleReconnectUncounted ==
    IF reconnectTimer
    THEN UNCHANGED <<retryVars, pending>>
    ELSE IF reconnectAttempts >= maxRetries
    THEN pending' = FALSE /\ UNCHANGED retryVars
    ELSE /\ reconnectTimer' = TRUE
         /\ UNCHANGED <<reconnectAttempts, pending>>

\* scheduleReconnect, with emitPermanentFailure when the retries are used up.
ScheduleReconnect ==
    IF reconnectTimer
    THEN UNCHANGED <<retryVars, pending>>
    ELSE IF reconnectAttempts >= maxRetries
    THEN pending' = FALSE /\ UNCHANGED retryVars
    ELSE /\ reconnectTimer' = TRUE
         /\ reconnectAttempts' = reconnectAttempts + 1
         /\ UNCHANGED pending

\* Mutant: a close asked for by the application is treated as a loss.
HandleDisconnectAlwaysRetries ==
    /\ connected' = FALSE
    /\ StopTimers
    /\ ScheduleReconnect

HandleDisconnect ==
    /\ connected' = FALSE
    /\ StopTimers
    /\ IF manualDisconnect
       THEN UNCHANGED <<retryVars, pending>>
       ELSE ScheduleReconnect

-----------------------------------------------------------------------------
(* The application *)

\* connect(); while connected or connecting it returns at once.
Connect ==
    /\ ~connected
    /\ ~pending
    /\ manualDisconnect' = FALSE
    /\ reconnectAttempts' = 0
    /\ pending' = TRUE
    /\ ConnectWebSocket
    /\ UNCHANGED <<connected, isAttemptingResume, threadId, reconnectTimer, timerVars, pongs>>

Disconnect ==
    /\ manualDisconnect' = TRUE
    /\ StopTimers
    /\ reconnectTimer' = FALSE
    /\ sock' = WsClosed
    /\ ws' = NoSocket
    /\ connected' = FALSE
    /\ pending' = FALSE
    /\ UNCHANGED <<isConnecting, isAttemptingResume, threadId, reconnectAttempts, pongs>>

-----------------------------------------------------------------------------
(* WebSocket events *)

\* onopen: resume the thread if there is one.
OnOpen(s) ==
    /\ sock[s] = "connecting"
    /\ isConnecting' = FALSE
    /\ isAttemptingResume' = threadId
    /\ sock' = SendHandshake([sock EXCEPT ![s] = "open"],
                             IF threadId THEN "resume" ELSE "init")
    /\ UNCHANGED <<ws, connected, pending, manualDisconnect, threadId,
                   retryVars, timerVars, pongs>>

\* Mutant: isConnecting is left set when an attempt fails.
OnCloseStillConnecting(s) ==
    /\ sock' = [sock EXCEPT ![s] = "none"]
    /\ HandleDisconnect
    /\ UNCHANGED <<ws, isConnecting, manualDisconnect, isAttemptingResume, threadId, pongs>>

\* onclose, of whichever socket it is.
OnClose(s) ==
    /\ sock' = [sock EXCEPT ![s] = "none"]
    /\ isConnecting' = FALSE
    /\ HandleDisconnect
    /\ UNCHANGED <<ws, manualDisconnect, isAttemptingResume, threadId, pongs>>

\* A socket the client has closed reports it.
CloseReported(s) == sock[s] = "closing" /\ OnClose(s)

\* The peer or the network ends a connection, or an attempt fails.
ConnectionLost(s) == sock[s] \in Live /\ OnClose(s)

-----------------------------------------------------------------------------
(* Messages of the server; a closing socket delivers none. The messages of
   a handshake are not verified, so that no await comes before them. *)

\* Mutant: an armed reconnect timer survives the handshake.
HandshakeAckKeepsTimer(s) ==
    /\ sock[s] \in {"init", "resume"}
    /\ sock' = [sock EXCEPT ![s] = "open"]
    /\ threadId' = TRUE
    /\ connected' = TRUE
    /\ isAttemptingResume' = FALSE
    /\ reconnectAttempts' = 0
    /\ heartbeatTimer' = HeartbeatEnabled
    /\ heartbeatTimeout' = HeartbeatEnabled
    /\ cleanups' = cleanups + 1
    /\ pending' = FALSE
    /\ UNCHANGED <<ws, isConnecting, manualDisconnect, reconnectTimer, pongs>>

\* handleHandshakeAck, with startHeartbeat and startNonceCleanup.
HandshakeAck(s) ==
    /\ sock[s] \in {"init", "resume"}
    /\ sock' = [sock EXCEPT ![s] = "open"]
    /\ threadId' = TRUE
    /\ connected' = TRUE
    /\ isAttemptingResume' = FALSE
    /\ reconnectAttempts' = 0
    /\ reconnectTimer' = FALSE
    /\ heartbeatTimer' = HeartbeatEnabled
    /\ heartbeatTimeout' = HeartbeatEnabled
    /\ cleanups' = cleanups + 1
    /\ pending' = FALSE
    /\ UNCHANGED <<ws, isConnecting, manualDisconnect, pongs>>

\* handleHandshakeReject of a resume: forget the thread, start a new one.
ResumeRejected(s) ==
    /\ sock[s] \in {"init", "resume"}
    /\ isAttemptingResume
    /\ isAttemptingResume' = FALSE
    /\ threadId' = FALSE
    /\ sock' = SendHandshake([sock EXCEPT ![s] = "open"], "init")
    /\ UNCHANGED <<ws, isConnecting, connected, pending, manualDisconnect,
                   retryVars, timerVars, pongs>>

\* ... of an init: emitPermanentFailure, then this.ws.close().
InitRejected(s) ==
    /\ sock[s] \in {"init", "resume"}
    /\ ~isAttemptingResume
    /\ pending' = FALSE
    /\ sock' = [WsClosed EXCEPT ![s] = IF s = ws THEN "closing" ELSE "open"]
    /\ UNCHANGED <<ws, isConnecting, connected, manualDisconnect,
                   isAttemptingResume, threadId, retryVars, timerVars, pongs>>

\* handleMessageAsync awaits decryption, the signature and the hash of a
\* message before it looks at its type; sockets and timers go on meanwhile.
PongArrives(s) ==
    /\ sock[s] = "open"
    /\ pongs < MaxPongs
    /\ pongs' = pongs + 1
    /\ UNCHANGED <<sock, ws, isConnecting, connected, pending, manualDisconnect,
                   isAttemptingResume, threadId, retryVars, timerVars>>

\* The pong passed: clearHeartbeatTimeout and scheduleHeartbeatTimeout,
\* whatever has become of the connection it came from.
PongVerified ==
    /\ pongs > 0
    /\ pongs' = pongs - 1
    /\ heartbeatTimeout' = HeartbeatEnabled
    /\ UNCHANGED <<sock, ws, isConnecting, connected, pending, manualDisconnect,
                   isAttemptingResume, threadId, retryVars, heartbeatTimer, cleanups>>

\* verifyMessageSecurity refused it; handleError only tells the application.
PongRefused ==
    /\ pongs > 0
    /\ pongs' = pongs - 1
    /\ UNCHANGED <<sock, ws, isConnecting, connected, pending, manualDisconnect,
                   isAttemptingResume, threadId, retryVars, timerVars>>

-----------------------------------------------------------------------------
(* Timers *)

\* forceReconnect: an open socket is closed and its close event does the
\* rest; otherwise handleDisconnect is called directly.
HeartbeatTimedOut ==
    /\ heartbeatTimeout
    /\ IF WsIsOpen
       THEN /\ sock' = WsClosed
            /\ heartbeatTimeout' = FALSE
            /\ UNCHANGED <<connected, pending, retryVars, heartbeatTimer, cleanups>>
       ELSE /\ HandleDisconnect
            /\ UNCHANGED sock
    /\ UNCHANGED <<ws, isConnecting, manualDisconnect, isAttemptingResume, threadId, pongs>>

ReconnectDue ==
    /\ reconnectTimer
    /\ reconnectTimer' = FALSE
    /\ ConnectWebSocket
    /\ UNCHANGED <<connected, pending, manualDisconnect, isAttemptingResume,
                   threadId, reconnectAttempts, timerVars, pongs>>

-----------------------------------------------------------------------------
Answer(s) == HandshakeAck(s) \/ ResumeRejected(s) \/ InitRejected(s)

ClientNext ==
    \/ Connect
    \/ Disconnect
    \/ HeartbeatTimedOut
    \/ ReconnectDue
    \/ PongVerified
    \/ PongRefused
    \/ \E s \in Sockets :
          \/ OnOpen(s) \/ CloseReported(s) \/ ConnectionLost(s)
          \/ Answer(s) \/ PongArrives(s)

ClientSpec == ClientInit /\ [][ClientNext]_clientVars

\* Timers fire, a closed socket reports it, an attempt to connect succeeds or
\* fails, and the server answers a handshake or the connection is lost.
ClientFairness ==
    /\ WF_clientVars(ReconnectDue)
    /\ \A s \in Sockets :
          /\ WF_clientVars(CloseReported(s))
          /\ WF_clientVars(sock[s] = "connecting" /\ (OnOpen(s) \/ ConnectionLost(s)))
          /\ WF_clientVars(sock[s] \in {"init", "resume"} /\ (Answer(s) \/ ConnectionLost(s)))

ClientFairSpec == ClientSpec /\ ClientFairness

-----------------------------------------------------------------------------
(* Properties *)

\* A connection that is being set up or is open is the one the client holds:
\* no sequence of connect(), disconnect(), losses and timers leaves a second
\* one behind that still talks to the server.
OnlyCurrentSocketLives == \A s \in Sockets : sock[s] \in Live => ws = s

\* Connected means: the handshake was completed on the socket the client
\* holds, whose close has not been reported, with one ping interval and one
\* cleanup interval running and no reconnect on its way that would replace
\* it. Otherwise no interval is left running.
ConnectedIsBacked ==
    /\ connected =>
          /\ ws # NoSocket
          /\ sock[ws] \in {"open", "closing"}
          /\ ~reconnectTimer
          /\ heartbeatTimer = HeartbeatEnabled
          /\ cleanups = 1
    /\ ~connected => ~heartbeatTimer /\ cleanups = 0

\* After disconnect() nothing comes back before the next connect(): no
\* socket, no session, no retry, whatever events were under way. A pong whose
\* verification ends after it may still arm the heartbeat timeout, which then
\* finds nothing to close and starts nothing.
DisconnectIsFinal ==
    manualDisconnect =>
        /\ ~connected /\ ~pending
        /\ ~reconnectTimer
        /\ \A s \in Sockets : sock[s] \notin Live

\* A caller waiting in connect() is never forgotten: a socket event, an
\* answer or the reconnect timer is still to come, also when the new attempt
\* was skipped because an older one was in progress.
NeverStranded ==
    pending =>
        \/ reconnectTimer
        \/ \E s \in Sockets : sock[s] \in {"connecting", "closing", "init", "resume"}

\* The promise of connect() is settled.
ConnectSettles == pending ~> ~pending
=============================================================================
