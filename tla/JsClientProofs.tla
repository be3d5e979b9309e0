--------------------------- MODULE JsClientProofs ---------------------------
(***************************************************************************)
(* Proofs about JsClient, for any number of sockets and retries.           *)
(*                                                                         *)
(* The four safety properties support one another: that a handshake is     *)
(* answered on the socket the client holds (OnlyCurrentSocketLives) is why *)
(* an ack finds no interval running (ConnectedIsBacked), and that an       *)
(* attempt in progress still has an event to come (AttemptReports) is why  *)
(* a connect() that skips its own attempt is not forgotten.                *)
(*                                                                         *)
(* And about LinkMonitor, the connections of the programs that watch a     *)
(* node: the health shown, the heartbeat timer and the reconnects.         *)
(***************************************************************************)
EXTENDS JsClient, LinkMonitor, TLAPS

\* While isConnecting is set some socket has an event to come.
AttemptReports ==
    isConnecting => \E s \in Sockets : sock[s] \in {"connecting", "closing"}

IndInv ==
    /\ ClientTypeOK
    /\ OnlyCurrentSocketLives
    /\ ConnectedIsBacked
    /\ DisconnectIsFinal
    /\ NeverStranded
    /\ AttemptReports

\* The two halves of TypeOK, one for each prover.
FlagsOK ==
    /\ isConnecting \in BOOLEAN
    /\ connected \in BOOLEAN
    /\ pending \in BOOLEAN
    /\ manualDisconnect \in BOOLEAN
    /\ isAttemptingResume \in BOOLEAN
    /\ threadId \in BOOLEAN
    /\ reconnectTimer \in BOOLEAN
    /\ heartbeatTimer \in BOOLEAN
    /\ heartbeatTimeout \in BOOLEAN

DataOK ==
    /\ sock \in [Sockets -> SocketStates]
    /\ ws \in Sockets \cup {NoSocket}
    /\ reconnectAttempts \in 0 .. maxRetries
    /\ cleanups \in Nat
    /\ pongs \in 0 .. MaxPongs

USE ClientAssumption

LEMMA TypeParts == ClientTypeOK <=> FlagsOK /\ DataOK
  BY Zenon DEF ClientTypeOK, FlagsOK, DataOK

LEMMA TypePartsNext == ClientTypeOK' <=> FlagsOK' /\ DataOK'
  BY Zenon DEF ClientTypeOK, FlagsOK, DataOK

LEMMA InitInv == ClientInit => IndInv
<1> SUFFICES ASSUME ClientInit
             PROVE  IndInv
  OBVIOUS
<1>1. FlagsOK
  BY Zenon DEF ClientInit, FlagsOK
<1>2. DataOK
  BY DEF ClientInit, DataOK, SocketStates
<1>3. OnlyCurrentSocketLives /\ DisconnectIsFinal /\ NeverStranded /\ AttemptReports
  BY DEF ClientInit, OnlyCurrentSocketLives, DisconnectIsFinal, NeverStranded,
         AttemptReports, Live, OpenStates
<1>4. ConnectedIsBacked
  BY DEF ClientInit, ConnectedIsBacked
<1>5. QED
  BY <1>1, <1>2, <1>3, <1>4, TypeParts DEF IndInv

-----------------------------------------------------------------------------
(* What the shared parts of the handlers do *)

\* ws.close() leaves no live socket behind but those that are not this.ws.
LEMMA WsClosedFacts ==
    ASSUME ClientTypeOK, OnlyCurrentSocketLives
    PROVE  /\ WsClosed \in [Sockets -> SocketStates]
           /\ \A s \in Sockets : WsClosed[s] \notin Live
           /\ \A s \in Sockets :
                 sock[s] \in {"connecting", "closing"} => WsClosed[s] = "closing"
           /\ \A s \in Sockets : sock[s] = "none" => WsClosed[s] = "none"
  BY DEF ClientTypeOK, OnlyCurrentSocketLives, WsClosed, Live, OpenStates, SocketStates

\* connectWebSocket leaves at most its own new socket live, and some socket
\* with an event to come.
LEMMA ConnectFacts ==
    ASSUME ClientTypeOK, OnlyCurrentSocketLives, AttemptReports, ConnectWebSocket
    PROVE  /\ sock' \in [Sockets -> SocketStates]
           /\ ws' \in Sockets \cup {NoSocket}
           /\ isConnecting' \in BOOLEAN
           /\ \A s \in Sockets : sock'[s] \in Live => ws' = s
           /\ \E s \in Sockets : sock'[s] \in {"connecting", "closing"}
<1>1. CASE isConnecting
  <2>1. PICK s \in Sockets : sock[s] \in {"connecting", "closing"}
    BY <1>1 DEF AttemptReports
  <2>2. sock' = WsClosed /\ ws' = ws /\ isConnecting' = isConnecting
    BY <1>1 DEF ConnectWebSocket
  <2>3. sock'[s] = "closing"
    BY <2>1, <2>2, WsClosedFacts
  <2>4. QED
    BY <2>2, <2>3, WsClosedFacts DEF ClientTypeOK
<1>2. CASE ~isConnecting
  <2>1. PICK s \in Sockets :
            /\ sock' = [WsClosed EXCEPT ![s] = "connecting"]
            /\ ws' = s
            /\ isConnecting' = TRUE
    BY <1>2 DEF ConnectWebSocket
  <2>2. sock'[s] = "connecting"
    BY <2>1, WsClosedFacts
  <2>3. \A r \in Sockets : r # s => sock'[r] = WsClosed[r]
    BY <2>1, WsClosedFacts
  <2>4. sock' \in [Sockets -> SocketStates]
    BY <2>1, WsClosedFacts DEF SocketStates, Live
  <2>5. QED
    BY <2>1, <2>2, <2>3, <2>4, WsClosedFacts
<1>3. QED
  BY <1>1, <1>2

\* handleDisconnect leaves the client down, its intervals stopped; unless
\* disconnect() came before, a retry is armed or the caller was told.
LEMMA DisconnectFacts ==
    ASSUME ClientTypeOK, ConnectedIsBacked, DisconnectIsFinal, HandleDisconnect
    PROVE  /\ connected' = FALSE
           /\ heartbeatTimer' = FALSE
           /\ heartbeatTimeout' = FALSE
           /\ cleanups' = 0
           /\ pending' \in BOOLEAN
           /\ reconnectTimer' \in BOOLEAN
           /\ reconnectAttempts' \in 0 .. maxRetries
           /\ pending' => reconnectTimer'
           /\ manualDisconnect => ~pending' /\ ~reconnectTimer'
<1>1. connected' = FALSE /\ heartbeatTimer' = FALSE /\ heartbeatTimeout' = FALSE
  BY DEF HandleDisconnect, StopTimers
<1>2. cleanups' = 0
  <2>1. cleanups \in {0, 1}
    BY DEF ClientTypeOK, ConnectedIsBacked
  <2>2. QED
    BY <2>1 DEF HandleDisconnect, StopTimers
<1>3. CASE manualDisconnect
  BY <1>1, <1>2, <1>3 DEF HandleDisconnect, DisconnectIsFinal, ClientTypeOK, retryVars
<1>4. CASE ~manualDisconnect
  <2>1. ScheduleReconnect
    BY <1>4 DEF HandleDisconnect
  <2>2. CASE reconnectTimer
    BY <1>1, <1>2, <1>4, <2>1, <2>2 DEF ScheduleReconnect, ClientTypeOK, retryVars
  <2>3. CASE ~reconnectTimer /\ reconnectAttempts >= maxRetries
    BY <1>1, <1>2, <1>4, <2>1, <2>3 DEF ScheduleReconnect, ClientTypeOK, retryVars
  <2>4. CASE ~reconnectTimer /\ ~(reconnectAttempts >= maxRetries)
    <3>1. reconnectAttempts' = reconnectAttempts + 1 /\ reconnectTimer' = TRUE
          /\ pending' = pending
      BY <2>1, <2>4 DEF ScheduleReconnect
    <3>2. reconnectAttempts' \in 0 .. maxRetries
      BY <2>4, <3>1 DEF ClientTypeOK
    <3>3. QED
      BY <1>1, <1>2, <1>4, <3>1, <3>2 DEF ClientTypeOK
  <2>5. QED
    BY <2>2, <2>3, <2>4
<1>5. QED
  BY <1>3, <1>4 DEF ClientTypeOK

-----------------------------------------------------------------------------
(* One lemma per task *)

LEMMA ConnectInv == IndInv /\ Connect => IndInv'
<1> SUFFICES ASSUME IndInv, Connect
             PROVE  IndInv'
  OBVIOUS
<1> USE DEF IndInv
<1>1. ConnectWebSocket
  BY DEF Connect
<1>2. ClientTypeOK'
  <2>1. FlagsOK /\ DataOK
    BY TypeParts
  <2>2. FlagsOK'
    BY <1>1, <2>1, ConnectFacts, Zenon DEF Connect, FlagsOK, timerVars
  <2>3. DataOK'
    BY <1>1, <2>1, ConnectFacts DEF Connect, DataOK, timerVars
  <2>4. QED
    BY <2>2, <2>3, TypePartsNext
<1>3. OnlyCurrentSocketLives'
  BY <1>1, ConnectFacts DEF OnlyCurrentSocketLives
<1>4. ConnectedIsBacked'
  BY DEF Connect, ConnectedIsBacked, timerVars
<1>5. DisconnectIsFinal'
  BY DEF Connect, DisconnectIsFinal
<1>6. NeverStranded' /\ AttemptReports'
  BY <1>1, ConnectFacts DEF NeverStranded, AttemptReports
<1>7. QED
  BY <1>2, <1>3, <1>4, <1>5, <1>6

LEMMA ReconnectInv == IndInv /\ ReconnectDue => IndInv'
<1> SUFFICES ASSUME IndInv, ReconnectDue
             PROVE  IndInv'
  OBVIOUS
<1> USE DEF IndInv
<1>1. ConnectWebSocket /\ ~connected /\ ~manualDisconnect
  BY DEF ReconnectDue, ConnectedIsBacked, DisconnectIsFinal
<1>2. ClientTypeOK'
  <2>1. FlagsOK /\ DataOK
    BY TypeParts
  <2>2. FlagsOK'
    BY <1>1, <2>1, ConnectFacts, Zenon DEF ReconnectDue, FlagsOK, timerVars
  <2>3. DataOK'
    BY <1>1, <2>1, ConnectFacts DEF ReconnectDue, DataOK, timerVars
  <2>4. QED
    BY <2>2, <2>3, TypePartsNext
<1>3. OnlyCurrentSocketLives'
  BY <1>1, ConnectFacts DEF OnlyCurrentSocketLives
<1>4. ConnectedIsBacked'
  BY <1>1 DEF ReconnectDue, ConnectedIsBacked, timerVars
<1>5. DisconnectIsFinal'
  BY <1>1 DEF ReconnectDue, DisconnectIsFinal
<1>6. NeverStranded' /\ AttemptReports'
  BY <1>1, ConnectFacts DEF NeverStranded, AttemptReports
<1>7. QED
  BY <1>2, <1>3, <1>4, <1>5, <1>6

LEMMA DisconnectInv == IndInv /\ Disconnect => IndInv'
<1> SUFFICES ASSUME IndInv, Disconnect
             PROVE  IndInv'
  OBVIOUS
<1> USE DEF IndInv
<1>1. sock' = WsClosed /\ \A s \in Sockets : sock'[s] \notin Live
  BY WsClosedFacts DEF Disconnect
<1>2. cleanups' = 0
  <2>1. cleanups \in {0, 1}
    BY DEF ClientTypeOK, ConnectedIsBacked
  <2>2. QED
    BY <2>1 DEF Disconnect, StopTimers
<1>3. ClientTypeOK'
  <2>1. FlagsOK /\ DataOK
    BY TypeParts
  <2>2. FlagsOK'
    BY <2>1, Zenon DEF Disconnect, StopTimers, FlagsOK
  <2>3. DataOK'
    BY <1>1, <1>2, <2>1, WsClosedFacts DEF Disconnect, DataOK
  <2>4. QED
    BY <2>2, <2>3, TypePartsNext
<1>4. OnlyCurrentSocketLives'
  BY <1>1 DEF OnlyCurrentSocketLives
<1>5. ConnectedIsBacked'
  BY <1>2 DEF Disconnect, StopTimers, ConnectedIsBacked
<1>6. DisconnectIsFinal'
  BY <1>1 DEF Disconnect, StopTimers, DisconnectIsFinal
<1>7. NeverStranded'
  BY DEF Disconnect, NeverStranded
<1>8. AttemptReports'
  BY <1>1, WsClosedFacts DEF Disconnect, AttemptReports
<1>9. QED
  BY <1>3, <1>4, <1>5, <1>6, <1>7, <1>8

LEMMA OnCloseInv ==
    ASSUME IndInv, NEW s \in Sockets, OnClose(s)
    PROVE  IndInv'
<1> USE DEF IndInv
<1>1. HandleDisconnect
  BY DEF OnClose
<1>2. sock' = [sock EXCEPT ![s] = "none"] /\ isConnecting' = FALSE
      /\ UNCHANGED <<ws, manualDisconnect, isAttemptingResume, threadId, pongs>>
  BY DEF OnClose
<1>3. \A r \in Sockets : sock'[r] \in Live => sock[r] \in Live
  BY <1>2 DEF ClientTypeOK, Live, OpenStates
<1>4. sock' \in [Sockets -> SocketStates]
  BY <1>2 DEF ClientTypeOK, SocketStates
<1>5. ClientTypeOK'
  <2>1. FlagsOK /\ DataOK
    BY TypeParts
  <2>2. FlagsOK'
    BY <1>1, <1>2, <2>1, DisconnectFacts, Zenon DEF FlagsOK
  <2>3. DataOK'
    BY <1>1, <1>2, <1>4, <2>1, DisconnectFacts DEF DataOK
  <2>4. QED
    BY <2>2, <2>3, TypePartsNext
<1>6. OnlyCurrentSocketLives'
  BY <1>2, <1>3 DEF OnlyCurrentSocketLives
<1>7. ConnectedIsBacked'
  BY <1>1, DisconnectFacts DEF ConnectedIsBacked
<1>8. DisconnectIsFinal'
  BY <1>1, <1>2, <1>3, DisconnectFacts DEF DisconnectIsFinal
<1>9. NeverStranded' /\ AttemptReports'
  BY <1>1, <1>2, DisconnectFacts DEF NeverStranded, AttemptReports
<1>10. QED
  BY <1>5, <1>6, <1>7, <1>8, <1>9

LEMMA OnOpenInv ==
    ASSUME IndInv, NEW s \in Sockets, OnOpen(s)
    PROVE  IndInv'
<1> USE DEF IndInv
<1>1. ws = s /\ ~manualDisconnect /\ ~connected
  BY DEF OnOpen, OnlyCurrentSocketLives, DisconnectIsFinal, ConnectedIsBacked, Live
<1>2. PICK request \in {"init", "resume"} : sock' = [sock EXCEPT ![s] = request]
  <2> DEFINE request == IF threadId THEN "resume" ELSE "init"
  <2>1. sock' = [sock EXCEPT ![s] = request]
    BY <1>1 DEF OnOpen, SendHandshake, ClientTypeOK, OpenStates
  <2>2. request \in {"init", "resume"}
    OBVIOUS
  <2>3. QED
    BY <2>1, <2>2
<1>3. sock'[s] \in {"init", "resume"} /\ \A r \in Sockets : r # s => sock'[r] = sock[r]
  BY <1>2 DEF ClientTypeOK
<1>4. ClientTypeOK'
  <2>1. FlagsOK /\ DataOK
    BY TypeParts
  <2>2. FlagsOK'
    BY <2>1, Zenon DEF OnOpen, FlagsOK, retryVars, timerVars
  <2>3. DataOK'
    BY <1>2, <2>1 DEF OnOpen, DataOK, SocketStates, Live, OpenStates, retryVars, timerVars
  <2>4. QED
    BY <2>2, <2>3, TypePartsNext
<1>5. OnlyCurrentSocketLives'
  BY <1>1, <1>3 DEF OnOpen, OnlyCurrentSocketLives
<1>6. ConnectedIsBacked'
  BY <1>1 DEF OnOpen, ConnectedIsBacked, timerVars
<1>7. DisconnectIsFinal'
  BY <1>1 DEF OnOpen, DisconnectIsFinal
<1>8. NeverStranded' /\ AttemptReports'
  BY <1>3 DEF OnOpen, NeverStranded, AttemptReports
<1>9. QED
  BY <1>4, <1>5, <1>6, <1>7, <1>8

\* An answer to a handshake comes on the socket the client holds, and finds
\* the client not connected.
LEMMA AnswerFacts ==
    ASSUME IndInv, NEW s \in Sockets, sock[s] \in {"init", "resume"}
    PROVE  ws = s /\ ~manualDisconnect /\ ~connected /\ cleanups = 0
  BY DEF IndInv, OnlyCurrentSocketLives, DisconnectIsFinal, ConnectedIsBacked, Live,
         OpenStates

LEMMA HandshakeAckInv ==
    ASSUME IndInv, NEW s \in Sockets, HandshakeAck(s)
    PROVE  IndInv'
<1> USE DEF IndInv
<1>1. ws = s /\ ~manualDisconnect /\ ~connected /\ cleanups = 0
  BY AnswerFacts DEF HandshakeAck
<1>2. sock' = [sock EXCEPT ![s] = "open"]
  BY DEF HandshakeAck
<1>3. sock'[s] = "open" /\ \A r \in Sockets : r # s => sock'[r] = sock[r]
  BY <1>2 DEF ClientTypeOK
<1>4. ClientTypeOK'
  <2>1. FlagsOK /\ DataOK
    BY TypeParts
  <2>2. FlagsOK'
    BY <2>1, Zenon DEF HandshakeAck, FlagsOK
  <2>3. DataOK'
    BY <1>1, <1>2, <2>1 DEF HandshakeAck, DataOK, SocketStates, Live, OpenStates
  <2>4. QED
    BY <2>2, <2>3, TypePartsNext
<1>5. OnlyCurrentSocketLives'
  BY <1>1, <1>3 DEF HandshakeAck, OnlyCurrentSocketLives
<1>6. ConnectedIsBacked'
  BY <1>1, <1>3 DEF HandshakeAck, ConnectedIsBacked
<1>7. DisconnectIsFinal'
  BY <1>1 DEF HandshakeAck, DisconnectIsFinal
<1>8. NeverStranded'
  BY DEF HandshakeAck, NeverStranded
<1>9. AttemptReports'
  <2>1. SUFFICES ASSUME isConnecting
                 PROVE  AttemptReports'
    BY DEF HandshakeAck, AttemptReports
  <2>2. PICK r \in Sockets : sock[r] \in {"connecting", "closing"}
    BY <2>1 DEF AttemptReports
  <2>3. r # s
    BY <2>2 DEF HandshakeAck
  <2>4. QED
    BY <1>3, <2>2, <2>3 DEF AttemptReports
<1>10. QED
  BY <1>4, <1>5, <1>6, <1>7, <1>8, <1>9

LEMMA ResumeRejectedInv ==
    ASSUME IndInv, NEW s \in Sockets, ResumeRejected(s)
    PROVE  IndInv'
<1> USE DEF IndInv
<1>1. ws = s /\ ~manualDisconnect /\ ~connected /\ cleanups = 0
  BY AnswerFacts DEF ResumeRejected
<1>2. sock' = [sock EXCEPT ![s] = "init"]
  BY <1>1 DEF ResumeRejected, SendHandshake, ClientTypeOK, OpenStates
<1>3. sock'[s] = "init" /\ \A r \in Sockets : r # s => sock'[r] = sock[r]
  BY <1>2 DEF ClientTypeOK
<1>4. ClientTypeOK'
  <2>1. FlagsOK /\ DataOK
    BY TypeParts
  <2>2. FlagsOK'
    BY <2>1, Zenon DEF ResumeRejected, FlagsOK, retryVars, timerVars
  <2>3. DataOK'
    BY <1>2, <2>1 DEF ResumeRejected, DataOK, SocketStates, Live, OpenStates,
                      retryVars, timerVars
  <2>4. QED
    BY <2>2, <2>3, TypePartsNext
<1>5. OnlyCurrentSocketLives'
  BY <1>1, <1>3 DEF ResumeRejected, OnlyCurrentSocketLives
<1>6. ConnectedIsBacked'
  BY <1>1 DEF ResumeRejected, ConnectedIsBacked, timerVars
<1>7. DisconnectIsFinal'
  BY <1>1 DEF ResumeRejected, DisconnectIsFinal
<1>8. NeverStranded'
  BY <1>3 DEF NeverStranded
<1>9. AttemptReports'
  <2>1. SUFFICES ASSUME isConnecting
                 PROVE  AttemptReports'
    BY DEF ResumeRejected, AttemptReports
  <2>2. PICK r \in Sockets : sock[r] \in {"connecting", "closing"}
    BY <2>1 DEF AttemptReports
  <2>3. r # s
    BY <2>2 DEF ResumeRejected
  <2>4. QED
    BY <1>3, <2>2, <2>3 DEF AttemptReports
<1>10. QED
  BY <1>4, <1>5, <1>6, <1>7, <1>8, <1>9

LEMMA InitRejectedInv ==
    ASSUME IndInv, NEW s \in Sockets, InitRejected(s)
    PROVE  IndInv'
<1> USE DEF IndInv
<1>1. ws = s /\ ~manualDisconnect /\ ~connected /\ cleanups = 0
  BY AnswerFacts DEF InitRejected
<1>2. sock' = [sock EXCEPT ![s] = "closing"]
  BY <1>1 DEF InitRejected, WsClosed, ClientTypeOK
<1>3. sock'[s] = "closing" /\ \A r \in Sockets : r # s => sock'[r] = sock[r]
  BY <1>2 DEF ClientTypeOK
<1>4. ClientTypeOK'
  <2>1. FlagsOK /\ DataOK
    BY TypeParts
  <2>2. FlagsOK'
    BY <2>1, Zenon DEF InitRejected, FlagsOK, retryVars, timerVars
  <2>3. DataOK'
    BY <1>2, <2>1 DEF InitRejected, DataOK, SocketStates, retryVars, timerVars
  <2>4. QED
    BY <2>2, <2>3, TypePartsNext
<1>5. OnlyCurrentSocketLives'
  BY <1>1, <1>3 DEF InitRejected, OnlyCurrentSocketLives
<1>6. ConnectedIsBacked'
  BY <1>1 DEF InitRejected, ConnectedIsBacked, timerVars
<1>7. DisconnectIsFinal'
  BY <1>1 DEF InitRejected, DisconnectIsFinal
<1>8. NeverStranded' /\ AttemptReports'
  BY <1>3 DEF InitRejected, NeverStranded, AttemptReports
<1>9. QED
  BY <1>4, <1>5, <1>6, <1>7, <1>8

\* What the three steps of a pong leave alone.
PongLeaves ==
    /\ UNCHANGED <<sock, ws, isConnecting, connected, pending, manualDisconnect,
                   isAttemptingResume, threadId, reconnectTimer,
                   reconnectAttempts, heartbeatTimer, cleanups>>
    /\ heartbeatTimeout' \in {heartbeatTimeout, HeartbeatEnabled}

\* A pong, verified at any time, disturbs no part of the invariant.
LEMMA PongInv ==
    ASSUME IndInv, PongLeaves, pongs' \in 0 .. MaxPongs
    PROVE  IndInv'
<1> USE DEF IndInv
<1>1. ClientTypeOK'
  <2>1. FlagsOK /\ DataOK
    BY TypeParts
  <2>2. FlagsOK'
    BY <2>1, Zenon DEF PongLeaves, FlagsOK
  <2>3. DataOK'
    BY <2>1 DEF PongLeaves, DataOK
  <2>4. QED
    BY <2>2, <2>3, TypePartsNext
<1>2. OnlyCurrentSocketLives' /\ NeverStranded' /\ AttemptReports'
  BY DEF PongLeaves, OnlyCurrentSocketLives, NeverStranded, AttemptReports
<1>3. ConnectedIsBacked' /\ DisconnectIsFinal'
  BY DEF PongLeaves, ConnectedIsBacked, DisconnectIsFinal
<1>4. QED
  BY <1>1, <1>2, <1>3

LEMMA PongStepInv ==
    ASSUME IndInv,
           PongVerified \/ PongRefused \/ \E s \in Sockets : PongArrives(s)
    PROVE  IndInv'
<1>1. pongs \in 0 .. MaxPongs
  BY DEF IndInv, ClientTypeOK
<1>2. pongs' \in 0 .. MaxPongs
  BY <1>1 DEF PongVerified, PongRefused, PongArrives
<1>3. PongLeaves
  BY Zenon DEF PongVerified, PongRefused, PongArrives, PongLeaves, retryVars, timerVars
<1>4. QED
  BY <1>2, <1>3, PongInv

LEMMA HeartbeatInv == IndInv /\ HeartbeatTimedOut => IndInv'
<1> SUFFICES ASSUME IndInv, HeartbeatTimedOut
             PROVE  IndInv'
  OBVIOUS
<1> USE DEF IndInv
<1>1. UNCHANGED <<ws, isConnecting, manualDisconnect, isAttemptingResume, threadId,
                  pongs>>
  BY DEF HeartbeatTimedOut
<1>2. CASE WsIsOpen
  <2>1. /\ sock' = WsClosed
        /\ heartbeatTimeout' = FALSE
        /\ UNCHANGED <<connected, pending, reconnectTimer, reconnectAttempts,
                       heartbeatTimer, cleanups>>
    BY <1>2 DEF HeartbeatTimedOut, retryVars
  <2>2. ws \in Sockets /\ sock'[ws] = "closing"
    BY <1>2, <2>1 DEF WsIsOpen, WsClosed, ClientTypeOK, Live
  <2>3. ClientTypeOK'
    <3>1. FlagsOK /\ DataOK
      BY TypeParts
    <3>2. FlagsOK'
      BY <1>1, <2>1, <3>1, Zenon DEF FlagsOK
    <3>3. DataOK'
      BY <1>1, <2>1, <3>1, WsClosedFacts DEF DataOK
    <3>4. QED
      BY <3>2, <3>3, TypePartsNext
  <2>4. OnlyCurrentSocketLives'
    BY <2>1, WsClosedFacts DEF OnlyCurrentSocketLives
  <2>5. ConnectedIsBacked'
    BY <1>1, <2>1, <2>2 DEF ConnectedIsBacked
  <2>6. DisconnectIsFinal'
    BY <1>1, <2>1, WsClosedFacts DEF DisconnectIsFinal
  <2>7. NeverStranded' /\ AttemptReports'
    BY <1>1, <2>2 DEF NeverStranded, AttemptReports
  <2>8. QED
    BY <2>3, <2>4, <2>5, <2>6, <2>7
<1>3. CASE ~WsIsOpen
  <2>1. HandleDisconnect /\ sock' = sock
    BY <1>3 DEF HeartbeatTimedOut
  <2>2. ClientTypeOK'
    <3>1. FlagsOK /\ DataOK
      BY TypeParts
    <3>2. FlagsOK'
      BY <1>1, <2>1, <3>1, DisconnectFacts, Zenon DEF FlagsOK
    <3>3. DataOK'
      BY <1>1, <2>1, <3>1, DisconnectFacts DEF DataOK
    <3>4. QED
      BY <3>2, <3>3, TypePartsNext
  <2>3. OnlyCurrentSocketLives' /\ AttemptReports'
    BY <1>1, <2>1 DEF OnlyCurrentSocketLives, AttemptReports
  <2>4. ConnectedIsBacked'
    BY <2>1, DisconnectFacts DEF ConnectedIsBacked
  <2>5. DisconnectIsFinal'
    BY <1>1, <2>1, DisconnectFacts DEF DisconnectIsFinal
  <2>6. NeverStranded'
    BY <2>1, DisconnectFacts DEF NeverStranded
  <2>7. QED
    BY <2>2, <2>3, <2>4, <2>5, <2>6
<1>4. QED
  BY <1>2, <1>3

-----------------------------------------------------------------------------
(* The invariant, and the properties it implies *)

LEMMA StepInv == IndInv /\ [ClientNext]_clientVars => IndInv'
<1> SUFFICES ASSUME IndInv, [ClientNext]_clientVars
             PROVE  IndInv'
  OBVIOUS
<1>1. CASE Connect \/ Disconnect \/ HeartbeatTimedOut \/ ReconnectDue
  BY <1>1, ConnectInv, DisconnectInv, HeartbeatInv, ReconnectInv
<1>2. ASSUME NEW s \in Sockets,
             CloseReported(s) \/ ConnectionLost(s)
      PROVE  IndInv'
  BY <1>2, OnCloseInv DEF CloseReported, ConnectionLost
<1>3. ASSUME NEW s \in Sockets, OnOpen(s) \/ Answer(s)
      PROVE  IndInv'
  BY <1>3, OnOpenInv, HandshakeAckInv, ResumeRejectedInv, InitRejectedInv
     DEF Answer
<1>4. CASE UNCHANGED clientVars
  BY <1>4 DEF clientVars, retryVars, timerVars, IndInv, ClientTypeOK, OnlyCurrentSocketLives,
              ConnectedIsBacked, DisconnectIsFinal, NeverStranded, AttemptReports
<1>5. CASE PongVerified \/ PongRefused \/ \E s \in Sockets : PongArrives(s)
  BY <1>5, PongStepInv
<1>6. QED
  BY <1>1, <1>2, <1>3, <1>4, <1>5 DEF ClientNext

LEMMA Invariance == ClientSpec => []IndInv
  BY InitInv, StepInv, PTL DEF ClientSpec

\* Every variable keeps its type and the retries stay within maxRetries,
\* whatever the order of calls, events and timers.
THEOREM TypeCorrect == ClientSpec => []ClientTypeOK
<1>1. IndInv => ClientTypeOK
  BY DEF IndInv
<1>2. QED
  BY <1>1, Invariance, PTL

\* No connection is left behind that the client does not hold.
THEOREM SocketCorrect == ClientSpec => []OnlyCurrentSocketLives
<1>1. IndInv => OnlyCurrentSocketLives
  BY DEF IndInv
<1>2. QED
  BY <1>1, Invariance, PTL

\* isConnected agrees with the socket, the intervals and the reconnect timer.
THEOREM ConnectedCorrect == ClientSpec => []ConnectedIsBacked
<1>1. IndInv => ConnectedIsBacked
  BY DEF IndInv
<1>2. QED
  BY <1>1, Invariance, PTL

\* No socket, session or retry comes back after disconnect() until connect()
\* is called, also when a pong is still being verified.
THEOREM DisconnectCorrect == ClientSpec => []DisconnectIsFinal
<1>1. IndInv => DisconnectIsFinal
  BY DEF IndInv
<1>2. QED
  BY <1>1, Invariance, PTL

\* A caller of connect() always has an event or a timer to wait for.
THEOREM StrandedCorrect == ClientSpec => []NeverStranded
<1>1. IndInv => NeverStranded
  BY DEF IndInv
<1>2. QED
  BY <1>1, Invariance, PTL

-----------------------------------------------------------------------------
(* The monitors: the console *)

\* No heartbeat is dated in the future, neither one that is still to be
\* answered nor the last one that was.
BeatsPast ==
    /\ now \in Nat
    /\ acks \in Seq(Nat) /\ \A k \in 1 .. Len(acks) : acks[k] <= now
    /\ con.last = None \/ (con.last \in Nat /\ con.last <= now)

ConsoleFields == DOMAIN con = {"ws", "connected", "loops", "beatDue", "checkDue", "last", "health", "focus", "routed"}

ConsoleInv == ConsoleFields /\ BeatsPast /\ HealthHonest

\* A step that leaves the clock, the last heartbeat, the health and the check alone.
LEMMA HonestKept ==
    ASSUME ConsoleInv, DOMAIN con' = DOMAIN con, now' = now,
           con'.last = con.last, con'.health = con.health, con'.checkDue = con.checkDue,
           con'.loops => con.loops,
           acks' \in Seq(Nat), \A k \in 1 .. Len(acks') : acks'[k] <= now
    PROVE  ConsoleInv'
  <1>1. ConsoleFields' /\ BeatsPast'
    BY DEF ConsoleInv, ConsoleFields, BeatsPast
  <1>2. HealthHonest'
    BY DEF ConsoleInv, HealthHonest
  <1> QED
    BY <1>1, <1>2 DEF ConsoleInv

\* A step that ends in evaluateLinkHealth.
LEMMA HonestEvaluated ==
    ASSUME ConsoleInv, NEW c, DOMAIN c = DOMAIN con, con' = Evaluated(c), now' = now,
           c.last = None \/ (c.last \in Nat /\ c.last <= now),
           acks' \in Seq(Nat), \A k \in 1 .. Len(acks') : acks'[k] <= now
    PROVE  ConsoleInv'
  <1>1. DOMAIN con' = DOMAIN c /\ con'.last = c.last /\ con'.health = LinkHealth(c.last, now)
    BY DEF Evaluated, ConsoleInv, ConsoleFields
  <1>2. ConsoleFields' /\ BeatsPast'
    BY <1>1 DEF ConsoleInv, ConsoleFields, BeatsPast
  <1>3. HealthHonest'
    <2>1. LinkHealth(con'.last, now') = LinkHealth(c.last, now)
      BY <1>1
    <2> QED
      BY <1>1, <2>1 DEF HealthHonest
  <1> QED
    BY <1>2, <1>3 DEF ConsoleInv

\* The rest of a queue of heartbeats.
LEMMA TailPast ==
    ASSUME BeatsPast, acks # <<>>
    PROVE  /\ Tail(acks) \in Seq(Nat) /\ \A k \in 1 .. Len(Tail(acks)) : Tail(acks)[k] <= now
           /\ Head(acks) \in Nat /\ Head(acks) <= now
  <1>1. acks \in Seq(Nat) /\ Len(acks) \in Nat /\ Len(acks) >= 1 /\ now \in Nat
    BY DEF BeatsPast
  <1>2. PICK q : q = Tail(acks)
    OBVIOUS
  <1>3. q \in Seq(Nat) /\ Len(q) = Len(acks) - 1 /\ \A k \in 1 .. Len(q) : q[k] = acks[k + 1]
    BY <1>1, <1>2
  <1>4. \A k \in 1 .. Len(q) : k + 1 \in 1 .. Len(acks)
    BY <1>1, <1>3
  <1>5. Head(acks) = acks[1] /\ 1 \in 1 .. Len(acks)
    BY <1>1
  <1> QED
    BY <1>1, <1>2, <1>3, <1>4, <1>5 DEF BeatsPast

LEMMA ConsoleStep ==
    ASSUME ConsoleInv, ConsoleNext
    PROVE  ConsoleInv'
  <1> USE DEF ConsoleUnchanged
  <1>1. /\ ConsoleFields /\ BeatsPast
        /\ acks \in Seq(Nat) /\ \A k \in 1 .. Len(acks) : acks[k] <= now
    BY DEF ConsoleInv, BeatsPast
  <1>2. CASE ConsoleOpens
    <2>1. con' = [con EXCEPT !.ws = "open"] /\ UNCHANGED <<acks, now>>
      BY <1>2 DEF ConsoleOpens
    <2> QED
      BY <1>1, <2>1, HonestKept DEF ConsoleFields
  <1>3. ASSUME NEW b \in BOOLEAN, HelloAck(b)
        PROVE  ConsoleInv'
    <2>1. UNCHANGED <<acks, now>>
      BY <1>3 DEF HelloAck
    <2>2. CASE b
      <3>1. PICK c : c = UpdateOrientationSnapshot([con EXCEPT !.connected = TRUE, !.loops = TRUE])
        OBVIOUS
      <3>2. con' = Evaluated(c)
        BY <1>3, <2>2, <3>1 DEF HelloAck
      <3>3. ASSUME NEW x, NEW y, NEW z, c = [[con EXCEPT !.connected = x, !.loops = y] EXCEPT !.focus = z]
            PROVE  DOMAIN c = DOMAIN con /\ c.last = con.last
        BY <1>1, <3>3 DEF ConsoleFields
      <3>4. DOMAIN c = DOMAIN con /\ c.last = con.last
        BY <3>1, <3>3 DEF UpdateOrientationSnapshot
      <3> QED
        BY <1>1, <2>1, <3>2, <3>4, HonestEvaluated DEF BeatsPast
    <2>3. CASE ~b
      <3>1. con' = [con EXCEPT !.ws = "closing"]
        BY <1>3, <2>3 DEF HelloAck
      <3> QED
        BY <1>1, <2>1, <3>1, HonestKept DEF ConsoleFields
    <2> QED
      BY <2>2, <2>3
  <1>4. CASE SendHeartbeat
    <2>1. /\ now' = now /\ \/ acks' = acks
                           \/ acks' = Append(acks, now)
      BY <1>4 DEF SendHeartbeat
    <2>2. acks' \in Seq(Nat) /\ \A k \in 1 .. Len(acks') : acks'[k] <= now
      <3>1. CASE acks' = acks
        BY <1>1, <3>1
      <3>2. CASE acks' = Append(acks, now)
        <4>1. now \in Nat /\ Len(acks) \in Nat
          BY <1>1 DEF BeatsPast
        <4>2. /\ acks' \in Seq(Nat) /\ Len(acks') = Len(acks) + 1 /\ acks'[Len(acks) + 1] = now
              /\ \A k \in 1 .. Len(acks) : acks'[k] = acks[k]
          BY <1>1, <3>2, <4>1
        <4>3. \A k \in 1 .. Len(acks) : acks'[k] <= now
          BY <1>1, <4>2
        <4>4. \A k \in 1 .. Len(acks) + 1 : k \in 1 .. Len(acks) \/ k = Len(acks) + 1
          BY <4>1
        <4>5. acks'[Len(acks) + 1] <= now
          BY <4>1, <4>2
        <4> QED
          BY <4>2, <4>3, <4>4, <4>5
      <3> QED
        BY <2>1, <3>1, <3>2
    <2>3. ASSUME NEW no, con' = [con EXCEPT !.beatDue = no]
          PROVE  /\ DOMAIN con' = DOMAIN con
                 /\ con'.last = con.last /\ con'.health = con.health
                 /\ con'.checkDue = con.checkDue /\ con'.loops = con.loops
      BY <1>1, <2>3 DEF ConsoleFields
    <2>4. /\ DOMAIN con' = DOMAIN con
          /\ con'.last = con.last /\ con'.health = con.health
          /\ con'.checkDue = con.checkDue /\ con'.loops = con.loops
      BY <1>4, <2>3 DEF SendHeartbeat
    <2> QED
      BY <2>1, <2>2, <2>4, HonestKept
  <1>5. CASE OrientationAndRoute
    <2>1. PICK x : con' = [con EXCEPT !.focus = x] /\ UNCHANGED <<acks, now>>
      BY <1>5 DEF OrientationAndRoute, UpdateOrientationSnapshot
    <2> QED
      BY <1>1, <2>1, HonestKept DEF ConsoleFields
  <1>6. CASE EvaluateLinkHealth
    <2>1. PICK c, no : c = [con EXCEPT !.checkDue = no] /\ con' = Evaluated(c) /\ UNCHANGED <<acks, now>>
      BY <1>6 DEF EvaluateLinkHealth
    <2>2. DOMAIN c = DOMAIN con /\ c.last = con.last
      BY <1>1, <2>1 DEF ConsoleFields
    <2> QED
      BY <1>1, <2>1, <2>2, HonestEvaluated DEF BeatsPast
  <1>7. CASE HeartbeatAck
    <2>1. PICK c : c = RecordHeartbeat(con, Head(acks)) /\ con' = Evaluated(c)
      BY <1>7 DEF HeartbeatAck
    <2>2. acks # <<>> /\ acks' = Tail(acks) /\ now' = now
      BY <1>7 DEF HeartbeatAck
    <2>3. DOMAIN c = DOMAIN con /\ c.last = Head(acks)
      BY <1>1, <2>1 DEF ConsoleFields, RecordHeartbeat
    <2> QED
      BY <1>1, <2>1, <2>2, <2>3, TailPast, HonestEvaluated
  <1>8. CASE AckLost
    <2>1. acks # <<>> /\ acks' = Tail(acks) /\ UNCHANGED <<con, now>>
      BY <1>8 DEF AckLost
    <2> QED
      BY <1>1, <2>1, TailPast, HonestKept
  <1>9. ASSUME NEW b \in BOOLEAN, RouteSuggestion(b)
        PROVE  ConsoleInv'
    <2>1. PICK x, y : con' = [con EXCEPT !.routed = x, !.focus = y] /\ UNCHANGED <<acks, now>>
      BY <1>9 DEF RouteSuggestion, UpdateRoutingSnapshot
    <2> QED
      BY <1>1, <2>1, HonestKept DEF ConsoleFields
  <1>10. CASE Sigint \/ ConsoleCloses
    <2>1. PICK w, no : con' = [[con EXCEPT !.ws = w] EXCEPT !.loops = no] /\ no = FALSE
      BY <1>10 DEF Sigint, ConsoleCloses, StopLoops
    <2>2. acks' \in {acks, <<>>} /\ now' = now
      BY <1>10 DEF Sigint, ConsoleCloses
    <2>3. /\ DOMAIN con' = DOMAIN con
          /\ con'.last = con.last /\ con'.health = con.health
          /\ con'.checkDue = con.checkDue /\ con'.loops = no
      BY <1>1, <2>1 DEF ConsoleFields
    <2>4. acks' \in Seq(Nat) /\ \A k \in 1 .. Len(acks') : acks'[k] <= now
      <3>1. CASE acks' = acks
        BY <1>1, <3>1
      <3>2. CASE acks' = <<>>
        BY <3>2
      <3> QED
        BY <2>2, <3>1, <3>2
    <2>5. ~con'.loops
      BY <2>1, <2>3
    <2> QED
      BY <2>2, <2>3, <2>4, <2>5, HonestKept
  <1>11. CASE Tick
    <2>1. /\ now' = now + 1 /\ con' = [con EXCEPT !.beatDue = con.loops, !.checkDue = con.loops] /\ acks' = acks
          /\ con.loops => ~con.checkDue
      BY <1>11 DEF Tick
    <2>2. /\ DOMAIN con' = DOMAIN con /\ con'.last = con.last /\ con'.health = con.health
          /\ con'.checkDue = con.loops /\ con'.loops = con.loops
      BY <1>1, <2>1 DEF ConsoleFields
    <2>3. now \in Nat /\ now' \in Nat /\ now' > 0 /\ now' - 1 = now
      BY <1>1, <2>1 DEF BeatsPast
    <2>4. con'.last # now'
      BY <1>1, <2>1, <2>2, <2>3, MonitorAssumption DEF BeatsPast
    <2>5. ConsoleFields' /\ BeatsPast'
      <3>1. \A k \in 1 .. Len(acks) : acks[k] <= now'
        BY <1>1, <2>1, <2>3
      <3> QED
        BY <1>1, <2>1, <2>2, <2>3, <3>1 DEF ConsoleFields, BeatsPast
    <2>6. con.loops => con.health = LinkHealth(con.last, now)
      BY <2>1 DEF ConsoleInv, HealthHonest
    <2>7. LinkHealth(con'.last, now' - 1) = LinkHealth(con.last, now)
      BY <2>2, <2>3
    <2>8. HealthHonest'
      BY <2>2, <2>3, <2>4, <2>6, <2>7 DEF HealthHonest
    <2> QED
      BY <2>5, <2>8 DEF ConsoleInv
  <1> QED
    BY <1>2, <1>3, <1>4, <1>5, <1>6, <1>7, <1>8, <1>9, <1>10, <1>11 DEF ConsoleNext

LEMMA ConsoleKept ==
    ASSUME ConsoleInv, UNCHANGED <<now, con, acks>>
    PROVE  ConsoleInv'
  BY HonestKept DEF ConsoleInv, BeatsPast

-----------------------------------------------------------------------------
(* The monitors: the transport client *)

ClientFields ==
    DOMAIN ltp = {"sock", "ws", "timer", "latency"} /\ DOMAIN ltp.sock = LtpSockets

ClientInv == ClientFields /\ NoOrphanHeartbeat

LEMMA ClientStep ==
    ASSUME ClientInv, LtpNext
    PROVE  ClientInv'
  <1>1. ClientFields /\ (ltp.timer => \E s \in LtpSockets : ltp.sock[s] \in {"open", "closing"})
    BY DEF ClientInv, NoOrphanHeartbeat
  <1>2. ASSUME NEW s \in LtpSockets, LtpConnect(s)
        PROVE  ClientInv'
    <2>1. ltp' = [ltp EXCEPT !.sock = [ltp.sock EXCEPT ![s] = "connecting"], !.ws = s] /\ ltp.sock[s] = "unused"
      BY <1>1, <1>2 DEF LtpConnect, ClientFields
    <2>2. PICK f : f = [ltp.sock EXCEPT ![s] = "connecting"]
      OBVIOUS
    <2>3. ClientFields' /\ ltp'.timer = ltp.timer /\ ltp'.sock = f
      BY <1>1, <2>1, <2>2 DEF ClientFields
    <2>4. \A u \in LtpSockets : ltp.sock[u] \in {"open", "closing"} => f[u] = ltp.sock[u]
      BY <1>1, <2>1, <2>2 DEF ClientFields
    <2> QED
      BY <1>1, <2>3, <2>4 DEF ClientInv, NoOrphanHeartbeat
  <1>3. ASSUME NEW s \in LtpSockets, SocketOpens(s)
        PROVE  ClientInv'
    <2>1. PICK f, yes : /\ f = [ltp.sock EXCEPT ![s] = "open"]
                        /\ ltp' = [[ltp EXCEPT !.sock = f] EXCEPT !.timer = yes]
      BY <1>3 DEF SocketOpens, StartHeartbeatLoop
    <2>2. ClientFields' /\ ltp'.sock[s] = "open"
      BY <1>1, <2>1 DEF ClientFields
    <2> QED
      BY <2>2 DEF ClientInv, NoOrphanHeartbeat
  <1>4. ASSUME NEW c, NEW no, DOMAIN c = DOMAIN ltp, DOMAIN c.sock = DOMAIN ltp.sock,
               ltp' = [c EXCEPT !.timer = no], no = FALSE
        PROVE  ClientInv'
    <2>1. ClientFields' /\ ltp'.timer = no
      BY <1>1, <1>4 DEF ClientFields
    <2>2. ~ltp'.timer
      BY <1>4, <2>1
    <2> QED
      BY <2>1, <2>2 DEF ClientInv, NoOrphanHeartbeat
  <1>5. ASSUME NEW s \in LtpSockets, SocketCloses(s)
        PROVE  ClientInv'
    <2>1. PICK c : c = [ltp EXCEPT !.sock[s] = "closed"]
      OBVIOUS
    <2>2. ltp' = [c EXCEPT !.timer = FALSE]
      BY <1>5, <2>1 DEF SocketCloses, StopHeartbeatLoop
    <2>3. DOMAIN c = DOMAIN ltp /\ DOMAIN c.sock = DOMAIN ltp.sock
      BY <1>1, <2>1 DEF ClientFields
    <2> QED
      BY <1>4, <2>2, <2>3
  <1>6. CASE LtpDisconnect
    <2>1. PICK c, x : c = [ltp EXCEPT !.ws = None, !.sock[ltp.ws] = x] /\ ltp' = [c EXCEPT !.timer = FALSE]
      BY <1>6 DEF LtpDisconnect, StopHeartbeatLoop
    <2>2. DOMAIN c = DOMAIN ltp /\ DOMAIN c.sock = DOMAIN ltp.sock
      BY <1>1, <2>1 DEF ClientFields
    <2> QED
      BY <1>4, <2>1, <2>2
  <1>7. ASSUME NEW s \in LtpSockets, NEW l, LtpHeartbeatAck(s, l)
        PROVE  ClientInv'
    <2>1. ltp' = [ltp EXCEPT !.latency = l]
      BY <1>7 DEF LtpHeartbeatAck
    <2>2. ClientFields' /\ ltp'.sock = ltp.sock /\ ltp'.timer = ltp.timer
      BY <1>1, <2>1 DEF ClientFields
    <2> QED
      BY <1>1, <2>2 DEF ClientInv, NoOrphanHeartbeat
  <1>8. ASSUME NEW s \in LtpSockets, NEW l, NEW j, FocusSnapshot(s, l, j)
        PROVE  ClientInv'
    BY <1>8 DEF FocusSnapshot, ClientInv, ClientFields, NoOrphanHeartbeat
  <1> QED
    BY <1>2, <1>3, <1>5, <1>6, <1>7, <1>8 DEF LtpNext

-----------------------------------------------------------------------------
(* The monitors: the gateway *)

GatewayFields ==
    /\ DOMAIN gw = {"process", "sock", "socket", "attempt", "timers", "monitor", "hud", "forwarded", "dropped"}
    /\ DOMAIN gw.sock = UpstreamSockets

GatewayInv == GatewayFields /\ OneUpstream

LEMMA GatewayStep ==
    ASSUME GatewayInv, GatewayNext
    PROVE  GatewayInv'
  <1> USE DEF GatewayFields
  <1>1. GatewayFields /\ SingleUpstream /\ gw.process = "runs"
    BY DEF GatewayInv, GatewayNext, OneUpstream
  <1>2. ASSUME NEW u \in UpstreamSockets, gw.sock[u] # "unused"
        PROVE  /\ gw.timers = 0 /\ gw.sock[u] \in LiveStates /\ gw.socket = u
               /\ \A v \in UpstreamSockets \ {u} : gw.sock[v] = "unused"
    BY <1>1, <1>2 DEF SingleUpstream
  <1>3. ASSUME NEW u \in UpstreamSockets, UpstreamConnect(u)
        PROVE  GatewayInv'
    <2>1. PICK f, n : /\ f = [gw.sock EXCEPT ![u] = "connecting"] /\ n = gw.timers - 1
                      /\ gw' = [gw EXCEPT !.timers = n, !.sock = f, !.socket = u]
                      /\ gw.timers > 0
      BY <1>1, <1>3 DEF UpstreamConnect
    <2>2. gw.timers = 1 /\ \A v \in UpstreamSockets : gw.sock[v] = "unused"
      BY <1>1, <2>1 DEF SingleUpstream
    <2>3. GatewayFields' /\ gw'.sock = f /\ gw'.socket = u /\ gw'.timers = 0
      BY <1>1, <2>1, <2>2
    <2>4. f[u] = "connecting" /\ \A v \in UpstreamSockets \ {u} : f[v] = "unused"
      BY <1>1, <2>1, <2>2
    <2> QED
      BY <2>3, <2>4 DEF GatewayInv, OneUpstream, SingleUpstream, LiveStates
  <1>4. ASSUME NEW u \in UpstreamSockets, gw.sock[u] # "unused", NEW p \in LiveStates,
               GatewayFields', gw'.timers = gw.timers, gw'.socket = gw.socket,
               gw'.sock = [gw.sock EXCEPT ![u] = p]
        PROVE  GatewayInv'
    <2>1. /\ gw.timers = 0 /\ gw.socket = u
          /\ \A v \in UpstreamSockets \ {u} : gw.sock[v] = "unused"
      BY <1>2, <1>4
    <2>2. gw'.sock[u] = p /\ \A v \in UpstreamSockets \ {u} : gw'.sock[v] = "unused"
      BY <1>1, <1>4, <2>1
    <2> QED
      BY <1>4, <2>1, <2>2 DEF GatewayInv, OneUpstream, SingleUpstream
  <1>5. ASSUME NEW u \in UpstreamSockets, UpstreamOpens(u)
        PROVE  GatewayInv'
    <2>1. gw.sock[u] # "unused" /\ "open" \in LiveStates
      BY <1>5 DEF UpstreamOpens, LiveStates
    <2>2. gw' = [gw EXCEPT !.sock = [gw.sock EXCEPT ![u] = "open"], !.attempt = 0]
      BY <1>1, <1>5 DEF UpstreamOpens
    <2>3. /\ GatewayFields' /\ gw'.timers = gw.timers /\ gw'.socket = gw.socket
          /\ gw'.sock = [gw.sock EXCEPT ![u] = "open"]
      BY <1>1, <2>2
    <2> QED
      BY <1>4, <2>1, <2>3
  <1>6. ASSUME NEW u \in UpstreamSockets, UpstreamError(u)
        PROVE  GatewayInv'
    <2>1. gw.sock[u] # "unused" /\ "closing" \in LiveStates
      BY <1>6 DEF UpstreamError, LiveStates
    <2>2. gw.socket = u
      BY <1>2, <2>1
    <2>3. gw' = [gw EXCEPT !.sock = [gw.sock EXCEPT ![u] = "closing"]]
      BY <1>1, <1>6, <2>2 DEF UpstreamError
    <2>4. /\ GatewayFields' /\ gw'.timers = gw.timers /\ gw'.socket = gw.socket
          /\ gw'.sock = [gw.sock EXCEPT ![u] = "closing"]
      BY <1>1, <2>3
    <2> QED
      BY <1>4, <2>1, <2>4
  <1>7. ASSUME NEW u \in UpstreamSockets, UpstreamCloses(u)
        PROVE  GatewayInv'
    <2>1. gw.sock[u] # "unused"
      BY <1>7 DEF UpstreamCloses, LiveStates
    <2>2. gw.timers = 0 /\ \A v \in UpstreamSockets \ {u} : gw.sock[v] = "unused"
      BY <1>2, <2>1
    <2>3. PICK f, n, a : /\ f = [gw.sock EXCEPT ![u] = "unused"] /\ n = gw.timers + 1
                         /\ gw' = [gw EXCEPT !.sock = f, !.timers = n, !.attempt = a]
      BY <1>1, <1>7 DEF UpstreamCloses
    <2>4. GatewayFields' /\ gw'.timers = 1 /\ gw'.sock = f
      BY <1>1, <2>2, <2>3
    <2>5. \A v \in UpstreamSockets : f[v] = "unused"
      BY <1>1, <2>2, <2>3
    <2> QED
      BY <2>4, <2>5 DEF GatewayInv, OneUpstream, SingleUpstream
  <1>8. ASSUME GatewayFields', gw'.timers = gw.timers, gw'.socket = gw.socket, gw'.sock = gw.sock
        PROVE  GatewayInv'
    BY <1>1, <1>8 DEF GatewayInv, OneUpstream, SingleUpstream
  <1>9. ASSUME gw' = Ended(gw)
        PROVE  GatewayInv'
    <2>1. GatewayFields' /\ gw'.process = "ended"
      BY <1>1, <1>9 DEF Ended
    <2> QED
      BY <2>1 DEF GatewayInv, OneUpstream
  <1>10. ASSUME NEW u \in UpstreamSockets, NEW message, UpstreamMessage(u, message)
        PROVE  GatewayInv'
    <2>1. CASE gw' = Ended(gw)
      BY <1>9, <2>1
    <2>2. CASE gw' # Ended(gw)
      <3>1. PICK a, b : \/ gw' = gw
                        \/ gw' = [gw EXCEPT !.forwarded = a]
                        \/ gw' = [gw EXCEPT !.dropped = b]
        BY <1>10, <2>2 DEF UpstreamMessage, Forwarded
      <3> QED
        BY <1>1, <1>8, <3>1
    <2> QED
      BY <2>1, <2>2
  <1>11. ASSUME NEW state, MonitorChanges(state)
         PROVE  GatewayInv'
    <2>1. PICK h : gw' = [gw EXCEPT !.monitor = state, !.hud = h]
      BY <1>11 DEF MonitorChanges
    <2> QED
      BY <1>1, <1>8, <2>1
  <1> QED
    BY <1>3, <1>5, <1>6, <1>7, <1>9, <1>10, <1>11 DEF GatewayNext, GatewaySigint

-----------------------------------------------------------------------------
(* The monitors: theorems *)

MonitorInv == ConsoleInv /\ ClientInv /\ GatewayInv

LEMMA MonitorInvInit == MonitorInit => MonitorInv
  <1> SUFFICES ASSUME MonitorInit PROVE MonitorInv
    OBVIOUS
  <1>1. ConsoleInv
    <2>1. /\ ConsoleFields /\ con.last = None /\ con.health = "critical"
      BY DEF MonitorInit, ConsoleInit, ConsoleFields
    <2> QED
      BY <2>1 DEF MonitorInit, ConsoleInv, BeatsPast, HealthHonest, LinkHealth
  <1>2. ClientInv
    <2>1. ASSUME NEW no, no = FALSE, ltp = [sock |-> [s \in LtpSockets |-> "unused"], ws |-> None, timer |-> no, latency |-> None]
          PROVE  ClientFields /\ ltp.timer = no
      BY <2>1 DEF ClientFields
    <2>2. ClientFields /\ ltp.timer = FALSE
      BY <2>1 DEF MonitorInit, LtpInit
    <2> QED
      BY <2>2 DEF ClientInv, NoOrphanHeartbeat
  <1>3. GatewayInv
    <2>1. /\ GatewayFields /\ gw.timers = 1 /\ \A u \in UpstreamSockets : gw.sock[u] = "unused"
      BY DEF MonitorInit, GwInit, GatewayFields
    <2> QED
      BY <2>1 DEF GatewayInv, OneUpstream, SingleUpstream
  <1> QED
    BY <1>1, <1>2, <1>3 DEF MonitorInv

LEMMA MonitorInvNext == MonitorInv /\ [MonitorNext]_monitorVars => MonitorInv'
  <1> SUFFICES ASSUME MonitorInv, [MonitorNext]_monitorVars PROVE MonitorInv'
    OBVIOUS
  <1>1. /\ ConsoleNext => UNCHANGED <<ltp, gw>>
        /\ LtpNext => UNCHANGED <<now, con, acks, gw>>
        /\ GatewayNext => UNCHANGED <<now, con, acks, ltp>>
    <2>1. ConsoleNext => UNCHANGED <<ltp, gw>>
      BY DEF ConsoleNext, ConsoleOpens, HelloAck, SendHeartbeat, OrientationAndRoute, EvaluateLinkHealth,
             HeartbeatAck, AckLost, RouteSuggestion, Sigint, ConsoleCloses, Tick, ConsoleUnchanged
    <2>2. LtpNext => UNCHANGED <<now, con, acks, gw>>
      BY DEF LtpNext, LtpDisconnect, LtpConnect, SocketOpens, SocketCloses, LtpHeartbeatAck, FocusSnapshot,
             LtpUnchanged
    <2>3. GatewayNext => UNCHANGED <<now, con, acks, ltp>>
      BY DEF GatewayNext, UpstreamConnect, UpstreamOpens, UpstreamError, UpstreamCloses, UpstreamMessage,
             MonitorChanges, GatewaySigint, GwUnchanged
    <2> QED
      BY <2>1, <2>2, <2>3
  <1>2. /\ ConsoleInv /\ UNCHANGED <<now, con, acks>> => ConsoleInv'
        /\ ClientInv /\ UNCHANGED ltp => ClientInv'
        /\ GatewayInv /\ UNCHANGED gw => GatewayInv'
    BY ConsoleKept DEF ClientInv, ClientFields, NoOrphanHeartbeat, GatewayInv, GatewayFields, OneUpstream, SingleUpstream
  <1>3. CASE ConsoleNext
    BY <1>1, <1>2, <1>3, ConsoleStep DEF MonitorInv
  <1>4. CASE LtpNext
    BY <1>1, <1>2, <1>4, ClientStep DEF MonitorInv
  <1>5. CASE GatewayNext
    BY <1>1, <1>2, <1>5, GatewayStep DEF MonitorInv
  <1>6. CASE UNCHANGED monitorVars
    BY <1>2, <1>6 DEF monitorVars, MonitorInv
  <1> QED
    BY <1>3, <1>4, <1>5, <1>6 DEF MonitorNext

\* The health that the console shows is off by at most one check
\* (recordHeartbeat, evaluateLinkHealth), for all thresholds and delays.
THEOREM ConsoleIsHonest == MonitorSpec => []HealthHonest
  <1>1. MonitorInv => HealthHonest
    BY DEF MonitorInv, ConsoleInv
  <1> QED
    BY <1>1, MonitorInvInit, MonitorInvNext, PTL DEF MonitorSpec

\* No heartbeat timer outlives the sockets of the transport client (connect,
\* disconnect, startHeartbeatLoop), however many there are.
THEOREM HeartbeatsAreOwned == MonitorSpec => []NoOrphanHeartbeat
  <1>1. MonitorInv => NoOrphanHeartbeat
    BY DEF MonitorInv, ClientInv
  <1> QED
    BY <1>1, MonitorInvInit, MonitorInvNext, PTL DEF MonitorSpec

\* The gateway has one upstream socket or one reconnect timer (createUpstreamConnector).
THEOREM UpstreamIsSingle == MonitorSpec => []OneUpstream
  <1>1. MonitorInv => OneUpstream
    BY DEF MonitorInv, GatewayInv
  <1> QED
    BY <1>1, MonitorInvInit, MonitorInvNext, PTL DEF MonitorSpec
=============================================================================
