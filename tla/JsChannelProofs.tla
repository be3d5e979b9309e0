-------------------------- MODULE JsChannelProofs --------------------------
(***************************************************************************)
(* Proofs about JsChannel, for any number of messages and handlers, any    *)
(* clocks, and any maxMessageAge that is no less than the clock skew the   *)
(* code tolerates.                                                         *)
(***************************************************************************)
EXTENDS JsChannel, TLAPS

-----------------------------------------------------------------------------
(* Type correctness *)

LEMMA TypeInit == Init => TypeOK
  <1> SUFFICES ASSUME Init PROVE TypeOK
    OBVIOUS
  <1> USE DEF Init
  <1>1. seenNonces \in [Messages -> NotSeen .. now]
    BY DEF NotSeen
  <1>2. wire \in Seq(Messages) /\ delivered \in Seq(Messages)
    OBVIOUS
  <1>3. outbox \in [Messages -> OutboxStates]
    BY DEF OutboxStates
  <1>4. prev \in [Messages -> Messages \cup {NoHash}] /\ stamp \in [Messages -> Int]
    OBVIOUS
  <1>5. /\ handler \in [Handlers -> [pc : HandlerStates, id : Messages \cup {NoHash}]]
        /\ \A h \in Handlers : handler[h].pc # "idle" => handler[h].id \in Messages
    BY DEF HandlerStates, Idle
  <1>6. uses \in [Messages -> Nat] /\ arrived \in Nat /\ now \in Nat
    OBVIOUS
  <1>7. up \in BOOLEAN /\ sendOverlap \in BOOLEAN /\ recvOverlap \in BOOLEAN /\ excuse \in BOOLEAN
    OBVIOUS
  <1> QED
    BY <1>1, <1>2, <1>3, <1>4, <1>5, <1>6, <1>7 DEF TypeOK

LEMMA TypeNext == TypeOK /\ [Next]_vars => TypeOK'
  <1> SUFFICES ASSUME TypeOK, [Next]_vars PROVE TypeOK'
    OBVIOUS
  <1> USE DEF TypeOK
  <1>1. CASE HandshakeAck
    <2>1. wire' \in Seq(Messages) /\ delivered' \in Seq(Messages)
      BY <1>1 DEF HandshakeAck
    <2>2. up' \in BOOLEAN /\ sendOverlap' \in BOOLEAN /\ recvOverlap' \in BOOLEAN /\ excuse' \in BOOLEAN
      BY <1>1 DEF HandshakeAck
    <2> QED
      BY <1>1, <2>1, <2>2 DEF HandshakeAck, nonceVars
  <1>2. CASE ConnectionLost
    BY <1>2 DEF ConnectionLost, HandleDisconnect, nonceVars
  <1>3. CASE Disconnect
    <2>1. seenNonces' \in [Messages -> NotSeen .. now]
      BY <1>3 DEF Disconnect, NotSeen
    <2>2. uses' \in [Messages -> Nat]
      BY <1>3 DEF Disconnect
    <2>3. sendOverlap' \in BOOLEAN /\ recvOverlap' \in BOOLEAN
      BY <1>3 DEF Disconnect, HandleDisconnect
    <2> QED
      BY <1>3, <2>1, <2>2, <2>3 DEF Disconnect, HandleDisconnect
  <1>4. CASE CleanupExpiredNonces
    <2>1. seenNonces' \in [Messages -> NotSeen .. now]
      BY <1>4, ChannelAssumption DEF CleanupExpiredNonces, NotSeen
    <2> QED
      BY <1>4, <2>1 DEF CleanupExpiredNonces, sendVars, recvVars, ghostVars
  <1>5. CASE Tick
    <2>1. seenNonces' \in [Messages -> NotSeen .. now']
      BY <1>5 DEF Tick, nonceVars, NotSeen
    <2> QED
      BY <1>5, <2>1 DEF Tick, sendVars, recvVars, nonceVars, ghostVars
  <1>6. ASSUME NEW i \in Messages, Send(i) PROVE TypeOK'
    <2>1. stamp' \in [Messages -> Int]
      BY <1>6, ChannelAssumption DEF Send
    <2>2. outbox' \in [Messages -> OutboxStates]
      BY <1>6 DEF Send, OutboxStates, Sending
    <2>3. sendOverlap' \in BOOLEAN
      BY <1>6 DEF Send
    <2> QED
      BY <1>6, <2>1, <2>2, <2>3 DEF Send, recvVars, nonceVars
  <1>7. ASSUME NEW i \in Messages, ChainMessage(i) PROVE TypeOK'
    BY <1>7 DEF ChainMessage, OutboxStates, Sending, recvVars, nonceVars, ghostVars
  <1>8. ASSUME NEW i \in Messages, Transmit(i) PROVE TypeOK'
    <2>1. outbox' \in [Messages -> OutboxStates]
      BY <1>8 DEF Transmit, OutboxStates, Sending
    <2>2. wire' \in Seq(Messages) /\ lastSentHash' \in Messages
      BY <1>8 DEF Transmit
    <2> QED
      BY <1>8, <2>1, <2>2 DEF Transmit, recvVars, nonceVars, ghostVars
  <1>9. ASSUME NEW i \in Messages, SendFails(i) PROVE TypeOK'
    BY <1>9 DEF SendFails, OutboxStates, Sending, recvVars, nonceVars, ghostVars
  <1>10. ASSUME NEW h \in Handlers, NEW i \in Messages, Arrive(h, i) PROVE TypeOK'
    <2>1. /\ handler' \in [Handlers -> [pc : HandlerStates, id : Messages \cup {NoHash}]]
          /\ \A g \in Handlers : handler'[g].pc # "idle" => handler'[g].id \in Messages
      BY <1>10 DEF Arrive, HandlerStates
    <2>2. recvOverlap' \in BOOLEAN /\ sendOverlap' = sendOverlap
      BY <1>10 DEF Arrive
    <2>3. excuse' = (excuse \/ arrived + 1 > Len(wire) \/ wire[arrived + 1] # i)
      BY <1>10 DEF Arrive
    <2>4. excuse' = TRUE \/ excuse' = FALSE
      BY <2>3
    <2>5. excuse' \in BOOLEAN
      BY <2>4
    <2>6. arrived' \in Nat /\ UNCHANGED <<now, up, outbox, prev, stamp, lastSentHash, wire>>
      BY <1>10 DEF Arrive, sendVars
    <2>7. UNCHANGED <<seenNonces, lastReceivedHash, delivered, uses>>
      BY <1>10 DEF Arrive, nonceVars
    <2> QED
      BY <2>1, <2>2, <2>5, <2>6, <2>7
  <1>11. ASSUME NEW h \in Handlers, RejectNonce(h) PROVE TypeOK'
    BY <1>11 DEF RejectNonce, sendVars, nonceVars, HandlerStates, Idle
  <1>12. ASSUME NEW h \in Handlers, CheckChain(h) PROVE TypeOK'
    <2>1. seenNonces' \in [Messages -> NotSeen .. now] /\ uses' \in [Messages -> Nat]
      BY <1>12 DEF CheckChain, AcceptNonce, NotSeen
    <2>2. /\ handler' \in [Handlers -> [pc : HandlerStates, id : Messages \cup {NoHash}]]
          /\ \A g \in Handlers : handler'[g].pc # "idle" => handler'[g].id \in Messages
      BY <1>12 DEF CheckChain, HandlerStates, Idle
    <2> QED
      BY <1>12, <2>1, <2>2 DEF CheckChain, sendVars, ghostVars
  <1>13. ASSUME NEW h \in Handlers, Deliver(h) PROVE TypeOK'
    <2>1. /\ handler' \in [Handlers -> [pc : HandlerStates, id : Messages \cup {NoHash}]]
          /\ \A g \in Handlers : handler'[g].pc # "idle" => handler'[g].id \in Messages
      BY <1>13 DEF Deliver, HandlerStates, Idle
    <2>2. handler[h].id \in Messages
      BY <1>13 DEF Deliver
    <2>3. lastReceivedHash' \in Messages /\ delivered' \in Seq(Messages)
      BY <1>13, <2>2 DEF Deliver
    <2> QED
      BY <1>13, <2>1, <2>3 DEF Deliver, sendVars, nonceVars, ghostVars
  <1>14. ASSUME NEW h \in Handlers, HandlerFails(h) PROVE TypeOK'
    BY <1>14 DEF HandlerFails, sendVars, nonceVars, HandlerStates, Idle
  <1>15. CASE UNCHANGED vars
    BY <1>15 DEF vars, sendVars, recvVars, nonceVars, ghostVars
  <1> QED
    BY <1>1, <1>2, <1>3, <1>4, <1>5, <1>6, <1>7, <1>8, <1>9, <1>10, <1>11,
       <1>12, <1>13, <1>14, <1>15 DEF Next

\* The state of both ends keeps its type, and no nonce of the cache of
\* validateNonce carries a time yet to come.
THEOREM TypeCorrect == Spec => []TypeOK
  BY TypeInit, TypeNext, PTL DEF Spec

-----------------------------------------------------------------------------
(* A nonce is used once *)

\* A message that was not sent has no trace at the receiver; a cached nonce
\* was accepted within the skew of its timestamp; a nonce that was accepted
\* and is no longer cached is too old.
NonceInv ==
    /\ \A h \in Handlers : handler[h].pc # "idle" => outbox[handler[h].id] = "sent"
    /\ \A i \in Messages :
          /\ outbox[i] = "new" => uses[i] = 0 /\ seenNonces[i] = NotSeen
          /\ uses[i] <= 1
          /\ seenNonces[i] # NotSeen => stamp[i] <= seenNonces[i] + Skew
          /\ uses[i] # 0 /\ seenNonces[i] = NotSeen => now - stamp[i] > MaxAge

LEMMA NonceInit == Init => NonceInv
  BY DEF Init, NonceInv, Idle

LEMMA NonceNext == TypeOK /\ NonceInv /\ [Next]_vars => NonceInv'
  <1> SUFFICES ASSUME TypeOK, NonceInv, [Next]_vars PROVE NonceInv'
    OBVIOUS
  <1> USE DEF TypeOK, NonceInv
  <1>1. CASE HandshakeAck
    BY <1>1 DEF HandshakeAck, nonceVars
  <1>2. CASE ConnectionLost
    BY <1>2 DEF ConnectionLost, HandleDisconnect, nonceVars
  <1>3. CASE Disconnect
    BY <1>3 DEF Disconnect, HandleDisconnect
  <1>4. CASE CleanupExpiredNonces
    <2> USE <1>4 DEF CleanupExpiredNonces, sendVars, recvVars
    <2>1. ASSUME NEW i \in Messages, uses[i] # 0, seenNonces'[i] = NotSeen,
                 seenNonces[i] # NotSeen
          PROVE  now - stamp[i] > MaxAge
      <3>1. now - seenNonces[i] > 2 * MaxAge
        BY <2>1
      <3>2. stamp[i] <= seenNonces[i] + Skew /\ stamp[i] \in Int /\ seenNonces[i] \in Int
        BY <2>1 DEF NotSeen
      <3> QED
        BY <3>1, <3>2, ChannelAssumption
    <2> QED
      BY <2>1
  <1>5. CASE Tick
    <2>1. \A i \in Messages : now - stamp[i] > MaxAge => now' - stamp[i] > MaxAge
      BY <1>5, ChannelAssumption DEF Tick
    <2> QED
      BY <1>5, <2>1 DEF Tick, sendVars, recvVars, nonceVars
  <1>6. ASSUME NEW i \in Messages, Send(i) PROVE NonceInv'
    BY <1>6 DEF Send, recvVars, nonceVars
  <1>7. ASSUME NEW i \in Messages, ChainMessage(i) PROVE NonceInv'
    BY <1>7 DEF ChainMessage, recvVars, nonceVars
  <1>8. ASSUME NEW i \in Messages, Transmit(i) PROVE NonceInv'
    BY <1>8 DEF Transmit, recvVars, nonceVars
  <1>9. ASSUME NEW i \in Messages, SendFails(i) PROVE NonceInv'
    BY <1>9 DEF SendFails, recvVars, nonceVars
  <1>10. ASSUME NEW h \in Handlers, NEW i \in Messages, Arrive(h, i) PROVE NonceInv'
    BY <1>10 DEF Arrive, sendVars, nonceVars
  <1>11. ASSUME NEW h \in Handlers, RejectNonce(h) PROVE NonceInv'
    BY <1>11 DEF RejectNonce, sendVars, nonceVars, Idle
  <1>12. ASSUME NEW h \in Handlers, CheckChain(h) PROVE NonceInv'
    <2> DEFINE m == handler[h].id
    <2>0. /\ m \in Messages /\ outbox[m] = "sent"
          /\ seenNonces[m] = NotSeen /\ now - stamp[m] <= MaxAge /\ stamp[m] - now <= Skew
      BY <1>12 DEF CheckChain, ValidNonce, InWindow
    <2>1. m \in Messages /\ outbox[m] = "sent" /\ uses[m] = 0 /\ stamp[m] - now <= Skew
      <3>1. stamp[m] \in Int /\ now \in Int /\ MaxAge \in Int
        BY <2>0, ChannelAssumption
      <3>2. ~(now - stamp[m] > MaxAge)
        BY <2>0, <3>1
      <3> QED
        BY <2>0, <3>2
    <2>2. /\ seenNonces' = [seenNonces EXCEPT ![m] = now]
          /\ uses' = [uses EXCEPT ![m] = @ + 1]
          /\ UNCHANGED <<now, outbox, stamp>>
      BY <1>12 DEF CheckChain, AcceptNonce, sendVars
    <2>3. \A g \in Handlers : handler'[g].pc # "idle" => handler[g].pc # "idle" /\ handler'[g].id = handler[g].id
      BY <1>12 DEF CheckChain, Idle
    <2> HIDE DEF m
    <2>4. ASSUME NEW i \in Messages
          PROVE  /\ outbox[i] = "new" => uses'[i] = 0 /\ seenNonces'[i] = NotSeen
                 /\ uses'[i] <= 1
                 /\ seenNonces'[i] # NotSeen => stamp[i] <= seenNonces'[i] + Skew
                 /\ uses'[i] # 0 /\ seenNonces'[i] = NotSeen => now - stamp[i] > MaxAge
      BY <2>1, <2>2, ChannelAssumption DEF NotSeen
    <2> QED
      BY <2>2, <2>3, <2>4
  <1>13. ASSUME NEW h \in Handlers, Deliver(h) PROVE NonceInv'
    BY <1>13 DEF Deliver, sendVars, nonceVars, Idle
  <1>14. ASSUME NEW h \in Handlers, HandlerFails(h) PROVE NonceInv'
    BY <1>14 DEF HandlerFails, sendVars, nonceVars, Idle
  <1>15. CASE UNCHANGED vars
    BY <1>15 DEF vars, sendVars, recvVars, nonceVars
  <1> QED
    BY <1>1, <1>2, <1>3, <1>4, <1>5, <1>6, <1>7, <1>8, <1>9, <1>10, <1>11,
       <1>12, <1>13, <1>14, <1>15 DEF Next

\* validateNonce accepts a nonce at most once between two calls of
\* disconnect(): cleanupExpiredNonces forgets it only when it is too old.
THEOREM NonceCorrect == Spec => []NonceUsedOnce
  <1>1. NonceInv => NonceUsedOnce
    BY DEF NonceInv, NonceUsedOnce
  <1> QED
    BY <1>1, TypeInit, TypeNext, NonceInit, NonceNext, PTL DEF Spec

-----------------------------------------------------------------------------
(* What is delivered is a stretch of the sender's chain *)

\* While handlers do not overlap there is one handler, and only in a session;
\* lastReceivedHash is the message delivered last, and a message whose hash
\* is being computed follows it.
Last == delivered[Len(delivered)]

ChainInv ==
    /\ \A h \in Handlers : handler[h].pc # "idle" => outbox[handler[h].id] = "sent"
    /\ \A k \in 1 .. Len(delivered) : outbox[delivered[k]] = "sent"
    /\ ~recvOverlap =>
          /\ \A g, h \in Active : g = h
          /\ Active # {} => up
          /\ up /\ delivered # << >> => lastReceivedHash = Last
          /\ \A h \in Handlers :
                handler[h].pc = "hashing" /\ delivered # << >> =>
                    prev[handler[h].id] = Last
          /\ \A k \in 2 .. Len(delivered) : prev[delivered[k]] = delivered[k - 1]

LEMMA ChainInit == Init => ChainInv
  BY DEF Init, ChainInv, Idle, Active

\* Steps that leave the receiver and the messages sent to it alone.
LEMMA ChainKept ==
    ASSUME TypeOK, ChainInv,
           UNCHANGED <<up, handler, lastReceivedHash, delivered>>,
           recvOverlap' \/ ~recvOverlap,
           \A i \in Messages : outbox[i] = "sent" => outbox'[i] = "sent" /\ prev'[i] = prev[i]
    PROVE  ChainInv'
  <1> USE DEF TypeOK, ChainInv
  <1>1. \A k \in 1 .. Len(delivered) : delivered[k] \in Messages
    OBVIOUS
  <1>2. Active' = Active
    BY DEF Active
  <1>3. delivered # << >> => Len(delivered) \in 1 .. Len(delivered)
    OBVIOUS
  <1>4. ASSUME ~recvOverlap', NEW h \in Handlers, handler[h].pc = "hashing", delivered # << >>
        PROVE  prev'[handler[h].id] = Last
    BY <1>4
  <1>5. ASSUME ~recvOverlap', NEW k \in 2 .. Len(delivered)
        PROVE  prev'[delivered[k]] = delivered[k - 1]
    <2>1. k \in 1 .. Len(delivered)
      OBVIOUS
    <2>2. outbox[delivered[k]] = "sent" /\ delivered[k] \in Messages
      BY <1>1, <2>1
    <2>3. prev[delivered[k]] = delivered[k - 1]
      BY <1>5
    <2> QED
      BY <2>2, <2>3
  <1> QED
    BY <1>1, <1>2, <1>4, <1>5 DEF Last

\* A handler that ends without delivering its message.
LEMMA ChainDropped ==
    ASSUME TypeOK, ChainInv, NEW h \in Handlers,
           handler' = [handler EXCEPT ![h] = Idle],
           UNCHANGED <<up, outbox, prev, lastReceivedHash, delivered, recvOverlap>>
    PROVE  ChainInv'
  <1> USE DEF TypeOK, ChainInv
  <1>1. \A g \in Handlers : handler'[g].pc # "idle" => handler'[g] = handler[g]
    BY DEF Idle
  <1>2. Active' \subseteq Active
    BY <1>1 DEF Active
  <1>3. \A g \in Handlers : handler'[g].pc = "hashing" =>
            handler[g].pc = "hashing" /\ handler'[g].id = handler[g].id
    BY <1>1
  <1>4. ~recvOverlap' => \A f, g \in Active' : f = g
    BY <1>2
  <1>5. ~recvOverlap' => (Active' # {} => up')
    BY <1>2
  <1> QED
    BY <1>1, <1>3, <1>4, <1>5 DEF Last

LEMMA ChainNext == TypeOK /\ ChainInv /\ [Next]_vars => ChainInv'
  <1> SUFFICES ASSUME TypeOK, ChainInv, [Next]_vars PROVE ChainInv'
    OBVIOUS
  <1>1. CASE HandshakeAck
    <2>1. Active' = Active
      BY <1>1 DEF HandshakeAck, Active
    <2>2. ~recvOverlap' => Active' = {}
      BY <1>1, <2>1 DEF HandshakeAck
    <2>3. ~recvOverlap' => \A h \in Handlers : handler'[h].pc # "hashing"
      BY <2>2 DEF Active
    <2> QED
      BY <1>1, <2>2, <2>3 DEF HandshakeAck, ChainInv
  <1>2. CASE HandleDisconnect
    <2>1. Active' = Active
      BY <1>2 DEF HandleDisconnect, Active
    <2>2. ~recvOverlap' => ~recvOverlap /\ Active' = {}
      BY <1>2, <2>1 DEF HandleDisconnect
    <2> QED
      BY <1>2, <2>2 DEF HandleDisconnect, ChainInv, Last, Active
  <1>3. CASE CleanupExpiredNonces \/ Tick
    BY <1>3, ChainKept DEF CleanupExpiredNonces, Tick, sendVars, recvVars, ghostVars
  <1>4. ASSUME NEW i \in Messages, Send(i) PROVE ChainInv'
    <2>1. \A j \in Messages : outbox[j] = "sent" => outbox'[j] = "sent"
      BY <1>4 DEF Send, TypeOK
    <2> QED
      BY <1>4, <2>1, ChainKept DEF Send, recvVars
  <1>5. ASSUME NEW i \in Messages, ChainMessage(i) PROVE ChainInv'
    <2>1. \A j \in Messages : outbox[j] = "sent" => outbox'[j] = "sent" /\ prev'[j] = prev[j]
      BY <1>5 DEF ChainMessage, TypeOK
    <2> QED
      BY <1>5, <2>1, ChainKept DEF ChainMessage, recvVars, ghostVars
  <1>6. ASSUME NEW i \in Messages, Transmit(i) \/ SendFails(i) PROVE ChainInv'
    <2>1. \A j \in Messages : outbox[j] = "sent" => outbox'[j] = "sent"
      BY <1>6 DEF Transmit, SendFails, TypeOK
    <2> QED
      BY <1>6, <2>1, ChainKept DEF Transmit, SendFails, recvVars, ghostVars
  <1>7. ASSUME NEW h \in Handlers, NEW i \in Messages, Arrive(h, i) PROVE ChainInv'
    <2>1. /\ handler' = [handler EXCEPT ![h] = [pc |-> "verifying", id |-> i]]
          /\ up /\ outbox[i] = "sent"
          /\ UNCHANGED <<up, outbox, prev, lastReceivedHash, delivered>>
      BY <1>7 DEF Arrive, sendVars
    <2>2. \A g \in Handlers : g # h => handler'[g] = handler[g]
      BY <2>1 DEF TypeOK
    <2>3. handler'[h].pc = "verifying" /\ handler'[h].id = i
      BY <2>1 DEF TypeOK
    <2>4. ~recvOverlap' => ~recvOverlap /\ Active = {}
      BY <1>7 DEF Arrive
    <2>5. ~recvOverlap' => \A g \in Active' : g = h
      BY <2>2, <2>4 DEF Active
    <2>6. \A g \in Handlers : handler'[g].pc # "idle" => outbox'[handler'[g].id] = "sent"
      BY <2>1, <2>2, <2>3 DEF ChainInv
    <2>7. \A g \in Handlers : handler'[g].pc = "hashing" => handler[g].pc = "hashing" /\ handler'[g].id = handler[g].id
      BY <2>2, <2>3
    <2> QED
      BY <2>1, <2>4, <2>5, <2>6, <2>7 DEF ChainInv, Last
  <1>8. ASSUME NEW h \in Handlers, RejectNonce(h) \/ HandlerFails(h) PROVE ChainInv'
    BY <1>8, ChainDropped DEF RejectNonce, HandlerFails, sendVars
  <1>9. ASSUME NEW h \in Handlers, CheckChain(h) PROVE ChainInv'
    <2>1. CASE ~ChainHolds(handler[h].id)
      <3>1. handler' = [handler EXCEPT ![h] = Idle]
        BY <1>9, <2>1 DEF CheckChain
      <3> QED
        BY <1>9, <3>1, ChainDropped DEF CheckChain, sendVars, ghostVars
    <2>2. CASE ChainHolds(handler[h].id)
      <3>1. /\ handler' = [handler EXCEPT ![h] = [handler[h] EXCEPT !.pc = "hashing"]]
            /\ UNCHANGED <<up, outbox, prev, lastReceivedHash, delivered, recvOverlap>>
        BY <1>9, <2>2 DEF CheckChain, sendVars, ghostVars
      <3>2. \A g \in Handlers : handler'[g].id = handler[g].id
        BY <3>1 DEF TypeOK
      <3>3. \A g \in Handlers : handler'[g].pc # "idle" <=> handler[g].pc # "idle"
        BY <1>9, <3>1 DEF TypeOK, CheckChain
      <3>4. Active' = Active /\ h \in Active
        BY <1>9, <3>3 DEF Active, CheckChain
      <3>5. \A g \in Handlers : g # h /\ handler'[g].pc = "hashing" => handler[g].pc = "hashing"
        BY <3>1 DEF TypeOK
      <3>6. ASSUME ~recvOverlap, delivered # << >> PROVE prev[handler[h].id] = Last
        <4>1. up /\ lastReceivedHash = Last
          BY <3>4, <3>6 DEF ChainInv
        <4>2. Last \in Messages
          BY <3>6 DEF Last, TypeOK
        <4>3. Last # NoHash
          BY <4>2, ChannelAssumption DEF Messages, NoHash
        <4> QED
          BY <4>1, <4>3, <2>2 DEF ChainHolds
      <3>7. \A g \in Handlers : handler'[g].pc # "idle" => outbox'[handler'[g].id] = "sent"
        BY <3>1, <3>2, <3>3 DEF ChainInv
      <3>8. ~recvOverlap' => \A g \in Handlers :
                handler'[g].pc = "hashing" /\ delivered' # << >> => prev'[handler'[g].id] = Last'
        BY <3>1, <3>2, <3>5, <3>6 DEF ChainInv, Last
      <3> QED
        BY <3>1, <3>4, <3>7, <3>8 DEF ChainInv, Last
    <2> QED
      BY <2>1, <2>2
  <1>10. ASSUME NEW h \in Handlers, Deliver(h) PROVE ChainInv'
    <2> DEFINE m == handler[h].id
               n == Len(delivered)
    <2>1. /\ handler[h].pc = "hashing"
          /\ lastReceivedHash' = m /\ delivered' = Append(delivered, m)
          /\ handler' = [handler EXCEPT ![h] = Idle]
          /\ UNCHANGED <<up, outbox, prev, recvOverlap>>
      BY <1>10 DEF Deliver, sendVars, ghostVars
    <2>2. m \in Messages /\ outbox[m] = "sent" /\ delivered \in Seq(Messages) /\ n \in Nat
      <3>1. m \in Messages /\ delivered \in Seq(Messages)
        BY <2>1 DEF TypeOK
      <3>2. outbox[m] = "sent"
        BY <2>1 DEF ChainInv
      <3> QED
        BY <3>1, <3>2
    <2>3. /\ Len(delivered') = n + 1 /\ delivered' # << >>
          /\ \A k \in 1 .. n : delivered'[k] = delivered[k]
          /\ delivered'[n + 1] = m
      BY <2>1, <2>2
    <2>4. \A g \in Handlers : handler'[g].pc # "idle" => g # h /\ handler'[g] = handler[g]
      BY <2>1 DEF TypeOK, Idle
    <2>5. ~recvOverlap' => Active' = {}
      <3>1. Active' \subseteq Active \ {h}
        BY <2>4 DEF Active
      <3>2. h \in Active
        BY <2>1 DEF Active
      <3> QED
        BY <2>1, <3>1, <3>2 DEF ChainInv
    <2>6. \A g \in Handlers : handler'[g].pc # "idle" => outbox'[handler'[g].id] = "sent"
      BY <2>1, <2>4 DEF ChainInv
    <2>7. ASSUME NEW k \in 1 .. Len(delivered') PROVE outbox'[delivered'[k]] = "sent"
      BY <2>1, <2>2, <2>3 DEF ChainInv
    <2>8. lastReceivedHash' = Last'
      BY <2>1, <2>2, <2>3 DEF Last
    <2>9. ~recvOverlap' => \A g \in Handlers : handler'[g].pc # "hashing"
      BY <2>5 DEF Active
    <2>10. ASSUME ~recvOverlap', NEW k \in 2 .. Len(delivered')
           PROVE  prev'[delivered'[k]] = delivered'[k - 1]
      <3>1. CASE k \in 2 .. n
        BY <2>1, <2>2, <2>3, <2>10, <3>1 DEF ChainInv
      <3>2. CASE k = n + 1
        <4>1. delivered # << >> /\ delivered'[k - 1] = Last /\ delivered'[k] = m
          BY <2>2, <2>3, <3>2 DEF Last
        <4>2. prev[m] = Last
          BY <2>1, <2>10, <4>1 DEF ChainInv
        <4> QED
          BY <2>1, <4>1, <4>2
      <3> QED
        BY <2>2, <2>3, <3>1, <3>2
    <2> QED
      BY <2>5, <2>6, <2>7, <2>8, <2>9, <2>10 DEF ChainInv
  <1>11. CASE UNCHANGED vars
    BY <1>11, ChainKept DEF vars, sendVars, recvVars, ghostVars
  <1> QED
    BY <1>1, <1>2, <1>3, <1>4, <1>5, <1>6, <1>7, <1>8, <1>9, <1>10, <1>11
    DEF Next, ConnectionLost, Disconnect

\* As long as no two messages are verified at once, each message that the hash
\* chain check of verifyMessageSecurity lets through is chained to the one
\* before, whatever the network repeats, reorders or loses and however calls
\* of send() overlap.
THEOREM ChainCorrect == Spec => []NoSplice
  <1>1. ChainInv => NoSplice
    BY DEF ChainInv, NoSplice
  <1> QED
    BY <1>1, TypeInit, TypeNext, ChainInit, ChainNext, PTL DEF Spec

-----------------------------------------------------------------------------
(* The chains of both ends agree *)

\* What is on the wire was sent once, and no nonce of a message that is not
\* sent is cached.  While calls of send() do not overlap one message is under
\* way at most, and only in a session; the chain goes on from the end of the
\* wire, and what is on the wire follows it.
WireInv ==
    /\ \A k \in 1 .. Len(wire) : outbox[wire[k]] = "sent"
    /\ \A j, k \in 1 .. Len(wire) : wire[j] = wire[k] => j = k
    /\ \A i \in Messages : outbox[i] # "sent" => seenNonces[i] = NotSeen
    /\ ~sendOverlap =>
          /\ \A i, j \in Calls : i = j
          /\ Calls # {} => up
          /\ up => lastSentHash = IF wire = << >> THEN NoHash ELSE wire[Len(wire)]
          /\ \A i \in Messages : outbox[i] = "signing" => prev[i] = lastSentHash
          /\ \A k \in 2 .. Len(wire) : prev[wire[k]] = wire[k - 1]

\* How many of the messages that arrived have been dealt with.
Handled == IF Active = {} THEN arrived ELSE arrived - 1

\* What has arrived is the beginning of the wire, its last message perhaps
\* still being handled; what is to come has not been seen; and what was dealt
\* with is delivered, as far as it is chained.
Intake ==
    /\ arrived <= Len(wire)
    /\ \A k \in arrived + 1 .. Len(wire) : seenNonces[wire[k]] = NotSeen
    /\ Active # {} => arrived >= 1
    /\ \A h \in Active :
          /\ handler[h].id = wire[arrived]
          /\ handler[h].pc = "verifying" => seenNonces[handler[h].id] = NotSeen
    /\ Len(delivered) <= Handled
    /\ \A n \in 0 .. Handled :
          Chained(n) => n <= Len(delivered) /\ \A k \in 1 .. n : delivered[k] = wire[k]

IntakeInv ==
    /\ ~recvOverlap /\ up /\ delivered = << >> => lastReceivedHash = NoHash
    /\ ~recvOverlap /\ ~excuse => Intake

LEMMA WireInit == Init => WireInv
  BY DEF Init, WireInv, Calls, Sending

\* Steps that leave the sender alone.
LEMMA WireKept ==
    ASSUME TypeOK, WireInv,
           UNCHANGED <<up, sendVars>>,
           sendOverlap' \/ ~sendOverlap,
           \A i \in Messages : seenNonces'[i] = NotSeen \/ seenNonces'[i] = seenNonces[i]
                                 \/ outbox[i] = "sent"
    PROVE  WireInv'
  <1>1. Calls' = Calls
    BY DEF Calls, sendVars
  <1> QED
    BY <1>1 DEF WireInv, sendVars

LEMMA WireSend ==
    ASSUME TypeOK, WireInv, NEW i \in Messages, Send(i)
    PROVE  WireInv'
  <1>1. /\ up /\ outbox[i] = "new" /\ outbox' = [outbox EXCEPT ![i] = "nonce"]
        /\ UNCHANGED <<up, prev, lastSentHash, wire, seenNonces>>
        /\ sendOverlap' = (sendOverlap \/ Calls # {})
    BY DEF Send, nonceVars
  <1>2. \A j \in Messages : outbox'[j] = IF j = i THEN "nonce" ELSE outbox[j]
    BY <1>1 DEF TypeOK
  <1>3. ~sendOverlap' => Calls = {} /\ ~sendOverlap
    BY <1>1
  <1>4. Calls' = Calls \cup {i}
    BY <1>2 DEF Calls, Sending
  <1>5. \A k \in 1 .. Len(wire) : wire[k] \in Messages
    BY DEF TypeOK
  <1>6. \A k \in 1 .. Len(wire) : outbox'[wire[k]] = "sent"
    BY <1>1, <1>2, <1>5 DEF WireInv
  <1>7. ~sendOverlap' => \A j \in Messages : outbox'[j] # "signing"
    BY <1>2, <1>3 DEF Calls, Sending
  <1>8. \A j \in Messages : outbox'[j] # "sent" => seenNonces[j] = NotSeen
    BY <1>1, <1>2 DEF WireInv
  <1> QED
    BY <1>1, <1>3, <1>4, <1>6, <1>7, <1>8 DEF WireInv

LEMMA WireChain ==
    ASSUME TypeOK, WireInv, NEW i \in Messages, ChainMessage(i)
    PROVE  WireInv'
  <1>1. /\ outbox[i] = "nonce" /\ outbox' = [outbox EXCEPT ![i] = "signing"]
        /\ prev' = [prev EXCEPT ![i] = lastSentHash]
        /\ UNCHANGED <<up, lastSentHash, wire, seenNonces, sendOverlap>>
    BY DEF ChainMessage, nonceVars, ghostVars
  <1>2. \A j \in Messages : /\ outbox'[j] = IF j = i THEN "signing" ELSE outbox[j]
                            /\ prev'[j] = IF j = i THEN lastSentHash ELSE prev[j]
    BY <1>1 DEF TypeOK
  <1>3. Calls' = Calls
    BY <1>1, <1>2 DEF Calls, Sending
  <1>4. \A k \in 1 .. Len(wire) : wire[k] \in Messages /\ wire[k] # i
    <2>1. wire \in Seq(Messages)
      BY DEF TypeOK
    <2>2. \A k \in 1 .. Len(wire) : outbox[wire[k]] = "sent"
      BY DEF WireInv
    <2> QED
      BY <1>1, <2>1, <2>2
  <1>5. \A k \in 1 .. Len(wire) : outbox'[wire[k]] = "sent" /\ prev'[wire[k]] = prev[wire[k]]
    BY <1>1, <1>2, <1>4 DEF WireInv
  <1>6. ~sendOverlap => \A k \in 2 .. Len(wire) : prev'[wire[k]] = wire[k - 1]
    BY <1>5 DEF WireInv, TypeOK
  <1>7. \A j \in Messages : outbox'[j] # "sent" => seenNonces[j] = NotSeen
    BY <1>1, <1>2 DEF WireInv
  <1>8. ~sendOverlap => \A j \in Messages : outbox'[j] = "signing" => prev'[j] = lastSentHash
    BY <1>2 DEF WireInv
  <1> QED
    BY <1>1, <1>3, <1>5, <1>6, <1>7, <1>8 DEF WireInv

LEMMA WireTransmit ==
    ASSUME TypeOK, WireInv, NEW i \in Messages, Transmit(i)
    PROVE  WireInv'
  <1>1. /\ outbox[i] = "signing"
        /\ outbox' = [outbox EXCEPT ![i] = IF up THEN "sent" ELSE "dropped"]
        /\ lastSentHash' = i
        /\ wire' = IF up THEN Append(wire, i) ELSE wire
        /\ UNCHANGED <<up, prev, seenNonces, sendOverlap>>
    BY DEF Transmit, nonceVars, ghostVars
  <1>2. \A j \in Messages : outbox'[j] = IF j = i THEN (IF up THEN "sent" ELSE "dropped")
                                         ELSE outbox[j]
    BY <1>1 DEF TypeOK
  <1>3. i \in Calls /\ Calls' = Calls \ {i}
    BY <1>1, <1>2 DEF Calls, Sending
  <1>4. \A k \in 1 .. Len(wire) : wire[k] \in Messages /\ wire[k] # i
    <2>1. wire \in Seq(Messages)
      BY DEF TypeOK
    <2>2. \A k \in 1 .. Len(wire) : outbox[wire[k]] = "sent"
      BY DEF WireInv
    <2> QED
      BY <1>1, <2>1, <2>2
  <1>5. \A j \in Messages : outbox'[j] # "sent" => seenNonces'[j] = NotSeen
    BY <1>1, <1>2 DEF WireInv
  <1>6. ~sendOverlap => /\ \A j, k \in Calls' : j = k
                    /\ Calls' = {}
                    /\ prev[i] = lastSentHash
                    /\ up
    BY <1>1, <1>3 DEF WireInv
  <1>7. ~sendOverlap => \A j \in Messages : outbox'[j] # "signing"
    BY <1>6 DEF Calls, Sending
  <1>8. CASE ~up
    BY <1>1, <1>2, <1>4, <1>5, <1>6, <1>8 DEF WireInv
  <1>9. CASE up
    <2> DEFINE n == Len(wire)
    <2>1. /\ n \in Nat /\ Len(wire') = n + 1 /\ wire'[n + 1] = i /\ wire' # << >>
          /\ \A k \in 1 .. n : wire'[k] = wire[k]
      <3>1. wire \in Seq(Messages) /\ wire' = Append(wire, i)
        BY <1>1, <1>9 DEF TypeOK
      <3> QED
        BY <3>1
    <2>2. \A k \in 1 .. n + 1 : outbox'[wire'[k]] = "sent"
      BY <1>2, <1>4, <1>9, <2>1 DEF WireInv
    <2>3. \A j, k \in 1 .. n + 1 : wire'[j] = wire'[k] => j = k
      BY <1>4, <2>1 DEF WireInv
    <2>4. ASSUME ~sendOverlap, NEW k \in 2 .. n + 1
          PROVE  prev[wire'[k]] = wire'[k - 1]
      <3>1. CASE k <= n
        BY <2>1, <2>4, <3>1 DEF WireInv
      <3>2. CASE k = n + 1
        <4>1. n >= 1 /\ wire # << >> /\ n \in 1 .. n
          BY <2>1, <2>4, <3>2
        <4>2. lastSentHash = wire[n]
          BY <1>9, <2>4, <4>1 DEF WireInv
        <4> QED
          BY <1>6, <2>1, <2>4, <3>2, <4>1, <4>2
      <3> QED
        BY <2>1, <3>1, <3>2
    <2>5. lastSentHash' = wire'[Len(wire')]
      BY <1>1, <2>1
    <2> QED
      BY <1>1, <1>5, <1>6, <1>7, <2>1, <2>2, <2>3, <2>4, <2>5 DEF WireInv
  <1> QED
    BY <1>8, <1>9

LEMMA WireFails ==
    ASSUME TypeOK, WireInv, NEW i \in Messages, SendFails(i)
    PROVE  WireInv'
  <1>1. /\ outbox[i] = "signing" /\ outbox' = [outbox EXCEPT ![i] = "dropped"]
        /\ UNCHANGED <<up, prev, lastSentHash, wire, seenNonces, sendOverlap>>
    BY DEF SendFails, nonceVars, ghostVars
  <1>2. \A j \in Messages : outbox'[j] = IF j = i THEN "dropped" ELSE outbox[j]
    BY <1>1 DEF TypeOK
  <1>3. Calls' \subseteq Calls
    BY <1>2 DEF Calls, Sending
  <1>4. \A k \in 1 .. Len(wire) : wire[k] \in Messages /\ wire[k] # i
    <2>1. wire \in Seq(Messages)
      BY DEF TypeOK
    <2>2. \A k \in 1 .. Len(wire) : outbox[wire[k]] = "sent"
      BY DEF WireInv
    <2> QED
      BY <1>1, <2>1, <2>2
  <1> QED
    BY <1>1, <1>2, <1>3, <1>4 DEF WireInv

LEMMA WireNext == TypeOK /\ NonceInv /\ WireInv /\ [Next]_vars => WireInv'
  <1> SUFFICES ASSUME TypeOK, NonceInv, WireInv, [Next]_vars PROVE WireInv'
    OBVIOUS
  <1>1. CASE HandshakeAck
    <2>1. /\ Calls' = Calls /\ Len(wire') = 0 /\ wire' = << >> /\ lastSentHash' = NoHash
          /\ UNCHANGED <<outbox, prev, seenNonces>>
          /\ ~sendOverlap' => Calls = {}
      BY <1>1 DEF HandshakeAck, nonceVars, Calls
    <2>2. ~sendOverlap' => \A i \in Messages : outbox'[i] # "signing"
      BY <2>1 DEF Calls, Sending
    <2> QED
      BY <2>1, <2>2 DEF WireInv
  <1>2. CASE ConnectionLost \/ Disconnect
    <2>1. /\ Calls' = Calls /\ ~up'
          /\ UNCHANGED <<outbox, prev, wire>>
          /\ ~sendOverlap' => ~sendOverlap /\ Calls = {}
          /\ \A i \in Messages : seenNonces'[i] \in {NotSeen, seenNonces[i]}
      BY <1>2 DEF ConnectionLost, Disconnect, HandleDisconnect, nonceVars, Calls
    <2>2. ~sendOverlap' => \A i \in Messages : outbox'[i] # "signing"
      BY <2>1 DEF Calls, Sending
    <2> QED
      BY <2>1, <2>2 DEF WireInv
  <1>3. CASE CleanupExpiredNonces \/ Tick
    BY <1>3, WireKept DEF CleanupExpiredNonces, Tick, ghostVars, nonceVars
  <1>4. ASSUME NEW h \in Handlers, NEW i \in Messages, Arrive(h, i) PROVE WireInv'
    BY <1>4, WireKept DEF Arrive, nonceVars
  <1>5. ASSUME NEW h \in Handlers, CheckChain(h) PROVE WireInv'
    <2>1. handler[h].id \in Messages /\ outbox[handler[h].id] = "sent"
      BY <1>5 DEF CheckChain, TypeOK, NonceInv
    <2>2. \A i \in Messages : seenNonces'[i] = seenNonces[i] \/ i = handler[h].id
      BY <1>5 DEF CheckChain, AcceptNonce, TypeOK
    <2> QED
      BY <1>5, <2>1, <2>2, WireKept DEF CheckChain, ghostVars
  <1>6. ASSUME NEW h \in Handlers, RejectNonce(h) \/ Deliver(h) \/ HandlerFails(h) PROVE WireInv'
    BY <1>6, WireKept DEF RejectNonce, Deliver, HandlerFails, nonceVars, ghostVars
  <1>7. CASE UNCHANGED vars
    BY <1>7, WireKept DEF vars, nonceVars, ghostVars
  <1> QED
    BY <1>1, <1>2, <1>3, <1>4, <1>5, <1>6, <1>7, WireSend, WireChain, WireTransmit, WireFails
    DEF Next

LEMMA IntakeInit == Init => IntakeInv
  <1> SUFFICES ASSUME Init PROVE IntakeInv
    OBVIOUS
  <1>1. Active = {}
    BY DEF Init, Active, Idle
  <1>2. Len(wire) = 0 /\ Len(delivered) = 0 /\ arrived = 0 /\ ~up
    BY DEF Init
  <1> QED
    BY <1>1, <1>2 DEF IntakeInv, Intake, Handled

\* The numbers of Intake.
LEMMA IntakeTypes ==
    ASSUME TypeOK
    PROVE  /\ wire \in Seq(Messages) /\ delivered \in Seq(Messages)
           /\ arrived \in Nat /\ Len(wire) \in Nat /\ Len(delivered) \in Nat
  <1>1. wire \in Seq(Messages) /\ delivered \in Seq(Messages) /\ arrived \in Nat
    BY DEF TypeOK
  <1> QED
    BY <1>1

LEMMA HandledType ==
    ASSUME TypeOK, Intake
    PROVE  Handled \in Nat /\ Handled <= arrived /\ (Active = {} => Handled = arrived)
  <1>1. arrived \in Nat /\ (Active # {} => arrived >= 1)
    BY IntakeTypes DEF Intake
  <1> QED
    BY <1>1 DEF Handled

\* Steps that leave the receiver alone, and the messages on the wire, to
\* which others may be added.
LEMMA IntakeKept ==
    ASSUME TypeOK, IntakeInv,
           UNCHANGED <<up, handler, lastReceivedHash, arrived, delivered, excuse>>,
           recvOverlap' \/ ~recvOverlap,
           Len(wire') \in Nat, Len(wire) <= Len(wire'),
           \A k \in 1 .. Len(wire) : wire'[k] = wire[k] /\ prev'[wire[k]] = prev[wire[k]],
           \A k \in Len(wire) + 1 .. Len(wire') : seenNonces'[wire'[k]] = NotSeen,
           \A i \in Messages : seenNonces'[i] \in {NotSeen, seenNonces[i]}
    PROVE  IntakeInv'
  <1>1. Active' = Active
    BY DEF Active
  <1>2. \A k \in 1 .. Len(wire) : wire[k] \in Messages
    BY IntakeTypes
  <1>3. \A h \in Active : h \in Handlers /\ handler[h].id \in Messages
    BY DEF TypeOK, Active
  <1>4. ASSUME Intake
        PROVE  Intake'
    <2>1. arrived \in Nat /\ Len(wire) \in Nat /\ arrived <= Len(wire)
      BY <1>4, IntakeTypes DEF Intake
    <2>2. ASSUME NEW k \in arrived + 1 .. Len(wire')
          PROVE  seenNonces'[wire'[k]] = NotSeen
      <3>1. k \in arrived + 1 .. Len(wire) \/ k \in Len(wire) + 1 .. Len(wire')
        BY <2>1
      <3>2. CASE k \in arrived + 1 .. Len(wire)
        <4>1. k \in 1 .. Len(wire) /\ seenNonces[wire[k]] = NotSeen
          BY <1>4, <2>1, <3>2 DEF Intake
        <4> QED
          BY <1>2, <4>1
      <3> QED
        BY <3>1, <3>2
    <2>3. \A h \in Active : /\ handler[h].id = wire'[arrived]
                            /\ handler[h].pc = "verifying" => seenNonces'[handler[h].id] = NotSeen
      <3>1. ASSUME NEW h \in Active
            PROVE  /\ handler[h].id = wire'[arrived]
                   /\ handler[h].pc = "verifying" => seenNonces'[handler[h].id] = NotSeen
        <4>1. arrived \in 1 .. Len(wire) /\ handler[h].id = wire[arrived]
              /\ (handler[h].pc = "verifying" => seenNonces[handler[h].id] = NotSeen)
          BY <1>4, <2>1 DEF Intake
        <4> QED
          BY <1>3, <4>1
      <3> QED
        BY <3>1
    <2>4. Handled' = Handled /\ Handled \in Nat /\ Handled <= arrived
      BY <1>1, <1>4, HandledType DEF Handled
    <2>5. ASSUME NEW n \in 0 .. Handled, Chained(n)'
          PROVE  n <= Len(delivered) /\ \A k \in 1 .. n : delivered[k] = wire'[k]
      <3>1. n <= Len(wire)
        BY <2>1, <2>4
      <3>2. \A k \in 1 .. n : k \in 1 .. Len(wire)
        BY <2>1, <3>1
      <3>3. ASSUME NEW k \in 2 .. n PROVE prev[wire[k]] = wire[k - 1]
        <4>1. k \in 1 .. n /\ k - 1 \in 1 .. n
          OBVIOUS
        <4>2. prev'[wire'[k]] = wire'[k - 1]
          BY <2>5 DEF Chained
        <4> QED
          BY <3>2, <4>1, <4>2
      <3>4. Chained(n)
        BY <3>3 DEF Chained
      <3> QED
        BY <1>4, <3>2, <3>4 DEF Intake
    <2>6. Len(delivered) <= Handled
      BY <1>4 DEF Intake
    <2>7. Len(wire') \in Nat /\ arrived <= Len(wire')
      BY <2>1
    <2>8. Active # {} => arrived >= 1
      BY <1>4 DEF Intake
    <2> QED
      BY <1>1, <2>2, <2>3, <2>4, <2>5, <2>6, <2>7, <2>8 DEF Intake
  <1> QED
    BY <1>1, <1>4 DEF IntakeInv

LEMMA IntakeTransmit ==
    ASSUME TypeOK, WireInv, IntakeInv, NEW i \in Messages, Transmit(i)
    PROVE  IntakeInv'
  <1>1. /\ outbox[i] = "signing"
        /\ wire' = IF up THEN Append(wire, i) ELSE wire
        /\ UNCHANGED <<up, prev, handler, lastReceivedHash, arrived, delivered, excuse,
                       seenNonces, recvOverlap>>
    BY DEF Transmit, recvVars, nonceVars, ghostVars
  <1>2. seenNonces[i] = NotSeen
    BY <1>1 DEF WireInv
  <1>3. wire \in Seq(Messages) /\ Len(wire) \in Nat
    BY IntakeTypes
  <1>4. /\ Len(wire') \in Nat /\ Len(wire) <= Len(wire')
        /\ \A k \in 1 .. Len(wire) : wire'[k] = wire[k]
        /\ \A k \in Len(wire) + 1 .. Len(wire') : wire'[k] = i
    BY <1>1, <1>3
  <1> QED
    BY <1>1, <1>2, <1>4, IntakeKept

LEMMA IntakeArrive ==
    ASSUME TypeOK, IntakeInv, NEW h \in Handlers, NEW i \in Messages, Arrive(h, i)
    PROVE  IntakeInv'
  <1>1. /\ handler' = [handler EXCEPT ![h] = [pc |-> "verifying", id |-> i]]
        /\ arrived' = arrived + 1
        /\ recvOverlap' = (recvOverlap \/ Active # {})
        /\ UNCHANGED <<up, wire, prev, lastReceivedHash, delivered, seenNonces>>
    BY DEF Arrive, sendVars, nonceVars
  <1>2. excuse' = (excuse \/ arrived + 1 > Len(wire) \/ wire[arrived + 1] # i)
    BY DEF Arrive
  <1>3. ~recvOverlap' => ~recvOverlap /\ Active = {}
    BY <1>1
  <1>4. ASSUME ~recvOverlap', ~excuse'
        PROVE  Intake'
    <2>1. ~excuse /\ wire[arrived + 1] = i /\ ~(arrived + 1 > Len(wire))
      BY <1>2, <1>4
    <2>2. arrived \in Nat /\ Len(wire) \in Nat /\ Len(delivered) \in Nat
      BY IntakeTypes
    <2>3. handler'[h].id = i /\ handler'[h].pc = "verifying"
      BY <1>1 DEF TypeOK
    <2>4. \A g \in Handlers : g # h => handler'[g] = handler[g]
      BY <1>1 DEF TypeOK
    <2>5. Active' = {h}
      BY <1>3, <1>4, <2>3, <2>4 DEF Active
    <2>6. Intake
      BY <1>3, <1>4, <2>1 DEF IntakeInv
    <2>7. \A k \in arrived + 1 .. Len(wire) : seenNonces[wire[k]] = NotSeen
      BY <2>6 DEF Intake
    <2>8. /\ arrived + 1 \in arrived + 1 .. Len(wire)
          /\ \A k \in arrived + 1 + 1 .. Len(wire) : k \in arrived + 1 .. Len(wire)
      BY <2>1, <2>2
    <2>9. Handled = arrived
      BY <1>3, <1>4 DEF Handled
    <2>10. Handled' = arrived
      BY <1>1, <2>2, <2>5 DEF Handled
    <2>11. \A n \in 0 .. arrived : Chained(n)' =>
               n <= Len(delivered) /\ \A k \in 1 .. n : delivered[k] = wire[k]
      BY <1>1, <2>6, <2>9 DEF Intake, Chained
    <2>12. Len(delivered) <= arrived
      BY <2>6, <2>9 DEF Intake
    <2>13. /\ arrived' <= Len(wire)
           /\ arrived' >= 1
           /\ \A k \in arrived' + 1 .. Len(wire) : seenNonces[wire[k]] = NotSeen
      BY <1>1, <2>1, <2>2, <2>7, <2>8
    <2>14. \A g \in Active' : /\ handler'[g].id = wire[arrived']
                              /\ seenNonces[handler'[g].id] = NotSeen
      BY <1>1, <2>1, <2>3, <2>5, <2>7, <2>8
    <2> QED
      BY <1>1, <2>10, <2>11, <2>12, <2>13, <2>14 DEF Intake
  <1> QED
    BY <1>1, <1>3, <1>4 DEF IntakeInv

\* A message that is chained like all before it passes the chain check.
LEMMA ChainedHolds ==
    ASSUME TypeOK, ChainInv, IntakeInv, ~recvOverlap, ~excuse, NEW h \in Active,
           Chained(arrived)
    PROVE  /\ ChainHolds(handler[h].id)
           /\ Len(delivered) = arrived - 1
           /\ \A k \in 1 .. arrived - 1 : delivered[k] = wire[k]
  <1>1. Intake
    BY DEF IntakeInv
  <1>2. /\ arrived \in Nat /\ Len(wire) \in Nat /\ Len(delivered) \in Nat
        /\ delivered \in Seq(Messages)
        /\ arrived >= 1 /\ arrived <= Len(wire) /\ handler[h].id = wire[arrived]
    BY <1>1, IntakeTypes DEF Intake
  <1>3. Handled = arrived - 1
    BY DEF Handled
  <1>4. Chained(arrived - 1)
    BY <1>2 DEF Chained
  <1>5. arrived - 1 \in 0 .. Handled
    BY <1>2, <1>3
  <1>6. /\ arrived - 1 <= Len(delivered)
        /\ \A k \in 1 .. arrived - 1 : delivered[k] = wire[k]
        /\ Len(delivered) <= arrived - 1
    BY <1>1, <1>3, <1>4, <1>5 DEF Intake
  <1>7. Len(delivered) = arrived - 1
    BY <1>2, <1>6
  <1>8. up
    BY DEF ChainInv
  <1>9. CASE delivered = << >>
    BY <1>8, <1>9, <1>6, <1>7 DEF IntakeInv, ChainHolds
  <1>10. CASE delivered # << >>
    <2>1. Len(delivered) \in 1 .. arrived - 1 /\ arrived \in 2 .. arrived
      BY <1>2, <1>7, <1>10
    <2>2. lastReceivedHash = delivered[Len(delivered)]
      BY <1>8, <1>10 DEF ChainInv, Last
    <2>3. lastReceivedHash = wire[arrived - 1]
      BY <1>6, <1>7, <2>1, <2>2
    <2>4. prev[wire[arrived]] = wire[arrived - 1]
      BY <2>1 DEF Chained
    <2> QED
      BY <1>2, <1>6, <1>7, <2>3, <2>4 DEF ChainHolds
  <1> QED
    BY <1>9, <1>10

LEMMA IntakeCheck ==
    ASSUME TypeOK, WireInv, ChainInv, IntakeInv, NEW h \in Handlers, CheckChain(h)
    PROVE  IntakeInv'
  <1> DEFINE m == handler[h].id
  <1>1. /\ handler[h].pc = "verifying"
        /\ seenNonces' = [seenNonces EXCEPT ![m] = now]
        /\ UNCHANGED <<up, wire, prev, lastReceivedHash, arrived, delivered, recvOverlap, excuse>>
    BY DEF CheckChain, AcceptNonce, sendVars, ghostVars
  <1>2. handler' = [handler EXCEPT ![h] =
            IF ChainHolds(m) THEN [handler[h] EXCEPT !.pc = "hashing"] ELSE Idle]
    BY DEF CheckChain
  <1>3. h \in Active /\ m \in Messages
    BY <1>1 DEF Active, TypeOK
  <1>4. ASSUME ~recvOverlap, ~excuse
        PROVE  Intake'
    <2>1. Intake
      BY <1>4 DEF IntakeInv
    <2>2. /\ arrived \in Nat /\ Len(wire) \in Nat /\ Len(delivered) \in Nat
          /\ wire \in Seq(Messages)
          /\ arrived <= Len(wire) /\ arrived >= 1 /\ m = wire[arrived]
      BY <1>3, <2>1, IntakeTypes DEF Intake
    <2>3. arrived \in 1 .. Len(wire)
      BY <2>2
    <2>4. ASSUME NEW k \in arrived + 1 .. Len(wire)
          PROVE  seenNonces'[wire[k]] = NotSeen
      <3>1. k \in 1 .. Len(wire) /\ k # arrived
        BY <2>2
      <3>2. wire[k] \in Messages
        BY <2>2, <3>1
      <3>3. wire[k] # wire[arrived]
        BY <2>3, <3>1 DEF WireInv
      <3>4. wire[k] # m
        BY <2>2, <3>3
      <3>5. seenNonces[wire[k]] = NotSeen
        BY <2>1 DEF Intake
      <3> QED
        BY <1>1, <3>2, <3>4, <3>5 DEF TypeOK
    <2>5. \A g \in Active : g = h
      BY <1>3, <1>4 DEF ChainInv
    <2>6. \A g \in Handlers : g # h => handler'[g] = handler[g]
      BY <1>2 DEF TypeOK
    <2>7. Handled = arrived - 1 /\ Len(delivered) <= arrived - 1
      BY <1>3, <2>1 DEF Handled, Intake
    <2>8. CASE ChainHolds(m)
      <3>1. handler'[h].id = m /\ handler'[h].pc = "hashing"
        <4>1. handler[h] \in [pc : HandlerStates, id : Messages \cup {NoHash}]
          BY DEF TypeOK
        <4>2. handler'[h] = [handler[h] EXCEPT !.pc = "hashing"]
          BY <1>2, <2>8 DEF TypeOK
        <4> QED
          BY <4>1, <4>2
      <3>2. Active' = {h}
        BY <2>5, <2>6, <3>1 DEF Active
      <3>3. Handled' = Handled
        BY <1>1, <2>7, <3>2 DEF Handled
      <3>4. \A n \in 0 .. Handled : Chained(n)' =>
                n <= Len(delivered) /\ \A k \in 1 .. n : delivered[k] = wire[k]
        BY <1>1, <2>1 DEF Intake, Chained
      <3>5. \A g \in Active' : handler'[g].id = wire[arrived] /\ handler'[g].pc # "verifying"
        BY <2>2, <3>1, <3>2
      <3> HIDE DEF m
      <3> QED
        BY <1>1, <2>2, <2>4, <2>7, <3>3, <3>4, <3>5 DEF Intake
    <2>9. CASE ~ChainHolds(m)
      <3>1. handler'[h] = Idle
        BY <1>2, <2>9 DEF TypeOK
      <3>2. Active' = {}
        BY <2>5, <2>6, <3>1 DEF Active, Idle
      <3>3. Handled' = arrived
        BY <1>1, <3>2 DEF Handled
      <3>4. ASSUME NEW n \in 0 .. arrived, Chained(n)'
            PROVE  n <= Len(delivered) /\ \A k \in 1 .. n : delivered[k] = wire[k]
        <4>1. Chained(n)
          BY <1>1, <3>4 DEF Chained
        <4>2. n # arrived
          BY <1>3, <1>4, <2>9, <4>1, ChainedHolds
        <4>3. n \in 0 .. Handled
          BY <2>2, <2>7, <4>2
        <4> QED
          BY <2>1, <4>1, <4>3 DEF Intake
      <3>5. Len(delivered) <= arrived
        BY <2>2, <2>7
      <3> HIDE DEF m
      <3> QED
        BY <1>1, <2>2, <2>4, <3>2, <3>3, <3>4, <3>5 DEF Intake
    <2> QED
      BY <2>8, <2>9
  <1> HIDE DEF m
  <1> QED
    BY <1>1, <1>4 DEF IntakeInv

LEMMA IntakeDeliver ==
    ASSUME TypeOK, ChainInv, IntakeInv, NEW h \in Handlers, Deliver(h)
    PROVE  IntakeInv'
  <1>1. /\ handler[h].pc = "hashing"
        /\ delivered' = Append(delivered, handler[h].id)
        /\ handler' = [handler EXCEPT ![h] = Idle]
        /\ UNCHANGED <<up, wire, prev, arrived, seenNonces, recvOverlap, excuse>>
    BY DEF Deliver, sendVars, nonceVars, ghostVars
  <1>2. h \in Active /\ delivered \in Seq(Messages) /\ handler[h].id \in Messages
    BY <1>1 DEF Active, TypeOK
  <1>3. /\ Len(delivered) \in Nat /\ Len(delivered') = Len(delivered) + 1
        /\ delivered' # << >> /\ delivered'[Len(delivered) + 1] = handler[h].id
        /\ \A k \in 1 .. Len(delivered) : delivered'[k] = delivered[k]
    BY <1>1, <1>2
  <1>4. ASSUME ~recvOverlap PROVE Active' = {}
    <2>1. \A g \in Active : g = h
      BY <1>2, <1>4 DEF ChainInv
    <2>2. \A g \in Handlers : handler'[g] = IF g = h THEN Idle ELSE handler[g]
      BY <1>1 DEF TypeOK
    <2> QED
      BY <2>1, <2>2 DEF Active, Idle
  <1>5. ASSUME ~recvOverlap, ~excuse
        PROVE  Intake'
    <2>1. Intake
      BY <1>5 DEF IntakeInv
    <2>2. /\ arrived \in Nat /\ arrived >= 1 /\ handler[h].id = wire[arrived]
          /\ Handled = arrived - 1 /\ Len(delivered) <= arrived - 1
      BY <1>2, <2>1, IntakeTypes DEF Intake, Handled
    <2>3. Handled' = arrived
      BY <1>1, <1>4, <1>5 DEF Handled
    <2>4. Len(delivered') <= arrived
      BY <1>3, <2>2
    <2>5. ASSUME NEW n \in 0 .. arrived, Chained(n)'
          PROVE  n <= Len(delivered') /\ \A k \in 1 .. n : delivered'[k] = wire[k]
      <3>1. Chained(n)
        BY <1>1, <2>5 DEF Chained
      <3>2. CASE n < arrived
        <4>1. n \in 0 .. Handled
          BY <2>2, <3>2
        <4>2. n <= Len(delivered) /\ \A k \in 1 .. n : delivered[k] = wire[k]
          BY <2>1, <3>1, <4>1 DEF Intake
        <4> QED
          BY <1>3, <4>2
      <3>3. CASE n = arrived
        <4>1. /\ Len(delivered) = arrived - 1
              /\ \A k \in 1 .. arrived - 1 : delivered[k] = wire[k]
          BY <1>2, <1>5, <3>1, <3>3, ChainedHolds
        <4> QED
          BY <1>3, <2>2, <3>3, <4>1
      <3> QED
        BY <2>2, <3>2, <3>3
    <2>6. Active' = {}
      BY <1>4, <1>5
    <2> QED
      BY <1>1, <2>1, <2>3, <2>4, <2>5, <2>6 DEF Intake
  <1> QED
    BY <1>1, <1>3, <1>5 DEF IntakeInv

LEMMA IntakeNext ==
    TypeOK /\ NonceInv /\ ChainInv /\ WireInv /\ IntakeInv /\ [Next]_vars => IntakeInv'
  <1> SUFFICES ASSUME TypeOK, NonceInv, ChainInv, WireInv, IntakeInv, [Next]_vars
               PROVE  IntakeInv'
    OBVIOUS
  <1>0. Len(wire) \in Nat /\ \A k \in 1 .. Len(wire) : wire[k] \in Messages
    BY IntakeTypes
  <1>1. CASE HandshakeAck
    <2>1. /\ Active' = Active /\ Len(wire') = 0 /\ Len(delivered') = 0 /\ arrived' = 0
          /\ lastReceivedHash' = NoHash
          /\ ~recvOverlap' => Active = {}
      BY <1>1 DEF HandshakeAck, Active
    <2> QED
      BY <2>1 DEF IntakeInv, Intake, Handled
  <1>2. CASE ConnectionLost \/ Disconnect
    <2>1. /\ Active' = Active /\ ~up'
          /\ UNCHANGED <<wire, prev, handler, arrived, delivered, excuse>>
          /\ ~recvOverlap' => ~recvOverlap /\ Active = {}
          /\ \A i \in Messages : seenNonces'[i] \in {NotSeen, seenNonces[i]}
      BY <1>2 DEF ConnectionLost, Disconnect, HandleDisconnect, nonceVars, Active
    <2>2. \A k \in arrived + 1 .. Len(wire) : k \in 1 .. Len(wire)
      BY IntakeTypes
    <2>3. ASSUME Intake, Active = {} PROVE Intake'
      <3>1. \A k \in arrived + 1 .. Len(wire) : seenNonces'[wire[k]] = NotSeen
        BY <1>0, <2>1, <2>2, <2>3 DEF Intake
      <3>2. Handled' = Handled
        BY <2>1 DEF Handled
      <3> QED
        BY <2>1, <2>3, <3>1, <3>2 DEF Intake, Chained
    <2> QED
      BY <2>1, <2>3 DEF IntakeInv
  <1>3. CASE CleanupExpiredNonces \/ Tick
    BY <1>0, <1>3, IntakeKept DEF CleanupExpiredNonces, Tick, sendVars, recvVars, ghostVars, nonceVars
  <1>4. ASSUME NEW i \in Messages, Send(i) \/ ChainMessage(i) \/ SendFails(i) PROVE IntakeInv'
    <2>1. /\ UNCHANGED <<up, wire, handler, lastReceivedHash, arrived, delivered, excuse>>
          /\ UNCHANGED <<seenNonces, recvOverlap>>
      BY <1>4 DEF Send, ChainMessage, SendFails, recvVars, nonceVars, ghostVars
    <2>2. outbox[i] # "sent" /\ \A j \in Messages : j # i => prev'[j] = prev[j]
      BY <1>4 DEF Send, ChainMessage, SendFails, TypeOK
    <2>3. \A k \in 1 .. Len(wire) : prev'[wire[k]] = prev[wire[k]]
      BY <1>0, <2>2 DEF WireInv
    <2> QED
      BY <1>0, <2>1, <2>3, IntakeKept
  <1>5. ASSUME NEW h \in Handlers, RejectNonce(h) PROVE IntakeInv'
    <2>1. /\ handler[h].pc = "verifying" /\ ~ValidNonce(handler[h].id)
          /\ excuse' = (excuse \/ ~InWindow(handler[h].id))
          /\ UNCHANGED <<up, lastReceivedHash, delivered, recvOverlap>>
      BY <1>5 DEF RejectNonce
    <2>2. h \in Active
      BY <2>1 DEF Active
    <2>3. ~recvOverlap => excuse'
      BY <2>1, <2>2 DEF IntakeInv, Intake, ValidNonce
    <2> QED
      BY <2>1, <2>3 DEF IntakeInv
  <1>6. ASSUME NEW h \in Handlers, HandlerFails(h) PROVE IntakeInv'
    BY <1>6 DEF HandlerFails, IntakeInv
  <1>7. CASE UNCHANGED vars
    BY <1>0, <1>7, IntakeKept DEF vars, sendVars, recvVars, nonceVars, ghostVars
  <1> QED
    BY <1>1, <1>2, <1>3, <1>4, <1>5, <1>6, <1>7, IntakeTransmit, IntakeArrive, IntakeCheck,
       IntakeDeliver DEF Next

\* Calls of send() that wait for one another put an unbroken chain on the
\* wire; and whatever calls of send() overlap, of a wire that arrives
\* undisturbed, one message at a time, verifyMessageSecurity refuses nothing
\* before the first message that is not chained to the one before it.
THEOREM ChainsCorrect == Spec => []ChainsAgree
  <1>1. TypeOK /\ WireInv /\ IntakeInv => ChainsAgree
    <2> SUFFICES ASSUME TypeOK, WireInv, IntakeInv PROVE ChainsAgree
      OBVIOUS
    <2>1. ~sendOverlap => Chained(Len(wire))
      BY DEF WireInv, Chained
    <2>2. ASSUME ~recvOverlap, ~excuse, Active = {}
          PROVE  /\ arrived <= Len(wire)
                 /\ \A n \in 0 .. arrived :
                       Chained(n) =>
                           /\ n <= Len(delivered)
                           /\ \A k \in 1 .. n : delivered[k] = wire[k]
      <3>1. Intake /\ Handled = arrived
        BY <2>2 DEF IntakeInv, Handled
      <3> QED
        BY <3>1 DEF Intake
    <2> QED
      BY <2>1, <2>2 DEF ChainsAgree
  <1> QED
    BY <1>1, TypeInit, TypeNext, NonceInit, NonceNext, ChainInit, ChainNext, WireInit, WireNext,
       IntakeInit, IntakeNext, PTL DEF Spec
=============================================================================
