----------------------------- MODULE JsChannel -----------------------------
(***************************************************************************)
(* Signed messages between two ends that run the JavaScript SDK's code     *)
(* (sdk/js/src/client.ts, with a MAC key): send(), which chains every      *)
(* message to the one sent before, on one end; handleMessageAsync() with   *)
(* its replay and hash chain checks on the other.                          *)
(*                                                                         *)
(* Both functions wait for the crypto library between reading and writing  *)
(* the state they share, and nothing keeps two of their calls apart: an    *)
(* action is the code between two awaits. The network loses, repeats and   *)
(* reorders messages; hashes do not collide, so a message stands for its   *)
(* hash, and it has one nonce, with the timestamp of the message.          *)
(***************************************************************************)
EXTENDS Integers, Sequences

CONSTANTS
    MaxMessages,   \* bound: messages sent
    Handlers,      \* bound: calls of handleMessageAsync under way
    MaxArrivals,   \* bound: messages that arrive in a session, repeats included
    MaxTime,       \* bound: the receiver's clock
    MaxAge,        \* maxMessageAge
    Skew,          \* how far ahead a timestamp may be; 5000 ms in the code
    ClockOffsets   \* the sender's clock minus the receiver's

ASSUME ChannelAssumption ==
    /\ MaxMessages \in Nat
    /\ MaxArrivals \in Nat
    /\ MaxTime \in Nat
    /\ MaxAge \in Nat
    /\ Skew \in Nat
    /\ Skew <= MaxAge
    /\ ClockOffsets \subseteq Int

Messages == 1 .. MaxMessages
NoHash == 0        \* null
NotSeen == -1      \* a nonce that is not in the cache

VARIABLES
    now,               \* Date.now() of the receiver
    up,                \* a session is established
    outbox,            \* each message's progress through send()
    prev,              \* its prev_message_hash
    stamp,             \* its timestamp
    lastSentHash,
    handler,           \* each call of handleMessageAsync
    seenNonces,        \* the time each nonce was accepted
    lastReceivedHash,
    \* for the properties
    wire,              \* messages transmitted in this session, in order
    arrived,           \* messages that arrived in this session
    delivered,         \* messages handed to the application in this session
    uses,              \* times each nonce was accepted since disconnect()
    sendOverlap,       \* two calls of send() were under way at once, or one
                       \* outlived the session it began in
    recvOverlap,       \* the same of handleMessageAsync()
    excuse             \* a message was lost, repeated, overtaken, or
                       \* outside the time window, or the crypto failed

sendVars == <<outbox, prev, stamp, lastSentHash, wire>>
recvVars == <<handler, lastReceivedHash, arrived, delivered>>
nonceVars == <<seenNonces, uses>>
ghostVars == <<sendOverlap, recvOverlap, excuse>>
vars == <<now, up, sendVars, recvVars, nonceVars, ghostVars>>

Sending == {"nonce", "signing"}
OutboxStates == Sending \cup {"new", "sent", "dropped"}
HandlerStates == {"idle", "verifying", "hashing"}

\* The state is well formed; no nonce is cached with a time yet to come.
TypeOK ==
    /\ now \in Nat
    /\ up \in BOOLEAN
    /\ outbox \in [Messages -> OutboxStates]
    /\ prev \in [Messages -> Messages \cup {NoHash}]
    /\ stamp \in [Messages -> Int]
    /\ lastSentHash \in Messages \cup {NoHash}
    /\ handler \in [Handlers -> [pc : HandlerStates, id : Messages \cup {NoHash}]]
    /\ \A h \in Handlers : handler[h].pc # "idle" => handler[h].id \in Messages
    /\ seenNonces \in [Messages -> NotSeen .. now]
    /\ lastReceivedHash \in Messages \cup {NoHash}
    /\ wire \in Seq(Messages)
    /\ arrived \in Nat
    /\ delivered \in Seq(Messages)
    /\ uses \in [Messages -> Nat]
    /\ sendOverlap \in BOOLEAN
    /\ recvOverlap \in BOOLEAN
    /\ excuse \in BOOLEAN

Idle == [pc |-> "idle", id |-> NoHash]

Init ==
    /\ now = 0
    /\ up = FALSE
    /\ outbox = [i \in Messages |-> "new"]
    /\ prev = [i \in Messages |-> NoHash]
    /\ stamp = [i \in Messages |-> 0]
    /\ lastSentHash = NoHash
    /\ handler = [h \in Handlers |-> Idle]
    /\ seenNonces = [i \in Messages |-> NotSeen]
    /\ lastReceivedHash = NoHash
    /\ wire = << >>
    /\ arrived = 0
    /\ delivered = << >>
    /\ uses = [i \in Messages |-> 0]
    /\ sendOverlap = FALSE
    /\ recvOverlap = FALSE
    /\ excuse = FALSE

Calls == {i \in Messages : outbox[i] \in Sending}
Active == {h \in Handlers : handler[h].pc # "idle"}

-----------------------------------------------------------------------------
(* The session: its chains start afresh *)

\* handleHandshakeAck.
HandshakeAck ==
    /\ ~up
    /\ up' = TRUE
    /\ lastSentHash' = NoHash
    /\ lastReceivedHash' = NoHash
    /\ wire' = << >>
    /\ arrived' = 0
    /\ delivered' = << >>
    /\ sendOverlap' = (Calls # {})
    /\ recvOverlap' = (Active # {})
    /\ excuse' = FALSE
    /\ UNCHANGED <<now, outbox, prev, stamp, handler, nonceVars>>

\* handleDisconnect: calls under way go on, and the nonces are kept.
HandleDisconnect ==
    /\ up' = FALSE
    /\ lastSentHash' = NoHash
    /\ lastReceivedHash' = NoHash
    /\ sendOverlap' = (sendOverlap \/ Calls # {})
    /\ recvOverlap' = (recvOverlap \/ Active # {})
    /\ UNCHANGED <<now, outbox, prev, stamp, wire, handler, arrived, delivered, excuse>>

ConnectionLost == up /\ HandleDisconnect /\ UNCHANGED nonceVars

\* disconnect(), with the close event that follows it.
Disconnect ==
    /\ seenNonces' = [i \in Messages |-> NotSeen]
    /\ uses' = [i \in Messages |-> 0]
    /\ HandleDisconnect

-----------------------------------------------------------------------------
(* send() *)

\* The message is stamped and a nonce asked for.
Send(i) ==
    /\ up
    /\ outbox[i] = "new"
    /\ \A j \in 1 .. i - 1 : outbox[j] # "new"
    /\ outbox' = [outbox EXCEPT ![i] = "nonce"]
    /\ \E d \in ClockOffsets : stamp' = [stamp EXCEPT ![i] = now + d]
    /\ sendOverlap' = (sendOverlap \/ Calls # {})
    /\ UNCHANGED <<now, up, prev, lastSentHash, wire, recvVars, nonceVars,
                   recvOverlap, excuse>>

\* The chain is read, and the signature and the hash are computed.
ChainMessage(i) ==
    /\ outbox[i] = "nonce"
    /\ outbox' = [outbox EXCEPT ![i] = "signing"]
    /\ prev' = [prev EXCEPT ![i] = lastSentHash]
    /\ UNCHANGED <<now, up, stamp, lastSentHash, wire, recvVars, nonceVars, ghostVars>>

\* Mutant: the chain is not moved on.
TransmitForgetsChain(i) ==
    /\ outbox[i] = "signing"
    /\ outbox' = [outbox EXCEPT ![i] = IF up THEN "sent" ELSE "dropped"]
    /\ wire' = IF up THEN Append(wire, i) ELSE wire
    /\ UNCHANGED <<now, up, prev, stamp, lastSentHash, recvVars, nonceVars, ghostVars>>

\* The chain moves on, and sendRaw sends if the socket is open.
Transmit(i) ==
    /\ outbox[i] = "signing"
    /\ lastSentHash' = i
    /\ outbox' = [outbox EXCEPT ![i] = IF up THEN "sent" ELSE "dropped"]
    /\ wire' = IF up THEN Append(wire, i) ELSE wire
    /\ UNCHANGED <<now, up, prev, stamp, recvVars, nonceVars, ghostVars>>

\* Signing or hashing fails: the message is not sent.
SendFails(i) ==
    /\ outbox[i] = "signing"
    /\ outbox' = [outbox EXCEPT ![i] = "dropped"]
    /\ UNCHANGED <<now, up, prev, stamp, lastSentHash, wire, recvVars, nonceVars, ghostVars>>

-----------------------------------------------------------------------------
(* handleMessageAsync() *)

\* A message that was sent at any time arrives, perhaps not for the first
\* time; the signature is being checked.
Arrive(h, i) ==
    /\ up
    /\ h \notin Active
    /\ outbox[i] = "sent"
    /\ arrived < MaxArrivals
    /\ handler' = [handler EXCEPT ![h] = [pc |-> "verifying", id |-> i]]
    /\ arrived' = arrived + 1
    /\ recvOverlap' = (recvOverlap \/ Active # {})
    /\ excuse' = (excuse \/ arrived + 1 > Len(wire) \/ wire[arrived + 1] # i)
    /\ UNCHANGED <<now, up, sendVars, lastReceivedHash, delivered, nonceVars,
                   sendOverlap>>

\* The age checks of verifyMessageSecurity and of validateNonce.
InWindow(i) == now - stamp[i] <= MaxAge /\ stamp[i] - now <= Skew

ValidNonce(i) == seenNonces[i] = NotSeen /\ InWindow(i)

\* What validateNonce records.
AcceptNonce(i) ==
    /\ seenNonces' = [seenNonces EXCEPT ![i] = now]
    /\ uses' = [uses EXCEPT ![i] = @ + 1]

\* Mutant: a message that starts a chain is welcome at any time.
ChainHoldsOrStarts(i) == lastReceivedHash = NoHash \/ prev[i] \in {lastReceivedHash, NoHash}

ChainHolds(i) == lastReceivedHash = NoHash \/ prev[i] = lastReceivedHash

\* A message that is out of its time or has been seen is dropped.
RejectNonce(h) ==
    /\ handler[h].pc = "verifying"
    /\ ~ValidNonce(handler[h].id)
    /\ handler' = [handler EXCEPT ![h] = Idle]
    /\ excuse' = (excuse \/ ~InWindow(handler[h].id))
    /\ UNCHANGED <<now, up, sendVars, lastReceivedHash, arrived, delivered, nonceVars,
                   sendOverlap, recvOverlap>>

\* One that does not extend the chain too, but its nonce is used up; for
\* others the hash is being computed.
CheckChain(h) ==
    /\ handler[h].pc = "verifying"
    /\ ValidNonce(handler[h].id)
    /\ AcceptNonce(handler[h].id)
    /\ handler' = [handler EXCEPT ![h] =
           IF ChainHolds(@.id) THEN [@ EXCEPT !.pc = "hashing"] ELSE Idle]
    /\ UNCHANGED <<now, up, sendVars, lastReceivedHash, arrived, delivered, ghostVars>>

\* The chain moves on and the application gets the message.
Deliver(h) ==
    /\ handler[h].pc = "hashing"
    /\ lastReceivedHash' = handler[h].id
    /\ delivered' = Append(delivered, handler[h].id)
    /\ handler' = [handler EXCEPT ![h] = Idle]
    /\ UNCHANGED <<now, up, sendVars, arrived, nonceVars, ghostVars>>

\* A field or the signature is missing, the signature is not verified, or the
\* hash not computed.
HandlerFails(h) ==
    /\ handler[h].pc # "idle"
    /\ handler' = [handler EXCEPT ![h] = Idle]
    /\ excuse' = TRUE
    /\ UNCHANGED <<now, up, sendVars, lastReceivedHash, arrived, delivered, nonceVars,
                   sendOverlap, recvOverlap>>

-----------------------------------------------------------------------------
(* Time *)

\* Mutant: nonces are kept for the age of a message only.
CleanupTooEarly ==
    /\ up
    /\ seenNonces' = [i \in Messages |->
           IF now - seenNonces[i] > MaxAge THEN NotSeen ELSE seenNonces[i]]
    /\ UNCHANGED <<now, up, sendVars, recvVars, uses, ghostVars>>

\* cleanupExpiredNonces, from a timer that runs while the session lasts.
CleanupExpiredNonces ==
    /\ up
    /\ seenNonces' = [i \in Messages |->
           IF now - seenNonces[i] > 2 * MaxAge THEN NotSeen ELSE seenNonces[i]]
    /\ UNCHANGED <<now, up, sendVars, recvVars, uses, ghostVars>>

Tick ==
    /\ now < MaxTime
    /\ now' = now + 1
    /\ UNCHANGED <<up, sendVars, recvVars, nonceVars, ghostVars>>

-----------------------------------------------------------------------------
Next ==
    \/ HandshakeAck \/ ConnectionLost \/ Disconnect
    \/ CleanupExpiredNonces \/ Tick
    \/ \E i \in Messages : Send(i) \/ ChainMessage(i) \/ Transmit(i) \/ SendFails(i)
    \/ \E h \in Handlers :
          \/ \E i \in Messages : Arrive(h, i)
          \/ RejectNonce(h) \/ CheckChain(h) \/ Deliver(h) \/ HandlerFails(h)

Spec == Init /\ [][Next]_vars

-----------------------------------------------------------------------------
(* Properties *)

\* validateNonce accepts a nonce once, however often and late its message
\* arrives, over reconnects too, until disconnect() clears the cache: when a
\* nonce is cleaned up, its message is too old to be accepted.
NonceUsedOnce == \A i \in Messages : uses[i] <= 1

\* Every message the application gets was chained to the one it got before,
\* whatever the network does and however calls of send() overlap, as long as
\* no two messages are verified at once.
NoSplice ==
    ~recvOverlap =>
        \A k \in 2 .. Len(delivered) : prev[delivered[k]] = delivered[k - 1]

\* The first n messages on the wire carry the hash of the one before them.
Chained(n) == \A k \in 2 .. n : prev[wire[k]] = wire[k - 1]

\* The chains of both ends agree, over failed sends, losses of connection and
\* new sessions. Calls of send() that wait for one another put an unbroken
\* chain on the wire; and of a wire that arrives undisturbed and one message
\* at a time the application gets everything, in order, up to the first
\* message that was not chained to the one before it.
ChainsAgree ==
    /\ ~sendOverlap => Chained(Len(wire))
    /\ ~recvOverlap /\ ~excuse /\ Active = {} =>
          /\ arrived <= Len(wire)
          /\ \A n \in 0 .. arrived :
                Chained(n) =>
                    /\ n <= Len(delivered)
                    /\ \A k \in 1 .. n : delivered[k] = wire[k]

\* "every envelope carries the previous message hash" (SECURITY_HARDENING.md,
\* line 10). The code breaks it: send() reads lastSentHash before it awaits
\* the signature and writes it after, so that two calls which do not wait for
\* one another carry the same hash, and the receiver refuses the second.
EveryEnvelopeChained == Chained(Len(wire))
=============================================================================
