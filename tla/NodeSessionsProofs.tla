------------------------- MODULE NodeSessionsProofs -------------------------
(***************************************************************************)
(* Proofs about NodeSessions for every number of connections and every     *)
(* limit: type correctness, the accounting of the two gauges, the session  *)
(* cap, and that route suggestions are never stale.                        *)
(***************************************************************************)
EXTENDS NodeSessions, FiniteSetTheorems, TLAPS

-----------------------------------------------------------------------------
(* The inductive invariant *)

\* TypeOK without the gauges, whose type follows from what they count.
Shape ==
    /\ pc \in [Conns -> Steps]
    /\ kind \in [Conns -> Kinds]
    /\ payload \in [Conns -> Payloads]
    /\ created \in [Conns -> BOOLEAN]
    /\ tracked \subseteq Conns
    /\ age \in [Conns -> 0 .. IdleTtl]
    /\ orient \in [Conns -> Payloads]
    /\ jpc \in {"sleep", "confirm"}
    /\ idleKeys \subseteq Conns
    /\ expired \in Nat
    /\ told \in [Conns -> Payloads]

\* A handler past entry() that inserted its session is the only one that
\* knows of it: until it is counted, the session stays in the table and is
\* too young for the janitor.
CreatedIsFresh ==
    \A c \in Conns :
        /\ created[c] => pc[c] \in {"touch", "check", "over", "under"}
        /\ pc[c] \in {"check", "over", "under"} => created[c]
        /\ created[c] => c \in tracked /\ age[c] = 0

\* What a tracked session remembers is the client's last word, or nothing.
OrientationIsLast ==
    \A c \in tracked : orient[c] \in {None, told[c]}

\* What the connections gauge counts: the connections there are, and those
\* whose task ended on a failed hello_ack.
ConnectionsGaugeAccounts ==
    connGauge = Cardinality({c \in Conns : pc[c] \in Established \cup {"leaked"}})

IndInv ==
    /\ Shape
    /\ CreatedIsFresh
    /\ SessionsGaugeAccounts
    /\ AdmittedWithinCapacity
    /\ ConnectionsGaugeAccounts
    /\ OrientationIsLast

-----------------------------------------------------------------------------
(* Finite sets *)

\* Every set of connections is finite, and its size changes by one when a
\* member comes or goes.
LEMMA SubsetsAreFinite ==
    ASSUME NEW S \in SUBSET Conns
    PROVE  IsFiniteSet(S) /\ Cardinality(S) \in Nat
BY NodeAssumption, FS_Subset, FS_CardinalityType

LEMMA OneMore ==
    ASSUME NEW S \in SUBSET Conns, NEW T \in SUBSET Conns,
           NEW c \in T, c \notin S, T = S \cup {c}
    PROVE  Cardinality(T) = Cardinality(S) + 1
BY SubsetsAreFinite, FS_AddElement

LEMMA FewerOrEqual ==
    ASSUME NEW S \in SUBSET Conns, NEW T \in SUBSET S
    PROVE  Cardinality(T) <= Cardinality(S)
BY SubsetsAreFinite, FS_Subset

-----------------------------------------------------------------------------
(* Shape *)

LEMMA ShapeInit == Init => Shape
BY NodeAssumption DEF Init, Shape, Steps, Established, Kinds, Payloads

LEMMA ShapeStep ==
    ASSUME Shape, [Next]_vars
    PROVE  Shape'
<1> USE NodeAssumption DEF Shape, Steps, Established, Kinds, Payloads, GoTo,
        connVars, tableVars, gaugeVars, janitorVars
<1>1. ASSUME NEW c \in Conns, HandlerStep(c)
      PROVE  Shape'
  <2>1. CASE Touch(c)
    <3>1. pc' \in [Conns -> Steps] /\ kind' \in [Conns -> Kinds]
      BY <2>1 DEF Touch, Rest
    <3>2. payload' \in [Conns -> Payloads] /\ created' \in [Conns -> BOOLEAN]
      BY <2>1 DEF Touch, Rest
    <3>3. age' \in [Conns -> 0 .. IdleTtl]
      BY <2>1 DEF Touch
    <3>4. orient' \in [Conns -> Payloads] /\ told' \in [Conns -> Payloads]
      BY <2>1 DEF Touch
    <3>5. UNCHANGED <<tracked, jpc, idleKeys, expired>>
      BY <2>1 DEF Touch
    <3>6. QED
      BY <3>1, <3>2, <3>3, <3>4, <3>5
  <2>2. CASE CheckCapacity(c) \/ RejectSession(c) \/ CountSession(c)
    BY <2>2 DEF CheckCapacity, RejectSession, CountSession, Rest
  <2>3. CASE RemoveOnDisconnect(c) \/ UncountSession(c) \/ HangUp(c)
    BY <2>3 DEF RemoveOnDisconnect, UncountSession, HangUp
  <2>4. QED
    BY <1>1, <2>1, <2>2, <2>3 DEF HandlerStep
<1>2. ASSUME NEW c \in Conns, ClientStep(c)
      PROVE  Shape'
  <2>1. CASE Accept(c) \/ Upgrade(c) \/ UpgradeFails(c)
    BY <2>1 DEF Accept, Upgrade, UpgradeFails
  <2>2. CASE HandshakeRefused(c) \/ HelloAck(c) \/ HelloAckFails(c)
    BY <2>2 DEF HandshakeRefused, HelloAck, HelloAckFails
  <2>3. CASE Hello(c)
    BY <2>3 DEF Hello, Entry
  <2>4. CASE Heartbeat(c)
    BY <2>4 DEF Heartbeat, Entry
  <2>5. CASE \E p \in Payloads : Orientation(c, p)
    BY <2>5 DEF Orientation, Entry
  <2>6. CASE LeaveLoop(c)
    BY <2>6 DEF LeaveLoop
  <2>7. QED
    BY <1>2, <2>1, <2>2, <2>3, <2>4, <2>5, <2>6 DEF ClientStep
<1>3. CASE JanitorStep
  <2>1. CASE CollectIdle
    BY <2>1 DEF CollectIdle, Idle
  <2>2. ASSUME NEW c \in Conns, ConfirmExpire(c) \/ ConfirmSkip(c)
        PROVE  Shape'
    BY <2>2 DEF ConfirmExpire, ConfirmSkip
  <2>3. CASE FinishSweep
    BY <2>3 DEF FinishSweep
  <2>4. QED
    BY <1>3, <2>1, <2>2, <2>3 DEF JanitorStep
<1>4. CASE Tick \/ UNCHANGED vars
  BY <1>4 DEF Tick, Older, vars
<1>5. QED
  BY <1>1, <1>2, <1>3, <1>4 DEF Next

-----------------------------------------------------------------------------
(* CreatedIsFresh *)

LEMMA FreshStep ==
    ASSUME Shape, CreatedIsFresh, [Next]_vars
    PROVE  CreatedIsFresh'
<1> USE NodeAssumption DEF Shape, CreatedIsFresh, Steps, Established, GoTo,
        connVars, tableVars, gaugeVars, janitorVars
<1>1. ASSUME NEW c \in Conns, HandlerStep(c)
      PROVE  CreatedIsFresh'
  <2>1. CASE Touch(c)
    BY <2>1 DEF Touch, Rest
  <2>2. CASE CheckCapacity(c)
    BY <2>2 DEF CheckCapacity
  <2>3. CASE RejectSession(c) \/ CountSession(c)
    BY <2>3 DEF RejectSession, CountSession, Rest
  <2>4. CASE RemoveOnDisconnect(c) \/ UncountSession(c) \/ HangUp(c)
    BY <2>4 DEF RemoveOnDisconnect, UncountSession, HangUp
  <2>5. QED
    BY <1>1, <2>1, <2>2, <2>3, <2>4 DEF HandlerStep
<1>2. ASSUME NEW c \in Conns, ClientStep(c)
      PROVE  CreatedIsFresh'
  <2>1. CASE Accept(c) \/ Upgrade(c) \/ UpgradeFails(c)
    BY <2>1 DEF Accept, Upgrade, UpgradeFails
  <2>2. CASE HandshakeRefused(c) \/ HelloAck(c) \/ HelloAckFails(c)
    BY <2>2 DEF HandshakeRefused, HelloAck, HelloAckFails
  <2>3. CASE Hello(c)
    BY <2>3 DEF Hello, Entry
  <2>4. CASE Heartbeat(c)
    BY <2>4 DEF Heartbeat, Entry
  <2>5. CASE \E p \in Payloads : Orientation(c, p)
    BY <2>5 DEF Orientation, Entry
  <2>6. CASE LeaveLoop(c)
    BY <2>6 DEF LeaveLoop
  <2>7. QED
    BY <1>2, <2>1, <2>2, <2>3, <2>4, <2>5, <2>6 DEF ClientStep
<1>3. CASE JanitorStep
  <2>1. CASE CollectIdle
    BY <2>1 DEF CollectIdle
  <2>2. ASSUME NEW c \in Conns, ConfirmExpire(c) \/ ConfirmSkip(c)
        PROVE  CreatedIsFresh'
    BY <2>2 DEF ConfirmExpire, ConfirmSkip, Idle
  <2>3. CASE FinishSweep
    BY <2>3 DEF FinishSweep
  <2>4. QED
    BY <1>3, <2>1, <2>2, <2>3 DEF JanitorStep
<1>4. CASE Tick \/ UNCHANGED vars
  BY <1>4 DEF Tick, Busy, vars
<1>5. QED
  BY <1>1, <1>2, <1>3, <1>4 DEF Next

-----------------------------------------------------------------------------
(* ConnectionsGaugeAccounts *)

\* The connections the gauge counts.
Live == {c \in Conns : pc[c] \in Established \cup {"leaked"}}

LEMMA ConnectionsGaugeStep ==
    ASSUME Shape, ConnectionsGaugeAccounts, [Next]_vars
    PROVE  ConnectionsGaugeAccounts'
<1> USE DEF Established, GoTo
<1>1. connGauge = Cardinality(Live)
  BY DEF ConnectionsGaugeAccounts, Live
<1>2. SUFFICES connGauge' = Cardinality(Live')
  BY DEF ConnectionsGaugeAccounts, Live
<1>3. Live \in SUBSET Conns /\ Live' \in SUBSET Conns
  BY DEF Live
<1>4. Cardinality(Live) \in Nat /\ Cardinality(Live') \in Nat
  BY <1>3, SubsetsAreFinite
<1>5. ASSUME NEW c \in Conns, Upgrade(c)
      PROVE  connGauge' = Cardinality(Live')
  <2>1. c \notin Live /\ Live' = Live \cup {c}
    BY <1>5 DEF Upgrade, Live, Shape
  <2>2. QED
    BY <1>1, <1>3, <1>5, <2>1, OneMore DEF Upgrade
<1>6. ASSUME NEW c \in Conns, HangUp(c)
      PROVE  connGauge' = Cardinality(Live')
  <2>1. c \notin Live' /\ Live = Live' \cup {c}
    BY <1>6 DEF HangUp, Live, Shape
  <2>2. Cardinality(Live) = Cardinality(Live') + 1
    BY <1>3, <2>1, OneMore
  <2>3. QED
    BY <1>1, <1>4, <1>6, <2>2 DEF HangUp
<1>7. SUFFICES ASSUME Live' = Live, connGauge' = connGauge
               PROVE  connGauge' = Cardinality(Live')
  <2> SUFFICES ASSUME \A c \in Conns : ~Upgrade(c) /\ ~HangUp(c)
               PROVE  Live' = Live /\ connGauge' = connGauge
    BY <1>5, <1>6
  <2> USE DEF Live, Shape, connVars, tableVars, gaugeVars, janitorVars
  <2>1. ASSUME NEW c \in Conns, HandlerStep(c)
        PROVE  Live' = Live /\ connGauge' = connGauge
    <3>1. CASE Touch(c)
      BY <3>1 DEF Touch, Rest
    <3>2. CASE CheckCapacity(c) \/ RejectSession(c) \/ CountSession(c)
      BY <3>2 DEF CheckCapacity, RejectSession, CountSession, Rest
    <3>3. CASE RemoveOnDisconnect(c) \/ UncountSession(c)
      BY <3>3 DEF RemoveOnDisconnect, UncountSession
    <3>4. QED
      BY <2>1, <3>1, <3>2, <3>3 DEF HandlerStep
  <2>2. ASSUME NEW c \in Conns, ClientStep(c)
        PROVE  Live' = Live /\ connGauge' = connGauge
    <3>1. CASE Accept(c) \/ UpgradeFails(c)
      BY <3>1 DEF Accept, UpgradeFails
    <3>2. CASE HandshakeRefused(c) \/ HelloAck(c) \/ HelloAckFails(c)
      BY <3>2 DEF HandshakeRefused, HelloAck, HelloAckFails
    <3>3. CASE Hello(c) \/ Heartbeat(c)
      BY <3>3 DEF Hello, Heartbeat, Entry
    <3>4. CASE \E p \in Payloads : Orientation(c, p)
      BY <3>4 DEF Orientation, Entry
    <3>5. CASE LeaveLoop(c)
      BY <3>5 DEF LeaveLoop
    <3>6. QED
      BY <2>2, <3>1, <3>2, <3>3, <3>4, <3>5 DEF ClientStep
  <2>3. CASE JanitorStep
    BY <2>3 DEF JanitorStep, CollectIdle, ConfirmExpire, ConfirmSkip, FinishSweep
  <2>4. CASE Tick \/ UNCHANGED vars
    BY <2>4 DEF Tick, vars
  <2>5. QED
    BY <2>1, <2>2, <2>3, <2>4 DEF Next
<1>8. QED
  BY <1>1, <1>7

-----------------------------------------------------------------------------
(* SessionsGaugeAccounts *)

\* Sessions the gauge counts, and removals it has still to hear of.
Counted == tracked \ Uncounted
Owed == {c \in Conns : pc[c] = "uncount"}

\* Inserting a session, or finding it there, leaves the counted ones alone.
LEMMA EntryCounts ==
    ASSUME Shape, CreatedIsFresh, NEW c \in Conns, NEW k, NEW p,
           pc[c] \in {"hello", "active"}, Entry(c, k, p)
    PROVE  UNCHANGED <<Counted, Owed, sessGauge, expired>>
<1> USE DEF Shape, Entry, GoTo
<1>1. ~created[c] /\ c \notin Uncounted
  BY DEF CreatedIsFresh, Uncounted
<1>2. pc' = [pc EXCEPT ![c] = "touch"] /\ created' = [created EXCEPT ![c] = c \notin tracked]
  OBVIOUS
<1>3. CASE c \in tracked
  <2>1. Uncounted' = Uncounted
    BY <1>1, <1>2, <1>3 DEF Uncounted
  <2>2. QED
    BY <1>2, <1>3, <2>1 DEF Counted, Owed, gaugeVars, janitorVars
<1>4. CASE c \notin tracked
  <2>1. created'[c] = TRUE
    BY <1>2, <1>4
  <2>2. Uncounted' = Uncounted \cup {c}
    BY <1>1, <1>2, <2>1 DEF Uncounted
  <2>3. QED
    BY <1>2, <1>4, <2>2 DEF Counted, Owed, gaugeVars, janitorVars
<1>5. QED
  BY <1>3, <1>4

LEMMA SessionsGaugeStep ==
    ASSUME Shape, CreatedIsFresh, SessionsGaugeAccounts, [Next]_vars, Shape'
    PROVE  SessionsGaugeAccounts'
<1> DEFINE Balanced == sessGauge = Cardinality(Counted) + Cardinality(Owed) + expired
<1> USE DEF GoTo
<1>1. Balanced /\ (SessionsGaugeAccounts' <=> Balanced')
  BY DEF SessionsGaugeAccounts, Counted, Owed
<1>2. /\ Counted \in SUBSET Conns /\ Counted' \in SUBSET Conns
      /\ Owed \in SUBSET Conns /\ Owed' \in SUBSET Conns
  BY DEF Counted, Owed, Shape
<1>3. /\ Cardinality(Counted) \in Nat /\ Cardinality(Counted') \in Nat
      /\ Cardinality(Owed) \in Nat /\ Cardinality(Owed') \in Nat
      /\ expired \in Nat /\ expired' \in Nat
  BY <1>2, SubsetsAreFinite DEF Shape
<1>4. ASSUME NEW c \in Conns, CountSession(c)
      PROVE  Balanced'
  <2>1. c \notin Counted /\ Counted' = Counted \cup {c} /\ Owed' = Owed
    BY <1>4 DEF CountSession, Rest, Counted, Owed, Uncounted, Shape,
                CreatedIsFresh, tableVars
  <2>2. Cardinality(Counted') = Cardinality(Counted) + 1
    BY <1>2, <2>1, OneMore
  <2>3. QED
    BY <1>1, <1>3, <1>4, <2>1, <2>2 DEF CountSession, janitorVars
<1>5. ASSUME NEW c \in Conns, RemoveOnDisconnect(c), c \in tracked
      PROVE  Balanced'
  <2>1. /\ c \notin Counted' /\ Counted = Counted' \cup {c}
        /\ c \notin Owed /\ Owed' = Owed \cup {c}
    BY <1>5 DEF RemoveOnDisconnect, Counted, Owed, Uncounted, Shape
  <2>2. /\ Cardinality(Counted) = Cardinality(Counted') + 1
        /\ Cardinality(Owed') = Cardinality(Owed) + 1
    BY <1>2, <2>1, OneMore
  <2>3. QED
    BY <1>1, <1>3, <1>5, <2>2 DEF RemoveOnDisconnect, gaugeVars, janitorVars
<1>6. ASSUME NEW c \in Conns, UncountSession(c)
      PROVE  Balanced'
  <2>1. c \notin Owed' /\ Owed = Owed' \cup {c} /\ Counted' = Counted
    BY <1>6 DEF UncountSession, Counted, Owed, Uncounted, Shape, tableVars
  <2>2. Cardinality(Owed) = Cardinality(Owed') + 1
    BY <1>2, <2>1, OneMore
  <2>3. QED
    BY <1>1, <1>3, <1>6, <2>1, <2>2 DEF UncountSession, janitorVars
<1>7. ASSUME NEW c \in Conns, ConfirmExpire(c), Idle(c)
      PROVE  Balanced'
  <2>1. c \notin Uncounted
    BY <1>7, NodeAssumption DEF Idle, Uncounted, CreatedIsFresh, Shape
  <2>2. /\ c \notin Counted' /\ Counted = Counted' \cup {c}
        /\ Owed' = Owed
    BY <1>7, <2>1 DEF ConfirmExpire, Idle, Counted, Owed, Uncounted, connVars
  <2>3. Cardinality(Counted) = Cardinality(Counted') + 1
    BY <1>2, <2>2, OneMore
  <2>4. QED
    BY <1>1, <1>3, <1>7, <2>2, <2>3 DEF ConfirmExpire, gaugeVars
<1>8. ASSUME FinishSweep
      PROVE  Balanced'
  <2>1. Counted' = Counted /\ Owed' = Owed
    BY <1>8 DEF FinishSweep, Counted, Owed, Uncounted, connVars, tableVars
  <2>2. QED
    BY <1>1, <1>3, <1>8, <2>1 DEF FinishSweep
<1>9. SUFFICES ASSUME /\ \A c \in Conns : /\ ~CountSession(c)
                                         /\ ~(RemoveOnDisconnect(c) /\ c \in tracked)
                                         /\ ~UncountSession(c)
                                         /\ ~(ConfirmExpire(c) /\ Idle(c))
                      /\ ~FinishSweep
               PROVE  UNCHANGED <<Counted, Owed, sessGauge, expired>>
  BY <1>1, <1>4, <1>5, <1>6, <1>7, <1>8
<1> USE DEF Counted, Owed, Uncounted, Shape, CreatedIsFresh, connVars,
            tableVars, gaugeVars, janitorVars
<1> HIDE DEF Balanced
<1>10. ASSUME NEW c \in Conns, HandlerStep(c)
       PROVE  UNCHANGED <<Counted, Owed, sessGauge, expired>>
  <2>1. CASE Touch(c)
    BY <2>1 DEF Touch, Rest
  <2>2. CASE CheckCapacity(c)
    BY <2>2 DEF CheckCapacity
  <2>3. CASE RejectSession(c)
    <3>1. pc[c] = "over" /\ created[c] = TRUE /\ c \in Uncounted
      BY <2>3 DEF RejectSession
    <3>2. Uncounted' = Uncounted \ {c}
      BY <2>3, <3>1 DEF RejectSession, Rest
    <3>3. Owed' = Owed
      BY <2>3, <3>1 DEF RejectSession, Rest
    <3>4. QED
      BY <2>3, <3>1, <3>2, <3>3 DEF RejectSession
  <2>4. CASE RemoveOnDisconnect(c)
    <3>1. c \notin tracked
      BY <1>9, <2>4
    <3>2. pc[c] = "closing" /\ pc' = [pc EXCEPT ![c] = "hangup"] /\ tracked' = tracked
      BY <2>4, <3>1 DEF RemoveOnDisconnect
    <3>3. QED
      BY <2>4, <3>2 DEF RemoveOnDisconnect
  <2>5. CASE HangUp(c)
    BY <2>5 DEF HangUp
  <2>6. QED
    BY <1>9, <1>10, <2>1, <2>2, <2>3, <2>4, <2>5 DEF HandlerStep
<1>11. ASSUME NEW c \in Conns, ClientStep(c)
       PROVE  UNCHANGED <<Counted, Owed, sessGauge, expired>>
  <2>1. CASE Accept(c) \/ Upgrade(c) \/ UpgradeFails(c)
    BY <2>1 DEF Accept, Upgrade, UpgradeFails
  <2>2. CASE HandshakeRefused(c) \/ HelloAck(c) \/ HelloAckFails(c)
    BY <2>2 DEF HandshakeRefused, HelloAck, HelloAckFails
  <2>3. CASE Hello(c)
    BY <2>3, EntryCounts DEF Hello
  <2>4. CASE Heartbeat(c)
    BY <2>4, EntryCounts DEF Heartbeat
  <2>5. CASE \E p \in Payloads : Orientation(c, p)
    BY <2>5, EntryCounts DEF Orientation
  <2>6. CASE LeaveLoop(c)
    BY <2>6 DEF LeaveLoop
  <2>7. QED
    BY <1>11, <2>1, <2>2, <2>3, <2>4, <2>5, <2>6 DEF ClientStep
<1>12. CASE JanitorStep
  BY <1>9, <1>12 DEF JanitorStep, CollectIdle, ConfirmExpire, ConfirmSkip
<1>13. CASE Tick \/ UNCHANGED vars
  BY <1>13 DEF Tick, vars
<1>14. QED
  BY <1>10, <1>11, <1>12, <1>13 DEF Next

-----------------------------------------------------------------------------
(* AdmittedWithinCapacity *)

\* Only a passed check admits a session, and the check counts every session
\* that is in the table by then, on trial or not.
LEMMA CapacityStep ==
    ASSUME Shape, CreatedIsFresh, AdmittedWithinCapacity, [Next]_vars, Shape'
    PROVE  AdmittedWithinCapacity'
<1> DEFINE Admitted == tracked \ OnTrial
<1> USE DEF GoTo
<1>1. Admitted \in SUBSET Conns /\ Admitted' \in SUBSET Conns /\ tracked \in SUBSET Conns
  BY DEF Shape
<1>2. /\ Cardinality(Admitted) \in Nat /\ Cardinality(Admitted') \in Nat
      /\ Cardinality(tracked) \in Nat /\ MaxSessions \in Nat
  BY <1>1, SubsetsAreFinite, NodeAssumption
<1>3. ASSUME NEW c \in Conns, CheckCapacity(c)
      PROVE  AdmittedWithinCapacity'
  <2>1. CASE Cardinality(tracked) > MaxSessions
    <3>1. Admitted' = Admitted
      BY <1>3, <2>1 DEF CheckCapacity, OnTrial, Shape, tableVars
    <3>2. QED
      BY <3>1 DEF AdmittedWithinCapacity
  <2>2. CASE ~(Cardinality(tracked) > MaxSessions)
    <3>1. Admitted' \in SUBSET tracked
      BY <1>3 DEF CheckCapacity, tableVars
    <3>2. QED
      BY <1>1, <1>2, <2>2, <3>1, FewerOrEqual DEF AdmittedWithinCapacity
  <2>3. QED
    BY <2>1, <2>2
<1>4. SUFFICES ASSUME \A c \in Conns : ~CheckCapacity(c)
               PROVE  Admitted' \subseteq Admitted
  BY <1>1, <1>2, <1>3, FewerOrEqual DEF AdmittedWithinCapacity
<1> USE DEF OnTrial, Shape, CreatedIsFresh, connVars, tableVars, gaugeVars,
            janitorVars
<1>5. ASSUME NEW c \in Conns, HandlerStep(c)
      PROVE  Admitted' \subseteq Admitted
  <2>1. CASE Touch(c)
    BY <2>1 DEF Touch, Rest
  <2>2. CASE RejectSession(c)
    BY <2>2 DEF RejectSession, Rest
  <2>3. CASE CountSession(c)
    BY <2>3 DEF CountSession, Rest
  <2>4. CASE RemoveOnDisconnect(c) \/ UncountSession(c) \/ HangUp(c)
    BY <2>4 DEF RemoveOnDisconnect, UncountSession, HangUp
  <2>5. QED
    BY <1>4, <1>5, <2>1, <2>2, <2>3, <2>4 DEF HandlerStep
<1>6. ASSUME NEW c \in Conns, NEW k, NEW p, pc[c] \in {"hello", "active"},
             Entry(c, k, p)
      PROVE  Admitted' \subseteq Admitted
  <2>1. pc' = [pc EXCEPT ![c] = "touch"] /\ created' = [created EXCEPT ![c] = c \notin tracked]
    BY <1>6 DEF Entry
  <2>2. OnTrial \subseteq OnTrial'
    BY <1>6, <2>1
  <2>3. CASE c \in tracked
    BY <1>6, <2>2, <2>3 DEF Entry
  <2>4. CASE c \notin tracked
    <3>1. created'[c] = TRUE /\ c \in OnTrial'
      BY <2>1, <2>4
    <3>2. QED
      BY <1>6, <2>2, <3>1 DEF Entry
  <2>5. QED
    BY <2>3, <2>4
<1>7. ASSUME NEW c \in Conns, ClientStep(c)
      PROVE  Admitted' \subseteq Admitted
  <2>1. CASE Accept(c) \/ Upgrade(c) \/ UpgradeFails(c)
    BY <2>1 DEF Accept, Upgrade, UpgradeFails
  <2>2. CASE HandshakeRefused(c) \/ HelloAck(c) \/ HelloAckFails(c)
    BY <2>2 DEF HandshakeRefused, HelloAck, HelloAckFails
  <2>3. CASE Hello(c) \/ Heartbeat(c) \/ \E p \in Payloads : Orientation(c, p)
    BY <1>6, <2>3 DEF Hello, Heartbeat, Orientation
  <2>4. CASE LeaveLoop(c)
    BY <2>4 DEF LeaveLoop
  <2>5. QED
    BY <1>7, <2>1, <2>2, <2>3, <2>4 DEF ClientStep
<1>8. CASE JanitorStep
  BY <1>8 DEF JanitorStep, CollectIdle, ConfirmExpire, ConfirmSkip, FinishSweep
<1>9. CASE Tick \/ UNCHANGED vars
  BY <1>9 DEF Tick, vars
<1>10. QED
  BY <1>5, <1>7, <1>8, <1>9 DEF Next

-----------------------------------------------------------------------------
(* OrientationIsLast *)

LEMMA OrientationStep ==
    ASSUME Shape, OrientationIsLast, [Next]_vars
    PROVE  OrientationIsLast'
<1> USE DEF Shape, OrientationIsLast, connVars, tableVars, gaugeVars,
            janitorVars
<1>1. ASSUME NEW c \in Conns, HandlerStep(c)
      PROVE  OrientationIsLast'
  <2>1. CASE Touch(c)
    BY <2>1 DEF Touch
  <2>2. CASE CheckCapacity(c) \/ RejectSession(c) \/ CountSession(c)
    BY <2>2 DEF CheckCapacity, RejectSession, CountSession
  <2>3. CASE RemoveOnDisconnect(c) \/ UncountSession(c) \/ HangUp(c)
    BY <2>3 DEF RemoveOnDisconnect, UncountSession, HangUp
  <2>4. QED
    BY <1>1, <2>1, <2>2, <2>3 DEF HandlerStep
<1>2. ASSUME NEW c \in Conns, ClientStep(c)
      PROVE  OrientationIsLast'
  <2>1. CASE Accept(c) \/ Upgrade(c) \/ UpgradeFails(c)
    BY <2>1 DEF Accept, Upgrade, UpgradeFails
  <2>2. CASE HandshakeRefused(c) \/ HelloAck(c) \/ HelloAckFails(c)
    BY <2>2 DEF HandshakeRefused, HelloAck, HelloAckFails
  <2>3. CASE Hello(c) \/ Heartbeat(c) \/ \E p \in Payloads : Orientation(c, p)
    BY <2>3 DEF Hello, Heartbeat, Orientation, Entry
  <2>4. CASE LeaveLoop(c)
    BY <2>4 DEF LeaveLoop
  <2>5. QED
    BY <1>2, <2>1, <2>2, <2>3, <2>4 DEF ClientStep
<1>3. CASE JanitorStep
  BY <1>3 DEF JanitorStep, CollectIdle, ConfirmExpire, ConfirmSkip, FinishSweep
<1>4. CASE Tick \/ UNCHANGED vars
  BY <1>4 DEF Tick, vars
<1>5. QED
  BY <1>1, <1>2, <1>3, <1>4 DEF Next

-----------------------------------------------------------------------------
(* The invariant, and what it implies *)

LEMMA IndInvInit == Init => IndInv
<1> SUFFICES ASSUME Init PROVE IndInv
  OBVIOUS
<1> USE NodeAssumption DEF Init
<1>1. Shape /\ CreatedIsFresh /\ OrientationIsLast
  BY ShapeInit DEF CreatedIsFresh, OrientationIsLast
<1>2. /\ tracked \ Uncounted = {} /\ tracked \ OnTrial = {}
      /\ {c \in Conns : pc[c] = "uncount"} = {}
      /\ {c \in Conns : pc[c] \in Established \cup {"leaked"}} = {}
  BY DEF Established
<1>3. SessionsGaugeAccounts /\ AdmittedWithinCapacity /\ ConnectionsGaugeAccounts
  BY <1>2, FS_EmptySet
     DEF SessionsGaugeAccounts, AdmittedWithinCapacity, ConnectionsGaugeAccounts
<1>4. QED
  BY <1>1, <1>3 DEF IndInv

LEMMA IndInvStep == IndInv /\ [Next]_vars => IndInv'
BY ShapeStep, FreshStep, SessionsGaugeStep, CapacityStep,
   ConnectionsGaugeStep, OrientationStep DEF IndInv

LEMMA IndInvAlways == Spec => []IndInv
BY IndInvInit, IndInvStep, PTL DEF Spec

\* The state keeps its types and neither gauge ever goes negative, whatever
\* the limits and however handlers, clients and janitor interleave.
THEOREM TypeCorrect == Spec => []TypeOK
<1>1. IndInv => TypeOK
  <2> SUFFICES ASSUME IndInv PROVE TypeOK
    OBVIOUS
  <2>1. connGauge \in Nat
    BY SubsetsAreFinite DEF IndInv, ConnectionsGaugeAccounts
  <2>2. sessGauge \in Nat
    <3>1. /\ tracked \ Uncounted \in SUBSET Conns
          /\ {c \in Conns : pc[c] = "uncount"} \in SUBSET Conns
      BY DEF IndInv, Shape
    <3>2. QED
      BY <3>1, SubsetsAreFinite DEF IndInv, Shape, SessionsGaugeAccounts
  <2>3. QED
    BY <2>1, <2>2 DEF IndInv, Shape, TypeOK
<1>2. QED
  BY <1>1, IndInvAlways, PTL

\* ltp_sessions_total accounts for the session table: handlers, teardown,
\* capacity rollback and janitor never count a session twice or lose one.
THEOREM SessionsGaugeCorrect == Spec => []SessionsGaugeAccounts
BY IndInvAlways, PTL DEF IndInv

\* Insert-then-check never admits more than LTP_NODE_MAX_SESSIONS sessions.
THEOREM CapacityCorrect == Spec => []AdmittedWithinCapacity
BY IndInvAlways, PTL DEF IndInv

\* ltp_ws_connections_current never counts fewer connections than there are,
\* and counts them exactly as long as no hello_ack has failed, for any number
\* of connections.
THEOREM ConnectionsGaugeCorrect == Spec => []ConnectionsNeverUndercounted
<1>1. IndInv => ConnectionsNeverUndercounted
  <2> SUFFICES ASSUME IndInv PROVE ConnectionsNeverUndercounted
    OBVIOUS
  <2> DEFINE Gauged == {c \in Conns : pc[c] \in Established \cup {"leaked"}}
  <2>1. Gauged \in SUBSET Conns /\ Upgraded \in SUBSET Gauged
    BY DEF Upgraded
  <2>2. IsFiniteSet(Gauged)
    BY <2>1, SubsetsAreFinite
  <2>3. Cardinality(Upgraded) <= Cardinality(Gauged)
    BY <2>1, <2>2, FS_Subset
  <2>4. (\A c \in Conns : pc[c] # "leaked") => Gauged = Upgraded
    BY DEF Upgraded
  <2>5. connGauge = Cardinality(Gauged)
    BY DEF IndInv, ConnectionsGaugeAccounts
  <2>6. Cardinality(Gauged) \in Nat /\ Cardinality(Upgraded) \in Nat
    BY <2>1, <2>2, SubsetsAreFinite
  <2> HIDE DEF Gauged
  <2> QED
    BY <2>3, <2>4, <2>5, <2>6 DEF ConnectionsNeverUndercounted
<1>2. QED
  BY <1>1, IndInvAlways, PTL

\* No route_suggestion follows an orientation the client has since replaced.
THEOREM RouteCorrect == Spec => []RouteNeverStale
<1>1. IndInv => RouteNeverStale
  BY DEF IndInv, OrientationIsLast, RouteNeverStale, SuggestedSector
<1>2. QED
  BY <1>1, IndInvAlways, PTL
=============================================================================
