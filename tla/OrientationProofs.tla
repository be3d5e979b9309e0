-------------------------- MODULE OrientationProofs --------------------------
(***************************************************************************)
(* Proofs about Orientation and TemporalOrientation, for any threads,      *)
(* levels, sectors, number of frames, events and batches.  Every theorem   *)
(* is about TemporalSpec, in which all the parts move.                     *)
(***************************************************************************)
EXTENDS TemporalOrientation, WellFoundedInduction, FiniteSetTheorems, TLAPS

allVars == <<orientationVars, weaveVars>>
Step == (OrientationNext /\ UNCHANGED weaveVars) \/ WeaveNext

-----------------------------------------------------------------------------
(* Threads *)

Phases == {"birth", "active", "weakening", "switching", "archived"}
ThreadRecords == [id : Nat, parent : Nat, scope : STRING, tags : SUBSET STRING,
                  phase : Phases, energy : Int, resonance : Int]

EnergyBacks(t) ==
    /\ t.phase = "active" => t.energy \in 15 .. 100
    /\ t.phase = "weakening" => t.energy \in 5 .. 100
    /\ t.phase = "switching" => t.energy \in 10 .. 100
    /\ t.phase = "archived" => t.energy = 0

\* The threads that energy backs, whatever it takes to get there.
Backed == {t \in ThreadRecords : EnergyBacks(t)}

ThreadsOK == threads \in Seq(Backed)

LEMMA LessHolds ==
    ASSUME NEW x \in Int, NEW y \in Int, x < y, NEW b \in Less(x, y)
    PROVE  b
<1>1. x # y /\ (x < y) = TRUE
  OBVIOUS
<1>2. b \in {TRUE}
  BY <1>1, Zenon DEF Less
<1>3. QED
  BY <1>2

LEMMA LivePhaseIs ==
    ASSUME NEW t, t.phase \in Phases, NEW e, NEW weak, NEW stronger,
           NEW to, to = LivePhase(t, e, weak, stronger)
    PROVE  /\ to \in Phases
           /\ to = "switching" => t.phase \in {"weakening", "switching"}
           /\ to = "weakening" => t.phase \in {"active", "weakening"}
           /\ to = "birth" => t.phase = "birth"
           /\ to = "archived" => t.phase = "archived"
BY DEF LivePhase, Phases, IsActivationEvent, IsSwitchEvent

\* What an event makes of a thread.
LEMMA TransitionBacked ==
    ASSUME NEW t \in Backed, NEW e \in Events, NEW to \in ComputeNextPhase(t, e)
    PROVE  ApplyTransition(t, to) \in Backed
<1>1. t \in ThreadRecords /\ EnergyBacks(t) /\ t.energy \in Int /\ t.resonance \in Int
  BY DEF Backed, ThreadRecords
<1>2. PICK depleted \in Less(ClampLevel(t.energy), ENERGY_ARCHIVE_THRESHOLD),
           weak \in Less(ClampLevel(t.energy), ENERGY_WEAKEN_THRESHOLD),
           stronger \in Less(ClampLevel(t.resonance) + RESONANCE_SWITCH_DELTA,
                             DeriveResonanceHint(e, ClampLevel(t.resonance))) :
             to = PhaseAfter(t, e, depleted, weak, stronger)
  BY DEF ComputeNextPhase
<1>3. t.energy < 10 => depleted
  <2>1. ClampLevel(t.energy) \in Int /\ (t.energy < 10 => ClampLevel(t.energy) < 10)
    BY <1>1 DEF ClampLevel, Clamp
  <2>2. QED
    BY <1>1, <2>1, LessHolds DEF ENERGY_ARCHIVE_THRESHOLD
<1>4. \/ to = "archived"
      \/ t.energy >= 10 /\ to = LivePhase(t, e, weak, stronger)
  BY <1>1, <1>2, <1>3 DEF PhaseAfter
<1>5. /\ to \in Phases
      /\ to # "archived" => t.energy >= 10
      /\ to = "switching" => t.phase \in {"weakening", "switching"}
      /\ to = "weakening" => t.phase \in {"active", "weakening"}
      /\ to = "birth" => t.phase = "birth"
  BY <1>1, <1>4, LivePhaseIs DEF Phases, ThreadRecords
<1>6. /\ AdjustEnergyLevel(to, t.energy) \in Int
      /\ AdjustResonanceLevel(to, t.resonance) \in Int
  BY <1>1 DEF AdjustEnergyLevel, AdjustResonanceLevel, ClampLevel, Clamp
<1>7. DEFINE s == ApplyTransition(t, to)
<1>8. /\ s \in ThreadRecords
      /\ s.phase = to /\ s.energy = AdjustEnergyLevel(to, t.energy)
  BY <1>1, <1>5, <1>6 DEF ApplyTransition, ThreadRecords
<1> HIDE DEF s
<1>9. EnergyBacks(s)
  BY <1>1, <1>5, <1>8 DEF EnergyBacks, AdjustEnergyLevel, ClampLevel, Clamp, Phases
<1>10. QED
  BY <1>8, <1>9 DEF Backed, s

LEMMA ThreadsStep == ThreadsOK /\ [Step]_allVars => ThreadsOK'
<1> SUFFICES ASSUME ThreadsOK, [Step]_allVars
             PROVE  ThreadsOK'
  OBVIOUS
<1>1. ASSUME NEW v \in Vectors, RegisterNewThread(v)
      PROVE  ThreadsOK'
  <2>1. v \in Backed
    BY OrientationAssumption DEF Backed, ThreadRecords, Phases, EnergyBacks
  <2>2. QED
    BY <1>1, <2>1 DEF RegisterNewThread, ThreadsOK
<1>2. ASSUME NEW id, NEW e \in Events, UpdateThreadFromEvent(id, e)
      PROVE  ThreadsOK'
  <2>1. PICK k \in DOMAIN threads : \E to \in ComputeNextPhase(threads[k], e) :
                threads' = [threads EXCEPT ![k] = ApplyTransition(@, to)]
    BY <1>2 DEF UpdateThreadFromEvent
  <2>2. PICK to \in ComputeNextPhase(threads[k], e) :
                threads' = [threads EXCEPT ![k] = ApplyTransition(threads[k], to)]
    BY <2>1
  <2>3. threads[k] \in Backed
    BY DEF ThreadsOK
  <2>4. ApplyTransition(threads[k], to) \in Backed
    BY <2>3, TransitionBacked
  <2>5. QED
    BY <2>2, <2>4 DEF ThreadsOK
<1>3. CASE UNCHANGED threads
  BY <1>3 DEF ThreadsOK
<1>4. CASE OrientationNext
  <2>1. CASE SectorNext \/ TurtleNext \/ BuildConsciousnessWeb
    BY <1>3, <2>1 DEF SectorNext, UpdateActiveSector, ApplyWebUpdates, TurtleNext, RotateByStep,
                      RotateTurtleMatrix, BuildConsciousnessWeb
  <2>2. QED
    BY <1>1, <1>2, <1>4, <2>1 DEF OrientationNext
<1>5. CASE WeaveNext
  BY <1>3, <1>5 DEF WeaveNext, orientationVars
<1>6. CASE UNCHANGED allVars
  BY <1>3, <1>6 DEF allVars, orientationVars
<1>7. QED
  BY <1>4, <1>5, <1>6 DEF Step

\* Whatever events come, in whatever order, the phase of a thread is backed by
\* its energy (computeNextPhase looks at the level before the event,
\* applyTransition changes it after): for threads that start with any level.
THEOREM PhaseBacked == TemporalSpec => []PhaseNeedsEnergy
<1>1. OrientationInit => ThreadsOK
  BY DEF OrientationInit, ThreadsOK
<1>2. ThreadsOK /\ [Step]_allVars => ThreadsOK'
  BY ThreadsStep
<1>3. ThreadsOK => PhaseNeedsEnergy
  BY DEF ThreadsOK, Backed, EnergyBacks, PhaseNeedsEnergy
<1>4. QED
  BY <1>1, <1>2, <1>3, PTL DEF TemporalSpec, Step, allVars

-----------------------------------------------------------------------------
(* The ring *)

TurtleOK ==
    /\ turtle \in [current : TURTLE_FRAMES, previous : TURTLE_FRAMES \cup {NoFrame},
                   angle : 0 .. 359, index : TURTLE_FRAMES]
    /\ AngleMatchesFrame

\* A frame of the ring stands at an angle below the full turn.
LEMMA FrameAngle ==
    ASSUME NEW f \in TURTLE_FRAMES
    PROVE  /\ 360 \div FrameCount \in Nat
           /\ f * (360 \div FrameCount) \in 0 .. 359
<1> DEFINE d == 360 \div FrameCount
<1>1. FrameCount \in Nat \ {0} /\ d \in Nat
  BY OrientationAssumption
<1>2. 360 = FrameCount * d + (360 % FrameCount)
  BY <1>1
<1>3. FrameCount * d = 360 /\ d > 0
  BY <1>1, <1>2, OrientationAssumption
<1>4. f \in 0 .. FrameCount - 1
  BY DEF TURTLE_FRAMES
<1> HIDE DEF d
<1>5. f * d + d <= FrameCount * d
  <2>1. (f + 1) * d <= FrameCount * d
    BY <1>1, <1>3, <1>4
  <2>2. QED
    BY <1>1, <1>4, <2>1
<1>6. f * d >= 0
  BY <1>1, <1>4
<1>7. f * d \in Int
  BY <1>1, <1>4
<1>8. f * d <= 359
  BY <1>1, <1>3, <1>5, <1>7
<1>9. QED
  BY <1>1, <1>6, <1>7, <1>8 DEF d

LEMMA RotationLands ==
    ASSUME TurtleOK, NEW target \in TURTLE_FRAMES, target # turtle.current,
           turtle' = Rotated(turtle, target)
    PROVE  TurtleOK'
<1> DEFINE d == 360 \div FrameCount
<1>1. turtle.current \in TURTLE_FRAMES /\ turtle.angle = turtle.current * d
  BY DEF TurtleOK, AngleMatchesFrame
<1>2. d \in Nat /\ target * d \in 0 .. 359 /\ target \in Int /\ turtle.current \in Int
  BY <1>1, FrameAngle, OrientationAssumption DEF TURTLE_FRAMES
<1>3. turtle.angle + (target - turtle.current) * d = target * d
  <2> HIDE DEF d
  <2>1. QED
    BY <1>1, <1>2
<1>4. NormalizeAngle(turtle.angle + (target - turtle.current) * d) = target * d
  <2> HIDE DEF d
  <2>1. \A x \in 0 .. 359 : x % 360 = x
    OBVIOUS
  <2>2. QED
    BY <1>2, <1>3, <2>1 DEF NormalizeAngle
<1>5. turtle' = [current |-> target, previous |-> turtle.current, index |-> target,
                 angle |-> target * d]
  BY <1>4 DEF Rotated
<1> HIDE DEF d
<1>6. TurtleOK'
  BY <1>1, <1>2, <1>5 DEF TurtleOK, AngleMatchesFrame, d, TURTLE_FRAMES
<1>7. QED
  BY <1>6

LEMMA TurtleStep == TurtleOK /\ [Step]_allVars => TurtleOK'
<1> SUFFICES ASSUME TurtleOK, [Step]_allVars
             PROVE  TurtleOK'
  OBVIOUS
<1>1. CASE UNCHANGED turtle
  BY <1>1 DEF TurtleOK, AngleMatchesFrame
<1>2. ASSUME NEW target \in TURTLE_FRAMES, RotateTurtleMatrix(target)
      PROVE  TurtleOK'
  BY <1>1, <1>2, RotationLands DEF RotateTurtleMatrix
<1>3. ASSUME NEW step \in Int, RotateByStep(step)
      PROVE  TurtleOK'
  <2>1. turtle.index + step \in Int
    BY OrientationAssumption DEF TurtleOK, TURTLE_FRAMES
  <2>2. NormalizeIndex(turtle.index + step) \in TURTLE_FRAMES
    BY <2>1, OrientationAssumption DEF NormalizeIndex, TURTLE_FRAMES
  <2>3. QED
    BY <1>2, <1>3, <2>2 DEF RotateByStep
<1>4. CASE TurtleNext
  <2>1. -(FrameCount + 1) .. FrameCount + 1 \subseteq Int
    BY OrientationAssumption
  <2>2. QED
    BY <1>2, <1>3, <1>4, <2>1 DEF TurtleNext
<1>5. CASE OrientationNext
  BY <1>1, <1>4, <1>5 DEF OrientationNext, RegisterNewThread, UpdateThreadFromEvent, BuildConsciousnessWeb,
                          SectorNext, UpdateActiveSector, ApplyWebUpdates
<1>6. CASE WeaveNext
  BY <1>1, <1>6 DEF WeaveNext, orientationVars
<1>7. CASE UNCHANGED allVars
  BY <1>1, <1>7 DEF allVars, orientationVars
<1>8. QED
  BY <1>5, <1>6, <1>7 DEF Step

\* The angle of the ring, which is only ever moved by differences, is always
\* the one of the current frame: it does not drift over any sequence of
\* rotations and steps, for any number of frames that divides the turn.
THEOREM AngleStays == TemporalSpec => []AngleMatchesFrame
<1>1. OrientationInit => TurtleOK
  BY OrientationAssumption DEF OrientationInit, CreateDefaultTurtleMatrix, TurtleOK, AngleMatchesFrame,
     TURTLE_FRAMES, NoFrame
<1>2. TurtleOK /\ [Step]_allVars => TurtleOK'
  BY TurtleStep
<1>3. TurtleOK => AngleMatchesFrame
  BY DEF TurtleOK
<1>4. QED
  BY <1>1, <1>2, <1>3, PTL DEF TemporalSpec, Step, allVars

-----------------------------------------------------------------------------
(* The view, and where it sends whoever asks *)

ViewOK ==
    /\ DOMAIN web.sectors = SectorIds
    /\ DOMAIN temporal.trends = SectorIds
    /\ temporal.summary.rising = SectorsWith(temporal.trends, "rising")
    /\ temporal.summary.plateau = SectorsWith(temporal.trends, "plateau")

LEMMA LeastElement ==
    ASSUME NEW T \in SUBSET Nat, T # {}
    PROVE  \E m \in T : \A k \in T : m <= k
<1>1. PICK m \in T : \A k \in T : ~ (<<k, m>> \in OpToRel(<, Nat))
  BY WFMin, NatLessThanWellFounded
<1>2. \A k \in T : ~ (k < m)
  BY <1>1 DEF OpToRel
<1>3. QED
  BY <1>2

LEMMA ViewSettles == ViewOK => SuggestionsSettle
<1> SUFFICES ASSUME ViewOK, NEW current \in SectorIds \cup {Self}
             PROVE  \A s \in SuggestNextSector(temporal, current) :
                       /\ SuggestNextSector(temporal, s) = {}
                       /\ \E r \in PickNextSector(temporal, current) :
                             TrendOf(temporal, r) = "rising"
  BY DEF SuggestionsSettle
<1> DEFINE rising == temporal.summary.rising
           plateau == temporal.summary.plateau
<1>1. /\ rising = {s \in SectorIds : temporal.trends[s] = "rising"}
      /\ plateau = {s \in SectorIds : temporal.trends[s] = "plateau"}
  BY DEF ViewOK, SectorsWith
<1>2. \A s : TrendOf(temporal, s) = IF s \in SectorIds THEN temporal.trends[s] ELSE "unknown"
  BY DEF TrendOf, ViewOK
<1>3. rising \subseteq Nat /\ plateau \subseteq Nat
  BY <1>1, OrientationAssumption
<1> HIDE DEF rising, plateau
<1>4. ASSUME NEW s \in SuggestNextSector(temporal, current)
      PROVE  /\ SuggestNextSector(temporal, s) = {}
             /\ \E r \in PickNextSector(temporal, current) : TrendOf(temporal, r) = "rising"
  <2>1. s \in rising /\ TrendOf(temporal, current) \in {"falling", "plateau"}
    BY <1>4 DEF SuggestNextSector, rising
  <2>2. TrendOf(temporal, s) = "rising"
    BY <1>1, <1>2, <2>1
  <2>3. SuggestNextSector(temporal, s) = {}
    BY <2>2 DEF SuggestNextSector
  <2>4. current \notin rising
    BY <1>1, <1>2, <2>1
  <2>5. rising \ {current} # {} /\ rising \ {current} \subseteq Nat
    BY <1>3, <2>1, <2>4
  <2>6. PICK r \in rising \ {current} : \A q \in rising \ {current} : r <= q
    BY <2>5, LeastElement
  <2>7. r \in PickNextSector(temporal, current)
    BY <2>1, <2>5, <2>6 DEF PickNextSector, rising
  <2>8. TrendOf(temporal, r) = "rising"
    BY <1>1, <1>2, <2>6
  <2>9. QED
    BY <2>3, <2>7, <2>8
<1>5. QED
  BY <1>4

LEMMA ViewBuilt ==
    ASSUME NEW w, DOMAIN web.sectors = SectorIds,
           temporal' = BuildTemporalOrientationView(w), UNCHANGED web
    PROVE  ViewOK'
BY DEF BuildTemporalOrientationView, BuildSummary, ViewOK

LEMMA UpdateKeepsSectors ==
    ASSUME NEW sectors, DOMAIN sectors = SectorIds, NEW u
    PROVE  DOMAIN ApplyUpdate(sectors, u) = SectorIds
BY DEF ApplyUpdate

LEMMA ViewStep == ViewOK /\ [Step]_allVars => ViewOK'
<1> SUFFICES ASSUME ViewOK, [Step]_allVars
             PROVE  ViewOK'
  OBVIOUS
<1>1. CASE UNCHANGED <<web, temporal>>
  BY <1>1 DEF ViewOK
<1>2. CASE UNCHANGED temporal /\ DOMAIN web'.sectors = SectorIds
  BY <1>2 DEF ViewOK
<1>3. ASSUME NEW events, BuildViewFromWebAndAnchors(events), UNCHANGED web
      PROVE  ViewOK'
  BY <1>3, ViewBuilt DEF BuildViewFromWebAndAnchors, ViewOK
<1>4. CASE SectorNext /\ UNCHANGED temporal
  <2>1. CASE UpdateActiveSector
    <3>1. DOMAIN web'.sectors = SectorIds
      BY <2>1 DEF UpdateActiveSector, ViewOK
    <3>2. QED
      BY <1>2, <1>4, <3>1
  <2>2. ASSUME NEW u \in Updates, NEW v \in Updates, ApplyWebUpdates(u, v)
        PROVE  ViewOK'
    <3>1. web'.sectors = ApplyUpdate(ApplyUpdate(web.sectors, u), v)
      BY <2>2 DEF ApplyWebUpdates
    <3>2. DOMAIN web'.sectors = SectorIds
      BY <3>1, UpdateKeepsSectors DEF ViewOK
    <3>3. QED
      BY <1>2, <1>4, <3>2
  <2>3. QED
    BY <1>4, <2>1, <2>2 DEF SectorNext
<1>5. CASE OrientationNext /\ UNCHANGED weaveVars
  BY <1>1, <1>4, <1>5 DEF OrientationNext, RegisterNewThread, UpdateThreadFromEvent, BuildConsciousnessWeb,
                          TurtleNext, RotateTurtleMatrix, RotateByStep, weaveVars
<1>6. CASE WeaveNext
  BY <1>1, <1>3, <1>6 DEF WeaveNext, orientationVars, AnchorEventToWeave, ComputeTimeWeaveSummary
<1>7. CASE UNCHANGED allVars
  BY <1>1, <1>7 DEF allVars, orientationVars, weaveVars
<1>8. QED
  BY <1>5, <1>6, <1>7 DEF Step

\* Who follows suggestNextSector arrives at a sector it does not send on from,
\* with the same view however old, and pickNextSector then sends to a rising
\* sector too: for any sectors, and any weave the view may have been built over.
THEOREM ViewsSettle == TemporalSpec => []SuggestionsSettle
<1>1. OrientationInit /\ WeaveInit => ViewOK
  BY DEF OrientationInit, WeaveInit, ViewOK, CreateOrientationWeb, BuildTemporalOrientationView, BuildSummary
<1>2. ViewOK /\ [Step]_allVars => ViewOK'
  BY ViewStep
<1>3. ViewOK => SuggestionsSettle
  BY ViewSettles
<1>4. QED
  BY <1>1, <1>2, <1>3, PTL DEF TemporalSpec, Step, allVars

-----------------------------------------------------------------------------
(* Loops: a set that has 0, and with every number its successor, up to n *)

LEMMA Loop ==
    ASSUME NEW n \in Nat, NEW S, 0 \in S, \A k \in 0 .. n - 1 : k \in S => k + 1 \in S
    PROVE  \A k \in 0 .. n : k \in S
<1> SUFFICES ASSUME NEW j \in 0 .. n, j \notin S PROVE FALSE
  OBVIOUS
<1>1. PICK m \in {k \in 0 .. n : k \notin S} : \A k \in {k \in 0 .. n : k \notin S} : m <= k
  <2>1. {k \in 0 .. n : k \notin S} \in SUBSET Nat /\ {k \in 0 .. n : k \notin S} # {}
    OBVIOUS
  <2>2. QED
    BY <2>1, LeastElement
<1>2. m # 0 /\ m \in 0 .. n
  BY <1>1
<1>3. m - 1 \in 0 .. n - 1 /\ m - 1 \in S
  BY <1>1, <1>2
<1>4. QED
  BY <1>1, <1>2, <1>3

\* The sums of a list satisfy the equation that defines them.
LEMMA SumsAre ==
    ASSUME NEW f, Len(f) \in Nat
    PROVE  Sums(f) = [k \in 0 .. Len(f) |-> IF k = 0 THEN 0 ELSE Sums(f)[k - 1] + f[k]]
<1> DEFINE IsSum(g, n) == g = [k \in 0 .. n |-> IF k = 0 THEN 0 ELSE g[k - 1] + f[k]]
           S == {n \in Nat : \E g : IsSum(g, n)}
<1>1. 0 \in S
  <2>1. IsSum([k \in 0 .. 0 |-> 0], 0)
    OBVIOUS
  <2>2. QED
    BY <2>1
<1>2. ASSUME NEW n \in 0 .. Len(f) - 1, n \in S
      PROVE  n + 1 \in S
  <2>1. PICK g : IsSum(g, n)
    BY <1>2
  <2> DEFINE h == [k \in 0 .. n + 1 |-> IF k = n + 1 THEN g[n] + f[n + 1] ELSE g[k]]
  <2>2. \A k \in 0 .. n + 1 : h[k] = IF k = 0 THEN 0 ELSE h[k - 1] + f[k]
    <3> SUFFICES ASSUME NEW k \in 0 .. n + 1
                 PROVE  h[k] = IF k = 0 THEN 0 ELSE h[k - 1] + f[k]
      OBVIOUS
    <3>1. CASE k = n + 1
      BY <3>1
    <3>2. CASE k \in 0 .. n
      <4>1. h[k] = g[k] /\ (k # 0 => k - 1 \in 0 .. n /\ h[k - 1] = g[k - 1])
        BY <3>2
      <4>2. g[k] = IF k = 0 THEN 0 ELSE g[k - 1] + f[k]
        BY <2>1, <3>2
      <4>3. QED
        BY <4>1, <4>2
    <3>3. QED
      BY <3>1, <3>2
  <2>3. h = [k \in 0 .. n + 1 |-> h[k]]
    OBVIOUS
  <2> HIDE DEF h
  <2>4. IsSum(h, n + 1)
    BY <2>2, <2>3
  <2>5. QED
    BY <2>4
<1>3. Len(f) \in S
  <2> HIDE DEF S
  <2>1. \A k \in 0 .. Len(f) : k \in S
    BY <1>1, <1>2, Loop
  <2>2. QED
    BY <2>1
<1>4. PICK g : IsSum(g, Len(f))
  BY <1>3
<1>5. Sums(f) = CHOOSE sum : IsSum(sum, Len(f))
  BY DEF Sums
<1>6. IsSum(Sums(f), Len(f))
  <2> HIDE DEF IsSum
  <2>1. QED
    BY <1>4, <1>5
<1>7. QED
  BY <1>6

\* The weaves on the way through the first n events of a batch.
WovenTo(g, w, events, n) ==
    g = [k \in 0 .. n |-> IF k = 0 THEN w ELSE Anchored(g[k - 1], events[k])]

\* A batch is anchored one event after the other.
LEMMA BatchIs ==
    ASSUME NEW w, NEW events, Len(events) \in Nat
    PROVE  \E g : /\ WovenTo(g, w, events, Len(events))
                  /\ AnchorEventsBatch(w, events) = g[Len(events)]
<1> DEFINE IsWoven(g, n) == WovenTo(g, w, events, n)
           S == {n \in Nat : \E g : IsWoven(g, n)}
<1> USE DEF WovenTo
<1>1. 0 \in S
  <2>1. IsWoven([k \in 0 .. 0 |-> w], 0)
    OBVIOUS
  <2>2. QED
    BY <2>1
<1>2. ASSUME NEW n \in 0 .. Len(events) - 1, n \in S
      PROVE  n + 1 \in S
  <2>1. PICK g : IsWoven(g, n)
    BY <1>2
  <2> DEFINE h == [k \in 0 .. n + 1 |-> IF k = n + 1 THEN Anchored(g[n], events[n + 1]) ELSE g[k]]
  <2>2. \A k \in 0 .. n + 1 : h[k] = IF k = 0 THEN w ELSE Anchored(h[k - 1], events[k])
    <3> SUFFICES ASSUME NEW k \in 0 .. n + 1
                 PROVE  h[k] = IF k = 0 THEN w ELSE Anchored(h[k - 1], events[k])
      OBVIOUS
    <3>1. CASE k = n + 1
      BY <3>1
    <3>2. CASE k \in 0 .. n
      <4>1. h[k] = g[k] /\ (k # 0 => k - 1 \in 0 .. n /\ h[k - 1] = g[k - 1])
        BY <3>2
      <4>2. g[k] = IF k = 0 THEN w ELSE Anchored(g[k - 1], events[k])
        BY <2>1, <3>2
      <4>3. QED
        BY <4>1, <4>2
    <3>3. QED
      BY <3>1, <3>2
  <2>3. h = [k \in 0 .. n + 1 |-> h[k]]
    OBVIOUS
  <2> HIDE DEF h
  <2>4. IsWoven(h, n + 1)
    BY <2>2, <2>3
  <2>5. QED
    BY <2>4
<1>3. Len(events) \in S
  <2> HIDE DEF S
  <2>1. \A k \in 0 .. Len(events) : k \in S
    BY <1>1, <1>2, Loop
  <2>2. QED
    BY <2>1
<1>4. PICK g : IsWoven(g, Len(events))
  BY <1>3
<1> DEFINE chosen == CHOOSE woven : IsWoven(woven, Len(events))
<1>5. AnchorEventsBatch(w, events) = chosen[Len(events)]
  BY DEF AnchorEventsBatch
<1>6. IsWoven(chosen, Len(events))
  <2> HIDE DEF IsWoven, WovenTo
  <2>1. QED
    BY <1>4
<1> HIDE DEF chosen, WovenTo
<1>7. QED
  BY <1>5, <1>6

-----------------------------------------------------------------------------
(* Sums *)

LEMMA SumsStep ==
    ASSUME NEW f \in Seq(Nat)
    PROVE  /\ Sums(f)[0] = 0
           /\ \A k \in 1 .. Len(f) : Sums(f)[k] = Sums(f)[k - 1] + f[k]
BY SumsAre

LEMMA SumsTyped ==
    ASSUME NEW f \in Seq(Nat)
    PROVE  \A k \in 0 .. Len(f) : Sums(f)[k] \in Nat
<1> DEFINE S == {k \in 0 .. Len(f) : Sums(f)[k] \in Nat}
<1>1. Len(f) \in Nat /\ 0 \in S
  BY SumsStep
<1>2. ASSUME NEW k \in 0 .. Len(f) - 1, k \in S
      PROVE  k + 1 \in S
  <2>1. k + 1 \in 1 .. Len(f) /\ (k + 1) - 1 = k /\ f[k + 1] \in Nat
    OBVIOUS
  <2>2. QED
    BY <1>2, <2>1, SumsStep
<1> HIDE DEF S
<1>3. \A k \in 0 .. Len(f) : k \in S
  BY <1>1, <1>2, Loop
<1>4. QED
  BY <1>3 DEF S

DifferAt(f, g, n, b, d) == \A k \in 1 .. n : g[k] = IF k = b THEN f[k] + d ELSE f[k]

\* Lists that differ by d at one place have sums that differ by d from there on.
LEMMA SumsDiffer ==
    ASSUME NEW f \in Seq(Nat), NEW g \in Seq(Nat), NEW n \in 0 .. Len(f), n <= Len(g),
           NEW b \in Nat, NEW d \in Nat, DifferAt(f, g, n, b, d)
    PROVE  Sums(g)[n] = IF b \in 1 .. n THEN Sums(f)[n] + d ELSE Sums(f)[n]
<1> DEFINE Same(k) == Sums(g)[k] = IF b \in 1 .. k THEN Sums(f)[k] + d ELSE Sums(f)[k]
           S == {k \in 0 .. n : Same(k)}
<1>1. n \in Nat /\ 0 \in S
  BY SumsStep
<1>2. ASSUME NEW k \in 0 .. n - 1, k \in S
      PROVE  k + 1 \in S
  <2>1. /\ k + 1 \in 1 .. n /\ k + 1 \in 1 .. Len(f) /\ k + 1 \in 1 .. Len(g)
        /\ (k + 1) - 1 = k /\ f[k + 1] \in Nat /\ k \in 0 .. Len(f)
    OBVIOUS
  <2>2. Sums(f)[k + 1] = Sums(f)[k] + f[k + 1] /\ Sums(g)[k + 1] = Sums(g)[k] + g[k + 1]
    BY <2>1, SumsStep
  <2>3. Sums(f)[k] \in Nat
    BY <2>1, SumsTyped
  <2>4. g[k + 1] = IF k + 1 = b THEN f[k + 1] + d ELSE f[k + 1]
    BY <2>1 DEF DifferAt
  <2>5. Same(k)
    BY <1>2
  <2>6. ASSUME b \in 1 .. k PROVE Same(k + 1)
    BY <2>1, <2>2, <2>3, <2>4, <2>5, <2>6
  <2>7. ASSUME b = k + 1 PROVE Same(k + 1)
    <3>1. b \notin 1 .. k /\ b \in 1 .. k + 1
      BY <2>7
    <3>2. QED
      BY <2>1, <2>2, <2>3, <2>4, <2>5, <2>7, <3>1
  <2>8. ASSUME b \notin 1 .. k + 1 PROVE Same(k + 1)
    <3>1. b \notin 1 .. k /\ b # k + 1
      BY <2>8
    <3>2. QED
      BY <2>1, <2>2, <2>3, <2>4, <2>5, <2>8, <3>1
  <2>9. QED
    BY <2>1, <2>6, <2>7, <2>8
<1> HIDE DEF S
<1>3. \A k \in 0 .. n : k \in S
  BY <1>1, <1>2, Loop
<1>4. QED
  BY <1>1, <1>3 DEF S

\* A list of numbers that is not empty has a largest one.
LEMMA LargestElement ==
    ASSUME NEW f \in Seq(Nat), Len(f) # 0
    PROVE  \E k \in 1 .. Len(f) : \A j \in 1 .. Len(f) : f[j] <= f[k]
<1> DEFINE Has(n) == n # 0 => \E k \in 1 .. n : \A j \in 1 .. n : f[j] <= f[k]
           S == {n \in 0 .. Len(f) : Has(n)}
<1>1. Len(f) \in Nat /\ 0 \in S
  OBVIOUS
<1>2. ASSUME NEW n \in 0 .. Len(f) - 1, n \in S
      PROVE  n + 1 \in S
  <2>1. ASSUME n = 0 PROVE Has(n + 1)
    <3>1. 1 \in 1 .. n + 1 /\ \A j \in 1 .. n + 1 : j = 1
      BY <2>1
    <3>2. f[1] <= f[1]
      OBVIOUS
    <3>3. QED
      BY <3>1, <3>2
  <2>2. ASSUME n # 0 PROVE Has(n + 1)
    <3>1. PICK k \in 1 .. n : \A j \in 1 .. n : f[j] <= f[k]
      BY <1>2, <2>2
    <3>2. n + 1 \in 1 .. Len(f) /\ f[n + 1] \in Nat /\ f[k] \in Nat
      OBVIOUS
    <3>3. PICK m \in {k, n + 1} : f[k] <= f[m] /\ f[n + 1] <= f[m]
      BY <3>2
    <3>4. ASSUME NEW j \in 1 .. n + 1 PROVE f[j] <= f[m]
      <4>1. CASE j = n + 1
        BY <3>3, <4>1
      <4>2. CASE j \in 1 .. n
        BY <3>1, <3>2, <3>3, <4>2
      <4>3. QED
        BY <4>1, <4>2
    <3>5. m \in 1 .. n + 1
      BY <3>3
    <3>6. QED
      BY <3>4, <3>5
  <2>3. n + 1 \in 0 .. Len(f)
    OBVIOUS
  <2>4. Has(n + 1)
    BY <2>1, <2>2
  <2> HIDE DEF Has
  <2>5. QED
    BY <2>3, <2>4
<1> HIDE DEF S
<1>3. \A k \in 0 .. Len(f) : k \in S
  BY <1>1, <1>2, Loop
<1>4. Len(f) \in S
  BY <1>1, <1>3
<1>5. QED
  BY <1>4 DEF S

-----------------------------------------------------------------------------
(* Ranks: places in an order by tick, and by index among equal ticks *)

Ticked(f, K) == K \subseteq Nat /\ \A k \in K : f[k].tick \in Nat

LEMMA BeforeOrder ==
    ASSUME NEW f, NEW K, Ticked(f, K), NEW i \in K, NEW j \in K, NEW k \in K
    PROVE  /\ Before(f, i, j) /\ Before(f, j, k) => Before(f, i, k)
           /\ Before(f, j, k) \/ Before(f, k, j)
           /\ Before(f, j, k) /\ Before(f, k, j) => j = k
<1>1. /\ i \in Nat /\ j \in Nat /\ k \in Nat
      /\ f[i].tick \in Nat /\ f[j].tick \in Nat /\ f[k].tick \in Nat
  BY DEF Ticked
<1>2. QED
  BY <1>1 DEF Before

LEMMA RankOrder ==
    ASSUME NEW f, NEW K, IsFiniteSet(K), Ticked(f, K)
    PROVE  /\ \A k \in K : Rank(f, K, k) \in 1 .. Cardinality(K)
           /\ \A j, k \in K : Before(f, j, k) <=> Rank(f, K, j) <= Rank(f, K, k)
           /\ \A j, k \in K : Rank(f, K, j) = Rank(f, K, k) => j = k
<1> DEFINE Down(k) == {j \in K : Before(f, j, k)}
<1>1. Cardinality(K) \in Nat
  BY FS_CardinalityType
<1>2. \A k \in K : /\ IsFiniteSet(Down(k)) /\ Cardinality(Down(k)) \in Nat
                   /\ Cardinality(Down(k)) <= Cardinality(K)
                   /\ Rank(f, K, k) = Cardinality(Down(k))
  <2> SUFFICES ASSUME NEW k \in K
               PROVE  /\ IsFiniteSet(Down(k)) /\ Cardinality(Down(k)) \in Nat
                      /\ Cardinality(Down(k)) <= Cardinality(K)
                      /\ Rank(f, K, k) = Cardinality(Down(k))
    OBVIOUS
  <2>1. Down(k) \in SUBSET K
    OBVIOUS
  <2>2. Rank(f, K, k) = Cardinality(Down(k))
    BY DEF Rank
  <2> HIDE DEF Down
  <2>3. IsFiniteSet(Down(k)) /\ Cardinality(Down(k)) <= Cardinality(K)
    BY <2>1, FS_Subset
  <2>4. QED
    BY <2>2, <2>3, FS_CardinalityType
<1>3. \A k \in K : k \in Down(k)
  BY BeforeOrder
<1>4. \A k \in K : Rank(f, K, k) \in 1 .. Cardinality(K)
  <2> SUFFICES ASSUME NEW k \in K PROVE Rank(f, K, k) \in 1 .. Cardinality(K)
    OBVIOUS
  <2>1. Down(k) # {}
    BY <1>3
  <2> HIDE DEF Down
  <2>2. Cardinality(Down(k)) # 0
    BY <1>2, <2>1, FS_EmptySet
  <2>3. QED
    BY <1>1, <1>2, <2>2
<1>5. ASSUME NEW j \in K, NEW k \in K, Before(f, j, k)
      PROVE  Rank(f, K, j) <= Rank(f, K, k)
  <2>1. Down(j) \in SUBSET Down(k)
    BY <1>5, BeforeOrder
  <2> HIDE DEF Down
  <2>2. QED
    BY <1>2, <2>1, FS_Subset
<1>6. ASSUME NEW j \in K, NEW k \in K, ~ Before(f, j, k)
      PROVE  Rank(f, K, k) < Rank(f, K, j)
  <2>1. Down(k) \in SUBSET Down(j) /\ j \notin Down(k)
    BY <1>6, BeforeOrder
  <2>2. j \in Down(j)
    BY <1>3
  <2> HIDE DEF Down
  <2>3. /\ Cardinality(Down(k)) <= Cardinality(Down(j))
        /\ Cardinality(Down(j)) = Cardinality(Down(k)) => Down(j) = Down(k)
    BY <1>2, <2>1, FS_Subset
  <2>4. QED
    BY <1>2, <2>1, <2>2, <2>3
<1>7. \A j, k \in K : Before(f, j, k) <=> Rank(f, K, j) <= Rank(f, K, k)
  <2> SUFFICES ASSUME NEW j \in K, NEW k \in K
               PROVE  Before(f, j, k) <=> Rank(f, K, j) <= Rank(f, K, k)
    OBVIOUS
  <2>1. Rank(f, K, j) \in Nat /\ Rank(f, K, k) \in Nat
    BY <1>1, <1>4
  <2>2. QED
    BY <1>5, <1>6, <2>1
<1>8. ASSUME NEW j \in K, NEW k \in K, Rank(f, K, j) = Rank(f, K, k)
      PROVE  j = k
  <2>1. Rank(f, K, j) \in Nat /\ Rank(f, K, k) \in Nat
    BY <1>1, <1>4
  <2>2. Before(f, j, k) /\ Before(f, k, j)
    BY <1>7, <1>8, <2>1
  <2>3. QED
    BY <2>2, BeforeOrder
<1>9. QED
  BY <1>4, <1>7, <1>8

LEMMA RankOnto ==
    ASSUME NEW f, NEW K, IsFiniteSet(K), Ticked(f, K), NEW n \in 1 .. Cardinality(K)
    PROVE  \E k \in K : Rank(f, K, k) = n
<1> DEFINE r == [k \in K |-> Rank(f, K, k)]
           N == 1 .. Cardinality(K)
<1>1. Cardinality(K) \in Nat
  BY FS_CardinalityType
<1>2. IsFiniteSet(N) /\ Cardinality(N) = Cardinality(K)
  BY <1>1, FS_Interval
<1>3. r \in Injection(K, N)
  BY RankOrder DEF Injection, IsInjective
<1>4. r \in Surjection(K, N)
  <2> HIDE DEF r, N
  <2>1. QED
    BY <1>2, <1>3, FS_Injection
<1>5. QED
  BY <1>4 DEF Surjection

\* Sorting puts every element at its rank.
LEMMA SortPlaces ==
    ASSUME NEW X, NEW f \in Seq(X), Ticked(f, 1 .. Len(f))
    PROVE  /\ SortNodesByTick(f) \in Seq(X) /\ Len(SortNodesByTick(f)) = Len(f)
           /\ \A i \in 1 .. Len(f) : SortNodesByTick(f)[Rank(f, 1 .. Len(f), i)] = f[i]
<1> DEFINE K == 1 .. Len(f)
<1>1. IsFiniteSet(K) /\ Cardinality(K) = Len(f) /\ DOMAIN f = K /\ Ticked(f, K)
  <2>1. 1 \in Int /\ Len(f) \in Nat /\ Len(f) - 1 + 1 = Len(f) /\ (1 > Len(f) => Len(f) = 0)
    OBVIOUS
  <2>2. IsFiniteSet(K) /\ Cardinality(K) = Len(f)
    BY <2>1, FS_Interval
  <2>3. QED
    BY <2>2
<1> HIDE DEF K
<1>2. SortNodesByTick(f) = [k \in K |-> f[CHOOSE i \in K : Rank(f, K, i) = k]]
  BY <1>1 DEF SortNodesByTick
<1>3. \A k \in K : (CHOOSE i \in K : Rank(f, K, i) = k) \in K
  <2> SUFFICES ASSUME NEW k \in K PROVE (CHOOSE i \in K : Rank(f, K, i) = k) \in K
    OBVIOUS
  <2>1. \E i \in K : Rank(f, K, i) = k
    BY <1>1, RankOnto DEF K
  <2>2. QED
    BY <2>1
<1>4. \A k \in K : SortNodesByTick(f)[k] \in X
  BY <1>1, <1>2, <1>3 DEF K
<1>5. SortNodesByTick(f) \in Seq(X) /\ Len(SortNodesByTick(f)) = Len(f)
  BY <1>2, <1>4 DEF K
<1>6. ASSUME NEW i \in K PROVE SortNodesByTick(f)[Rank(f, K, i)] = f[i]
  <2>1. Rank(f, K, i) \in K
    BY <1>1, RankOrder DEF K
  <2>2. \A j \in K : Rank(f, K, j) = Rank(f, K, i) => j = i
    BY <1>1, RankOrder
  <2>3. (CHOOSE j \in K : Rank(f, K, j) = Rank(f, K, i)) = i
    BY <2>2
  <2>4. QED
    BY <1>2, <2>1, <2>3
<1>7. QED
  BY <1>5, <1>6 DEF K

\* Ranks are kept by a renaming that keeps the order.
Renames(q, f, I, g, J) ==
    /\ q \in [I -> J]
    /\ \A l \in J : \E i \in I : q[i] = l
    /\ \A i, l \in I : q[i] = q[l] => i = l
    /\ \A i, l \in I : Before(f, i, l) <=> Before(g, q[i], q[l])

LEMMA RankRenamed ==
    ASSUME NEW f, NEW I, IsFiniteSet(I), NEW g, NEW J, NEW q, Renames(q, f, I, g, J), NEW i \in I
    PROVE  Rank(f, I, i) = Rank(g, J, q[i])
<1> USE DEF Renames
<1> DEFINE S == {l \in I : Before(f, l, i)}
           T == {l \in J : Before(g, l, q[i])}
           r == [l \in S |-> q[l]]
<1>1. IsFiniteSet(S)
  BY FS_Subset
<1>2. r \in [S -> T]
  OBVIOUS
<1>3. \A l \in T : \E j \in S : r[j] = l
  <2> SUFFICES ASSUME NEW l \in T PROVE \E j \in S : r[j] = l
    OBVIOUS
  <2>1. PICK j \in I : q[j] = l
    OBVIOUS
  <2>2. j \in S
    BY <2>1
  <2>3. QED
    BY <2>1, <2>2
<1>4. \A j, l \in S : r[j] = r[l] => j = l
  OBVIOUS
<1>5. Rank(f, I, i) = Cardinality(S) /\ Rank(g, J, q[i]) = Cardinality(T)
  BY DEF Rank
<1> HIDE DEF S, T, r
<1>6. r \in Bijection(S, T)
  BY <1>2, <1>3, <1>4 DEF Bijection, Injection, Surjection, IsInjective
<1>7. QED
  BY <1>1, <1>5, <1>6, FS_Bijection DEF ExistsBijection

-----------------------------------------------------------------------------
(* The weave holds the events that have arrived *)

Nodes == [tick : Nat, intensity : Nat]
Branches == {b \in [thread : Nat, nodes : Seq(Nodes)] : b.nodes # <<>>}

\* The arrivals of a thread.
Of(a, t) == {k \in 1 .. Len(a) : ResolveThreadIdForSector(a[k]) = t}

\* WeaveInTickOrder with its types, for any weave and any arrivals.
Woven(w, a) ==
    /\ w \in Seq(Branches) /\ a \in Seq(Anchors)
    /\ \A j, k \in 1 .. Len(w) : w[j].thread = w[k].thread => j = k
    /\ \A k \in 1 .. Len(w) : Len(w[k].nodes) = Cardinality(Of(a, w[k].thread))
    /\ \A k \in 1 .. Len(a) : \E b \in 1 .. Len(w) :
          /\ w[b].thread = ResolveThreadIdForSector(a[k])
          /\ w[b].nodes[Rank(a, Of(a, w[b].thread), k)] = BuildTimeNodeFromEvent(a[k])

LEMMA EventTyped ==
    ASSUME NEW e \in Anchors
    PROVE  /\ ResolveThreadIdForSector(e) \in Nat
           /\ BuildTimeNodeFromEvent(e) \in Nodes
           /\ BuildTimeNodeFromEvent(e).tick = e.tick /\ e.tick \in Nat
BY TemporalAssumption DEF ResolveThreadIdForSector, BuildTimeNodeFromEvent, Nodes, ClampLevel, Clamp

LEMMA OfTyped ==
    ASSUME NEW a \in Seq(Anchors), NEW t
    PROVE  IsFiniteSet(Of(a, t)) /\ Ticked(a, Of(a, t)) /\ Cardinality(Of(a, t)) \in Nat
<1>1. IsFiniteSet(1 .. Len(a)) /\ Of(a, t) \in SUBSET (1 .. Len(a))
  BY FS_Interval DEF Of
<1>2. IsFiniteSet(Of(a, t))
  BY <1>1, FS_Subset
<1>3. Ticked(a, Of(a, t))
  BY <1>1, EventTyped DEF Ticked
<1>4. QED
  BY <1>2, <1>3, FS_CardinalityType

LEMMA AnchoredNew ==
    ASSUME NEW w, NEW e, NEW t, t = ResolveThreadIdForSector(e), BranchIndexes(w, t) = {}
    PROVE  Anchored(w, e) = Append(w, [thread |-> t, nodes |-> <<BuildTimeNodeFromEvent(e)>>])
BY DEF Anchored, AppendNodeToBranch, UpsertBranch

LEMMA AnchoredOld ==
    ASSUME NEW w \in Seq(Branches), NEW e, NEW b \in 1 .. Len(w),
           w[b].thread = ResolveThreadIdForSector(e),
           \A j, k \in 1 .. Len(w) : w[j].thread = w[k].thread => j = k
    PROVE  Anchored(w, e) =
             [w EXCEPT ![b] = [thread |-> w[b].thread,
                               nodes |-> SortNodesByTick(Append(w[b].nodes, BuildTimeNodeFromEvent(e)))]]
<1> DEFINE t == ResolveThreadIdForSector(e)
           branch == [thread |-> t, nodes |-> SortNodesByTick(Append(w[b].nodes, BuildTimeNodeFromEvent(e)))]
<1>1. BranchIndexes(w, t) = {b}
  BY DEF BranchIndexes
<1>2. GetBranch(w, t) = w[b]
  BY <1>1 DEF GetBranch
<1>3. Anchored(w, e) = UpsertBranch(w, branch)
  BY <1>1, <1>2 DEF Anchored, AppendNodeToBranch
<1>4. branch.thread = t
  OBVIOUS
<1> HIDE DEF branch
<1>5. UpsertBranch(w, branch) = [k \in DOMAIN w |-> IF w[k].thread = t THEN branch ELSE w[k]]
  BY <1>1, <1>4 DEF UpsertBranch
<1>6. \A k \in DOMAIN w : w[k].thread = t <=> k = b
  OBVIOUS
<1>7. QED
  BY <1>3, <1>5, <1>6 DEF branch

\* The arrivals after one more.
LEMMA OfAppended ==
    ASSUME NEW a \in Seq(Anchors), NEW e \in Anchors, NEW t
    PROVE  LET n == Len(a) + 1
           IN  /\ Append(a, e) \in Seq(Anchors) /\ Len(Append(a, e)) = n
               /\ Append(a, e)[n] = e /\ \A k \in 1 .. Len(a) : Append(a, e)[k] = a[k]
               /\ n \notin Of(a, t)
               /\ Of(Append(a, e), t) =
                    IF t = ResolveThreadIdForSector(e) THEN Of(a, t) \cup {n} ELSE Of(a, t)
<1> DEFINE n == Len(a) + 1
<1>1. /\ Append(a, e) \in Seq(Anchors) /\ Len(Append(a, e)) = n
      /\ Append(a, e)[n] = e /\ \A k \in 1 .. Len(a) : Append(a, e)[k] = a[k]
  OBVIOUS
<1>2. 1 .. n = (1 .. Len(a)) \cup {n} /\ n \notin 1 .. Len(a)
  OBVIOUS
<1> HIDE DEF n
<1>3. QED
  BY <1>1, <1>2 DEF Of, n

\* The arrivals of other threads keep their ranks.
Agree(f, g, I) == \A j \in I : g[j] = f[j]

LEMMA RankKept ==
    ASSUME NEW f, NEW g, NEW I, Agree(f, g, I), NEW i \in I
    PROVE  Rank(g, I, i) = Rank(f, I, i)
<1>1. {j \in I : Before(g, j, i)} = {j \in I : Before(f, j, i)}
  BY DEF Before, Agree
<1>2. QED
  BY <1>1 DEF Rank

\* The first event of a thread makes a branch.
LEMMA WovenNew ==
    ASSUME NEW w, NEW a, Woven(w, a), NEW e \in Anchors,
           BranchIndexes(w, ResolveThreadIdForSector(e)) = {}
    PROVE  Woven(Anchored(w, e), Append(a, e))
<1> DEFINE t == ResolveThreadIdForSector(e)
           node == BuildTimeNodeFromEvent(e)
           v == Anchored(w, e)
           c == Append(a, e)
           n == Len(a) + 1
           m == Len(w) + 1
<1>1. w \in Seq(Branches) /\ a \in Seq(Anchors) /\ t \in Nat /\ node \in Nodes
  BY EventTyped DEF Woven
<1>2. \A k \in 1 .. Len(w) : w[k].thread # t
  BY <1>1 DEF BranchIndexes
<1>3. PICK branch : branch = [thread |-> t, nodes |-> <<node>>]
  OBVIOUS
<1>4. v = Append(w, branch)
  BY <1>3, AnchoredNew
<1> HIDE DEF t, node
<1>5. branch \in Branches /\ branch.thread = t /\ branch.nodes = <<node>>
  <2>1. <<node>> \in Seq(Nodes) /\ <<node>> # <<>>
    BY <1>1
  <2>2. QED
    BY <1>1, <1>3, <2>1 DEF Branches
<1>6. \A u : Of(c, u) = IF u = t THEN Of(a, t) \cup {n} ELSE Of(a, u)
  BY <1>1, OfAppended DEF t
<1>7. /\ v \in Seq(Branches) /\ Len(v) = m /\ v[m] = branch
      /\ \A k \in 1 .. Len(w) : v[k] = w[k]
      /\ 1 .. m = (1 .. Len(w)) \cup {m} /\ m \notin 1 .. Len(w)
  BY <1>1, <1>4, <1>5
<1>8. /\ c \in Seq(Anchors) /\ Len(c) = n /\ c[n] = e /\ \A k \in 1 .. Len(a) : c[k] = a[k]
      /\ 1 .. n = (1 .. Len(a)) \cup {n} /\ n \notin 1 .. Len(a)
  BY <1>1
<1>9. Of(a, t) = {}
  BY <1>2 DEF Woven, Of
<1> HIDE DEF v, c, n, m
<1>10. Of(c, t) = {n} /\ Cardinality(Of(c, t)) = 1
  BY <1>6, <1>9, FS_Singleton
<1>11. \A j, k \in 1 .. m : v[j].thread = v[k].thread => j = k
  BY <1>2, <1>5, <1>7 DEF Woven
<1>12. ASSUME NEW k \in 1 .. m PROVE Len(v[k].nodes) = Cardinality(Of(c, v[k].thread))
  <2>1. CASE k = m
    BY <1>5, <1>7, <1>10, <2>1
  <2>2. CASE k \in 1 .. Len(w)
    BY <1>2, <1>7, <1>6, <2>2 DEF Woven
  <2>3. QED
    BY <1>7, <2>1, <2>2
<1>13. ASSUME NEW k \in 1 .. n
       PROVE  \E b \in 1 .. m :
                /\ v[b].thread = ResolveThreadIdForSector(c[k])
                /\ v[b].nodes[Rank(c, Of(c, v[b].thread), k)] = BuildTimeNodeFromEvent(c[k])
  <2>1. CASE k = n
    <3>1. {j \in {n} : Before(c, j, n)} = {n}
      <4>1. e.tick \in Nat /\ n \in Nat
        BY <1>1, EventTyped DEF n
      <4>2. QED
        BY <1>8, <4>1 DEF Before
    <3>2. Rank(c, Of(c, t), n) = 1
      BY <1>10, <3>1, FS_Singleton DEF Rank
    <3>3. m \in 1 .. m /\ v[m].thread = t /\ v[m].nodes[1] = node
      BY <1>5, <1>7
    <3>4. QED
      BY <1>8, <2>1, <3>2, <3>3 DEF t, node
  <2>2. CASE k \in 1 .. Len(a)
    <3>1. PICK b \in 1 .. Len(w) :
             /\ w[b].thread = ResolveThreadIdForSector(a[k])
             /\ w[b].nodes[Rank(a, Of(a, w[b].thread), k)] = BuildTimeNodeFromEvent(a[k])
      BY <2>2 DEF Woven
    <3>2. Of(c, w[b].thread) = Of(a, w[b].thread) /\ k \in Of(a, w[b].thread)
      BY <1>2, <1>6, <2>2, <3>1 DEF Of
    <3>3. \A j \in Of(a, w[b].thread) : c[j] = a[j]
      BY <1>8 DEF Of
    <3>4. Rank(c, Of(c, w[b].thread), k) = Rank(a, Of(a, w[b].thread), k)
      <4>1. PICK J : J = Of(a, w[b].thread)
        OBVIOUS
      <4>2. k \in J /\ Agree(a, c, J)
        BY <3>2, <3>3, <4>1 DEF Agree
      <4>3. Rank(c, J, k) = Rank(a, J, k)
        BY <4>2, RankKept
      <4>4. QED
        BY <3>2, <4>1, <4>3
    <3>5. v[b] = w[b] /\ c[k] = a[k] /\ b \in 1 .. m
      BY <1>7, <1>8, <2>2
    <3>6. QED
      BY <3>1, <3>4, <3>5
  <2>3. QED
    BY <1>8, <2>1, <2>2
<1>14. QED
  BY <1>7, <1>8, <1>11, <1>12, <1>13 DEF Woven, v, c

\* An event of a thread that has a branch goes where its tick puts it, and the
\* others of its branch move up behind it.
LEMMA WovenOld ==
    ASSUME NEW w, NEW a, Woven(w, a), NEW e \in Anchors, NEW b \in 1 .. Len(w),
           w[b].thread = ResolveThreadIdForSector(e)
    PROVE  /\ Woven(Anchored(w, e), Append(a, e))
           /\ Len(Anchored(w, e)) = Len(w)
           /\ Len(Anchored(w, e)[b].nodes) = Len(w[b].nodes) + 1
           /\ \A k \in (1 .. Len(w)) \ {b} : Anchored(w, e)[k] = w[k]
<1> DEFINE t == ResolveThreadIdForSector(e)
           node == BuildTimeNodeFromEvent(e)
           v == Anchored(w, e)
           c == Append(a, e)
           n == Len(a) + 1
           old == w[b].nodes
           m == Len(old) + 1
           new == Append(old, node)
           sorted == SortNodesByTick(new)
           K == Of(a, t)
           L == Of(c, t)
           p == [k \in L |-> IF k = n THEN m ELSE Rank(a, K, k)]
<1>1. /\ w \in Seq(Branches) /\ a \in Seq(Anchors) /\ t \in Nat /\ node \in Nodes
      /\ node.tick = e.tick /\ e.tick \in Nat
  BY EventTyped DEF Woven
<1>2. w[b] \in Branches /\ old \in Seq(Nodes) /\ w[b].thread = t
  BY <1>1 DEF Branches
<1>3. /\ new \in Seq(Nodes) /\ Len(new) = m /\ new[m] = node
      /\ \A i \in 1 .. Len(old) : new[i] = old[i]
      /\ 1 .. m = (1 .. Len(old)) \cup {m} /\ m \notin 1 .. Len(old) /\ m \in Nat
  BY <1>1, <1>2
<1> HIDE DEF new, m, node
<1>4. Ticked(new, 1 .. m)
  <2>1. \A i \in 1 .. m : new[i] \in Nodes /\ i \in Nat
    BY <1>3
  <2>2. QED
    BY <2>1 DEF Ticked, Nodes
<1>5. /\ sorted \in Seq(Nodes) /\ Len(sorted) = m
      /\ \A i \in 1 .. m : sorted[Rank(new, 1 .. m, i)] = new[i]
  BY <1>3, <1>4, SortPlaces
<1>6. /\ c \in Seq(Anchors) /\ Len(c) = n /\ c[n] = e /\ \A k \in 1 .. Len(a) : c[k] = a[k]
      /\ 1 .. n = (1 .. Len(a)) \cup {n} /\ n \notin 1 .. Len(a) /\ n \in Nat
  BY <1>1
<1>7. \A u : Of(c, u) = IF u = t THEN K \cup {n} ELSE Of(a, u)
  BY <1>1, OfAppended
<1>8. L = K \cup {n} /\ n \notin K /\ K \subseteq 1 .. Len(a)
  BY <1>6, <1>7 DEF Of
<1>9. IsFiniteSet(K) /\ Ticked(a, K) /\ Cardinality(K) = Len(old)
  BY <1>1, <1>2, OfTyped DEF Woven
<1>10. PICK branch : branch = [thread |-> t, nodes |-> sorted]
  OBVIOUS
<1>11. v = [w EXCEPT ![b] = branch]
  BY <1>1, <1>2, <1>10, AnchoredOld DEF Woven, new, node
<1> HIDE DEF sorted
<1>12. branch \in Branches /\ branch.thread = t /\ branch.nodes = sorted
  <2>1. sorted # <<>>
    BY <1>3, <1>5 DEF m
  <2>2. QED
    BY <1>1, <1>5, <1>10, <2>1 DEF Branches
<1>13. /\ v \in Seq(Branches) /\ Len(v) = Len(w) /\ v[b] = branch
       /\ \A k \in 1 .. Len(w) : k # b => v[k] = w[k]
       /\ \A k \in 1 .. Len(w) : v[k].thread = w[k].thread
  BY <1>1, <1>2, <1>11, <1>12
<1> HIDE DEF v, c, n, old
<1>14. \A k \in K : /\ Rank(a, K, k) \in 1 .. Len(old)
                    /\ old[Rank(a, K, k)] = BuildTimeNodeFromEvent(a[k])
  <2> SUFFICES ASSUME NEW k \in K
               PROVE  /\ Rank(a, K, k) \in 1 .. Len(old)
                      /\ old[Rank(a, K, k)] = BuildTimeNodeFromEvent(a[k])
    OBVIOUS
  <2>1. Rank(a, K, k) \in 1 .. Len(old)
    BY <1>9, RankOrder
  <2>2. k \in 1 .. Len(a) /\ ResolveThreadIdForSector(a[k]) = t
    BY DEF Of
  <2>3. PICK d \in 1 .. Len(w) :
           /\ w[d].thread = ResolveThreadIdForSector(a[k])
           /\ w[d].nodes[Rank(a, Of(a, w[d].thread), k)] = BuildTimeNodeFromEvent(a[k])
    BY <2>2 DEF Woven
  <2>4. d = b
    BY <1>2, <2>2, <2>3 DEF Woven
  <2>5. QED
    BY <1>2, <2>1, <2>3, <2>4 DEF old
<1> HIDE DEF t
<1>15. p \in [L -> 1 .. m]
  BY <1>3, <1>8, <1>14
<1>16. \A i \in 1 .. m : \E k \in L : p[k] = i
  <2> SUFFICES ASSUME NEW i \in 1 .. m PROVE \E k \in L : p[k] = i
    OBVIOUS
  <2>1. CASE i = m
    BY <1>8, <2>1
  <2>2. CASE i \in 1 .. Len(old)
    <3>1. PICK k \in K : Rank(a, K, k) = i
      BY <1>9, <2>2, RankOnto
    <3>2. k \in L /\ k # n /\ p[k] = i
      BY <1>8, <3>1
    <3>3. QED
      BY <3>2
  <2>3. QED
    BY <1>3, <2>1, <2>2
<1>17. \A k \in K : p[k] = Rank(a, K, k)
  BY <1>8
<1>18. p[n] = m
  BY <1>8
<1>19. \A k \in L : new[p[k]] = BuildTimeNodeFromEvent(c[k])
  <2> SUFFICES ASSUME NEW k \in L PROVE new[p[k]] = BuildTimeNodeFromEvent(c[k])
    OBVIOUS
  <2>1. CASE k = n
    BY <1>3, <1>6, <1>18, <2>1 DEF node
  <2>2. CASE k \in K
    BY <1>3, <1>6, <1>8, <1>14, <1>17, <2>2
  <2>3. QED
    BY <1>8, <2>1, <2>2
<1>20. \A k \in L : new[p[k]].tick = c[k].tick /\ c[k].tick \in Nat /\ k \in Nat /\ k <= n
  <2> SUFFICES ASSUME NEW k \in L
               PROVE  new[p[k]].tick = c[k].tick /\ c[k].tick \in Nat /\ k \in Nat /\ k <= n
    OBVIOUS
  <2>1. k \in 1 .. n
    BY <1>6, <1>8
  <2>2. c[k] \in Anchors
    BY <1>6, <2>1
  <2>3. QED
    BY <1>6, <1>19, <2>1, <2>2, EventTyped
<1> HIDE DEF p, K, L
<1>21. \A j, k \in L : p[j] <= p[k] /\ c[j].tick = c[k].tick => j <= k
  <2> SUFFICES ASSUME NEW j \in L, NEW k \in L, p[j] <= p[k], c[j].tick = c[k].tick
               PROVE  j <= k
    OBVIOUS
  <2>1. CASE k = n
    BY <1>20, <2>1
  <2>2. CASE j = n /\ k \in K
    <3>1. p[k] \in 1 .. Len(old) /\ p[j] = m
      BY <1>14, <1>17, <1>18, <2>2
    <3>2. QED
      BY <3>1, <1>2 DEF m
  <2>3. CASE j \in K /\ k \in K
    <3>1. Before(a, j, k)
      BY <1>9, <1>17, <2>3, RankOrder
    <3>2. a[j] = c[j] /\ a[k] = c[k]
      BY <1>6, <1>8, <2>3
    <3>3. QED
      BY <1>20, <3>1, <3>2 DEF Before
  <2>4. QED
    BY <1>8, <2>1, <2>2, <2>3
<1>22. \A k \in L : p[k] \in Nat
  BY <1>15
<1>23. \A j, k \in L : p[j] = p[k] => j = k
  <2> SUFFICES ASSUME NEW j \in L, NEW k \in L, p[j] = p[k] PROVE j = k
    OBVIOUS
  <2>1. c[j].tick = c[k].tick
    BY <1>20
  <2>2. j <= k /\ k <= j
    BY <1>21, <1>22, <2>1
  <2>3. QED
    BY <1>20, <2>2
<1>24. \A j, k \in L : Before(c, j, k) <=> Before(new, p[j], p[k])
  <2> SUFFICES ASSUME NEW j \in L, NEW k \in L
               PROVE  Before(c, j, k) <=> Before(new, p[j], p[k])
    OBVIOUS
  <2>1. c[j].tick = c[k].tick => (j <= k <=> p[j] <= p[k])
    BY <1>20, <1>21, <1>22
  <2>2. new[p[j]].tick = c[j].tick /\ new[p[k]].tick = c[k].tick
    BY <1>20
  <2>3. QED
    BY <2>1, <2>2 DEF Before
<1>25. IsFiniteSet(L) /\ Cardinality(L) = m
  BY <1>8, <1>9, FS_AddElement DEF m
<1>26. \A k \in L : sorted[Rank(c, L, k)] = BuildTimeNodeFromEvent(c[k])
  <2> SUFFICES ASSUME NEW k \in L PROVE sorted[Rank(c, L, k)] = BuildTimeNodeFromEvent(c[k])
    OBVIOUS
  <2>1. Rank(c, L, k) = Rank(new, 1 .. m, p[k])
    <3>1. PICK M : M = 1 .. m
      OBVIOUS
    <3>2. Renames(p, c, L, new, M)
      BY <1>15, <1>16, <1>23, <1>24, <3>1 DEF Renames
    <3>3. Rank(c, L, k) = Rank(new, M, p[k])
      BY <1>25, <3>2, RankRenamed
    <3>4. QED
      BY <3>1, <3>3
  <2>2. p[k] \in 1 .. m
    BY <1>15
  <2>3. QED
    BY <1>5, <1>19, <2>1, <2>2
<1>27. \A j, k \in 1 .. Len(w) : v[j].thread = v[k].thread => j = k
  BY <1>13 DEF Woven
<1>28. ASSUME NEW k \in 1 .. Len(w) PROVE Len(v[k].nodes) = Cardinality(Of(c, v[k].thread))
  <2>1. CASE k = b
    BY <1>5, <1>12, <1>13, <1>25, <2>1 DEF L
  <2>2. CASE k # b
    <3>1. w[k].thread # t /\ v[k] = w[k]
      BY <1>2, <1>13, <2>2 DEF Woven
    <3>2. QED
      BY <1>7, <3>1 DEF Woven
  <2>3. QED
    BY <2>1, <2>2
<1>29. ASSUME NEW k \in 1 .. n
       PROVE  \E d \in 1 .. Len(w) :
                /\ v[d].thread = ResolveThreadIdForSector(c[k])
                /\ v[d].nodes[Rank(c, Of(c, v[d].thread), k)] = BuildTimeNodeFromEvent(c[k])
  <2>1. CASE k \in L
    <3>1. ResolveThreadIdForSector(c[k]) = t
      BY <2>1 DEF L, Of
    <3>2. v[b].thread = t /\ v[b].nodes = sorted
      BY <1>12, <1>13
    <3>3. QED
      BY <1>26, <2>1, <3>1, <3>2 DEF L
  <2>2. CASE k \notin L
    <3>1. k \in 1 .. Len(a) /\ c[k] = a[k]
      BY <1>6, <1>8, <2>2
    <3>2. PICK d \in 1 .. Len(w) :
             /\ w[d].thread = ResolveThreadIdForSector(a[k])
             /\ w[d].nodes[Rank(a, Of(a, w[d].thread), k)] = BuildTimeNodeFromEvent(a[k])
      BY <3>1 DEF Woven
    <3>3. w[d].thread # t
      BY <1>6, <2>2, <3>1, <3>2 DEF L, Of
    <3>4. Of(c, w[d].thread) = Of(a, w[d].thread) /\ k \in Of(a, w[d].thread)
      BY <1>7, <3>1, <3>2, <3>3 DEF Of
    <3>5. \A j \in Of(a, w[d].thread) : c[j] = a[j]
      BY <1>6 DEF Of
    <3>6. Rank(c, Of(c, w[d].thread), k) = Rank(a, Of(a, w[d].thread), k)
      <4>1. PICK J : J = Of(a, w[d].thread)
        OBVIOUS
      <4>2. k \in J /\ Agree(a, c, J)
        BY <3>4, <3>5, <4>1 DEF Agree
      <4>3. Rank(c, J, k) = Rank(a, J, k)
        BY <4>2, RankKept
      <4>4. QED
        BY <3>4, <4>1, <4>3
    <3>7. v[d] = w[d]
      BY <1>2, <1>13, <3>3
    <3>8. QED
      BY <3>1, <3>2, <3>6, <3>7
  <2>3. QED
    BY <2>1, <2>2
<1>30. Woven(v, c)
  BY <1>6, <1>13, <1>27, <1>28, <1>29 DEF Woven
<1>31. QED
  BY <1>5, <1>12, <1>13, <1>30 DEF v, c, m, old

-----------------------------------------------------------------------------
(* The events that a summary counts *)

Lengths(w) == [k \in 1 .. Len(w) |-> Len(w[k].nodes)]

Counted(w, a) == Woven(w, a) /\ EventsCount(w) = Len(a)

LEMMA LengthsTyped ==
    ASSUME NEW w \in Seq(Branches)
    PROVE  Lengths(w) \in Seq(Nat) /\ Len(Lengths(w)) = Len(w) /\ EventsCount(w) = Sums(Lengths(w))[Len(w)]
<1>1. \A k \in 1 .. Len(w) : Len(w[k].nodes) \in Nat
  BY DEF Branches
<1>2. QED
  BY <1>1 DEF Lengths, EventsCount

LEMMA CountedNew ==
    ASSUME NEW w \in Seq(Branches), NEW branch \in Branches, Len(branch.nodes) = 1
    PROVE  EventsCount(Append(w, branch)) = EventsCount(w) + 1
<1> DEFINE v == Append(w, branch)
           f == Lengths(w)
           g == Lengths(v)
           n == Len(w)
<1>1. /\ v \in Seq(Branches) /\ Len(v) = n + 1 /\ v[n + 1] = branch
      /\ \A k \in 1 .. n : v[k] = w[k]
  OBVIOUS
<1>2. f \in Seq(Nat) /\ Len(f) = n /\ EventsCount(w) = Sums(f)[n]
  BY LengthsTyped
<1> HIDE DEF v
<1>3. g \in Seq(Nat) /\ Len(g) = n + 1 /\ EventsCount(v) = Sums(g)[n + 1]
  BY <1>1, LengthsTyped
<1>4. n \in Nat /\ n \in 0 .. Len(f) /\ n <= Len(g) /\ n + 1 \in 1 .. Len(g) /\ (n + 1) - 1 = n
  BY <1>2, <1>3
<1>5. g[n + 1] = 1 /\ \A k \in 1 .. n : g[k] = f[k] /\ k # 0
  BY <1>1 DEF Lengths
<1> HIDE DEF f, g, n
<1>6. Sums(g)[n] = Sums(f)[n]
  <2>1. DifferAt(f, g, n, 0, 0)
    BY <1>5 DEF DifferAt
  <2>2. 0 \notin 1 .. n
    BY <1>5
  <2>3. QED
    BY <1>2, <1>3, <1>4, <2>1, <2>2, SumsDiffer
<1>7. Sums(g)[n + 1] = Sums(g)[n] + 1
  BY <1>3, <1>4, <1>5, SumsStep
<1>8. QED
  BY <1>2, <1>3, <1>6, <1>7 DEF v

LEMMA CountedOld ==
    ASSUME NEW w \in Seq(Branches), NEW v \in Seq(Branches), Len(v) = Len(w), NEW b \in 1 .. Len(w),
           Len(v[b].nodes) = Len(w[b].nodes) + 1, \A k \in (1 .. Len(w)) \ {b} : v[k] = w[k]
    PROVE  EventsCount(v) = EventsCount(w) + 1
<1> DEFINE f == Lengths(w)
           g == Lengths(v)
           n == Len(w)
<1>1. f \in Seq(Nat) /\ Len(f) = n /\ EventsCount(w) = Sums(f)[n]
  BY LengthsTyped
<1>2. g \in Seq(Nat) /\ Len(g) = n /\ EventsCount(v) = Sums(g)[n]
  BY LengthsTyped
<1>3. n \in 0 .. Len(f) /\ n <= Len(g) /\ b \in Nat /\ b \in 1 .. n
  BY <1>1, <1>2
<1>4. DifferAt(f, g, n, b, 1)
  BY DEF Lengths, DifferAt
<1> HIDE DEF f, g, n
<1>5. Sums(g)[n] = IF b \in 1 .. n THEN Sums(f)[n] + 1 ELSE Sums(f)[n]
  <2>1. f \in Seq(Nat) /\ g \in Seq(Nat) /\ n \in 0 .. Len(f) /\ n <= Len(g) /\ b \in Nat /\ 1 \in Nat
    BY <1>1, <1>2, <1>3
  <2>2. QED
    BY <1>4, <2>1, SumsDiffer
<1>6. QED
  BY <1>1, <1>2, <1>3, <1>5

\* One more event is held and counted, and no branch goes.
LEMMA AnchoredCounted ==
    ASSUME NEW w, NEW a, Counted(w, a), NEW e \in Anchors
    PROVE  Counted(Anchored(w, e), Append(a, e)) /\ Len(w) <= Len(Anchored(w, e))
<1>1. Woven(w, a) /\ EventsCount(w) = Len(a) /\ w \in Seq(Branches) /\ a \in Seq(Anchors)
  BY DEF Counted, Woven
<1>2. Len(Append(a, e)) = Len(a) + 1 /\ Len(w) \in Nat
  BY <1>1
<1>3. CASE BranchIndexes(w, ResolveThreadIdForSector(e)) = {}
  <2>1. Woven(Anchored(w, e), Append(a, e))
    BY <1>1, <1>3, WovenNew
  <2>2. PICK node : node = BuildTimeNodeFromEvent(e)
    OBVIOUS
  <2>3. PICK branch : branch = [thread |-> ResolveThreadIdForSector(e), nodes |-> <<node>>]
    OBVIOUS
  <2>4. Anchored(w, e) = Append(w, branch)
    BY <1>3, <2>2, <2>3, AnchoredNew
  <2>5. branch \in Branches /\ Len(branch.nodes) = 1
    <3>1. node \in Nodes /\ ResolveThreadIdForSector(e) \in Nat
      BY <2>2, EventTyped
    <3>2. <<node>> \in Seq(Nodes) /\ <<node>> # <<>> /\ Len(<<node>>) = 1
      BY <3>1
    <3>3. QED
      BY <2>3, <3>1, <3>2 DEF Branches
  <2>6. EventsCount(Anchored(w, e)) = Len(a) + 1
    BY <1>1, <2>4, <2>5, CountedNew
  <2>7. Len(w) <= Len(Anchored(w, e))
    BY <1>1, <2>4
  <2>8. QED
    BY <1>2, <2>1, <2>6, <2>7 DEF Counted
<1>4. CASE BranchIndexes(w, ResolveThreadIdForSector(e)) # {}
  <2>1. PICK b \in 1 .. Len(w) : w[b].thread = ResolveThreadIdForSector(e)
    BY <1>1, <1>4 DEF BranchIndexes
  <2>2. PICK v : v = Anchored(w, e)
    OBVIOUS
  <2>3. /\ Woven(v, Append(a, e))
        /\ Len(v) = Len(w)
        /\ Len(v[b].nodes) = Len(w[b].nodes) + 1
        /\ \A k \in (1 .. Len(w)) \ {b} : v[k] = w[k]
    BY <1>1, <2>1, <2>2, WovenOld
  <2>4. v \in Seq(Branches)
    BY <2>3 DEF Woven
  <2>5. EventsCount(v) = Len(a) + 1
    BY <1>1, <2>3, <2>4, CountedOld
  <2>6. QED
    BY <1>2, <2>2, <2>3, <2>5 DEF Counted
<1>5. QED
  BY <1>3, <1>4

LEMMA SeqIs ==
    ASSUME NEW X, NEW s \in Seq(X), NEW n, Len(s) = n
    PROVE  s = [i \in 1 .. n |-> s[i]]
OBVIOUS

\* The same for a batch, and an empty one changes nothing.
LEMMA BatchCounted ==
    ASSUME NEW w, NEW a, Counted(w, a), NEW events \in Seq(Anchors)
    PROVE  LET v == AnchorEventsBatch(w, events)
           IN  /\ Counted(v, a \o events) /\ Len(w) <= Len(v)
               /\ Len(a \o events) = Len(a) + Len(events) /\ Len(a) \in Nat
               /\ Len(events) = 0 => v = w
<1>1. w \in Seq(Branches) /\ a \in Seq(Anchors) /\ Len(w) \in Nat /\ Len(a) \in Nat
  BY DEF Counted, Woven
<1>2. PICK woven : /\ WovenTo(woven, w, events, Len(events))
                   /\ AnchorEventsBatch(w, events) = woven[Len(events)]
  BY BatchIs
<1> DEFINE P(k) == [i \in 1 .. Len(a) + k |-> IF i <= Len(a) THEN a[i] ELSE events[i - Len(a)]]
           Ok(k) == Counted(woven[k], P(k)) /\ Len(w) <= Len(woven[k])
           S == {k \in 0 .. Len(events) : Ok(k)}
<1>3. woven[0] = w /\ \A k \in 0 .. Len(events) - 1 : woven[k + 1] = Anchored(woven[k], events[k + 1])
  BY <1>2 DEF WovenTo
<1>4. P(0) = a
  BY <1>1
<1>5. 0 \in S
  <2> HIDE DEF P
  <2>1. QED
    BY <1>1, <1>3, <1>4
<1>6. ASSUME NEW k \in 0 .. Len(events) - 1, k \in S
      PROVE  k + 1 \in S
  <2>1. Counted(woven[k], P(k)) /\ Len(w) <= Len(woven[k])
    BY <1>6
  <2>2. events[k + 1] \in Anchors /\ k + 1 \in 0 .. Len(events)
    OBVIOUS
  <2>3. P(k + 1) = Append(P(k), events[k + 1])
    BY <1>1
  <2>4. Len(woven[k]) \in Nat
    BY <2>1 DEF Counted, Woven
  <2> HIDE DEF P
  <2>5. PICK v : v = woven[k + 1]
    OBVIOUS
  <2>6. v = Anchored(woven[k], events[k + 1])
    BY <1>3, <2>5
  <2>7. Counted(v, P(k + 1)) /\ Len(woven[k]) <= Len(v)
    BY <2>1, <2>2, <2>3, <2>6, AnchoredCounted
  <2>8. Len(v) \in Nat
    BY <2>7 DEF Counted, Woven
  <2>9. QED
    BY <1>1, <2>1, <2>2, <2>4, <2>5, <2>7, <2>8
<1>7. Len(events) \in S
  <2> HIDE DEF S
  <2>1. \A k \in 0 .. Len(events) : k \in S
    BY <1>5, <1>6, Loop
  <2>2. QED
    BY <2>1
<1>8. Len(a \o events) = Len(a) + Len(events) /\ a \o events \in Seq(Anchors)
  BY <1>1
<1>9. P(Len(events)) = a \o events
  <2>1. \A i \in 1 .. Len(a) + Len(events) :
           (a \o events)[i] = IF i <= Len(a) THEN a[i] ELSE events[i - Len(a)]
    BY <1>1
  <2>2. PICK c \in Seq(Anchors) : c = a \o events /\ Len(c) = Len(a) + Len(events)
    BY <1>8
  <2>3. c = [i \in 1 .. Len(a) + Len(events) |-> c[i]]
    BY <2>2, SeqIs
  <2>4. QED
    BY <2>1, <2>2, <2>3
<1> HIDE DEF P
<1>10. QED
  BY <1>1, <1>2, <1>3, <1>7, <1>8, <1>9

-----------------------------------------------------------------------------
(* The share of the dominant branch is a number *)

LEMMA NearestTyped ==
    ASSUME NEW x \in Nat, NEW y \in Nat \ {0}
    PROVE  Nearest(x, y) \in Nat
<1>1. 2 * x + y \in Nat /\ 2 * y \in Nat /\ 2 * y > 0
  OBVIOUS
<1>2. ASSUME NEW u \in Nat, NEW z \in Nat, z > 0 PROVE u \div z \in Nat
  BY <1>2
<1>3. QED
  BY <1>1, <1>2 DEF Nearest

LEMMA WeightTyped ==
    ASSUME NEW b \in Branches
    PROVE  ComputeBranchWeight(b.nodes) \in Nat
<1> DEFINE nodes == b.nodes
           f == [k \in 1 .. Len(nodes) |-> nodes[k].intensity]
<1>1. nodes \in Seq(Nodes) /\ nodes # <<>>
  BY DEF Branches
<1> HIDE DEF nodes
<1>2. Len(nodes) \in Nat \ {0} /\ \A k \in 1 .. Len(nodes) : nodes[k].intensity \in Nat
  <2>1. Len(nodes) \in Nat \ {0}
    BY <1>1
  <2>2. \A k \in 1 .. Len(nodes) : nodes[k] \in Nodes
    BY <1>1
  <2>3. QED
    BY <2>1, <2>2 DEF Nodes
<1>3. f \in Seq(Nat) /\ Len(f) = Len(nodes)
  BY <1>2
<1>4. IntensitySums(nodes) = Sums(f)
  BY DEF IntensitySums
<1> HIDE DEF f
<1>5. Sums(f)[Len(nodes)] \in Nat
  BY <1>2, <1>3, SumsTyped
<1>6. 30 * IntensitySums(nodes)[Len(nodes)] \in Nat
  BY <1>4, <1>5
<1>7. Nearest(30 * IntensitySums(nodes)[Len(nodes)], Len(nodes)) \in Nat
  BY <1>2, <1>6, NearestTyped
<1>8. Last(nodes).intensity \in Nat
  BY <1>2 DEF Last
<1>9. ComputeBranchWeight(nodes) \in Nat
  BY <1>7, <1>8 DEF ComputeBranchWeight
<1>10. QED
  BY <1>9 DEF nodes

LEMMA DominantFound ==
    ASSUME NEW w \in Seq(Branches), Len(w) # 0
    PROVE  Weights(w) \in Seq(Nat) /\ Len(Weights(w)) = Len(w) /\ FindDominantBranch(w) \in 1 .. Len(w)
<1>1. PICK f : f = Weights(w)
  OBVIOUS
<1>2. f \in Seq(Nat) /\ Len(f) = Len(w)
  <2>1. \A k \in 1 .. Len(w) : ComputeBranchWeight(w[k].nodes) \in Nat
    BY WeightTyped
  <2>2. QED
    BY <1>1, <2>1 DEF Weights
<1>3. PICK T : T = {k \in 1 .. Len(w) : \A j \in 1 .. Len(w) : f[j] <= f[k]}
  OBVIOUS
<1>4. T \in SUBSET Nat /\ T # {} /\ T \subseteq 1 .. Len(w)
  <2>1. PICK k \in 1 .. Len(f) : \A j \in 1 .. Len(f) : f[j] <= f[k]
    BY <1>2, LargestElement
  <2>2. k \in T
    BY <1>2, <1>3, <2>1
  <2>3. QED
    BY <1>3, <2>2
<1>5. FindDominantBranch(w) = Min(T)
  <2>1. DOMAIN w = 1 .. Len(w)
    OBVIOUS
  <2>2. QED
    BY <1>1, <1>3, <2>1 DEF FindDominantBranch
<1>6. \E m \in T : \A k \in T : m <= k
  BY <1>4, LeastElement
<1>7. Min(T) \in T
  BY <1>6 DEF Min
<1>8. QED
  BY <1>1, <1>2, <1>4, <1>5, <1>7

LEMMA ShareTyped ==
    ASSUME NEW w \in Seq(Branches)
    PROVE  ComputeTimeWeaveAsymmetry(w) \in Nat
<1>1. CASE Len(w) = 0 \/ Len(w) = 1
  BY <1>1 DEF ComputeTimeWeaveAsymmetry
<1>2. CASE Len(w) # 0 /\ Len(w) # 1
  <2>1. PICK f, d : f = Weights(w) /\ d = FindDominantBranch(w)
    OBVIOUS
  <2>2. f \in Seq(Nat) /\ Len(f) = Len(w) /\ d \in 1 .. Len(w)
    BY <1>2, <2>1, DominantFound
  <2>3. PICK total : total = Sums(f)[Len(w)]
    OBVIOUS
  <2>4. total \in Nat
    BY <2>2, <2>3, SumsTyped
  <2>5. PICK x \in Nat : x = 10000 * f[d]
    BY <2>2
  <2>6. ASSUME total # 0 PROVE Nearest(x, total) \in Nat
    <3>1. x \in Nat /\ total \in Nat \ {0}
      BY <2>4, <2>5, <2>6
    <3>2. QED
      BY <3>1, NearestTyped
  <2>7. ComputeTimeWeaveAsymmetry(w) = IF total = 0 THEN 0 ELSE Nearest(x, total)
    BY <1>2, <2>1, <2>3, <2>5 DEF ComputeTimeWeaveAsymmetry
  <2>8. QED
    BY <2>6, <2>7
<1>3. QED
  BY <1>1, <1>2

-----------------------------------------------------------------------------
(* The weave and its summaries *)

\* A summary is of the weave as it was: it counts no more than there is now, and
\* as many events make the same share.
SummaryOK ==
    summary # NoSummary =>
        /\ summary.events \in Nat /\ summary.branches \in Nat /\ summary.share \in Nat
        /\ summary.events <= Len(arrivals) /\ summary.branches <= Len(weave)
        /\ summary.events = Len(arrivals) => summary.share = ComputeTimeWeaveAsymmetry(weave)

WeaveInv == Counted(weave, arrivals) /\ SummaryOK

LEMMA CountedTypes ==
    ASSUME NEW w, NEW a, Counted(w, a)
    PROVE  /\ w \in Seq(Branches) /\ a \in Seq(Anchors) /\ Len(w) \in Nat /\ Len(a) \in Nat
           /\ EventsCount(w) = Len(a) /\ ComputeTimeWeaveAsymmetry(w) \in Nat
BY ShareTyped DEF Counted, Woven

LEMMA WeaveInvInit == WeaveInit => WeaveInv
<1> SUFFICES ASSUME WeaveInit PROVE WeaveInv
  OBVIOUS
<1>1. weave = <<>> /\ arrivals = <<>> /\ summary = NoSummary
  BY DEF WeaveInit
<1>2. Woven(<<>>, <<>>)
  BY DEF Woven
<1>3. EventsCount(<<>>) = 0
  <2>1. <<>> \in Seq(Branches) /\ Len(<<>>) = 0
    OBVIOUS
  <2>2. Lengths(<<>>) \in Seq(Nat) /\ EventsCount(<<>>) = Sums(Lengths(<<>>))[0]
    BY <2>1, LengthsTyped
  <2>3. QED
    BY <2>2, SumsStep
<1>4. QED
  BY <1>1, <1>2, <1>3 DEF WeaveInv, Counted, SummaryOK

\* What anchoring leaves of what is known of the summary.
LEMMA SummaryKept ==
    ASSUME WeaveInv, Counted(weave', arrivals'), Len(weave) <= Len(weave'), UNCHANGED summary,
           Len(arrivals') > Len(arrivals) \/ UNCHANGED <<weave, arrivals>>
    PROVE  WeaveInv'
<1>1. CASE UNCHANGED <<weave, arrivals>>
  BY <1>1 DEF WeaveInv, SummaryOK
<1>2. CASE Len(arrivals') > Len(arrivals)
  <2>1. Len(weave) \in Nat /\ Len(arrivals) \in Nat /\ Len(weave') \in Nat /\ Len(arrivals') \in Nat
    BY CountedTypes DEF WeaveInv
  <2>2. SummaryOK'
    BY <1>2, <2>1 DEF WeaveInv, SummaryOK
  <2>3. QED
    BY <2>2 DEF WeaveInv
<1>3. QED
  BY <1>1, <1>2

LEMMA WeaveInvStep == WeaveInv /\ [Step]_allVars => WeaveInv'
<1> SUFFICES ASSUME WeaveInv, [Step]_allVars
             PROVE  WeaveInv'
  OBVIOUS
<1>1. CASE UNCHANGED weaveVars
  BY <1>1 DEF WeaveInv, SummaryOK, weaveVars
<1>2. ASSUME NEW e \in Anchors, AnchorEventToWeave(e) PROVE WeaveInv'
  <2>1. weave' = Anchored(weave, e) /\ arrivals' = Append(arrivals, e) /\ summary' = summary
    BY <1>2 DEF AnchorEventToWeave
  <2>2. Counted(weave', arrivals') /\ Len(weave) <= Len(weave')
    BY <2>1, AnchoredCounted DEF WeaveInv
  <2>3. Len(arrivals') > Len(arrivals)
    BY <2>1, CountedTypes DEF WeaveInv
  <2>4. QED
    BY <2>1, <2>2, <2>3, SummaryKept
<1>3. ASSUME NEW events \in Batches, BuildViewFromWebAndAnchors(events) PROVE WeaveInv'
  <2>1. /\ weave' = AnchorEventsBatch(weave, events) /\ arrivals' = arrivals \o events
        /\ summary' = summary
    BY <1>3 DEF BuildViewFromWebAndAnchors
  <2>2. events \in Seq(Anchors) /\ Len(events) \in Nat
    BY TemporalAssumption
  <2>3. /\ Counted(weave', arrivals') /\ Len(weave) <= Len(weave')
        /\ Len(arrivals') = Len(arrivals) + Len(events) /\ Len(arrivals) \in Nat
        /\ Len(events) = 0 => weave' = weave
    BY <2>1, <2>2, BatchCounted DEF WeaveInv
  <2>4. Len(events) = 0 => arrivals' = arrivals
    BY <2>1, <2>2, CountedTypes DEF WeaveInv
  <2>5. QED
    BY <2>1, <2>2, <2>3, <2>4, SummaryKept
<1>4. ASSUME NEW previous, ComputeTimeWeaveSummary(previous) PROVE WeaveInv'
  <2>1. weave' = weave /\ arrivals' = arrivals
    BY <1>4 DEF ComputeTimeWeaveSummary
  <2>2. /\ summary'.events = EventsCount(weave) /\ summary'.branches = Len(weave)
        /\ summary'.share = ComputeTimeWeaveAsymmetry(weave)
    BY <1>4 DEF ComputeTimeWeaveSummary
  <2>3. SummaryOK'
    BY <2>1, <2>2, CountedTypes DEF WeaveInv, SummaryOK
  <2>4. QED
    BY <2>1, <2>3 DEF WeaveInv
<1>5. QED
  BY <1>1, <1>2, <1>3, <1>4 DEF Step, WeaveNext, allVars

\* However late an event comes, and in whatever batches: there is one branch for
\* each thread that has events, and it holds that thread's events, all and each
\* once, by tick, those of one tick in the order of their arrival.
THEOREM WeaveIsOrdered == TemporalSpec => []WeaveInTickOrder
<1>1. WeaveInv => WeaveInTickOrder
  <2> SUFFICES ASSUME Woven(weave, arrivals) PROVE WeaveInTickOrder
    BY DEF WeaveInv, Counted
  <2> DEFINE of(t) == {k \in DOMAIN arrivals : ResolveThreadIdForSector(arrivals[k]) = t}
             before(j, k) == \/ arrivals[j].tick < arrivals[k].tick
                             \/ arrivals[j].tick = arrivals[k].tick /\ j <= k
             place(k) == Cardinality({j \in of(ResolveThreadIdForSector(arrivals[k])) : before(j, k)})
  <2>1. DOMAIN weave = 1 .. Len(weave) /\ DOMAIN arrivals = 1 .. Len(arrivals)
    BY DEF Woven
  <2>2. ASSUME NEW t PROVE of(t) = Of(arrivals, t)
    BY <2>1 DEF Of
  <2>3. ASSUME NEW k
        PROVE  place(k) = Rank(arrivals, Of(arrivals, ResolveThreadIdForSector(arrivals[k])), k)
    <3> DEFINE t == ResolveThreadIdForSector(arrivals[k])
    <3>1. of(t) = Of(arrivals, t)
      BY <2>2
    <3>2. {j \in of(t) : before(j, k)} = {j \in Of(arrivals, t) : Before(arrivals, j, k)}
      BY <3>1 DEF Before
    <3>3. QED
      BY <3>2 DEF Rank
  <2>4. \A j, k \in DOMAIN weave : weave[j].thread = weave[k].thread => j = k
    BY <2>1 DEF Woven
  <2>5. \A k \in DOMAIN weave : Len(weave[k].nodes) = Cardinality(of(weave[k].thread))
    <3> SUFFICES ASSUME NEW k \in DOMAIN weave
                 PROVE  Len(weave[k].nodes) = Cardinality(of(weave[k].thread))
      OBVIOUS
    <3>1. of(weave[k].thread) = Of(arrivals, weave[k].thread)
      BY <2>2
    <3>2. Len(weave[k].nodes) = Cardinality(Of(arrivals, weave[k].thread))
      BY <2>1 DEF Woven
    <3>3. QED
      BY <3>1, <3>2
  <2>6. \A k \in DOMAIN arrivals :
           \E b \in BranchIndexes(weave, ResolveThreadIdForSector(arrivals[k])) :
              weave[b].nodes[place(k)] = BuildTimeNodeFromEvent(arrivals[k])
    <3> SUFFICES ASSUME NEW k \in DOMAIN arrivals
                 PROVE  \E b \in BranchIndexes(weave, ResolveThreadIdForSector(arrivals[k])) :
                           weave[b].nodes[place(k)] = BuildTimeNodeFromEvent(arrivals[k])
      OBVIOUS
    <3>1. PICK b \in 1 .. Len(weave) :
             /\ weave[b].thread = ResolveThreadIdForSector(arrivals[k])
             /\ weave[b].nodes[Rank(arrivals, Of(arrivals, weave[b].thread), k)]
                   = BuildTimeNodeFromEvent(arrivals[k])
      BY <2>1 DEF Woven
    <3>2. b \in BranchIndexes(weave, ResolveThreadIdForSector(arrivals[k]))
      BY <2>1, <3>1 DEF BranchIndexes
    <3>3. place(k) = Rank(arrivals, Of(arrivals, weave[b].thread), k)
      BY <2>3, <3>1
    <3> HIDE DEF place
    <3>4. QED
      BY <3>1, <3>2, <3>3
  <2>7. QED
    BY <2>4, <2>5, <2>6 DEF WeaveInTickOrder
<1>2. QED
  BY <1>1, WeaveInvInit, WeaveInvStep, PTL DEF TemporalSpec, Step, allVars

LEMMA LessFails ==
    ASSUME NEW x \in Int, NEW y \in Int, ~ (x <= y), NEW b \in Less(x, y)
    PROVE  b = FALSE
<1>1. x # y /\ (x < y) = FALSE
  OBVIOUS
<1>2. b \in {FALSE}
  BY <1>1, Zenon DEF Less
<1>3. QED
  BY <1>2, Zenon

\* What makes a soft merge.
LEMMA SoftMerge ==
    ASSUME NEW w, NEW share \in Int, NEW previous, previous.share \in Int,
           "soft-merge" \in DetectBranchCollapse(w, share, previous)
    PROVE  \/ previous.branches > Len(w)
           \/ previous # NoSummary /\ 1500 <= share - previous.share
<1> DEFINE F == {FALSE}
           L == Less(1500, share - previous.share)
           rise == IF previous = NoSummary THEN F ELSE L
           mode(risen) == CASE Len(w) <= 1 \/ share >= 8000 -> "hard-collapse"
                            [] share >= 6000 /\ (risen \/ previous.branches > Len(w)) -> "soft-merge"
                            [] OTHER -> "none"
<1>1. DetectBranchCollapse(w, share, previous) = {mode(risen) : risen \in rise}
  BY DEF DetectBranchCollapse
<1> HIDE DEF mode, F, L
<1>2. PICK risen \in rise : mode(risen) = "soft-merge"
  <2> HIDE DEF rise
  <2>1. QED
    BY <1>1
<1>3. ASSUME previous = NoSummary PROVE risen = FALSE
  <2>1. risen \in F
    BY <1>2, <1>3
  <2>2. QED
    BY <2>1, Zenon DEF F
<1>4. ASSUME previous # NoSummary, ~ (1500 <= share - previous.share) PROVE risen = FALSE
  <2>1. risen \in L
    BY <1>2, <1>4
  <2>2. PICK x, y : x = 1500 /\ y = share - previous.share
    OBVIOUS
  <2>3. x \in Int /\ y \in Int /\ ~ (x <= y)
    BY <1>4, <2>2
  <2>4. L = Less(x, y)
    BY <2>2 DEF L
  <2>5. risen \in Less(x, y)
    BY <2>1, <2>4
  <2>6. QED
    BY <2>3, <2>5, LessFails
<1> HIDE DEF rise
<1>5. ASSUME risen = FALSE PROVE previous.branches > Len(w)
  <2>1. mode(FALSE) = "soft-merge"
    BY <1>2, <1>5
  <2>2. QED
    BY <2>1 DEF mode
<1>6. CASE previous = NoSummary
  BY <1>3, <1>5, <1>6
<1>7. CASE previous # NoSummary /\ ~ (1500 <= share - previous.share)
  BY <1>4, <1>5, <1>7
<1>8. QED
  BY <1>6, <1>7

\* A soft merge is news: it is reported only when events have been anchored since
\* a summary with a smaller share.
THEOREM MergesAreNews == TemporalSpec => MergeIsNews
<1>1. ASSUME WeaveInv, NEW previous, ComputeTimeWeaveSummary(previous), summary'.mode = "soft-merge"
      PROVE  summary # NoSummary /\ summary'.events > summary.events /\ summary'.share > summary.share
  <2>1. PICK share :
           /\ share = ComputeTimeWeaveAsymmetry(weave)
           /\ "soft-merge" \in DetectBranchCollapse(weave, share, previous)
           /\ summary'.events = EventsCount(weave) /\ summary'.share = share
    BY <1>1 DEF ComputeTimeWeaveSummary
  <2>2. /\ Len(weave) \in Nat /\ Len(arrivals) \in Nat /\ share \in Nat
        /\ summary'.events = Len(arrivals)
    BY <1>1, <2>1, CountedTypes DEF WeaveInv
  <2>3. previous \in {NoSummary, summary}
    BY <1>1 DEF ComputeTimeWeaveSummary
  <2>4. NoSummary.branches = 0 /\ NoSummary.share = -1
    BY DEF NoSummary
  <2>5. previous # NoSummary
    <3> SUFFICES ASSUME previous = NoSummary PROVE FALSE
      OBVIOUS
    <3>1. previous.branches > Len(weave)
      BY <2>1, <2>2, <2>4, SoftMerge
    <3>2. QED
      BY <2>2, <2>4, <3>1
  <2>6. /\ previous = summary /\ summary # NoSummary
        /\ summary.events \in Nat /\ summary.branches \in Nat /\ summary.share \in Nat
        /\ summary.events <= Len(arrivals) /\ summary.branches <= Len(weave)
        /\ summary.events = Len(arrivals) => summary.share = share
    BY <1>1, <2>1, <2>3, <2>5 DEF WeaveInv, SummaryOK
  <2>7. 1500 <= share - summary.share
    <3>1. ~ (summary.branches > Len(weave))
      BY <2>2, <2>6
    <3>2. QED
      BY <2>1, <2>2, <2>6, <3>1, SoftMerge
  <2>8. QED
    BY <2>1, <2>2, <2>6, <2>7
<1>2. WeaveInv /\ [Step]_allVars
         => [(summary' # summary /\ summary'.mode = "soft-merge")
                => summary # NoSummary /\ summary'.events > summary.events
                   /\ summary'.share > summary.share]_allVars
  <2> SUFFICES ASSUME WeaveInv, Step, summary' # summary, summary'.mode = "soft-merge"
               PROVE  summary # NoSummary /\ summary'.events > summary.events
                      /\ summary'.share > summary.share
    OBVIOUS
  <2>1. ComputeTimeWeaveSummary(NoSummary) \/ ComputeTimeWeaveSummary(summary)
    BY DEF Step, WeaveNext, AnchorEventToWeave, BuildViewFromWebAndAnchors, weaveVars
  <2>2. QED
    BY <1>1, <2>1
<1>3. QED
  BY <1>2, WeaveInvInit, WeaveInvStep, PTL DEF TemporalSpec, MergeIsNews, Step, allVars

=============================================================================
