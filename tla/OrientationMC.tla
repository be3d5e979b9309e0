---------------------------- MODULE OrientationMC ----------------------------
(* Orientation and TemporalOrientation for TLC: a parent and its child,       *)
(* starting above and below the thresholds, and events for two sectors and    *)
(* for a thread that is none.  The parts share no state that they change, and *)
(* events touch one thread, so a behaviour moves one thread, or the sectors,  *)
(* or the ring, or the weave with its view or its summary.                    *)
EXTENDS TemporalOrientation

Thread(i, p, tags, e, r) ==
    [id |-> i, parent |-> p, scope |-> "family", tags |-> tags, phase |-> "birth",
     energy |-> e, resonance |-> r]

Family == {Thread(1, 0, {"a"}, 28, 97), Thread(2, 1, {"a", "b"}, 14, 40), Thread(2, 1, {}, 120, -5)}

BigSteps == {-10, 6}

LateEvents == [sector : {1, 2}, thread : {NoThread}, tick : {1, 2}, level : {0, 150}]
                 \cup [sector : {2}, thread : {NoThread}, tick : {2}, level : {NoLevel}]
                 \cup [sector : {1}, thread : {3}, tick : {1}, level : {150}]

SomeBatches ==
    {<<>>, <<[sector |-> 1, thread |-> NoThread, tick |-> 2, level |-> 0],
             [sector |-> 2, thread |-> NoThread, tick |-> 1, level |-> 150]>>}

SectorsRest == web = CreateOrientationWeb(Self)
TurtleRests == turtle = CreateDefaultTurtleMatrix
WeaveRests == arrivals = <<>> /\ summary = NoSummary

\* The view and the summary read the weave and not one another.
OneReader == summary' = NoSummary \/ temporal' = BuildTemporalOrientationView(<<>>)

MovesOne(id) == \A k \in DOMAIN threads : threads[k] \in Vectors \/ threads[k].id = id

MCInit == OrientationInit /\ WeaveInit

MCNext ==
    \/ /\ WeaveRests
       /\ \/ SectorsRest /\ TurtleRests /\ \E v \in Vectors : RegisterNewThread(v)
          \/ SectorsRest /\ TurtleRests /\ BuildConsciousnessWeb
          \/ \E v \in Vectors : MovesOne(v.id) /\ \E e \in Events : UpdateThreadFromEvent(v.id, e)
          \/ threads = <<>> /\ TurtleRests /\ SectorNext
          \/ threads = <<>> /\ SectorsRest /\ TurtleNext
       /\ UNCHANGED weaveVars
    \/ threads = <<>> /\ SectorsRest /\ TurtleRests /\ WeaveNext /\ OneReader

MCSpec == MCInit /\ [][MCNext]_<<orientationVars, weaveVars>>
=============================================================================
