------------------------- MODULE TemporalOrientation -------------------------
(***************************************************************************)
(* Orientation over time: events are anchored in a weave with one branch   *)
(* for each thread (timeAnchorEngine.ts, timeWeave.ts), a view joins the   *)
(* sectors of the orientation web with their branches and suggests where   *)
(* to go next (temporalOrientationEngine.ts), and a summary compares the   *)
(* weave with an earlier summary (timeWeaveAsymmetry.ts).                  *)
(*                                                                         *)
(* Intensities are in hundredths, weights and shares in units of 1/10000,  *)
(* the precision that the code rounds them to.  Ticks are numbers.         *)
(***************************************************************************)
EXTENDS Orientation, FiniteSetsExt, SequencesExt

CONSTANTS
    Anchors,        \* orientation events: sector, thread or NoThread, tick, level or NoLevel
    Batches,        \* lists of such events that are anchored at once
    TREND_WINDOW,   \* how many of the latest nodes make a trend (5 in the code)
    MaxArrivals     \* bound on the number of anchored events

ASSUME TemporalAssumption ==
    /\ Anchors \subseteq [sector : Nat, thread : Nat, tick : Nat, level : Int]
    /\ Batches \subseteq Seq(Anchors)
    /\ TREND_WINDOW \in Nat \ {0} /\ MaxArrivals \in Nat

VARIABLES
    weave,      \* the branches, in the order in which they came to be
    temporal,   \* the temporal view built last
    summary,    \* the weave's summary computed last, which the next one is compared with
    arrivals    \* the events in the order of their anchoring; no part of the code's state

weaveVars == <<weave, temporal, summary, arrivals>>

NoThread == 0
NoSummary == [events |-> 0, branches |-> 0, share |-> -1, mode |-> "none", dominant |-> NoThread]

-----------------------------------------------------------------------------
(* The weave *)

ResolveThreadIdForSector(e) == IF e.thread # NoThread THEN e.thread ELSE e.sector

BuildTimeNodeFromEvent(e) ==
    [tick |-> e.tick, intensity |-> IF e.level = NoLevel THEN 50 ELSE ClampLevel(e.level)]

\* Array.prototype.sort is stable: nodes of one tick keep their order.
Before(nodes, j, i) == nodes[j].tick < nodes[i].tick \/ (nodes[j].tick = nodes[i].tick /\ j <= i)

Rank(nodes, K, i) == Cardinality({j \in K : Before(nodes, j, i)})

SortNodesByTick(nodes) ==
    [k \in DOMAIN nodes |-> nodes[CHOOSE i \in DOMAIN nodes : Rank(nodes, DOMAIN nodes, i) = k]]

BranchIndexes(w, thread) == {k \in DOMAIN w : w[k].thread = thread}

GetBranch(w, thread) == w[CHOOSE k \in BranchIndexes(w, thread) : TRUE]

UpsertBranch(w, branch) ==
    IF BranchIndexes(w, branch.thread) = {} THEN Append(w, branch)
    ELSE [k \in DOMAIN w |-> IF w[k].thread = branch.thread THEN branch ELSE w[k]]

\* Mutant: the node is put at the end, as it is right for events that come in order.
AppendUnsorted(w, thread, node) ==
    UpsertBranch(w, [thread |-> thread,
                     nodes  |-> IF BranchIndexes(w, thread) = {} THEN <<node>>
                                ELSE Append(GetBranch(w, thread).nodes, node)])

AppendNodeToBranch(w, thread, node) ==
    UpsertBranch(w, [thread |-> thread,
                     nodes  |-> IF BranchIndexes(w, thread) = {} THEN <<node>>
                                ELSE SortNodesByTick(Append(GetBranch(w, thread).nodes, node))])

Anchored(w, e) == AppendNodeToBranch(w, ResolveThreadIdForSector(e), BuildTimeNodeFromEvent(e))

AnchorEventToWeave(e) ==
    /\ Len(arrivals) < MaxArrivals
    /\ weave' = Anchored(weave, e)
    /\ arrivals' = Append(arrivals, e)
    /\ UNCHANGED <<temporal, summary>>

-----------------------------------------------------------------------------
(* Trends and the view *)

\* reduce: the sums of the beginnings of a list of numbers.
Sums(f) == LET sum[k \in 0 .. Len(f)] == IF k = 0 THEN 0 ELSE sum[k - 1] + f[k] IN sum

IntensitySums(nodes) == Sums([k \in 1 .. Len(nodes) |-> nodes[k].intensity])

\* The averages of the older and the newer half of the window, compared to within 0.05.
ComputeBranchTrend(nodes) ==
    LET from  == IF Len(nodes) > TREND_WINDOW THEN Len(nodes) - TREND_WINDOW ELSE 0
        size  == Len(nodes) - from
        mid   == size \div 2
        sums  == IntensitySums(nodes)
        older == (sums[from + mid] - sums[from]) * (size - mid)
        newer == (sums[Len(nodes)] - sums[from + mid]) * mid
        eps   == 5 * mid * (size - mid)
    IN  CASE size <= 1           -> "plateau"
          [] newer > older + eps -> "rising"
          [] newer < older - eps -> "falling"
          [] OTHER               -> "plateau"

\* A sector has the branch of the thread with its name, if there is one.
BranchTrend(w, s) ==
    IF BranchIndexes(w, s) = {} THEN "unknown" ELSE ComputeBranchTrend(GetBranch(w, s).nodes)

IsActive(w, s) == BranchIndexes(w, s) # {} /\ Last(GetBranch(w, s).nodes).intensity > 30

SectorsWith(trends, trend) == {s \in DOMAIN trends : trends[s] = trend}

DeriveGlobalTrend(trends) ==
    LET observed == Cardinality({s \in DOMAIN trends : trends[s] # "unknown"})
        major == {t \in {"rising", "falling", "plateau"} :
                    2 * Cardinality(SectorsWith(trends, t)) > observed}
    IN  IF observed = 0 THEN "plateau" ELSE IF major = {} THEN "mixed" ELSE CHOOSE t \in major : TRUE

\* Mutant: a sector that does not fall counts as rising.
SummaryCountsPlateaus(trends) ==
    [rising  |-> DOMAIN trends \ (SectorsWith(trends, "falling") \cup SectorsWith(trends, "unknown")),
     plateau |-> SectorsWith(trends, "plateau"),
     global  |-> DeriveGlobalTrend(trends)]

BuildSummary(trends) ==
    [rising  |-> SectorsWith(trends, "rising"),
     plateau |-> SectorsWith(trends, "plateau"),
     global  |-> DeriveGlobalTrend(trends)]

BuildTemporalOrientationView(w) ==
    LET trends == [s \in DOMAIN web.sectors |-> BranchTrend(w, s)]
    IN  [trends |-> trends, active |-> {s \in DOMAIN web.sectors : IsActive(w, s)},
         summary |-> BuildSummary(trends)]

AnchorEventsBatch(w, events) ==
    LET woven[k \in 0 .. Len(events)] == IF k = 0 THEN w ELSE Anchored(woven[k - 1], events[k])
    IN  woven[Len(events)]

BuildViewFromWebAndAnchors(events) ==
    /\ Len(arrivals) + Len(events) <= MaxArrivals
    /\ weave' = AnchorEventsBatch(weave, events)
    /\ temporal' = BuildTemporalOrientationView(weave')
    /\ arrivals' = arrivals \o events
    /\ UNCHANGED summary

TrendOf(v, s) == IF s \in DOMAIN v.trends THEN v.trends[s] ELSE "unknown"

\* The sectors that may be suggested: the first rising one in the order of the web's keys,
\* which is not modelled.
SuggestNextSector(v, current) ==
    IF TrendOf(v, current) \in {"falling", "plateau"} THEN v.summary.rising ELSE {}

\* The first by name.
PickNextSector(v, current) ==
    LET first(S) == {s \in S : \A r \in S : s <= r}
        rising   == v.summary.rising \ {current}
        plateaus == v.summary.plateau \ {current}
    IN  CASE /\ rising # {}
             /\ current \in DOMAIN v.trends => TrendOf(v, current) \in {"falling", "plateau"}
                              -> first(rising)
          [] rising = {}      -> first(plateaus)
          [] OTHER            -> {}

-----------------------------------------------------------------------------
(* The summary *)

Nearest(a, b) == (2 * a + b) \div (2 * b)

ComputeBranchWeight(nodes) ==
    70 * Last(nodes).intensity + Nearest(30 * IntensitySums(nodes)[Len(nodes)], Len(nodes))

Weights(w) == [k \in 1 .. Len(w) |-> ComputeBranchWeight(w[k].nodes)]

\* The first of the heaviest branches.
FindDominantBranch(w) == Min({k \in DOMAIN w : \A j \in DOMAIN w : Weights(w)[j] <= Weights(w)[k]})

ComputeTimeWeaveAsymmetry(w) ==
    LET total == Sums(Weights(w))[Len(w)]
    IN  CASE Len(w) = 0  -> 0
          [] Len(w) = 1  -> 10000
          [] total = 0   -> 0
          [] OTHER       -> Nearest(10000 * Weights(w)[FindDominantBranch(w)], total)

\* Mutant: a large share is a merge, whatever it was before.
CollapseAtOnce(w, share, previous) ==
    {CASE Len(w) <= 1 \/ share >= 8000 -> "hard-collapse"
       [] share >= 6000                -> "soft-merge"
       [] OTHER                        -> "none"}

\* The modes that can come out: a rise of exactly 0.15 may count or not in a double.
DetectBranchCollapse(w, share, previous) ==
    LET drop == previous.branches > Len(w)
        rise == IF previous = NoSummary THEN {FALSE} ELSE Less(1500, share - previous.share)
    IN  {CASE Len(w) <= 1 \/ share >= 8000     -> "hard-collapse"
           [] share >= 6000 /\ (risen \/ drop) -> "soft-merge"
           [] OTHER                            -> "none" : risen \in rise}

EventsCount(w) == Sums([k \in 1 .. Len(w) |-> Len(w[k].nodes)])[Len(w)]

\* previousSummary is optional.
ComputeTimeWeaveSummary(previous) ==
    /\ previous \in {NoSummary, summary}
    /\ LET share == ComputeTimeWeaveAsymmetry(weave)
       IN  \E mode \in DetectBranchCollapse(weave, share, previous) :
              summary' = [events   |-> EventsCount(weave),
                          branches |-> Len(weave), share |-> share, mode |-> mode,
                          dominant |-> IF mode = "none" \/ Len(weave) = 0 THEN NoThread
                                       ELSE weave[FindDominantBranch(weave)].thread]
    /\ UNCHANGED <<weave, temporal, arrivals>>

-----------------------------------------------------------------------------
WeaveInit ==
    /\ weave = <<>> /\ arrivals = <<>>
    /\ temporal = BuildTemporalOrientationView(<<>>)
    /\ summary = NoSummary

WeaveNext ==
    /\ \/ \E e \in Anchors : AnchorEventToWeave(e)
       \/ \E events \in Batches : BuildViewFromWebAndAnchors(events)
       \/ ComputeTimeWeaveSummary(NoSummary)
       \/ ComputeTimeWeaveSummary(summary)
    /\ UNCHANGED orientationVars

TemporalSpec ==
    /\ OrientationInit /\ WeaveInit
    /\ [][(OrientationNext /\ UNCHANGED weaveVars) \/ WeaveNext]_<<orientationVars, weaveVars>>

-----------------------------------------------------------------------------
(* Properties *)

\* However late an event comes, and whatever was anchored before it, there is one branch for
\* each thread that has events, and it holds that thread's events, all and each once, by tick,
\* those of one tick in the order of their arrival (appendNodeToBranch, anchorEventsBatch).
WeaveInTickOrder ==
    LET of(t) == {k \in DOMAIN arrivals : ResolveThreadIdForSector(arrivals[k]) = t}
        place(k) == Cardinality({j \in of(ResolveThreadIdForSector(arrivals[k])) :
                                   \/ arrivals[j].tick < arrivals[k].tick
                                   \/ arrivals[j].tick = arrivals[k].tick /\ j <= k})
    IN  /\ \A j, k \in DOMAIN weave : weave[j].thread = weave[k].thread => j = k
        /\ \A k \in DOMAIN weave : Len(weave[k].nodes) = Cardinality(of(weave[k].thread))
        /\ \A k \in DOMAIN arrivals :
              \E b \in BranchIndexes(weave, ResolveThreadIdForSector(arrivals[k])) :
                 weave[b].nodes[place(k)] = BuildTimeNodeFromEvent(arrivals[k])

\* Who follows suggestNextSector arrives at a sector it does not send on from, with the same
\* view however old: nobody is sent in circles.  Where it has a suggestion, pickNextSector
\* sends to a rising sector too; where pickNextSector sends from there is PicksAreBetter's.
SuggestionsSettle ==
    \A current \in SectorIds \cup {Self} :
        \A s \in SuggestNextSector(temporal, current) :
           /\ SuggestNextSector(temporal, s) = {}
           /\ \E r \in PickNextSector(temporal, current) : TrendOf(temporal, r) = "rising"

\* What sdk/js/src/temporalOrientation/README.md:60 says of pickNextSector: "If there is no
\* better temporal signal, it recommends staying in place (no suggestion)."  Without another
\* rising sector it sends on to a plateau, from a rising sector and from a plateau too.
PicksAreBetter ==
    \A current \in SectorIds \cup {Self} :
        \A s \in PickNextSector(temporal, current) :
           \/ TrendOf(temporal, s) = "rising" /\ TrendOf(temporal, current) # "rising"
           \/ TrendOf(temporal, s) = "plateau" /\ TrendOf(temporal, current) \notin {"rising", "plateau"}

\* A soft merge is news: to an application that passes the summary computed last, or none, it
\* is reported only when events have been anchored since a summary with a smaller share, never
\* by computing the summary of the same weave again (detectBranchCollapse compares with the
\* previous summary, and branches are never removed).
MergeIsNews ==
    [][(summary' # summary /\ summary'.mode = "soft-merge")
          => summary # NoSummary /\ summary'.events > summary.events
             /\ summary'.share > summary.share]_<<orientationVars, weaveVars>>

=============================================================================
