----------------------------- MODULE Orientation -----------------------------
(***************************************************************************)
(* The SDK's orientation state: the map of threads with their life cycle   *)
(* (threadLifeModel.ts) and the web built over it (consciousnessWeb.ts),   *)
(* the web of sectors with its active sector (orientationWeb.ts), and the  *)
(* ring of orientation frames (turtleOrientationMatrix.ts).                *)
(*                                                                         *)
(* Energy and resonance are in hundredths, the forces of a sector in       *)
(* tenths.  The code has floats: a sum that meets a threshold exactly may  *)
(* come out on either side of it (0.15 - 0.05 < 0.1 in a double), so a     *)
(* comparison of equal numbers goes either way here.                       *)
(***************************************************************************)
EXTENDS Integers, Sequences, FiniteSets

CONSTANTS
    Vectors,      \* threads an application registers, with their first levels
    HintLevels,   \* resonance levels an event may carry, besides none
    SectorIds,    \* ids of the sectors, numbers in the order of their names
    Deltas,       \* changes of a sector's forces, in tenths
    FrameCount    \* number of frames on the ring (12 in the code)

ASSUME OrientationAssumption ==
    /\ Vectors \subseteq [id : Nat, parent : Nat, scope : STRING, tags : SUBSET STRING,
                          phase : {"birth"}, energy : Int, resonance : Int]
    /\ HintLevels \subseteq Int /\ SectorIds \subseteq Nat \ {0} /\ Deltas \subseteq Int
    /\ FrameCount \in Nat \ {0} /\ 360 % FrameCount = 0

VARIABLES
    threads,   \* map.threads, in the order of registration
    view,      \* what was last built over the threads: links, metrics, active threads
    web,       \* the sectors and the active one
    turtle     \* the orientation matrix

orientationVars == <<threads, view, web, turtle>>

NoLevel == -1
Self == 0        \* ORIENTATION_BASELINE.activeSectorId, which need not be a sector
NoFrame == -1

Clamp(x, lo, hi) == IF x < lo THEN lo ELSE IF x > hi THEN hi ELSE x
ClampLevel(x) == Clamp(x, 0, 100)

\* The outcomes that x < y can have.
Less(x, y) == IF x = y THEN BOOLEAN ELSE {x < y}

-----------------------------------------------------------------------------
(* Threads *)

ENERGY_WEAKEN_THRESHOLD == 30
ENERGY_ARCHIVE_THRESHOLD == 10
RESONANCE_SWITCH_DELTA == 5

Events == [type : {"goal-updated", "new-opportunity", "drop-in-attention",
                   "family-resonance", "success", "shutdown-request"},
           level : HintLevels \cup {NoLevel}]

IsActivationEvent(e) == e.type \in {"goal-updated", "new-opportunity"}
IsSwitchEvent(e) == e.type \in {"new-opportunity", "family-resonance"}

DeriveResonanceHint(e, r) == ClampLevel(IF e.level # NoLevel THEN e.level ELSE r + 10)

LivePhase(t, e, weak, stronger) ==
    CASE t.phase = "birth" /\ IsActivationEvent(e) -> "active"
      [] t.phase = "active" /\ (e.type = "drop-in-attention" \/ weak) -> "weakening"
      [] t.phase = "weakening" /\ IsSwitchEvent(e) /\ stronger -> "switching"
      [] t.phase = "switching" /\ e.type \in {"goal-updated", "success"} -> "active"
      [] OTHER -> t.phase

\* Mutant: a thread without energy is not archived.
PhaseIgnoringEnergy(t, e, depleted, weak, stronger) ==
    IF e.type = "shutdown-request" THEN "archived" ELSE LivePhase(t, e, weak, stronger)

\* depleted, weak and stronger are the outcomes of the three comparisons.
PhaseAfter(t, e, depleted, weak, stronger) ==
    IF e.type = "shutdown-request" \/ depleted THEN "archived" ELSE LivePhase(t, e, weak, stronger)

ComputeNextPhase(t, e) ==
    LET energy    == ClampLevel(t.energy)
        resonance == ClampLevel(t.resonance)
    IN  {PhaseAfter(t, e, depleted, weak, stronger)
           : depleted \in Less(energy, ENERGY_ARCHIVE_THRESHOLD),
             weak \in Less(energy, ENERGY_WEAKEN_THRESHOLD),
             stronger \in Less(resonance + RESONANCE_SWITCH_DELTA,
                               DeriveResonanceHint(e, resonance))}

AdjustEnergyLevel(phase, x) ==
    CASE phase = "active"    -> ClampLevel(x + 5)
      [] phase = "weakening" -> ClampLevel(x - 5)
      [] phase = "archived"  -> 0
      [] OTHER               -> x

\* A reason that speaks of success comes with the phase active only.
AdjustResonanceLevel(phase, x) ==
    CASE phase = "active"    -> ClampLevel(x + 5)
      [] phase = "weakening" -> ClampLevel(x - 3)
      [] phase = "archived"  -> ClampLevel(x - 10)
      [] OTHER               -> x

ApplyTransition(t, phase) ==
    [t EXCEPT !.phase = phase,
              !.energy = AdjustEnergyLevel(phase, @),
              !.resonance = AdjustResonanceLevel(phase, @)]

Registered == {threads[k].id : k \in DOMAIN threads}

RegisterNewThread(v) ==
    /\ threads' = IF v.id \in Registered THEN threads ELSE Append(threads, v)
    /\ UNCHANGED <<view, web, turtle>>

\* An event for a thread that is not registered changes nothing.
UpdateThreadFromEvent(id, e) ==
    /\ \E k \in DOMAIN threads :
          /\ threads[k].id = id
          /\ \E to \in ComputeNextPhase(threads[k], e) :
                threads' = [threads EXCEPT ![k] = ApplyTransition(@, to)]
    /\ UNCHANGED <<view, web, turtle>>

-----------------------------------------------------------------------------
(* The web over the threads *)

CreateParentChildLinks ==
    {[from |-> threads[k].parent, to |-> threads[k].id, kind |-> "parent-child"]
       : k \in {k \in DOMAIN threads : threads[k].parent \in Registered}}

PairLinks(kind, Joined(_, _)) ==
    {[from |-> threads[p[1]].id, to |-> threads[p[2]].id, kind |-> kind]
       : p \in {p \in (DOMAIN threads) \X (DOMAIN threads) :
                  p[1] < p[2] /\ Joined(threads[p[1]], threads[p[2]])}}

CreateSharedScopeLinks == PairLinks("shared-scope", LAMBDA a, b : a.scope = b.scope)
CreateSharedTagLinks == PairLinks("shared-tag", LAMBDA a, b : a.tags \cap b.tags # {})

\* A link from a thread to itself counts twice.
Degree(links, id) == Cardinality({l \in links : l.from = id}) + Cardinality({l \in links : l.to = id})

\* The default shell: a sector for each scope, and one for a tag, all active.
MatchesSector(t) == t.scope \in {"individual", "family", "project", "system"} \/ "liminal-os" \in t.tags

BuildConsciousnessWeb ==
    /\ LET links == CreateParentChildLinks \cup CreateSharedScopeLinks \cup CreateSharedTagLinks
       IN  view' = [links  |-> links,
                    degree |-> [id \in Registered |-> Degree(links, id)],
                    active |-> {t.id : t \in {threads[k] : k \in {k \in DOMAIN threads :
                                                              MatchesSector(threads[k])}}}]
    /\ UNCHANGED <<threads, web, turtle>>

-----------------------------------------------------------------------------
(* The web of sectors *)

Clamp01(x) == Clamp(x, 0, 10)

CreateDefaultSector == [tension |-> 0, pull |-> 0, resonance |-> 0]

CreateOrientationWeb(active) ==
    [sectors |-> [s \in SectorIds |-> CreateDefaultSector], active |-> active]

\* An update of several forces is a list of updates of one each.
Updates == [sector : SectorIds \cup {Self}, force : {"tension", "pull", "resonance"}, delta : Deltas]

ApplyUpdate(sectors, u) ==
    IF u.sector \notin DOMAIN sectors THEN sectors
    ELSE [sectors EXCEPT ![u.sector][u.force] = Clamp01(@ + u.delta)]

\* A list of updates is applied in order; two show what more would.
ApplyWebUpdates(u, v) ==
    /\ web' = [web EXCEPT !.sectors = ApplyUpdate(ApplyUpdate(@, u), v)]
    /\ UNCHANGED <<threads, view, turtle>>

ComputeScore(s) == s.pull * 5 + s.resonance * 3 + s.tension * 2

Best(sectors) == {s \in DOMAIN sectors :
                    \A r \in DOMAIN sectors : ComputeScore(sectors[r]) <= ComputeScore(sectors[s])}

\* Sectors with the same forces have the same score; other equal scores may differ
\* by rounding, and then any of them comes out first.
ChooseDominantSector(w) ==
    LET best == Best(w.sectors)
        tied == \A r, s \in best : w.sectors[r] = w.sectors[s]
    IN  IF best = {} THEN {Self}
        ELSE IF ~tied THEN best
        ELSE IF w.active \in best THEN {w.active}
        ELSE {CHOOSE s \in best : \A r \in best : s <= r}

UpdateActiveSector ==
    /\ \E s \in ChooseDominantSector(web) : web' = [web EXCEPT !.active = s]
    /\ UNCHANGED <<threads, view, turtle>>

-----------------------------------------------------------------------------
(* The ring of frames, each named by its index *)

TURTLE_FRAMES == 0 .. FrameCount - 1

NormalizeAngle(x) == x % 360
NormalizeIndex(x) == x % FrameCount

CreateDefaultTurtleMatrix ==
    [current |-> 0, previous |-> NoFrame, angle |-> 0, index |-> 0]

\* Mutant: the angle is that of the way from frame 0, added to the old one.
RotatedFromZero(m, target) ==
    [current |-> target, previous |-> m.current, index |-> target,
     angle |-> NormalizeAngle(m.angle + target * (360 \div FrameCount))]

Rotated(m, target) ==
    [current |-> target, previous |-> m.current, index |-> target,
     angle |-> NormalizeAngle(m.angle + (target - m.current) * (360 \div FrameCount))]

RotateTurtleMatrix(target) ==
    /\ turtle' = IF target = turtle.current THEN turtle ELSE Rotated(turtle, target)
    /\ UNCHANGED <<threads, view, web>>

RotateByStep(step) == RotateTurtleMatrix(NormalizeIndex(turtle.index + step))

-----------------------------------------------------------------------------
OrientationInit ==
    /\ threads = <<>>
    /\ view = [links |-> {}, degree |-> <<>>, active |-> {}]
    /\ \E active \in SectorIds \cup {Self} : web = CreateOrientationWeb(active)
    /\ turtle = CreateDefaultTurtleMatrix

SectorNext == UpdateActiveSector \/ \E u, v \in Updates : ApplyWebUpdates(u, v)

TurtleNext ==
    \/ \E target \in TURTLE_FRAMES : RotateTurtleMatrix(target)
    \/ \E step \in -(FrameCount + 1) .. FrameCount + 1 : RotateByStep(step)

OrientationNext ==
    \/ \E v \in Vectors : RegisterNewThread(v)
    \/ \E v \in Vectors, e \in Events : UpdateThreadFromEvent(v.id, e)
    \/ BuildConsciousnessWeb
    \/ SectorNext
    \/ TurtleNext

OrientationSpec == OrientationInit /\ [][OrientationNext]_orientationVars

-----------------------------------------------------------------------------
(* Properties *)

\* Whatever events come, in whatever order, the phase of a thread is backed by its energy: it
\* is out of birth only with enough for the phase, and archived exactly when all is gone
\* (computeNextPhase looks at the level before the event, applyTransition changes it after).
PhaseNeedsEnergy ==
    \A k \in DOMAIN threads :
        LET t == threads[k]
        IN  /\ t.phase = "active" => t.energy \in 15 .. 100
            /\ t.phase = "weakening" => t.energy \in 5 .. 100
            /\ t.phase = "switching" => t.energy \in 10 .. 100
            /\ t.phase = "archived" => t.energy = 0

\* The angle, which is only ever moved by differences, always is the one of the current
\* frame: it does not drift over any sequence of rotations and steps (rotateTurtleMatrix).
AngleMatchesFrame ==
    /\ turtle.index = turtle.current
    /\ turtle.angle = turtle.current * (360 \div FrameCount)
    /\ turtle.previous # turtle.current

=============================================================================
