------------------------------ MODULE ViewsMC ------------------------------
(* What is made of frames by those who read them, for TLC: the conformance    *)
(* checkers (with frames of two senders), the orientation views of the SDK,   *)
(* and the programs that watch a node.  They share no state, and neither do   *)
(* these programs, so a behaviour moves one of them.                          *)
EXTENDS Conformance, OrientationMC, LinkMonitor

TwoSenders == {"global", "peer"}

VARIABLE part    \* the one that moves

weaving == <<orientationVars, weaveVars>>
viewsVars == <<conformanceVars, weaving, monitorVars, part>>

CheckersMove == part = "checkers" /\ ConformanceNext /\ UNCHANGED <<weaving, monitorVars, part>>
OrientationMoves == part = "orientation" /\ MCNext /\ UNCHANGED <<conformanceVars, monitorVars, part>>
MonitorMoves(p, A) == part = p /\ A /\ UNCHANGED <<conformanceVars, weaving, part>>

\* The console's clock is bounded, its process and the gateway's may end, and the
\* transport client may have used its sockets.
Rests == part \in {"console", "transport", "gateway"} /\ UNCHANGED viewsVars

\* One start of the orientation is enough where another part moves.
ViewsInit ==
    /\ part \in {"checkers", "orientation", "console", "transport", "gateway"}
    /\ ConformanceInit /\ MCInit /\ MonitorInit
    /\ part = "orientation" \/ SectorsRest

ViewsNext ==
    \/ CheckersMove
    \/ OrientationMoves
    \/ MonitorMoves("console", ConsoleNext)
    \/ MonitorMoves("transport", LtpNext)
    \/ MonitorMoves("gateway", GatewayNext)
    \/ Rests

ViewsSpec == ViewsInit /\ [][ViewsNext]_viewsVars
=============================================================================
