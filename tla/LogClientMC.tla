---------------------------- MODULE LogClientMC ----------------------------
(* For TLC: the trace log while it is written, the inspector of finished logs *)
(* and the connection of the JavaScript client.  They share no state, so a    *)
(* behaviour moves one of them.                                               *)
EXTENDS TraceLog, TraceInspectorMC, JsClient

VARIABLE part    \* the one that moves

allVars == <<logVars, inspectVars, clientVars, part>>

LogMoves(A) == part = "log" /\ A /\ UNCHANGED <<inspectVars, clientVars, part>>
InspectorMoves == part = "inspector" /\ InspectNext /\ UNCHANGED <<logVars, clientVars, part>>
ClientMoves(A) == part = "client" /\ A /\ UNCHANGED <<logVars, inspectVars, part>>

\* The calls of the log's writers and its crashes are bounded.
LogRests == part = "log" /\ UNCHANGED allVars

\* One start of the inspector and of the client is enough where another part
\* moves.
MCInit ==
    /\ part \in {"log", "inspector", "client"}
    /\ LogInit /\ InspectInit /\ ClientInit
    /\ part = "inspector" \/ kind = "raw"
    /\ part = "client" \/ threadId = FALSE

MCNext == LogMoves(LogNext) \/ InspectorMoves \/ ClientMoves(ClientNext) \/ LogRests

\* The fairness of TraceLog and of JsClient.
MCFairness ==
    /\ \A w \in Writers : WF_allVars(LogMoves(Step(w)))
    /\ WF_allVars(ClientMoves(ReconnectDue))
    /\ \A s \in Sockets :
          /\ WF_allVars(ClientMoves(CloseReported(s)))
          /\ WF_allVars(ClientMoves(sock[s] = "connecting" /\ (OnOpen(s) \/ ConnectionLost(s))))
          /\ WF_allVars(ClientMoves(sock[s] \in {"init", "resume"} /\ (Answer(s) \/ ConnectionLost(s))))

MCSpec == MCInit /\ [][MCNext]_allVars /\ MCFairness
=============================================================================
