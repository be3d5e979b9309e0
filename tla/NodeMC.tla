------------------------------- MODULE NodeMC -------------------------------
(* The Rust node for TLC: its sessions, its rate limits for two connections   *)
(* behind one address, and its keys.  They change no state of one another, so *)
(* a behaviour moves one of them.                                             *)
EXTENDS NodeSessions, NodeRateLimit, NodeAuth

CONSTANTS c1, c2, a

OneAddress == [c \in {c1, c2} |-> a]

VARIABLE part    \* the part that moves

nodeVars == <<vars, rateVars, authVars, part>>

SessionsMove(A) == part = "sessions" /\ A /\ UNCHANGED <<rateVars, authVars, part>>
RateMoves == part = "rate" /\ RateNext /\ UNCHANGED <<vars, authVars, part>>
AuthMoves(A) == part = "auth" /\ A /\ UNCHANGED <<vars, rateVars, part>>

\* The clock of the limits and the edits of the key file are bounded.
Rests == part \in {"rate", "auth"} /\ UNCHANGED nodeVars

\* One start of authentication is enough where another part moves.
NodeInit ==
    /\ part \in {"sessions", "rate", "auth"}
    /\ Init /\ RateInit /\ AuthInit
    /\ part = "auth" \/ (mode = "none" /\ file = Unreadable)

NodeNext == SessionsMove(Next) \/ RateMoves \/ AuthMoves(AuthNext) \/ Rests

\* The fairness of NodeSessions and of NodeAuth.
NodeFairness ==
    /\ \A c \in Conns : WF_nodeVars(SessionsMove(HandlerStep(c)))
    /\ WF_nodeVars(SessionsMove(JanitorStep))
    /\ SF_nodeVars(SessionsMove(Tick))
    /\ WF_nodeVars(AuthMoves(Reload))

NodeSpec == NodeInit /\ [][NodeNext]_nodeVars /\ NodeFairness
=============================================================================
