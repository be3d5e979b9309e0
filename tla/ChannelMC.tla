----------------------------- MODULE ChannelMC -----------------------------
(* The two ends of the JavaScript example for TLC: the SDK's signed channel   *)
(* and the example server.  The server does not verify what the channel adds, *)
(* so they share no state here and a behaviour moves one of them.             *)
EXTENDS JsChannelMC, MinimalServer

VARIABLE part    \* the one that moves

allVars == <<vars, serverVars, part>>

ChannelMoves == part = "channel" /\ Next /\ UNCHANGED <<serverVars, part>>
ServerMoves == part = "server" /\ ServerNext /\ UNCHANGED <<vars, part>>

\* The server's clock is bounded.
ClockStops == part = "server" /\ UNCHANGED allVars

MCInit == part \in {"channel", "server"} /\ Init /\ ServerInit
MCSpec == MCInit /\ [][ChannelMoves \/ ServerMoves \/ ClockStops]_allVars
=============================================================================
