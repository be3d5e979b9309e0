-------------------------- MODULE TraceInspectorMC --------------------------
(* TraceInspector for TLC: two continuity tokens, so that a rotation happens. *)
EXTENDS TraceInspector

TwoTokens == {"ct1", "ct2"}
=============================================================================
