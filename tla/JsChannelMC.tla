---------------------------- MODULE JsChannelMC ----------------------------
(* JsChannel for TLC: a sender on time and one whose clock is ahead. *)
EXTENDS JsChannel, TLC

Offsets == {0, 2}
Symmetric == Permutations(Handlers)
=============================================================================
