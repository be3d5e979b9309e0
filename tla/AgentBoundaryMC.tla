-------------------------- MODULE AgentBoundaryMC --------------------------
EXTENDS AgentBoundary, TLC

Twins == Permutations(Calls)
MCEnvLists == {None, {"send_email"}}
MCFileLists == {None, {}, {"transfer_money", ""}}
=============================================================================
