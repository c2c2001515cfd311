---------------------------- MODULE MCAgentOrders ----------------------------
EXTENDS AgentOrders, TLC

Symmetry == Permutations(Conns)
=============================================================================
