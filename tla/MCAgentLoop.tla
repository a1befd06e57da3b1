----------------------------- MODULE MCAgentLoop -----------------------------
(* Short turns of two models for AgentLoop.                                *)
EXTENDS AgentLoop

CONSTANTS A, B

NoNames == {}
ModelSymmetry == Permutations({A, B})
=============================================================================
