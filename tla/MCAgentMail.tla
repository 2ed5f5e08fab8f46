---------------------------- MODULE MCAgentMail ----------------------------
(* Instances of AgentMail for TLC.                                          *)
EXTENDS AgentMailInv, TLC

CONSTANTS old, successor

Symmetry == Permutations(Procs)
=============================================================================
