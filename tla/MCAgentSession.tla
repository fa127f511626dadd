--------------------------- MODULE MCAgentSession ---------------------------
(***************************************************************************)
(* Instances of AgentSession for TLC.  Sessions and conversations are      *)
(* interchangeable, so the safety runs may use their symmetry.             *)
(***************************************************************************)
EXTENDS AgentSession, TLC

Symmetry == Permutations(Session) \cup Permutations(Conv)
=============================================================================
