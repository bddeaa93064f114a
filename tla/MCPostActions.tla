--------------------------- MODULE MCPostActions ---------------------------
(***************************************************************************)
(* The instance of PostActions TLC checks.                                 *)
(***************************************************************************)
EXTENDS PostActions, TLC

AgentSymmetry == Permutations(Agents)

=============================================================================
