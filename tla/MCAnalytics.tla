---------------------------- MODULE MCAnalytics ----------------------------
(***************************************************************************)
(* Instances of AnalyticsPipeline for TLC.                                 *)
(***************************************************************************)
EXTENDS AnalyticsPipeline, TLC

\* The fault that puts two passes side by side; tasks overlap without any.
OverlapFaults == {"lock_expires"}

ProcessSymmetry == Permutations(Instances) \cup Permutations(Slots)

=============================================================================
