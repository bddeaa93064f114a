----------------------------- MODULE MCLimiter -----------------------------
(***************************************************************************)
(* The instance of RefreshLimiter TLC checks: one tick is 300 seconds.     *)
(***************************************************************************)
EXTENDS RefreshLimiter, TLC

Symmetric == Permutations(Posts) \cup Permutations(Procs) \cup Permutations(Requests)

=============================================================================
