----------------------------- MODULE MCConnect -----------------------------
(***************************************************************************)
(* Instances of AccountsConnect for TLC: sub g signs in with one email and *)
(* later with another, f always with its own.  Nobody shares an email, so  *)
(* RefusalsBounded is about the logins of both and the development user.   *)
(***************************************************************************)
EXTENDS AccountsConnect, TLC

CONSTANTS g, f, d, a, b, e

People == {[sub |-> g, email |-> a], [sub |-> g, email |-> b],
           [sub |-> f, email |-> e]}

DevUser == [sub |-> d, email |-> "dev@local.post-scheduler"]

Symmetric == Permutations(Requests) \cup Permutations(Procs)

=============================================================================
