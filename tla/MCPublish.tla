----------------------------- MODULE MCPublish -----------------------------
(***************************************************************************)
(* Instances of PublishPipeline for TLC: p1 and p2 are posts, p2 replies   *)
(* to p1 in the instances with a thread; i1, i2 are API processes, s1, s2  *)
(* the concurrent tasks of the ARQ worker.                                 *)
(***************************************************************************)
EXTENDS PublishPipeline, TLC

CONSTANTS p1, p2

NoThread == [p \in Posts |-> None]

Thread == [p \in Posts |-> IF p = p2 THEN p1 ELSE None]

NoFaults == {}

\* The faults that leave the pipeline's own bookkeeping intact.
MildFaults == {"enqueue_fails"}

AllButUsers == FaultKinds \ {"user_edit"}

SlowOnly == {"slow_publish"}

ProcessSymmetry == Permutations(Instances) \cup Permutations(Slots)

=============================================================================
