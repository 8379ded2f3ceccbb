-------------------------- MODULE MCBackgroundJobs --------------------------
(* Instances of BackgroundJobs for TLC. *)
EXTENDS BackgroundJobs, TLC

CONSTANTS j1, j2, t1, t2

(* Every job has a task of its own. *)
OneJob == j1 :> t1
TwoJobs == (j1 :> t1) @@ (j2 :> t2)

NoDeps == [t \in Task |-> {}]

Symmetry == Permutations(LeaseId)
=============================================================================
