---------------------------- MODULE MCTaskLease ----------------------------
(* Instances of TaskLease for TLC. *)
EXTENDS TaskLease, TLC

CONSTANTS t1, t2

(* The second task waits for the first. *)
Chain == (t1 :> {}) @@ (t2 :> {t1})

(* A board with one task. *)
Single == t1 :> {}

(* Lease ids are random, and the passes run the same code. *)
Symmetry == Permutations(LeaseId) \cup Permutations(Pass)
=============================================================================
