--------------------------- MODULE MCTaskHandoff ---------------------------
(* Instances of TaskHandoff for TLC. *)
EXTENDS TaskHandoff, TLC

CONSTANT t1

(* A board with one task. *)
Single == t1 :> {}

(* Lease and handoff ids are random, and the passes run the same code. *)
Symmetry ==
  Permutations(LeaseId) \cup Permutations(Pass) \cup Permutations(HandoffId)
=============================================================================
