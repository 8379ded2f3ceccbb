-------------------------- MODULE MCSessionResume --------------------------
(* Instances of SessionResume for TLC. *)
EXTENDS SessionResume, TLC

CONSTANTS t1, t2

(* A board with one task. *)
Single == t1 :> {}

(* Two tasks that wait for nothing. *)
Independent == (t1 :> {}) @@ (t2 :> {})

Symmetry == Permutations(LeaseId) \cup Permutations(Pass)
=============================================================================
