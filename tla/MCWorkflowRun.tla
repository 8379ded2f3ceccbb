--------------------------- MODULE MCWorkflowRun ---------------------------
(* Instances of WorkflowRun for TLC. *)
EXTENDS WorkflowRun, TLC

CONSTANTS a, b, d, g

(* Work a and d and gate g side by side; b waits for a and g. *)
Join == (a :> {}) @@ (d :> {}) @@ (g :> {}) @@ (b :> {a, g})

(* Work b behind gate g. *)
Behind == (g :> {}) @@ (b :> {g})

Symmetry == Permutations(Executor)
=============================================================================
