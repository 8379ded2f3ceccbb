--------------------------- MODULE MCSqliteEngine ---------------------------
(* Instances of SqliteEngine for TLC. *)
EXTENDS SqliteEngine, TLC

Symmetry == Permutations(Proc)
=============================================================================
