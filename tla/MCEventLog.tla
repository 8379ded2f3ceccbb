----------------------------- MODULE MCEventLog -----------------------------
(***************************************************************************)
(* Instances of EventLog for TLC: model values and their symmetry.         *)
(***************************************************************************)
EXTENDS EventLog, TLC

CONSTANTS p1, p2, s1, s2, t1, k1, k2

Symmetry == Permutations({k1, k2})

(* What is held of a session that is not complete is not looked at before  *)
(* a rebuild or a restart replaces it: such states are one.                *)
Looked ==
  <<log, now, stamp, complete, snapshots, capture, late, overlapped,
    [s \in Session |-> IF s \in complete THEN projection[s] ELSE Blank]>>
==============================================================================
