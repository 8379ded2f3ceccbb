--------------------------- MODULE MCModelRouting ---------------------------
(* Instances of ModelRouting for TLC. *)
EXTENDS ModelRouting, TLC

CONSTANTS r1, r2, r3, p1, p2, c1, c2, k1, k2

(* A candidate and a key of each of two providers, each request suits both. *)
TwoProviders == (c1 :> p1) @@ (c2 :> p2) @@ (k1 :> p1) @@ (k2 :> p2)

AllSuit == [r \in Request |-> Candidate]

(* The first request prefers the second candidate. *)
SomePreference ==
  [r \in Request |-> [c \in Candidate |-> IF r = r1 /\ c = c2 THEN 1 ELSE 0]]

FirstBeforeSecond == (c1 :> 1) @@ (c2 :> 2)

Limits == (k1 :> 1) @@ (k2 :> 1)
=============================================================================
