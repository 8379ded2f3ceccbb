---------------------------- MODULE MCToolGateway ----------------------------
(***************************************************************************)
(* Instances of ToolGateway for TLC: an agent with two operations of a     *)
(* high-risk tool under one idempotency key, one of a low-risk tool, and   *)
(* one that is refused although a rule allows its tool.                    *)
(***************************************************************************)
EXTENDS ToolGateway, TLC

CONSTANTS c1, c2, c3, a1, a2

Ctx(tool, risk, key) ==
  [actor |-> "agent", tool |-> tool, foreign |-> FALSE,
   secret |-> tool = "secrets", sensitive |-> FALSE, risk |-> risk,
   idempotent |-> key # None, key |-> key, category |-> "unknown"]

MCContext ==
  [o \in Op |-> CASE o = "write" -> Ctx("write", "high", "k1")
                  [] o = "rewrite" -> Ctx("write", "high", "k1")
                  [] o = "run" -> Ctx("run", "low", "k1")
                  [] o = "secrets" -> Ctx("secrets", "low", None)]

MCRules == << [scope |-> [actor |-> "agent", tool |-> "secrets"],
               effect |-> "allow"] >>

Symmetry == Permutations({c1, c2, c3}) \cup Permutations({a1, a2})
==============================================================================
