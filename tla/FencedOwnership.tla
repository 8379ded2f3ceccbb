-------------------------- MODULE FencedOwnership --------------------------
(***************************************************************************)
(* What task leases promise, without leases, clocks or recovery passes:    *)
(* a task is written to under fencing tokens that only grow, at most one   *)
(* token is in force at a time, and the task is completed at most once,    *)
(* under the token in force at that moment.                                *)
(***************************************************************************)
EXTENDS Naturals

CONSTANT Task

VARIABLES
  token,   \* token[t]: the last token given out for t, 0 before the first
  holder,  \* holder[t]: the token in force, 0 when nobody holds t
  done     \* done[t]: the token t was completed under, 0 before that

vars == <<token, holder, done>>

Init ==
  /\ token = [t \in Task |-> 0]
  /\ holder = [t \in Task |-> 0]
  /\ done = [t \in Task |-> 0]

(* A new owner; whoever held the task before is deposed by it. *)
Grant(t) ==
  /\ done[t] = 0
  /\ token' = [token EXCEPT ![t] = @ + 1]
  /\ holder' = [holder EXCEPT ![t] = token[t] + 1]
  /\ UNCHANGED done

(* The owners of some tasks give them back or lose them. *)
Depose(S) ==
  /\ holder' = [t \in Task |-> IF t \in S THEN 0 ELSE holder[t]]
  /\ UNCHANGED <<token, done>>

Complete(t) ==
  /\ holder[t] # 0
  /\ done[t] = 0
  /\ done' = [done EXCEPT ![t] = holder[t]]
  /\ holder' = [holder EXCEPT ![t] = 0]
  /\ UNCHANGED token

Next ==
  \/ \E t \in Task : Grant(t) \/ Complete(t)
  \/ \E S \in SUBSET Task : Depose(S)

Spec == Init /\ [][Next]_vars
=============================================================================
