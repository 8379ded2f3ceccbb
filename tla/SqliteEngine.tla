---------------------------- MODULE SqliteEngine ----------------------------
(***************************************************************************)
(* SqliteEngine.transaction, which every repository and manager relies on  *)
(* for its atomicity: processes that each have one connection to the same  *)
(* database, and call transaction() with callbacks that write, call        *)
(* transaction() again, return or throw, and may catch what a nested call  *)
(* throws.  A call that no other call of its process encloses is a         *)
(* transaction; its writes are numbered.                                   *)
(***************************************************************************)
EXTENDS Naturals, Sequences, FiniteSets

CONSTANTS
  Proc,       \* processes that have the database open
  MaxCalls,   \* bound on the outermost calls of a process
  MaxWrites,  \* bound on the writes of an outermost call
  MaxNesting  \* bound on the calls inside each other

ASSUME EngineAssumption ==
  MaxCalls \in Nat /\ MaxWrites \in Nat /\ MaxNesting \in Nat \ {0}

VARIABLES
  transactionDepth,  \* the counter of that name, per process
  frames,    \* frames[p]: isOuter of each call under way, innermost last
  holder,    \* the process whose connection is in a transaction, as a set
  buffer,    \* writes of that transaction
  database,  \* committed writes
  made,      \* made[p][n]: how many writes the nth outermost call of p made
  outcome    \* outcome[p]: how the outermost calls of p ended, in order

vars == <<transactionDepth, frames, holder, buffer, database, made, outcome>>

Ended == {"returned", "threw", "busy", "died"}

Writes(p, n) == {<<p, n, k>> : k \in 1..made[p][n]}

(* The number of the outermost call of p that is under way, or comes next. *)
Current(p) == Len(outcome[p]) + 1

Last(s) == s[Len(s)]

Pop(s) == SubSeq(s, 1, Len(s) - 1)

End(p, how) == outcome' = [outcome EXCEPT ![p] = Append(@, how)]

(* The innermost call of p is over; so is the outermost if there is no      *)
(* other.  The finally block takes one from the counter.                    *)
Leave(p, how) ==
  /\ frames' = [frames EXCEPT ![p] = Pop(@)]
  /\ transactionDepth' = [transactionDepth EXCEPT ![p] = @ - 1]
  /\ IF Len(frames[p]) = 1 THEN End(p, how) ELSE UNCHANGED outcome

(* Faulty: only the outermost call is counted. *)
Push_OuterOnly(p, isOuter) ==
  /\ frames' = [frames EXCEPT ![p] = Append(@, isOuter)]
  /\ transactionDepth' =
       [transactionDepth EXCEPT ![p] = IF isOuter THEN @ + 1 ELSE @]

Push(p, isOuter) ==
  /\ frames' = [frames EXCEPT ![p] = Append(@, isOuter)]
  /\ transactionDepth' = [transactionDepth EXCEPT ![p] = @ + 1]

MayCall(p) == Current(p) <= MaxCalls /\ Len(frames[p]) < MaxNesting

(* BEGIN IMMEDIATE, when the connection gets the lock. *)
BeginOuter(p) ==
  /\ MayCall(p)
  /\ transactionDepth[p] = 0
  /\ holder = {}
  /\ holder' = {p}
  /\ Push(p, TRUE)
  /\ UNCHANGED <<buffer, database, made, outcome>>

(* BEGIN IMMEDIATE throws, as another connection keeps the lock for longer  *)
(* than the busy timeout.  That is before the try block, so the counter     *)
(* has been raised and is not lowered again.                                *)
BeginBusy(p) ==
  /\ MayCall(p)
  /\ transactionDepth[p] = 0
  /\ holder # {}
  /\ transactionDepth' = [transactionDepth EXCEPT ![p] = @ + 1]
  /\ End(p, "busy")
  /\ UNCHANGED <<frames, holder, buffer, database, made>>

(* A call that takes itself to be nested only runs its callback.            *)
BeginNested(p) ==
  /\ MayCall(p)
  /\ transactionDepth[p] > 0
  /\ Push(p, FALSE)
  /\ UNCHANGED <<holder, buffer, database, made, outcome>>

(* A statement of the callback; outside a transaction SQLite commits it at  *)
(* once, if it gets the lock.                                               *)
Write(p) ==
  /\ frames[p] # <<>>
  /\ made[p][Current(p)] < MaxWrites
  /\ made' = [made EXCEPT ![p][Current(p)] = @ + 1]
  /\ LET w == <<p, Current(p), made[p][Current(p)] + 1>> IN
       \/ p \in holder /\ buffer' = buffer \cup {w} /\ UNCHANGED database
       \/ holder = {} /\ database' = database \cup {w} /\ UNCHANGED buffer
  /\ UNCHANGED <<transactionDepth, frames, holder, outcome>>

(* Faulty: a nested call commits on its own. *)
Returns_NestedCommits(p) ==
  /\ frames[p] # <<>>
  /\ database' = database \cup (IF p \in holder THEN buffer ELSE {})
  /\ buffer' = IF p \in holder THEN {} ELSE buffer
  /\ holder' = holder \ {p}
  /\ Leave(p, "returned")
  /\ UNCHANGED made

(* Faulty: the transaction is closed without COMMIT. *)
Returns_NoCommit(p) ==
  /\ frames[p] # <<>>
  /\ IF Last(frames[p]) THEN buffer' = {} /\ holder' = {}
     ELSE UNCHANGED <<buffer, holder>>
  /\ Leave(p, "returned")
  /\ UNCHANGED <<database, made>>

(* The callback returns: COMMIT, if this is the outer call.                 *)
Returns(p) ==
  /\ frames[p] # <<>>
  /\ IF Last(frames[p])
       THEN /\ database' = database \cup buffer
            /\ buffer' = {}
            /\ holder' = {}
       ELSE UNCHANGED <<database, buffer, holder>>
  /\ Leave(p, "returned")
  /\ UNCHANGED made

(* Faulty: an outer call that throws commits what it wrote before. *)
Throws_Commits(p) ==
  /\ frames[p] # <<>>
  /\ IF Last(frames[p])
       THEN /\ database' = database \cup buffer
            /\ buffer' = {}
            /\ holder' = {}
       ELSE UNCHANGED <<database, buffer, holder>>
  /\ Leave(p, "threw")
  /\ UNCHANGED made

(* Faulty: a call that throws does not roll back. *)
Throws_NoRollback(p) ==
  /\ frames[p] # <<>>
  /\ Leave(p, "threw")
  /\ UNCHANGED <<buffer, holder, database, made>>

(* The callback, or COMMIT, throws: ROLLBACK, if this is the outer call.    *)
(* What encloses the call goes on if it catches the exception, or throws in *)
(* its turn.                                                                *)
Throws(p) ==
  /\ frames[p] # <<>>
  /\ IF Last(frames[p]) THEN buffer' = {} /\ holder' = {}
     ELSE UNCHANGED <<buffer, holder>>
  /\ Leave(p, "threw")
  /\ UNCHANGED <<database, made>>

(* The process dies in a transaction, which SQLite then undoes, and is      *)
(* started again.                                                           *)
Dies(p) ==
  /\ frames[p] # <<>>
  /\ frames' = [frames EXCEPT ![p] = <<>>]
  /\ transactionDepth' = [transactionDepth EXCEPT ![p] = 0]
  /\ IF p \in holder THEN buffer' = {} /\ holder' = {}
     ELSE UNCHANGED <<buffer, holder>>
  /\ End(p, "died")
  /\ UNCHANGED <<database, made>>

Init ==
  /\ transactionDepth = [p \in Proc |-> 0]
  /\ frames = [p \in Proc |-> <<>>]
  /\ holder = {}
  /\ buffer = {}
  /\ database = {}
  /\ made = [p \in Proc |-> [n \in 1..MaxCalls |-> 0]]
  /\ outcome = [p \in Proc |-> <<>>]

Step(p) ==
  \/ BeginOuter(p)
  \/ BeginBusy(p)
  \/ BeginNested(p)
  \/ Write(p)
  \/ Returns(p)
  \/ Throws(p)
  \/ Dies(p)

Next == \E p \in Proc : Step(p)

Spec == Init /\ [][Next]_vars
-----------------------------------------------------------------------------
(* Types. *)
TypeOK ==
  /\ transactionDepth \in [Proc -> Nat]
  /\ frames \in [Proc -> Seq(BOOLEAN)]
  /\ holder \in SUBSET Proc
  /\ made \in [Proc -> [1..MaxCalls -> 0..MaxWrites]]
  /\ outcome \in [Proc -> Seq(Ended)]
  /\ buffer \subseteq Proc \X (1..MaxCalls) \X (1..MaxWrites)
  /\ database \subseteq Proc \X (1..MaxCalls) \X (1..MaxWrites)

(* The nth outermost call of p is all or nothing: if it returned, all its   *)
(* writes are in the database, nested calls' included, and if it ended in   *)
(* any other way none is.                                                   *)
Atomic(p, n) ==
  IF outcome[p][n] = "returned" THEN Writes(p, n) \subseteq database
  ELSE Writes(p, n) \cap database = {}

(* No BEGIN of p has failed before its nth outermost call.                  *)
Sound(p, n) == \A m \in 1..(n - 1) : outcome[p][m] # "busy"

(* Every transaction is all or nothing: what the comment on transaction()   *)
(* promises.                                                                *)
AllOrNothing ==
  \A p \in Proc : \A n \in 1..Len(outcome[p]) : Atomic(p, n)

(* A transaction is all or nothing as long as no BEGIN of its own process   *)
(* has failed, whatever the other processes do, fail or die of.             *)
AtomicUntilBusy ==
  \A p \in Proc : \A n \in 1..Len(outcome[p]) : Sound(p, n) => Atomic(p, n)

(* What a call that returned wrote is in the database, however often BEGIN  *)
(* failed before.                                                           *)
Durable ==
  \A p \in Proc : \A n \in 1..Len(outcome[p]) :
    outcome[p][n] = "returned" => Writes(p, n) \subseteq database

(* A connection is in a transaction only while an outermost call of its     *)
(* process is under way that began it, and only that call's writes are      *)
(* pending: no exception and no death leaves the lock behind.               *)
LockIsHeldInCall ==
  /\ holder = {} => buffer = {}
  /\ \A p \in holder :
       /\ holder = {p}
       /\ frames[p] # <<>> /\ frames[p][1]
       /\ buffer = Writes(p, Current(p))

(* Nothing of a transaction is in the database while its outermost call is  *)
(* under way, unless a BEGIN of its process failed before: other processes  *)
(* see all of it or nothing.                                                *)
IsolatedUntilBusy ==
  \A p \in Proc : frames[p] # <<>> /\ Sound(p, Current(p)) =>
    Writes(p, Current(p)) \cap database = {}
=============================================================================
