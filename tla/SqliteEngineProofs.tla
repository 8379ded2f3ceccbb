------------------------- MODULE SqliteEngineProofs -------------------------
(***************************************************************************)
(* Proofs about SqliteEngine, for every number of processes, calls, writes *)
(* and levels of nesting: until a BEGIN IMMEDIATE of its own process has   *)
(* failed, a call of transaction() is all or nothing, whatever the other   *)
(* processes do.  The run EngineShared shows that the condition is needed; *)
(* with one process it always holds.                                       *)
(*                                                                         *)
(* A process whose BEGIN failed runs its later calls outside any           *)
(* transaction, so the invariant says for both kinds of call where their   *)
(* writes are: those of the call that has the lock are pending, those of a *)
(* call that has not are in the database already.                          *)
(***************************************************************************)
EXTENDS SqliteEngine, SequenceTheorems, TLAPS

(* The counter is at least the number of calls under way.  Exactly the      *)
(* outermost call of the process that has the lock takes itself for one;    *)
(* while no BEGIN failed, that is every outermost call.                     *)
Nesting ==
  \A p \in Proc :
    /\ Len(frames[p]) <= transactionDepth[p]
    /\ \A i \in 1..Len(frames[p]) : frames[p][i] <=> (i = 1 /\ p \in holder)
    /\ p \in holder => frames[p] # <<>>
    /\ Sound(p, Current(p)) =>
         /\ transactionDepth[p] = Len(frames[p])
         /\ frames[p] # <<>> => p \in holder

(* One connection at a time is in a transaction. *)
OneHolder == \A p, q \in holder : p = q

(* What is pending is what the call that has the lock wrote. *)
Pending ==
  /\ holder = {} => buffer = {}
  /\ \A p \in holder : buffer = Writes(p, Current(p))

(* What a call without the lock wrote is in the database. *)
Autocommitted ==
  \A p \in Proc : frames[p] # <<>> /\ p \notin holder =>
    Writes(p, Current(p)) \subseteq database

(* Calls are numbered within the bound, and later ones have written nothing. *)
NothingAhead ==
  \A p \in Proc :
    /\ Len(outcome[p]) <= MaxCalls
    /\ frames[p] # <<>> => Current(p) <= MaxCalls
    /\ \A n \in 1..MaxCalls :
         n > Current(p) \/ (n = Current(p) /\ frames[p] = <<>>)
           => made[p][n] = 0

(* The database has no write of a call to come, nor of the current one      *)
(* while no BEGIN failed.                                                   *)
DatabaseIsPast ==
  \A p \in Proc : \A n \in 1..MaxCalls :
    n > Current(p) \/ (n = Current(p) /\ Sound(p, n)) =>
      \A k \in 1..MaxWrites : <<p, n, k>> \notin database

EngineInv ==
  /\ TypeOK
  /\ Nesting
  /\ OneHolder
  /\ Pending
  /\ Autocommitted
  /\ NothingAhead
  /\ DatabaseIsPast
  /\ AtomicUntilBusy
  /\ Durable

-----------------------------------------------------------------------------
(* The stack of calls. *)

LEMMA EmptyStack ==
  ASSUME NEW s \in Seq(BOOLEAN)
  PROVE  Len(s) \in Nat /\ (s = <<>> <=> Len(s) = 0)
  OBVIOUS

LEMMA PushedStack ==
  ASSUME NEW s \in Seq(BOOLEAN), NEW b \in BOOLEAN
  PROVE  /\ Append(s, b) \in Seq(BOOLEAN)
         /\ Append(s, b) # <<>>
         /\ Len(Append(s, b)) = Len(s) + 1
         /\ Append(s, b)[Len(s) + 1] = b
         /\ \A i \in 1..Len(s) : Append(s, b)[i] = s[i]
  OBVIOUS

LEMMA PoppedStack ==
  ASSUME NEW s \in Seq(BOOLEAN), s # <<>>
  PROVE  /\ Pop(s) \in Seq(BOOLEAN)
         /\ Len(Pop(s)) = Len(s) - 1
         /\ \A i \in 1..(Len(s) - 1) : Pop(s)[i] = s[i]
<1>1. Len(s) \in Nat /\ Len(s) > 0
  BY EmptyStack
<1> DEFINE n == Len(s) - 1
<1>2. n \in Int /\ \A i \in 1..n : s[i] \in BOOLEAN
  BY <1>1
<1> HIDE DEF n
<1>3. /\ SubSeq(s, 1, n) \in Seq(BOOLEAN)
      /\ Len(SubSeq(s, 1, n)) = IF 1 <= n THEN n - 1 + 1 ELSE 0
      /\ \A i \in 1..(n - 1 + 1) : SubSeq(s, 1, n)[i] = s[1 + i - 1]
  BY <1>2, SubSeqProperties
<1> DEFINE t == SubSeq(s, 1, n)
<1>4. t = Pop(s) /\ n = Len(s) - 1 /\ Len(s) \in Nat /\ Len(s) > 0
  BY <1>1 DEF Pop, n
<1> HIDE DEF t
<1>5. t \in Seq(BOOLEAN) /\ Len(t) = n /\ \A i \in 1..n : t[i] = s[i]
  <2>1. t \in Seq(BOOLEAN) /\ Len(t) = n
    BY <1>3, <1>4 DEF t
  <2>2. ASSUME NEW i \in 1..n PROVE t[i] = s[i]
    <3>1. i \in 1..(n - 1 + 1) /\ 1 + i - 1 = i
      BY <1>2
    <3>2. t[i] = s[1 + i - 1]
      BY <1>3, <3>1, Zenon DEF t
    <3> QED BY <3>1, <3>2
  <2> QED BY <2>1, <2>2
<1> QED BY <1>4, <1>5

LEMMA GrownOutcome ==
  ASSUME NEW s \in Seq(Ended), NEW e \in Ended
  PROVE  /\ Append(s, e) \in Seq(Ended)
         /\ Len(s) \in Nat
         /\ Len(Append(s, e)) = Len(s) + 1
         /\ Append(s, e)[Len(s) + 1] = e
         /\ \A i \in 1..Len(s) : Append(s, e)[i] = s[i]
  OBVIOUS

(* The innermost call takes itself for the outermost exactly if it is and   *)
(* its process has the lock.                                                *)
LEMMA LastHasLock ==
  ASSUME EngineInv, NEW p \in Proc, frames[p] # <<>>
  PROVE  Last(frames[p]) <=> (Len(frames[p]) = 1 /\ p \in holder)
<1>1. frames[p] \in Seq(BOOLEAN) /\ Len(frames[p]) \in Nat /\ Len(frames[p]) # 0
  BY EmptyStack DEF EngineInv, TypeOK
<1>2. Len(frames[p]) \in 1..Len(frames[p])
  BY <1>1
<1> QED BY <1>2 DEF EngineInv, Nesting, Last

LEMMA CallNumbers ==
  ASSUME EngineInv, NEW p \in Proc
  PROVE  /\ Len(outcome[p]) \in Nat
         /\ Current(p) = Len(outcome[p]) + 1
         /\ Len(outcome[p]) <= MaxCalls
         /\ MaxCalls \in Nat /\ MaxWrites \in Nat
  BY EngineAssumption DEF EngineInv, TypeOK, NothingAhead, Current, EngineAssumption

(* Writes of different calls differ. *)
LEMMA WritesDiffer ==
  ASSUME NEW p, NEW q, NEW m, NEW n, p # q \/ m # n
  PROVE  Writes(p, m) \cap Writes(q, n) = {}
  BY DEF Writes

LEMMA WritesAhead ==
  ASSUME EngineInv, NEW p \in Proc, NEW n \in 1..MaxCalls,
         n > Current(p) \/ (n = Current(p) /\ Sound(p, n))
  PROVE  Writes(p, n) \cap database = {}
<1>1. 1..made[p][n] \subseteq 1..MaxWrites
  BY EngineAssumption DEF EngineInv, TypeOK, EngineAssumption
<1> QED BY <1>1 DEF EngineInv, Writes, DatabaseIsPast

-----------------------------------------------------------------------------
(* How calls end. *)

(* An outermost call ends, or its BEGIN fails: nothing of it is pending any *)
(* more, and what it wrote is in the database if it returned.               *)
LEMMA CallEnds ==
  ASSUME EngineInv, NEW p \in Proc, NEW how \in Ended, NEW c, c = Current(p),
         c <= MaxCalls,
         frames' \in [Proc -> Seq(BOOLEAN)],
         frames'[p] = <<>>,
         \A q \in Proc \ {p} : frames'[q] = frames[q],
         transactionDepth' \in [Proc -> Nat],
         \A q \in Proc \ {p} : transactionDepth'[q] = transactionDepth[q],
         how # "busy" /\ Sound(p, c) => transactionDepth'[p] = 0,
         End(p, how),
         holder' = holder \ {p},
         buffer' = IF p \in holder THEN {} ELSE buffer,
         made' = made,
         database \subseteq database',
         database' \subseteq database \cup Writes(p, c),
         how = "returned" => Writes(p, c) \subseteq database',
         how # "returned" => database' = database
  PROVE  EngineInv'
<1>1. /\ Len(outcome[p]) \in Nat
      /\ c = Len(outcome[p]) + 1
      /\ c \in 1..MaxCalls
  BY CallNumbers
<1>2. /\ \A q \in Proc \ {p} : outcome'[q] = outcome[q]
      /\ outcome'[p] = Append(outcome[p], how)
      /\ outcome' \in [Proc -> Seq(Ended)]
      /\ Len(outcome'[p]) = c
      /\ outcome'[p][c] = how
      /\ \A n \in 1..Len(outcome[p]) : outcome'[p][n] = outcome[p][n]
  <2>1. outcome[p] \in Seq(Ended) /\ outcome \in [Proc -> Seq(Ended)]
    BY DEF EngineInv, TypeOK
  <2>2. outcome' = [outcome EXCEPT ![p] = Append(@, how)]
    BY DEF End
  <2>3. Append(outcome[p], how) \in Seq(Ended)
    BY <2>1, GrownOutcome
  <2>4. outcome'[p] = Append(outcome[p], how)
    BY <2>1, <2>2
  <2>5. outcome' \in [Proc -> Seq(Ended)]
    BY <2>1, <2>2, <2>3
  <2> QED BY <1>1, <2>1, <2>2, <2>4, <2>5, GrownOutcome
<1>3. /\ Current(p)' = c + 1
      /\ \A q \in Proc \ {p} : Current(q)' = Current(q)
  BY <1>2 DEF Current
<1>4. /\ \A q \in Proc \ {p} : \A n : Sound(q, n)' <=> Sound(q, n)
      /\ \A n \in 1..c : Sound(p, n)' <=> Sound(p, n)
      /\ Sound(p, c + 1)' => Sound(p, c) /\ how # "busy"
  <2>1. \A q \in Proc \ {p} : \A n : Sound(q, n)' <=> Sound(q, n)
    BY <1>2 DEF Sound
  <2>2. ASSUME NEW n \in 1..c PROVE Sound(p, n)' <=> Sound(p, n)
    <3>1. \A m \in 1..(n - 1) : m \in 1..Len(outcome[p])
      BY <1>1
    <3>2. \A m \in 1..(n - 1) : outcome'[p][m] = outcome[p][m]
      BY <1>2, <3>1
    <3> QED BY <3>2 DEF Sound
  <2>3. Sound(p, c + 1)' => Sound(p, c)' /\ how # "busy"
    <3>1. \A m \in 1..(c - 1) : m \in 1..(c + 1 - 1)
      BY <1>1
    <3>2. c \in 1..(c + 1 - 1)
      BY <1>1
    <3> QED BY <1>2, <3>1, <3>2 DEF Sound
  <2>4. c \in 1..c
    BY <1>1
  <2> QED BY <2>1, <2>2, <2>3, <2>4
<1>5. \A q \in Proc, n \in 1..MaxCalls : Writes(q, n)' = Writes(q, n)
  BY DEF Writes
<1>6. TypeOK'
  <2>1. Writes(p, c) \subseteq Proc \X (1..MaxCalls) \X (1..MaxWrites)
    <3>1. made[p][c] \in 0..MaxWrites
      BY <1>1 DEF EngineInv, TypeOK
    <3>2. \A k \in 1..made[p][c] : k \in 1..MaxWrites
      BY <3>1, CallNumbers
    <3>3. \A k \in 1..made[p][c] :
            <<p, c, k>> \in Proc \X (1..MaxCalls) \X (1..MaxWrites)
      BY <1>1, <3>2
    <3>4. Writes(p, c) = {<<p, c, k>> : k \in 1..made[p][c]}
      BY Zenon DEF Writes
    <3> QED BY <3>3, <3>4
  <2> QED BY <1>2, <2>1 DEF EngineInv, TypeOK
<1>7. Nesting'
  <2> SUFFICES ASSUME NEW q \in Proc
               PROVE  /\ Len(frames'[q]) <= transactionDepth'[q]
                      /\ \A i \in 1..Len(frames'[q]) :
                           frames'[q][i] <=> (i = 1 /\ q \in holder')
                      /\ q \in holder' => frames'[q] # <<>>
                      /\ Sound(q, Current(q))' =>
                           /\ transactionDepth'[q] = Len(frames'[q])
                           /\ frames'[q] # <<>> => q \in holder'
    BY DEF Nesting
  <2>1. CASE q = p
    <3>1. Sound(p, Current(p))' => Sound(p, c + 1)'
      BY <1>3 DEF Sound
    <3>2. Sound(p, Current(p))' => transactionDepth'[p] = 0
      BY <1>4, <3>1
    <3>3. Len(frames'[p]) = 0 /\ transactionDepth'[p] \in Nat
      OBVIOUS
    <3> QED BY <2>1, <3>2, <3>3
  <2>2. CASE q # p
    <3>1. Sound(q, Current(q))' => Sound(q, Current(q))
      BY <1>2, <1>3, <2>2 DEF Sound
    <3>2. q \in holder' <=> q \in holder
      BY <2>2
    <3>3. frames'[q] = frames[q] /\ transactionDepth'[q] = transactionDepth[q]
      BY <2>2
    <3> QED BY <3>1, <3>2, <3>3 DEF EngineInv, Nesting
  <2> QED BY <2>1, <2>2
<1>8. OneHolder'
  BY DEF EngineInv, OneHolder
<1>9. Pending'
  <2>1. CASE p \in holder
    BY <2>1 DEF EngineInv, OneHolder, Pending
  <2>2. CASE p \notin holder
    <3>1. holder' = holder /\ buffer' = buffer
      BY <2>2
    <3>2. ASSUME NEW q \in holder PROVE buffer' = Writes(q, Current(q))'
      <4>1. q \in Proc \ {p}
        BY <2>2 DEF EngineInv, TypeOK
      <4>2. Writes(q, Current(q))' = Writes(q, Current(q))
        BY <1>3, <4>1 DEF Writes
      <4> QED BY <3>1, <4>2 DEF EngineInv, Pending
    <3> QED BY <3>1, <3>2 DEF EngineInv, Pending
  <2> QED BY <2>1, <2>2
<1>10. Autocommitted'
  <2> SUFFICES ASSUME NEW q \in Proc, frames'[q] # <<>>, q \notin holder'
               PROVE  Writes(q, Current(q))' \subseteq database'
    BY DEF Autocommitted
  <2>1. q # p
    OBVIOUS
  <2>2. Writes(q, Current(q))' = Writes(q, Current(q))
    BY <1>3, <2>1 DEF Writes
  <2>3. frames[q] # <<>> /\ q \notin holder
    BY <2>1
  <2> QED BY <2>2, <2>3 DEF EngineInv, Autocommitted
<1>11. NothingAhead'
  <2> SUFFICES ASSUME NEW q \in Proc
               PROVE  /\ Len(outcome'[q]) <= MaxCalls
                      /\ frames'[q] # <<>> => Current(q)' <= MaxCalls
                      /\ \A n \in 1..MaxCalls :
                           n > Current(q)' \/ (n = Current(q)' /\ frames'[q] = <<>>)
                             => made[q][n] = 0
    BY DEF NothingAhead
  <2>1. CASE q = p
    <3>1. \A n \in 1..MaxCalls : n > c => made[p][n] = 0
      BY DEF EngineInv, NothingAhead
    <3> QED BY <1>1, <1>2, <1>3, <2>1, <3>1
  <2>2. CASE q # p
    BY <1>2, <1>3, <2>2 DEF EngineInv, NothingAhead
  <2> QED BY <2>1, <2>2
<1>12. DatabaseIsPast'
  <2> SUFFICES ASSUME NEW q \in Proc, NEW n \in 1..MaxCalls,
                      n > Current(q)' \/ (n = Current(q)' /\ Sound(q, n)'),
                      NEW k \in 1..MaxWrites
               PROVE  <<q, n, k>> \notin database'
    BY DEF DatabaseIsPast
  <2>1. CASE q = p
    <3>1. n > c
      BY <1>1, <1>3, <2>1
    <3>2. <<q, n, k>> \notin database
      BY <2>1, <3>1 DEF EngineInv, DatabaseIsPast
    <3>3. <<q, n, k>> \notin Writes(p, c)
      BY <1>1, <3>1 DEF Writes
    <3> QED BY <3>2, <3>3
  <2>2. CASE q # p
    <3>1. n > Current(q) \/ (n = Current(q) /\ Sound(q, n))
      BY <1>3, <1>4, <2>2
    <3>2. <<q, n, k>> \notin database
      BY <3>1 DEF EngineInv, DatabaseIsPast
    <3>3. <<q, n, k>> \notin Writes(p, c)
      BY <2>2 DEF Writes
    <3> QED BY <3>2, <3>3
  <2> QED BY <2>1, <2>2
<1>13. AtomicUntilBusy' /\ Durable'
  <2> SUFFICES ASSUME NEW q \in Proc, NEW n \in 1..Len(outcome'[q])
               PROVE  /\ Sound(q, n)' =>
                           IF outcome'[q][n] = "returned"
                             THEN Writes(q, n)' \subseteq database'
                             ELSE Writes(q, n)' \cap database' = {}
                      /\ outcome'[q][n] = "returned"
                           => Writes(q, n)' \subseteq database'
    BY DEF AtomicUntilBusy, Durable, Atomic
  <2>1. CASE q = p /\ n = c
    <3>1. Writes(q, n)' = Writes(p, c)
      BY <1>1, <1>5, <2>1
    <3>2. outcome'[q][n] = how
      BY <1>2, <2>1
    <3>3. Sound(q, n)' => Sound(p, c)
      BY <1>1, <1>4, <2>1
    <3>4. CASE how = "returned"
      BY <3>1, <3>2, <3>4
    <3>5. CASE how # "returned"
      <4>1. Sound(p, c) => Writes(p, c) \cap database = {}
        BY <1>1, WritesAhead
      <4> QED BY <3>1, <3>2, <3>3, <3>5, <4>1
    <3> QED BY <3>4, <3>5
  <2>2. CASE q # p \/ n # c
    <3>1. n \in 1..Len(outcome[q]) /\ outcome'[q][n] = outcome[q][n]
      <4>1. CASE q = p
        <5>1. n \in 1..Len(outcome[p])
          BY <1>1, <1>2, <2>2, <4>1
        <5> QED BY <1>2, <4>1, <5>1
      <4>2. CASE q # p
        BY <1>2, <4>2
      <4> QED BY <4>1, <4>2
    <3>2. n \in 1..MaxCalls
      BY <3>1, CallNumbers
    <3>3. Writes(q, n)' = Writes(q, n)
      BY <1>5, <3>2
    <3>4. Writes(q, n) \cap Writes(p, c) = {}
      BY <2>2, WritesDiffer
    <3>5. Sound(q, n)' => Sound(q, n)
      <4>1. q = p => n \in 1..c
        BY <1>1, <3>1
      <4> QED BY <1>4, <4>1
    <3>6. /\ Sound(q, n) => IF outcome[q][n] = "returned"
                              THEN Writes(q, n) \subseteq database
                              ELSE Writes(q, n) \cap database = {}
          /\ outcome[q][n] = "returned" => Writes(q, n) \subseteq database
      BY <3>1 DEF EngineInv, AtomicUntilBusy, Durable, Atomic
    <3> QED BY <3>1, <3>3, <3>4, <3>5, <3>6
  <2> QED BY <2>1, <2>2
<1> QED BY <1>6, <1>7, <1>8, <1>9, <1>10, <1>11, <1>12, <1>13 DEF EngineInv

(* A nested call ends: only the stack of calls changes. *)
LEMMA InnerEnds ==
  ASSUME EngineInv, NEW p \in Proc, NEW how \in Ended,
         frames[p] # <<>>, Len(frames[p]) # 1, Leave(p, how),
         UNCHANGED <<holder, buffer, database, made>>
  PROVE  EngineInv'
<1> DEFINE n == Len(frames[p])
<1>1. /\ TypeOK /\ Nesting
      /\ frames[p] \in Seq(BOOLEAN)
      /\ frames \in [Proc -> Seq(BOOLEAN)]
      /\ transactionDepth \in [Proc -> Nat]
      /\ n \in Nat /\ n # 0 /\ n # 1
  BY EmptyStack DEF EngineInv, TypeOK
<1>2. outcome' = outcome
  BY Zenon DEF Leave
<1>3. /\ frames'[p] = Pop(frames[p])
      /\ frames' \in [Proc -> Seq(BOOLEAN)]
      /\ \A q \in Proc \ {p} : frames'[q] = frames[q]
      /\ Len(frames'[p]) = n - 1
      /\ frames'[p] # <<>>
      /\ \A i \in 1..(n - 1) : frames'[p][i] = frames[p][i]
  <2>1. /\ Pop(frames[p]) \in Seq(BOOLEAN) /\ Len(Pop(frames[p])) = n - 1
        /\ \A i \in 1..(n - 1) : Pop(frames[p])[i] = frames[p][i]
    BY <1>1, PoppedStack
  <2>2. Pop(frames[p]) # <<>>
    <3>1. Pop(frames[p]) = <<>> => n - 1 = 0
      BY <2>1, EmptyStack, Zenon
    <3> HIDE DEF n
    <3> QED BY <1>1, <3>1
  <2>3. frames' = [frames EXCEPT ![p] = Pop(frames[p])]
    BY DEF Leave
  <2> QED BY <1>1, <2>1, <2>2, <2>3
<1>4. /\ transactionDepth' \in [Proc -> Nat]
      /\ transactionDepth'[p] = transactionDepth[p] - 1
      /\ \A q \in Proc \ {p} : transactionDepth'[q] = transactionDepth[q]
  <2>1. n <= transactionDepth[p]
    BY <1>1 DEF Nesting
  <2>2. transactionDepth[p] - 1 \in Nat
    BY <1>1, <2>1
  <2>3. transactionDepth' = [transactionDepth EXCEPT ![p] = transactionDepth[p] - 1]
    BY DEF Leave
  <2> QED BY <1>1, <2>2, <2>3
<1>5. TypeOK'
  BY <1>1, <1>2, <1>3, <1>4 DEF TypeOK
<1>6. Nesting'
  <2> SUFFICES ASSUME NEW q \in Proc
               PROVE  /\ Len(frames'[q]) <= transactionDepth'[q]
                      /\ \A i \in 1..Len(frames'[q]) :
                           frames'[q][i] <=> (i = 1 /\ q \in holder)
                      /\ q \in holder => frames'[q] # <<>>
                      /\ Sound(q, Current(q)) =>
                           /\ transactionDepth'[q] = Len(frames'[q])
                           /\ frames'[q] # <<>> => q \in holder
    BY <1>2 DEF Nesting, Sound, Current
  <2>1. CASE q = p
    <3>1. /\ n <= transactionDepth[p]
          /\ \A i \in 1..n : frames[p][i] <=> (i = 1 /\ p \in holder)
          /\ Sound(p, Current(p)) => transactionDepth[p] = n /\ p \in holder
      BY <1>1 DEF Nesting
    <3>2. \A i \in 1..(n - 1) : i \in 1..n
      BY <1>1
    <3> HIDE DEF n
    <3>3. \A i \in 1..(n - 1) : frames'[p][i] <=> (i = 1 /\ p \in holder)
      BY <1>3, <3>1, <3>2
    <3>4. transactionDepth[p] \in Nat
      BY <1>1
    <3> QED BY <1>1, <1>3, <1>4, <2>1, <3>1, <3>3, <3>4
  <2>2. CASE q # p
    BY <1>3, <1>4, <2>2 DEF EngineInv, Nesting
  <2> QED BY <2>1, <2>2
<1>7. OneHolder' /\ Pending' /\ Autocommitted'
  <2>1. \A q \in Proc : frames'[q] = <<>> <=> frames[q] = <<>>
    BY <1>3
  <2> QED BY <1>2, <2>1 DEF EngineInv, TypeOK, OneHolder, Pending, Autocommitted, Writes, Current
<1>8. NothingAhead'
  BY <1>2, <1>3 DEF EngineInv, NothingAhead, Current
<1>9. DatabaseIsPast' /\ AtomicUntilBusy' /\ Durable'
  BY <1>2 DEF EngineInv, DatabaseIsPast, AtomicUntilBusy, Durable, Atomic,
              Sound, Current, Writes
<1> QED BY <1>5, <1>6, <1>7, <1>8, <1>9 DEF EngineInv

-----------------------------------------------------------------------------
(* How calls begin, and write. *)

(* A call is pushed on its process's stack. *)
LEMMA CallBegins ==
  ASSUME EngineInv, NEW p \in Proc, NEW b \in BOOLEAN, Push(p, b),
         Current(p) <= MaxCalls,
         b => frames[p] = <<>> /\ transactionDepth[p] = 0 /\ holder = {},
         ~b => transactionDepth[p] > 0,
         holder' = IF b THEN {p} ELSE holder,
         UNCHANGED <<buffer, database, made, outcome>>
  PROVE  EngineInv'
<1> DEFINE s == Append(frames[p], b)
           n == Len(frames[p])
<1>1. /\ TypeOK /\ Nesting
      /\ frames[p] \in Seq(BOOLEAN)
      /\ frames \in [Proc -> Seq(BOOLEAN)]
      /\ transactionDepth \in [Proc -> Nat]
      /\ n \in Nat
      /\ frames[p] = <<>> <=> n = 0
  BY EmptyStack DEF EngineInv, TypeOK
<1>2. /\ s \in Seq(BOOLEAN) /\ s # <<>> /\ Len(s) = n + 1 /\ s[n + 1] = b
      /\ \A i \in 1..n : s[i] = frames[p][i]
  BY <1>1, PushedStack
<1>3. /\ frames'[p] = s
      /\ frames' \in [Proc -> Seq(BOOLEAN)]
      /\ \A q \in Proc \ {p} : frames'[q] = frames[q]
  BY <1>1, <1>2 DEF Push
<1>4. /\ transactionDepth' \in [Proc -> Nat]
      /\ transactionDepth'[p] = transactionDepth[p] + 1
      /\ \A q \in Proc \ {p} : transactionDepth'[q] = transactionDepth[q]
  BY <1>1 DEF Push
<1>5. /\ b => p \in holder' /\ n = 0
      /\ \A q \in Proc \ {p} : q \in holder' <=> q \in holder
      /\ p \in holder => ~b /\ n # 0 /\ p \in holder'
      /\ ~b => holder' = holder
  BY <1>1 DEF Nesting
<1>6. \A q \in Proc : Sound(q, Current(q))' <=> Sound(q, Current(q))
  BY DEF Sound, Current
<1>7. TypeOK'
  BY <1>1, <1>3, <1>4 DEF TypeOK
<1>8. Nesting'
  <2> SUFFICES ASSUME NEW q \in Proc
               PROVE  /\ Len(frames'[q]) <= transactionDepth'[q]
                      /\ \A i \in 1..Len(frames'[q]) :
                           frames'[q][i] <=> (i = 1 /\ q \in holder')
                      /\ q \in holder' => frames'[q] # <<>>
                      /\ Sound(q, Current(q)) =>
                           /\ transactionDepth'[q] = Len(frames'[q])
                           /\ frames'[q] # <<>> => q \in holder'
    BY <1>6 DEF Nesting
  <2>1. CASE q = p
    <3>1. /\ n <= transactionDepth[p]
          /\ \A i \in 1..n : frames[p][i] <=> (i = 1 /\ p \in holder)
          /\ Sound(p, Current(p)) => transactionDepth[p] = n
          /\ Sound(p, Current(p)) /\ n # 0 => p \in holder
      BY <1>1 DEF Nesting
    <3>2. transactionDepth[p] \in Nat
      BY <1>1
    <3> HIDE DEF n, s
    <3>3. ASSUME NEW i \in 1..(n + 1) PROVE s[i] <=> (i = 1 /\ p \in holder')
      <4>1. CASE i = n + 1
        <5>1. s[i] = b
          BY <1>2, <4>1
        <5>2. b => i = 1 /\ p \in holder'
          BY <1>1, <1>5, <4>1
        <5>3. ~b /\ p \in holder' => i # 1
          BY <1>1, <1>5, <3>1, <4>1 DEF Nesting
        <5> QED BY <5>1, <5>2, <5>3
      <4>2. CASE i # n + 1
        <5>1. i \in 1..n /\ n # 0
          BY <1>1, <4>2
        <5>2. s[i] = frames[p][i]
          BY <1>2, <5>1
        <5>3. holder' = holder
          BY <1>5, <5>1
        <5> QED BY <3>1, <5>1, <5>2, <5>3
      <4> QED BY <4>1, <4>2
    <3>4. Len(frames'[q]) = n + 1 /\ frames'[q] = s /\ frames'[q] # <<>>
      BY <1>2, <1>3, <2>1
    <3>5. Sound(p, Current(p)) => p \in holder'
      BY <1>1, <1>5, <3>1, <3>2
    <3> QED BY <1>1, <1>4, <2>1, <3>1, <3>2, <3>3, <3>4, <3>5
  <2>2. CASE q # p
    BY <1>1, <1>3, <1>4, <1>5, <2>2 DEF Nesting
  <2> QED BY <2>1, <2>2
<1>9. n = 0 => Writes(p, Current(p)) = {}
  <2>1. Current(p) \in 1..MaxCalls
    BY CallNumbers
  <2>2. n = 0 => made[p][Current(p)] = 0
    BY <1>1, <2>1 DEF EngineInv, NothingAhead
  <2> QED BY <2>2 DEF Writes
<1>10. \A q \in Proc : Writes(q, Current(q))' = Writes(q, Current(q))
  BY DEF Writes, Current
<1>11. OneHolder' /\ Pending'
  <2>1. CASE b
    BY <1>5, <1>9, <1>10, <2>1 DEF EngineInv, OneHolder, Pending
  <2>2. CASE ~b
    BY <1>10, <2>2 DEF EngineInv, TypeOK, OneHolder, Pending
  <2> QED BY <2>1, <2>2
<1>12. Autocommitted'
  <2> SUFFICES ASSUME NEW q \in Proc, frames'[q] # <<>>, q \notin holder'
               PROVE  Writes(q, Current(q)) \subseteq database
    BY <1>10 DEF Autocommitted
  <2>1. CASE q = p
    <3>1. p \notin holder
      BY <1>5, <2>1
    <3>2. CASE n = 0
      BY <1>9, <2>1, <3>2
    <3>3. CASE n # 0
      BY <1>1, <2>1, <3>1, <3>3 DEF EngineInv, Autocommitted
    <3> QED BY <3>2, <3>3
  <2>2. CASE q # p
    BY <1>3, <1>5, <2>2 DEF EngineInv, Autocommitted
  <2> QED BY <2>1, <2>2
<1>13. NothingAhead'
  <2>1. frames'[p] # <<>>
    BY <1>2, <1>3
  <2> QED BY <1>3, <2>1 DEF EngineInv, NothingAhead, Current
<1>14. DatabaseIsPast' /\ AtomicUntilBusy' /\ Durable'
  BY DEF EngineInv, DatabaseIsPast, AtomicUntilBusy, Durable, Atomic,
         Sound, Current, Writes
<1> QED BY <1>7, <1>8, <1>11, <1>12, <1>13, <1>14 DEF EngineInv

(* A statement of the callback adds to what is pending or, in a process     *)
(* whose call has no transaction, to the database.                          *)
LEMMA CallWrites ==
  ASSUME EngineInv, NEW p \in Proc, Write(p)
  PROVE  EngineInv'
<1> PICK c : c = Current(p)
  OBVIOUS
<1> PICK w : w = <<p, c, made[p][c] + 1>>
  OBVIOUS
<1>1. /\ frames[p] # <<>>
      /\ Len(outcome[p]) \in Nat
      /\ c = Len(outcome[p]) + 1
      /\ c \in 1..MaxCalls
  BY CallNumbers DEF Write, EngineInv, NothingAhead
<1>2. /\ made[p][c] \in 0..MaxWrites /\ made[p][c] < MaxWrites
      /\ made' = [made EXCEPT ![p] = [made[p] EXCEPT ![c] = made[p][c] + 1]]
      /\ made[p][c] + 1 \in 1..MaxWrites
  <2>1. made[p][c] \in 0..MaxWrites /\ made[p][c] < MaxWrites
    BY <1>1 DEF Write, EngineInv, TypeOK
  <2>2. made[p][c] + 1 \in 1..MaxWrites
    BY <2>1, CallNumbers
  <2> QED BY <2>1, <2>2 DEF Write
<1>3. UNCHANGED <<transactionDepth, frames, holder, outcome>>
  BY DEF Write
<1>4. \/ p \in holder /\ buffer' = buffer \cup {w} /\ database' = database
      \/ holder = {} /\ database' = database \cup {w} /\ buffer' = buffer
  BY DEF Write
<1>5. made' \in [Proc -> [1..MaxCalls -> 0..MaxWrites]]
  <2>1. made[p] \in [1..MaxCalls -> 0..MaxWrites]
    BY DEF EngineInv, TypeOK
  <2>2. made[p][c] + 1 \in 0..MaxWrites
    BY <1>2, CallNumbers
  <2>3. [made[p] EXCEPT ![c] = made[p][c] + 1] \in [1..MaxCalls -> 0..MaxWrites]
    BY <1>1, <2>1, <2>2
  <2> QED BY <1>2, <2>3 DEF EngineInv, TypeOK
<1>6. /\ made'[p][c] = made[p][c] + 1
      /\ \A q \in Proc, n \in 1..MaxCalls : q # p \/ n # c => made'[q][n] = made[q][n]
  BY <1>1, <1>2 DEF EngineInv, TypeOK
<1>7. /\ Writes(p, c)' = Writes(p, c) \cup {w}
      /\ \A q \in Proc, n \in 1..MaxCalls :
           q # p \/ n # c => Writes(q, n)' = Writes(q, n)
  <2>1. 1..(made[p][c] + 1) = (1..made[p][c]) \cup {made[p][c] + 1}
    BY <1>2
  <2>2. Writes(p, c)' = {<<p, c, k>> : k \in 1..(made[p][c] + 1)}
    BY <1>6 DEF Writes
  <2>3. Writes(p, c) = {<<p, c, k>> : k \in 1..made[p][c]}
    BY DEF Writes
  <2>4. Writes(p, c)' = Writes(p, c) \cup {w}
    BY <2>1, <2>2, <2>3
  <2> QED BY <1>6, <2>4 DEF Writes
<1>8. \A q \in Proc : /\ Current(q)' = Current(q)
                      /\ \A n : Sound(q, n)' <=> Sound(q, n)
  BY <1>3 DEF Current, Sound
<1>9. TypeOK'
  <2>1. w \in Proc \X (1..MaxCalls) \X (1..MaxWrites)
    BY <1>1, <1>2
  <2> QED BY <1>3, <1>4, <1>5, <2>1 DEF EngineInv, TypeOK
<1>10. Nesting' /\ OneHolder'
  BY <1>3, <1>8 DEF EngineInv, Nesting, OneHolder
<1>11. \A q \in Proc \ {p} :
         frames[q] # <<>> => Writes(q, Current(q))' = Writes(q, Current(q))
  <2> SUFFICES ASSUME NEW q \in Proc \ {p}, frames[q] # <<>>
               PROVE  Writes(q, Current(q))' = Writes(q, Current(q))
    OBVIOUS
  <2>1. Current(q) \in 1..MaxCalls
    BY CallNumbers DEF EngineInv, NothingAhead
  <2> QED BY <1>6, <1>8, <2>1 DEF Writes
<1>12. Writes(p, Current(p))' = Writes(p, c)'
  BY <1>8
<1>13. Pending'
  <2>1. CASE p \in holder
    <3>1. holder = {p}
      BY <2>1 DEF EngineInv, OneHolder
    <3>2. buffer' = Writes(p, Current(p))'
      BY <1>4, <1>7, <1>12, <2>1, <3>1 DEF EngineInv, Pending
    <3> QED BY <1>3, <3>1, <3>2 DEF Pending
  <2>2. CASE holder = {}
    BY <1>3, <1>4, <2>2 DEF EngineInv, Pending
  <2> QED BY <1>4, <2>1, <2>2
<1>14. Autocommitted'
  <2> SUFFICES ASSUME NEW q \in Proc, frames[q] # <<>>, q \notin holder
               PROVE  Writes(q, Current(q))' \subseteq database'
    BY <1>3 DEF Autocommitted
  <2>1. Writes(q, Current(q)) \subseteq database
    BY DEF EngineInv, Autocommitted
  <2>2. CASE q = p
    BY <1>4, <1>7, <1>12, <2>1, <2>2
  <2>3. CASE q # p
    BY <1>4, <1>11, <2>1, <2>3
  <2> QED BY <2>2, <2>3
<1>15. NothingAhead'
  <2> SUFFICES ASSUME NEW q \in Proc, NEW n \in 1..MaxCalls,
                      n > Current(q) \/ (n = Current(q) /\ frames[q] = <<>>)
               PROVE  made'[q][n] = 0
    BY <1>3, <1>8 DEF EngineInv, NothingAhead
  <2>1. c = Current(p) /\ ~(c > c)
    BY <1>1
  <2>2. q # p \/ n # c
    BY <1>1, <2>1, Zenon
  <2> QED BY <1>6, <2>2 DEF EngineInv, NothingAhead
<1>16. DatabaseIsPast'
  <2> SUFFICES ASSUME NEW q \in Proc, NEW n \in 1..MaxCalls,
                      n > Current(q) \/ (n = Current(q) /\ Sound(q, n)),
                      NEW k \in 1..MaxWrites
               PROVE  <<q, n, k>> \notin database'
    BY <1>8 DEF DatabaseIsPast
  <2>1. <<q, n, k>> \notin database
    BY DEF EngineInv, DatabaseIsPast
  <2>2. CASE p \in holder
    <3>1. holder # {}
      BY <2>2
    <3> QED BY <1>4, <2>1, <3>1
  <2>3. CASE p \notin holder
    <3>1. ~Sound(p, c)
      BY <1>1, <2>3 DEF EngineInv, Nesting
    <3>2. c = Current(p) /\ ~(c > c)
      BY <1>1
    <3>3. q # p \/ n # c
      BY <3>1, <3>2, Zenon
    <3> QED BY <1>4, <2>1, <3>3
  <2> QED BY <2>2, <2>3
<1>17. AtomicUntilBusy' /\ Durable'
  <2> SUFFICES ASSUME NEW q \in Proc, NEW n \in 1..Len(outcome[q])
               PROVE  /\ Sound(q, n) =>
                           IF outcome[q][n] = "returned"
                             THEN Writes(q, n)' \subseteq database'
                             ELSE Writes(q, n)' \cap database' = {}
                      /\ outcome[q][n] = "returned"
                           => Writes(q, n)' \subseteq database'
    BY <1>3, <1>8 DEF AtomicUntilBusy, Durable, Atomic
  <2>1. n \in 1..MaxCalls /\ (q # p \/ n # c)
    <3>1. n \in 1..MaxCalls
      BY CallNumbers
    <3>2. q = p => n \in 1..Len(outcome[p])
      OBVIOUS
    <3>3. n = c => ~(n \in 1..Len(outcome[p]))
      BY <1>1
    <3> QED BY <3>1, <3>2, <3>3, Zenon
  <2>2. Writes(q, n)' = Writes(q, n)
    BY <1>7, <2>1
  <2>3. w \notin Writes(q, n)
    BY <2>1 DEF Writes
  <2>4. /\ Sound(q, n) => IF outcome[q][n] = "returned"
                            THEN Writes(q, n) \subseteq database
                            ELSE Writes(q, n) \cap database = {}
        /\ outcome[q][n] = "returned" => Writes(q, n) \subseteq database
    BY DEF EngineInv, AtomicUntilBusy, Durable, Atomic
  <2> QED BY <1>4, <2>2, <2>3, <2>4
<1> QED BY <1>9, <1>10, <1>13, <1>14, <1>15, <1>16, <1>17 DEF EngineInv

-----------------------------------------------------------------------------
(* The specification. *)

LEMMA EngineInit == Init => EngineInv
<1> SUFFICES ASSUME Init PROVE EngineInv
  OBVIOUS
<1>1. TypeOK
  BY EngineAssumption DEF Init, TypeOK, EngineAssumption
<1>2. \A p \in Proc :
        /\ frames[p] = <<>> /\ outcome[p] = <<>> /\ transactionDepth[p] = 0
        /\ \A n \in 1..MaxCalls : made[p][n] = 0
  BY DEF Init
<1>3. Nesting /\ OneHolder /\ Pending /\ Autocommitted
  BY <1>2 DEF Init, Nesting, OneHolder, Pending, Autocommitted
<1>4. NothingAhead
  BY <1>2, EngineAssumption DEF NothingAhead, EngineAssumption
<1>5. DatabaseIsPast /\ AtomicUntilBusy /\ Durable
  BY <1>2 DEF Init, DatabaseIsPast, AtomicUntilBusy, Durable
<1> QED BY <1>1, <1>3, <1>4, <1>5 DEF EngineInv

(* An outermost call of p that ends, by returning or throwing. *)
LEMMA LastCallLeaves ==
  ASSUME EngineInv, NEW p \in Proc, NEW how \in Ended,
         frames[p] # <<>>, Len(frames[p]) = 1, Leave(p, how)
  PROVE  /\ frames' \in [Proc -> Seq(BOOLEAN)]
         /\ frames'[p] = <<>>
         /\ \A q \in Proc \ {p} : frames'[q] = frames[q]
         /\ transactionDepth' \in [Proc -> Nat]
         /\ \A q \in Proc \ {p} : transactionDepth'[q] = transactionDepth[q]
         /\ Sound(p, Current(p)) => transactionDepth'[p] = 0
         /\ End(p, how)
<1>1. /\ frames[p] \in Seq(BOOLEAN)
      /\ frames \in [Proc -> Seq(BOOLEAN)]
      /\ transactionDepth \in [Proc -> Nat]
  BY DEF EngineInv, TypeOK
<1>2. Pop(frames[p]) = <<>>
  <2>1. Pop(frames[p]) \in Seq(BOOLEAN) /\ Len(Pop(frames[p])) = 0
    BY <1>1, PoppedStack
  <2> QED BY <2>1, EmptyStack
<1>3. /\ 1 <= transactionDepth[p]
      /\ Sound(p, Current(p)) => transactionDepth[p] = 1
  BY DEF EngineInv, Nesting
<1>4. frames' = [frames EXCEPT ![p] = <<>>]
  BY <1>2 DEF Leave
<1>5. transactionDepth' = [transactionDepth EXCEPT ![p] = transactionDepth[p] - 1]
  BY DEF Leave
<1>6. transactionDepth[p] - 1 \in Nat
  BY <1>1, <1>3
<1>7. End(p, how)
  BY DEF Leave
<1> QED BY <1>1, <1>3, <1>4, <1>5, <1>6, <1>7

LEMMA EngineStep == EngineInv /\ [Next]_vars => EngineInv'
<1> SUFFICES ASSUME EngineInv, [Next]_vars PROVE EngineInv'
  OBVIOUS
<1> USE DEF Ended
<1>1. CASE UNCHANGED vars
  <2>1. UNCHANGED <<transactionDepth, frames, holder, buffer, database, made, outcome>>
    BY <1>1 DEF vars
  <2>2. TypeOK' /\ OneHolder' /\ Nesting'
    BY <2>1 DEF EngineInv, TypeOK, OneHolder, Nesting, Sound, Current
  <2>3. Pending' /\ Autocommitted' /\ NothingAhead'
    BY <2>1 DEF EngineInv, Pending, Autocommitted, NothingAhead, Writes, Current
  <2>4. DatabaseIsPast' /\ AtomicUntilBusy' /\ Durable'
    BY <2>1 DEF EngineInv, DatabaseIsPast, AtomicUntilBusy, Durable, Atomic,
                Sound, Writes, Current
  <2> QED BY <2>2, <2>3, <2>4 DEF EngineInv
<1>2. ASSUME NEW p \in Proc, frames[p] # <<>>
      PROVE  /\ Current(p) <= MaxCalls
             /\ p \in holder => holder = {p} /\ buffer = Writes(p, Current(p))
             /\ p \notin holder => /\ holder \ {p} = holder
                                   /\ Writes(p, Current(p)) \subseteq database
  BY <1>2 DEF EngineInv, NothingAhead, OneHolder, Pending, Autocommitted
<1>3. ASSUME NEW p \in Proc, BeginOuter(p) PROVE EngineInv'
  <2>1. Current(p) <= MaxCalls /\ transactionDepth[p] = 0 /\ holder = {}
    BY <1>3 DEF BeginOuter, MayCall
  <2>2. frames[p] = <<>>
    <3>1. frames[p] \in Seq(BOOLEAN) /\ Len(frames[p]) <= 0
      BY <2>1 DEF EngineInv, TypeOK, Nesting
    <3> QED BY <3>1, EmptyStack
  <2> QED BY <1>3, <2>1, <2>2, CallBegins DEF BeginOuter
<1>4. ASSUME NEW p \in Proc, BeginBusy(p) PROVE EngineInv'
  <2> PICK c : c = Current(p)
    OBVIOUS
  <2>1. /\ c <= MaxCalls /\ transactionDepth[p] = 0
        /\ transactionDepth' = [transactionDepth EXCEPT ![p] = 1]
        /\ End(p, "busy")
        /\ UNCHANGED <<frames, holder, buffer, database, made>>
    BY <1>4 DEF BeginBusy, MayCall
  <2>2. frames[p] = <<>>
    <3>1. frames[p] \in Seq(BOOLEAN) /\ Len(frames[p]) <= 0
      BY <2>1 DEF EngineInv, TypeOK, Nesting
    <3> QED BY <3>1, EmptyStack
  <2>3. p \notin holder
    BY <2>2 DEF EngineInv, Nesting
  <2>4. frames' \in [Proc -> Seq(BOOLEAN)] /\ transactionDepth' \in [Proc -> Nat]
    BY <2>1 DEF EngineInv, TypeOK
  <2>5. \A q \in Proc \ {p} : transactionDepth'[q] = transactionDepth[q]
    BY <2>1 DEF EngineInv, TypeOK
  <2> QED BY <2>1, <2>2, <2>3, <2>4, <2>5, CallEnds
<1>5. ASSUME NEW p \in Proc, BeginNested(p) PROVE EngineInv'
  <2>1. /\ Current(p) <= MaxCalls /\ transactionDepth[p] > 0 /\ Push(p, FALSE)
        /\ holder' = holder
        /\ UNCHANGED <<buffer, database, made, outcome>>
    BY <1>5 DEF BeginNested, MayCall
  <2> QED BY <2>1, CallBegins
<1>6. ASSUME NEW p \in Proc, Write(p) PROVE EngineInv'
  BY <1>6, CallWrites
<1>7. ASSUME NEW p \in Proc, Returns(p) PROVE EngineInv'
  <2> PICK c : c = Current(p)
    OBVIOUS
  <2>1. frames[p] # <<>> /\ Leave(p, "returned") /\ made' = made
    BY <1>7 DEF Returns
  <2>2. CASE Len(frames[p]) # 1
    <3>1. ~Last(frames[p])
      BY <2>1, <2>2, LastHasLock
    <3> QED BY <1>7, <2>1, <2>2, <3>1, InnerEnds DEF Returns
  <2>3. CASE Len(frames[p]) = 1
    <3>1. Last(frames[p]) <=> p \in holder
      BY <2>1, <2>3, LastHasLock
    <3>2. /\ frames' \in [Proc -> Seq(BOOLEAN)]
          /\ frames'[p] = <<>>
          /\ \A q \in Proc \ {p} : frames'[q] = frames[q]
          /\ transactionDepth' \in [Proc -> Nat]
          /\ \A q \in Proc \ {p} : transactionDepth'[q] = transactionDepth[q]
          /\ Sound(p, c) => transactionDepth'[p] = 0
          /\ End(p, "returned")
      BY <2>1, <2>3, LastCallLeaves
    <3>3. CASE p \in holder
      <4>1. holder' = holder \ {p} /\ buffer' = {} /\ database' = database \cup Writes(p, c)
        BY <1>2, <1>7, <2>1, <3>1, <3>3 DEF Returns
      <4> QED BY <1>2, <2>1, <3>2, <3>3, <4>1, CallEnds
    <3>4. CASE p \notin holder
      <4>1. holder' = holder \ {p} /\ buffer' = buffer /\ database' = database
        BY <1>2, <1>7, <2>1, <3>1, <3>4 DEF Returns
      <4> QED BY <1>2, <2>1, <3>2, <3>4, <4>1, CallEnds
    <3> QED BY <3>3, <3>4
  <2> QED BY <2>2, <2>3
<1>8. ASSUME NEW p \in Proc, Throws(p) PROVE EngineInv'
  <2> PICK c : c = Current(p)
    OBVIOUS
  <2>1. frames[p] # <<>> /\ Leave(p, "threw") /\ made' = made /\ database' = database
    BY <1>8 DEF Throws
  <2>2. CASE Len(frames[p]) # 1
    <3>1. ~Last(frames[p])
      BY <2>1, <2>2, LastHasLock
    <3> QED BY <1>8, <2>1, <2>2, <3>1, InnerEnds DEF Throws
  <2>3. CASE Len(frames[p]) = 1
    <3>1. Last(frames[p]) <=> p \in holder
      BY <2>1, <2>3, LastHasLock
    <3>2. /\ frames' \in [Proc -> Seq(BOOLEAN)]
          /\ frames'[p] = <<>>
          /\ \A q \in Proc \ {p} : frames'[q] = frames[q]
          /\ transactionDepth' \in [Proc -> Nat]
          /\ \A q \in Proc \ {p} : transactionDepth'[q] = transactionDepth[q]
          /\ Sound(p, c) => transactionDepth'[p] = 0
          /\ End(p, "threw")
      BY <2>1, <2>3, LastCallLeaves
    <3>3. /\ holder' = holder \ {p}
          /\ buffer' = IF p \in holder THEN {} ELSE buffer
      BY <1>2, <1>8, <2>1, <3>1 DEF Throws
    <3> QED BY <1>2, <2>1, <3>2, <3>3, CallEnds
  <2> QED BY <2>2, <2>3
<1>9. ASSUME NEW p \in Proc, Dies(p) PROVE EngineInv'
  <2> PICK c : c = Current(p)
    OBVIOUS
  <2>1. /\ frames[p] # <<>> /\ made' = made /\ database' = database
        /\ frames' = [frames EXCEPT ![p] = <<>>]
        /\ transactionDepth' = [transactionDepth EXCEPT ![p] = 0]
        /\ End(p, "died")
    BY <1>9 DEF Dies
  <2>2. /\ frames' \in [Proc -> Seq(BOOLEAN)]
        /\ frames'[p] = <<>>
        /\ \A q \in Proc \ {p} : frames'[q] = frames[q]
        /\ transactionDepth' \in [Proc -> Nat]
        /\ \A q \in Proc \ {p} : transactionDepth'[q] = transactionDepth[q]
        /\ transactionDepth'[p] = 0
    BY <2>1 DEF EngineInv, TypeOK
  <2>3. /\ holder' = holder \ {p}
        /\ buffer' = IF p \in holder THEN {} ELSE buffer
    BY <1>2, <1>9, <2>1 DEF Dies
  <2> QED BY <1>2, <2>1, <2>2, <2>3, CallEnds
<1> QED BY <1>1, <1>3, <1>4, <1>5, <1>6, <1>7, <1>8, <1>9 DEF Next, Step

LEMMA EngineInvariance == Spec => []EngineInv
  BY EngineInit, EngineStep, PTL DEF Spec

(* The state is well formed. *)
THEOREM EngineTypes == Spec => []TypeOK
<1>1. EngineInv => TypeOK
  BY DEF EngineInv
<1> QED BY EngineInvariance, <1>1, PTL

(* Until a BEGIN of its own process has failed, what a call of              *)
(* transaction() wrote is in the database if it returned, nested calls      *)
(* included, and none of it is if it threw or its process died.             *)
THEOREM Atomicity == Spec => []AtomicUntilBusy
<1>1. EngineInv => AtomicUntilBusy
  BY DEF EngineInv
<1> QED BY EngineInvariance, <1>1, PTL

(* What a call that returned wrote is in the database, whatever failed      *)
(* before or after.                                                         *)
THEOREM Durability == Spec => []Durable
<1>1. EngineInv => Durable
  BY DEF EngineInv
<1> QED BY EngineInvariance, <1>1, PTL

(* Nothing of a call that has the lock is in the database while it is under *)
(* way.                                                                     *)
THEOREM Isolation == Spec => []IsolatedUntilBusy
<1>1. EngineInv => IsolatedUntilBusy
  <2> SUFFICES ASSUME EngineInv, NEW p \in Proc, frames[p] # <<>>,
                      Sound(p, Current(p))
               PROVE  Writes(p, Current(p)) \cap database = {}
    BY DEF IsolatedUntilBusy
  <2>1. Current(p) \in 1..MaxCalls
    BY CallNumbers DEF EngineInv, NothingAhead
  <2> QED BY <2>1, WritesAhead
<1> QED BY EngineInvariance, <1>1, PTL

(* The lock is held by a process that is in a call which began the          *)
(* transaction, and by one at a time.                                       *)
THEOREM LockDiscipline == Spec => []LockIsHeldInCall
<1>1. EngineInv => LockIsHeldInCall
  <2> SUFFICES ASSUME EngineInv, NEW p \in holder
               PROVE  /\ holder = {p}
                      /\ frames[p] # <<>> /\ frames[p][1]
                      /\ buffer = Writes(p, Current(p))
    BY DEF LockIsHeldInCall, EngineInv, Pending
  <2>1. p \in Proc /\ frames[p] # <<>> /\ frames[p] \in Seq(BOOLEAN)
    BY DEF EngineInv, TypeOK, Nesting
  <2>2. 1 \in 1..Len(frames[p])
    BY <2>1, EmptyStack
  <2>3. frames[p][1]
    BY <2>1, <2>2 DEF EngineInv, Nesting
  <2> QED BY <2>1, <2>3 DEF EngineInv, OneHolder, Pending
<1> QED BY EngineInvariance, <1>1, PTL

-----------------------------------------------------------------------------
(* One process. *)

NeverBusy == \A p \in Proc : \A n \in 1..Len(outcome[p]) : outcome[p][n] # "busy"

(* With one process on the database no BEGIN fails. *)
LEMMA OneProcessStep ==
  ASSUME NEW only, Proc = {only}
  PROVE  EngineInv /\ NeverBusy /\ [Next]_vars => NeverBusy'
<1> SUFFICES ASSUME EngineInv, NeverBusy, [Next]_vars PROVE NeverBusy'
  OBVIOUS
<1> USE DEF Ended
<1>1. CASE outcome' = outcome
  BY <1>1 DEF NeverBusy
<1>2. ASSUME NEW p \in Proc, NEW how \in Ended, how # "busy", End(p, how)
      PROVE  NeverBusy'
  <2>1. outcome[p] \in Seq(Ended) /\ outcome \in [Proc -> Seq(Ended)]
    BY DEF EngineInv, TypeOK
  <2>2. /\ Len(outcome[p]) \in Nat
        /\ Len(Append(outcome[p], how)) = Len(outcome[p]) + 1
        /\ Append(outcome[p], how)[Len(outcome[p]) + 1] = how
        /\ \A i \in 1..Len(outcome[p]) : Append(outcome[p], how)[i] = outcome[p][i]
    BY <2>1, GrownOutcome
  <2>3. outcome' = [outcome EXCEPT ![p] = Append(outcome[p], how)]
    BY <1>2 DEF End
  <2> SUFFICES ASSUME NEW q \in Proc, NEW n \in 1..Len(outcome'[q])
               PROVE  outcome'[q][n] # "busy"
    BY DEF NeverBusy
  <2>4. q = p
    OBVIOUS
  <2>5. outcome'[q] = Append(outcome[p], how)
    BY <2>1, <2>3, <2>4
  <2>6. n \in 1..Len(outcome[p]) \/ n = Len(outcome[p]) + 1
    BY <2>2, <2>5
  <2> QED BY <1>2, <2>2, <2>5, <2>6 DEF NeverBusy
<1>3. ASSUME NEW p \in Proc, BeginBusy(p) PROVE FALSE
  <2>1. p \in holder /\ transactionDepth[p] = 0
    BY <1>3 DEF BeginBusy, EngineInv, TypeOK
  <2>2. frames[p] # <<>> /\ frames[p] \in Seq(BOOLEAN) /\ Len(frames[p]) <= 0
    BY <2>1 DEF EngineInv, TypeOK, Nesting
  <2> QED BY <2>2, EmptyStack
<1>4. CASE UNCHANGED vars
  BY <1>1, <1>4 DEF vars
<1>5. ASSUME NEW p \in Proc, Step(p) PROVE NeverBusy'
  BY <1>1, <1>2, <1>3, <1>5
     DEF Step, BeginOuter, BeginNested, Write, Returns, Throws, Dies, Leave
<1> QED BY <1>4, <1>5 DEF Next

(* With one process on the database every call is all or nothing. *)
THEOREM SingleProcessAtomicity ==
  ASSUME NEW only, Proc = {only}
  PROVE  Spec => []AllOrNothing
<1>1. Init => NeverBusy
  BY DEF Init, NeverBusy
<1>2. EngineInv /\ NeverBusy /\ [Next]_vars => NeverBusy'
  BY OneProcessStep
<1>3. EngineInv /\ NeverBusy => AllOrNothing
  <2> SUFFICES ASSUME EngineInv, NeverBusy, NEW p \in Proc, NEW n \in 1..Len(outcome[p])
               PROVE  Atomic(p, n)
    BY DEF AllOrNothing
  <2>1. \A m \in 1..(n - 1) : m \in 1..Len(outcome[p])
    BY CallNumbers
  <2>2. Sound(p, n)
    BY <2>1 DEF NeverBusy, Sound
  <2> QED BY <2>2 DEF EngineInv, AtomicUntilBusy
<1> QED BY EngineInvariance, <1>1, <1>2, <1>3, PTL DEF Spec
=============================================================================
