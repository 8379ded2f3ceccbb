--------------------------- MODULE EventLogProofs ---------------------------
(***************************************************************************)
(* Proofs about EventLog, for every set of processes, sessions, tasks and  *)
(* captures and every bound.  First what is folded and what is read:       *)
(* reading the log after an event in order is appended gives the event     *)
(* after those read before.  On that rest the projections (ViewInv) and    *)
(* the snapshots (LogInv).  What is said by induction over events or over  *)
(* snapshots is proved from the least counterexample.                      *)
(***************************************************************************)
EXTENDS EventLog, FiniteSetTheorems, SequenceTheorems, TLAPS

-----------------------------------------------------------------------------
(* Folds.  FoldLeft takes the last element of a set of indices off; that   *)
(* the function it is defined by exists, and is the only one, is shown for *)
(* the two folds at once.                                                  *)

Reducer == {"project", "reduce"}

First(r) == IF r = "project" THEN Blank ELSE Start

Fold(r, view, e) == IF r = "project" THEN Project(view, e) ELSE Reduce(view, e)

(* f is the fold over each set of indices up to n. *)
Folds(r, f, q, n) ==
  f = [s \in SUBSET (1..n) |->
         IF s = {} THEN First(r) ELSE Fold(r, f[s \ {Max(s)}], q[Max(s)])]

LEMMA MaxIsLast ==
  ASSUME NEW n \in Nat, NEW s \in SUBSET (1..n), n \in s
  PROVE  Max(s) = n
<1>1. \A y \in s : n >= y
  OBVIOUS
<1>2. ASSUME NEW x \in s, \A y \in s : x >= y PROVE x = n
  <2>1. x \in Int /\ x >= n /\ n >= x
    BY <1>1, <1>2
  <2> QED BY <2>1
<1> HIDE DEF Max
<1>3. Max(s) \in s /\ \A y \in s : Max(s) >= y
  BY <1>1 DEF Max
<1> QED BY <1>2, <1>3

LEMMA Least ==
  ASSUME NEW T, T \subseteq Nat, T # {}
  PROVE  \E k \in T : \A j \in T : k <= j
<1> DEFINE R == StrictSubsetOrdering(Nat)
           F == FiniteSubsetsOf(Nat)
           U == {0..k : k \in T}
<1>1. U \subseteq F /\ U # {}
  <2>1. ASSUME NEW k \in T  PROVE 0..k \in FiniteSubsetsOf(Nat)
    <3>1. k \in Int /\ 0 \in Int
      OBVIOUS
    <3>2. IsFiniteSet(0..k)
      BY <3>1, FS_Interval
    <3> QED BY <3>2 DEF FiniteSubsetsOf
  <2> QED BY <2>1
<1>2. IsWellFoundedOn(R, F)
  BY FS_StrictSubsetOrderingWellFounded
<1> HIDE DEF R, F
<1>3. \E x \in U : \A y \in U : ~ (<<y, x>> \in R)
  BY <1>1, <1>2, WFMin
<1>4. PICK k \in T : \A y \in U : ~ (<<y, 0..k>> \in R)
  BY <1>3
<1>5. ASSUME NEW j \in T, ~ (k <= j)  PROVE FALSE
  <2>1. j \in Nat /\ k \in Nat /\ j < k
    BY <1>5
  <2>2. 0..j \subseteq 0..k /\ 0..j # 0..k
    <3>1. k \in 0..k /\ k \notin 0..j
      BY <2>1
    <3> QED BY <2>1, <3>1
  <2>3. <<0..j, 0..k>> \in R
    BY <2>1, <2>2 DEF R, StrictSubsetOrdering
  <2> QED BY <1>4, <2>3
<1> QED BY <1>4, <1>5

LEMMA FoldExists ==
  ASSUME NEW r \in Reducer, NEW q, NEW n \in Nat
  PROVE  \E f : Folds(r, f, q, n)
<1> DEFINE T == {m \in Nat : ~ \E f : Folds(r, f, q, m)}
<1>1. SUFFICES ASSUME T # {} PROVE FALSE
  OBVIOUS
<1>2. PICK m \in T : \A x \in T : m <= x
  <2>1. T \subseteq Nat
    OBVIOUS
  <2> HIDE DEF T
  <2> QED BY <1>1, <2>1, Least
<1>3. CASE m = 0
  <2> DEFINE f == [s \in SUBSET (1..0) |-> First(r)]
  <2>1. \A s \in SUBSET (1..0) : s = {}
    OBVIOUS
  <2>2. Folds(r, f, q, 0)
    BY <2>1 DEF Folds
  <2> QED BY <1>3, <2>2
<1>4. CASE m # 0
  <2>1. m \in Nat /\ m - 1 \in Nat /\ m - 1 \notin T
    BY <1>2, <1>4
  <2>2. PICK f : Folds(r, f, q, m - 1)
    BY <2>1
  <2> DEFINE g == [s \in SUBSET (1..m) |->
                     IF m \in s THEN Fold(r, f[s \ {m}], q[m]) ELSE f[s]]
  <2>3. ASSUME NEW s \in SUBSET (1..m)
        PROVE  g[s] = IF s = {} THEN First(r)
                      ELSE Fold(r, g[s \ {Max(s)}], q[Max(s)])
    <3>1. CASE m \in s
      <4>1. Max(s) = m
        BY <2>1, <3>1, MaxIsLast
      <4>2. s \ {m} \in SUBSET (1..m) /\ m \notin s \ {m}
        OBVIOUS
      <4>3. g[s \ {m}] = f[s \ {m}]
        BY <4>2
      <4> QED BY <3>1, <4>1, <4>3
    <3>2. CASE m \notin s
      <4>1. s \in SUBSET (1..(m - 1))
        BY <2>1, <3>2
      <4>2. f[s] = IF s = {} THEN First(r)
                   ELSE Fold(r, f[s \ {Max(s)}], q[Max(s)])
        BY <2>2, <4>1 DEF Folds
      <4>3. g[s \ {Max(s)}] = f[s \ {Max(s)}]
        BY <3>2
      <4> QED BY <3>2, <4>2, <4>3
    <3> QED BY <3>1, <3>2
  <2>4. g = [s \in SUBSET (1..m) |-> g[s]]
    OBVIOUS
  <2> HIDE DEF g
  <2>5. Folds(r, g, q, m)
    BY <2>3, <2>4 DEF Folds
  <2> QED BY <2>5
<1> QED BY <1>3, <1>4

(* Two folds agree up to where the sequences do. *)
LEMMA FoldsAgree ==
  ASSUME NEW r \in Reducer, NEW q, NEW p, NEW n \in Nat, NEW m \in Nat, NEW l \in Nat,
         l <= n, l <= m, NEW f, NEW g, Folds(r, f, q, n), Folds(r, g, p, m),
         \A i \in 1..l : q[i] = p[i]
  PROVE  f[1..l] = g[1..l]
<1> DEFINE T == {k \in 0..l : f[1..k] # g[1..k]}
<1>1. SUFFICES ASSUME T # {} PROVE FALSE
  BY DEF T
<1>2. PICK k \in T : \A x \in T : k <= x
  <2>1. T \subseteq Nat
    OBVIOUS
  <2> HIDE DEF T
  <2> QED BY <1>1, <2>1, Least
<1>3. k \in 0..l /\ 1..k \in SUBSET (1..n) /\ 1..k \in SUBSET (1..m)
  OBVIOUS
<1>4. CASE k = 0
  <2>1. 1..k = {}
    BY <1>4
  <2>2. f[1..k] = First(r) /\ g[1..k] = First(r)
    BY <1>3, <2>1 DEF Folds
  <2> QED BY <1>2, <2>2
<1>5. CASE k # 0
  <2>1. k \in Nat /\ k \in 1..k /\ (1..k) \ {k} = 1..(k - 1)
    BY <1>3, <1>5
  <2>2. Max(1..k) = k
    BY <2>1, MaxIsLast
  <2>3. f[1..(k - 1)] = g[1..(k - 1)]
    BY <1>2, <1>3, <1>5
  <2>4. f[1..k] = Fold(r, f[1..(k - 1)], q[k]) /\ g[1..k] = Fold(r, g[1..(k - 1)], p[k])
    BY <1>3, <2>1, <2>2 DEF Folds
  <2>5. q[k] = p[k]
    BY <1>3, <1>5
  <2> QED BY <1>2, <2>3, <2>4, <2>5
<1> QED BY <1>4, <1>5

TheFold(r, q, n) == CHOOSE f : Folds(r, f, q, n)

Folded(r, q) == TheFold(r, q, Len(q))[1..Len(q)]

LEMMA FoldOfNone ==
  ASSUME NEW r \in Reducer
  PROVE  Folded(r, <<>>) = First(r)
<1> DEFINE f == TheFold(r, <<>>, 0)
<1>1. Folds(r, f, <<>>, 0)
  BY FoldExists DEF TheFold
<1>2. 1..0 = {} /\ Len(<<>>) = 0
  OBVIOUS
<1>3. Folded(r, <<>>) = f[1..0]
  BY <1>2 DEF Folded
<1> HIDE DEF f
<1> QED BY <1>1, <1>2, <1>3 DEF Folds

LEMMA FoldStep ==
  ASSUME NEW r \in Reducer, NEW S, NEW q \in Seq(S), NEW e \in S
  PROVE  Folded(r, Append(q, e)) = Fold(r, Folded(r, q), e)
<1> DEFINE n == Len(q)
           m == n + 1
           p == Append(q, e)
           f == TheFold(r, q, n)
           g == TheFold(r, p, m)
<1>1. n \in Nat /\ Len(p) = m /\ p[m] = e /\ \A i \in 1..n : q[i] = p[i]
  BY AppendProperties, LenProperties
<1>2. Folded(r, q) = f[1..n] /\ Folded(r, p) = g[1..m]
  BY <1>1 DEF Folded
<1>3. m \in Nat /\ n <= m
  BY <1>1
<1>4. m \in 1..m /\ (1..m) \ {m} = 1..n
  BY <1>1
<1> HIDE DEF n, p, m
<1>5. Folds(r, f, q, n) /\ Folds(r, g, p, m)
  BY <1>1, <1>3, FoldExists DEF TheFold
<1> HIDE DEF f, g
<1>6. f[1..n] = g[1..n]
  BY <1>1, <1>3, <1>5, FoldsAgree
<1>7. Max(1..m) = m
  BY <1>3, <1>4, MaxIsLast
<1>8. g[1..m] = Fold(r, g[(1..m) \ {m}], p[m])
  BY <1>4, <1>5, <1>7 DEF Folds
<1> QED BY <1>1, <1>2, <1>4, <1>6, <1>8 DEF p

LEMMA FoldsAreFolded ==
  ASSUME NEW S, NEW q \in Seq(S)
  PROVE  /\ FoldLeft(Project, Blank, q) = Folded("project", q)
         /\ FoldLeft(Reduce, Start, q) = Folded("reduce", q)
<1>1. DOMAIN q = 1..Len(q)
  BY LenProperties
<1> QED BY <1>1 DEF FoldLeft, MapThenFoldSet, Folded, TheFold, Folds, Fold, First

LEMMA ProjectFold ==
  ASSUME NEW S, NEW q \in Seq(S), NEW e \in S
  PROVE  FoldLeft(Project, Blank, Append(q, e)) = Project(FoldLeft(Project, Blank, q), e)
<1>1. Append(q, e) \in Seq(S) /\ "project" \in Reducer
  BY AppendProperties DEF Reducer
<1> QED BY <1>1, FoldStep, FoldsAreFolded DEF Fold

LEMMA ReduceFold ==
  ASSUME NEW S, NEW q \in Seq(S), NEW e \in S
  PROVE  StateAfter(Append(q, e)) = Reduce(StateAfter(q), e)
<1>1. Append(q, e) \in Seq(S) /\ "reduce" \in Reducer /\ "reduce" # "project"
  BY AppendProperties DEF Reducer
<1>2. Folded("reduce", Append(q, e)) = Fold("reduce", Folded("reduce", q), e)
  BY <1>1, FoldStep
<1>3. /\ StateAfter(Append(q, e)) = Folded("reduce", Append(q, e))
      /\ StateAfter(q) = Folded("reduce", q)
  BY <1>1, FoldsAreFolded DEF StateAfter
<1> QED BY <1>1, <1>2, <1>3 DEF Fold

LEMMA EmptyFolds ==
  FoldLeft(Project, Blank, <<>>) = Blank /\ StateAfter(<<>>) = Start
<1>1. <<>> \in Seq({})
  BY EmptySeq
<1>2. "project" \in Reducer /\ "reduce" \in Reducer /\ "reduce" # "project"
  BY DEF Reducer
<1> QED BY <1>1, <1>2, FoldOfNone, FoldsAreFolded DEF First, StateAfter

-----------------------------------------------------------------------------
(* Reading the log L: the rows of a session have different numbers, and    *)
(* every number up to how many there are is that of one.                   *)

In(L, s) == {i \in DOMAIN L : L[i].session = s /\ L[i].kind # "deleted"}

Before(L, i, j) == L[i].at < L[j].at \/ (L[i].at = L[j].at /\ i < j)

Earlier(L, s, i) == {j \in In(L, s) : Before(L, j, i)}

NumberIn(L, s, i) == Cardinality(Earlier(L, s, i)) + 1

Read(L, s) ==
  [n \in 1..Cardinality(In(L, s)) |-> L[CHOOSE i \in In(L, s) : NumberIn(L, s, i) = n]]

LEMMA RowsAreFinite ==
  ASSUME NEW L \in Seq(EventType), NEW s
  PROVE  /\ IsFiniteSet(In(L, s)) /\ Cardinality(In(L, s)) \in Nat
         /\ In(L, s) \subseteq 1..Len(L) /\ Len(L) \in Nat
         /\ \A i \in In(L, s) : i \in Nat /\ L[i] \in EventType /\ L[i].at \in Nat
<1>1. Len(L) \in Nat /\ DOMAIN L = 1..Len(L)
  BY LenProperties
<1>2. In(L, s) \subseteq 1..Len(L)
  BY <1>1 DEF In
<1>3. IsFiniteSet(1..Len(L))
  BY <1>1, FS_Interval
<1>4. IsFiniteSet(In(L, s))
  BY <1>2, <1>3, FS_Subset
<1>5. \A e \in EventType : e.at \in Nat
  BY ConstantsAssumption DEF EventType
<1>6. \A i \in In(L, s) : L[i] \in EventType
  BY <1>2, ElementOfSeq
<1> QED BY <1>1, <1>2, <1>4, <1>5, <1>6, FS_CardinalityType

LEMMA NumberInRange ==
  ASSUME NEW L \in Seq(EventType), NEW s, NEW i \in In(L, s)
  PROVE  /\ IsFiniteSet(Earlier(L, s, i))
         /\ NumberIn(L, s, i) \in 1..Cardinality(In(L, s))
<1> DEFINE I == In(L, s)
           E == Earlier(L, s, i)
<1>1. IsFiniteSet(I) /\ L[i].at \in Int /\ i \in Int
  BY RowsAreFinite
<1>2. i \notin E /\ E \subseteq I
  BY <1>1 DEF Earlier, Before
<1>3. IsFiniteSet(I \ {i}) /\ Cardinality(I \ {i}) = Cardinality(I) - 1
  BY <1>1, FS_RemoveElement
<1>4. E \subseteq I \ {i}
  BY <1>2
<1> HIDE DEF I, E
<1>5. IsFiniteSet(E) /\ Cardinality(E) <= Cardinality(I \ {i})
  BY <1>3, <1>4, FS_Subset
<1>6. Cardinality(E) \in Nat /\ Cardinality(I) \in Nat
  BY <1>1, <1>5, FS_CardinalityType
<1> QED BY <1>3, <1>5, <1>6 DEF NumberIn, I, E

LEMMA NumbersDiffer ==
  ASSUME NEW L \in Seq(EventType), NEW s, NEW i \in In(L, s), NEW k \in In(L, s),
         Before(L, i, k)
  PROVE  NumberIn(L, s, i) < NumberIn(L, s, k)
<1> DEFINE E == Earlier(L, s, i)
           F == Earlier(L, s, k)
<1>1. \A j \in In(L, s) : j \in Int /\ L[j].at \in Int
  BY RowsAreFinite
<1>2. E \subseteq F /\ i \in F /\ i \notin E
  BY <1>1 DEF Earlier, Before
<1>3. IsFiniteSet(F) /\ IsFiniteSet(E)
  BY NumberInRange
<1>4. E \subseteq F \ {i}
  BY <1>2
<1> HIDE DEF E, F
<1>5. IsFiniteSet(F \ {i}) /\ Cardinality(F \ {i}) = Cardinality(F) - 1
  BY <1>2, <1>3, FS_RemoveElement
<1>6. Cardinality(E) <= Cardinality(F \ {i})
  BY <1>4, <1>5, FS_Subset
<1>7. Cardinality(E) \in Nat /\ Cardinality(F) \in Nat
  BY <1>3, FS_CardinalityType
<1> QED BY <1>5, <1>6, <1>7 DEF NumberIn, E, F

LEMMA OneRowPerNumber ==
  ASSUME NEW L \in Seq(EventType), NEW s, NEW i \in In(L, s), NEW k \in In(L, s),
         NumberIn(L, s, i) = NumberIn(L, s, k)
  PROVE  i = k
<1>1. i \in Int /\ k \in Int /\ L[i].at \in Int /\ L[k].at \in Int
  BY RowsAreFinite
<1>2. i = k \/ Before(L, i, k) \/ Before(L, k, i)
  BY <1>1 DEF Before
<1>3. NumberIn(L, s, i) \in Int /\ NumberIn(L, s, k) \in Int
  BY NumberInRange, RowsAreFinite
<1> QED BY <1>2, <1>3, NumbersDiffer

LEMMA NumberIsTaken ==
  ASSUME NEW L \in Seq(EventType), NEW s, NEW n \in 1..Cardinality(In(L, s))
  PROVE  \E i \in In(L, s) : NumberIn(L, s, i) = n
<1> DEFINE I == In(L, s)
           N == Cardinality(I)
           f == [i \in I |-> NumberIn(L, s, i)]
<1>1. IsFiniteSet(I) /\ N \in Nat
  BY RowsAreFinite
<1>2. f \in Injection(I, 1..N)
  BY NumberInRange, OneRowPerNumber DEF Injection, IsInjective
<1>3. IsFiniteSet(1..N) /\ Cardinality(1..N) = N
  BY <1>1, FS_Interval
<1> HIDE DEF f
<1>4. f \in Surjection(I, 1..N)
  BY <1>1, <1>2, <1>3, FS_Injection
<1>5. PICK i \in I : f[i] = n
  BY <1>4 DEF Surjection
<1> QED BY <1>5 DEF f

LEMMA ReadAt ==
  ASSUME NEW L \in Seq(EventType), NEW s, NEW i \in In(L, s)
  PROVE  Read(L, s)[NumberIn(L, s, i)] = L[i]
<1> DEFINE n == NumberIn(L, s, i)
           k == CHOOSE k \in In(L, s) : NumberIn(L, s, k) = n
<1>1. k \in In(L, s) /\ NumberIn(L, s, k) = n
  OBVIOUS
<1>2. n \in 1..Cardinality(In(L, s))
  BY NumberInRange
<1>3. Read(L, s)[n] = L[k]
  BY <1>2 DEF Read
<1> HIDE DEF k, n
<1>4. k = i
  BY <1>1, OneRowPerNumber DEF n
<1> QED BY <1>3, <1>4 DEF n

LEMMA ReadType ==
  ASSUME NEW L \in Seq(EventType), NEW s
  PROVE  /\ Read(L, s) \in Seq(EventType)
         /\ Len(Read(L, s)) = Cardinality(In(L, s))
<1> DEFINE N == Cardinality(In(L, s))
<1>1. N \in Nat
  BY RowsAreFinite
<1>2. ASSUME NEW n \in 1..N PROVE Read(L, s)[n] \in EventType
  <2>1. PICK i \in In(L, s) : NumberIn(L, s, i) = n
    BY NumberIsTaken
  <2> QED BY <2>1, ReadAt, RowsAreFinite
<1>3. Read(L, s) = [n \in 1..N |-> Read(L, s)[n]]
  BY DEF Read
<1>4. Read(L, s) \in [1..N -> EventType]
  BY <1>2, <1>3
<1> HIDE DEF N
<1>5. Read(L, s) \in Seq(EventType)
  BY <1>1, <1>4, SeqDef
<1>6. Len(Read(L, s)) \in Nat /\ DOMAIN Read(L, s) = 1..Len(Read(L, s))
  BY <1>5, LenProperties
<1> QED BY <1>1, <1>4, <1>5, <1>6 DEF N

(* What is appended behind what was there at an earlier time is read last.  *)
LEMMA ReadAppend ==
  ASSUME NEW L \in Seq(EventType), NEW e \in EventType, e.kind # "deleted",
         \A i \in In(L, e.session) : L[i].at <= e.at
  PROVE  Read(Append(L, e), e.session) = Append(Read(L, e.session), e)
<1> DEFINE s == e.session
           M == Append(L, e)
           m == Len(L) + 1
           I == In(L, s)
           N == Cardinality(I)
<1>1. /\ M \in Seq(EventType) /\ Len(M) = m /\ M[m] = e /\ Len(L) \in Nat
      /\ \A i \in 1..Len(L) : M[i] = L[i]
  BY AppendProperties, LenProperties
<1>2. /\ IsFiniteSet(I) /\ N \in Nat /\ I \subseteq 1..Len(L) /\ m \notin I
      /\ \A i \in I : i < m /\ M[i] = L[i] /\ L[i].at \in Nat
  BY <1>1, RowsAreFinite
<1>3. DOMAIN L = 1..Len(L) /\ DOMAIN M = 1..m
  BY <1>1, LenProperties
<1>4. In(M, s) = I \cup {m}
  BY <1>1, <1>3 DEF In
<1> HIDE DEF M
<1>5. m \in In(M, s)
  BY <1>4
<1>6. e.at \in Nat /\ m \in Nat /\ Cardinality(In(M, s)) = N + 1
  <2>1. Cardinality(I \cup {m}) = N + 1
    BY <1>2, FS_AddElement
  <2> QED BY <1>1, <1>4, <1>5, <2>1, RowsAreFinite
<1>7. ASSUME NEW i \in I PROVE NumberIn(M, s, i) = NumberIn(L, s, i)
  <2>1. Earlier(M, s, i) = Earlier(L, s, i)
    <3>1. ~ Before(M, m, i)
      BY <1>1, <1>2, <1>6 DEF Before
    <3>2. \A j \in I : Before(M, j, i) <=> Before(L, j, i)
      BY <1>2 DEF Before
    <3> QED BY <1>4, <3>1, <3>2 DEF Earlier
  <2> QED BY <2>1 DEF NumberIn
<1>8. NumberIn(M, s, m) = N + 1
  <2>1. ASSUME NEW i \in I PROVE Before(M, i, m)
    <3>1. L[i].at <= e.at
      OBVIOUS
    <3> QED BY <1>1, <1>2, <1>6, <3>1 DEF Before
  <2>2. ~ Before(M, m, m)
    BY <1>1, <1>6 DEF Before
  <2>3. Earlier(M, s, m) = I
    BY <1>2, <1>4, <2>1, <2>2 DEF Earlier
  <2> QED BY <2>3 DEF NumberIn
<1> DEFINE R == Read(L, s)
           A == Append(R, e)
<1>9. /\ Read(M, s) \in Seq(EventType) /\ Len(Read(M, s)) = N + 1
      /\ R \in Seq(EventType) /\ Len(R) = N
  BY <1>1, <1>6, ReadType
<1>10. A \in Seq(EventType) /\ Len(A) = N + 1 /\ A[N + 1] = e /\ \A n \in 1..N : A[n] = R[n]
  BY <1>9, AppendProperties
<1>11. ASSUME NEW n \in 1..N PROVE Read(M, s)[n] = R[n]
  <2>1. PICK i \in I : NumberIn(L, s, i) = n
    BY NumberIsTaken
  <2>2. NumberIn(M, s, i) = n /\ i \in In(M, s)
    BY <1>4, <1>7, <2>1
  <2>3. Read(M, s)[n] = M[i]
    BY <1>1, <2>2, ReadAt
  <2>4. R[n] = L[i]
    BY <2>1, ReadAt
  <2> QED BY <1>2, <2>3, <2>4
<1>12. Read(M, s)[N + 1] = e
  BY <1>1, <1>5, <1>8, ReadAt
<1> HIDE DEF R, A, N, s
<1>13. \A n \in 1..(N + 1) : Read(M, s)[n] = A[n]
  <2>1. N \in Nat
    BY <1>2 DEF N
  <2> QED BY <1>10, <1>11, <1>12, <2>1
<1>14. Read(M, s) = A
  BY <1>9, <1>10, <1>13, SeqEqual
<1> QED BY <1>14 DEF A, M, R, s

(* A log with the same rows of a session reads the same.                   *)
LEMMA ReadSame ==
  ASSUME NEW L \in Seq(EventType), NEW M \in Seq(EventType), NEW s,
         In(M, s) = In(L, s), \A i \in In(L, s) : M[i] = L[i]
  PROVE  Read(M, s) = Read(L, s)
<1> DEFINE I == In(L, s)
<1>1. ASSUME NEW i \in I PROVE NumberIn(M, s, i) = NumberIn(L, s, i)
  BY DEF NumberIn, Earlier, Before
<1>2. /\ Read(M, s) \in Seq(EventType) /\ Len(Read(M, s)) = Cardinality(I)
      /\ Read(L, s) \in Seq(EventType) /\ Len(Read(L, s)) = Cardinality(I)
  BY ReadType
<1>3. ASSUME NEW n \in 1..Cardinality(I) PROVE Read(M, s)[n] = Read(L, s)[n]
  <2>1. PICK i \in I : NumberIn(L, s, i) = n
    BY NumberIsTaken
  <2>2. Read(M, s)[n] = M[i] /\ Read(L, s)[n] = L[i]
    BY <1>1, <2>1, ReadAt
  <2> QED BY <2>2
<1> HIDE DEF I
<1> QED BY <1>2, <1>3, SeqEqual

LEMMA ReadOthers ==
  ASSUME NEW L \in Seq(EventType), NEW e \in EventType, NEW s, s # e.session
  PROVE  Read(Append(L, e), s) = Read(L, s)
<1> DEFINE M == Append(L, e)
           m == Len(L) + 1
<1>1. /\ M \in Seq(EventType) /\ Len(M) = m /\ M[m] = e /\ Len(L) \in Nat
      /\ \A i \in 1..Len(L) : M[i] = L[i]
  BY AppendProperties, LenProperties
<1>2. DOMAIN L = 1..Len(L) /\ DOMAIN M = 1..m
  BY <1>1, LenProperties
<1>3. In(M, s) = In(L, s) /\ \A i \in In(L, s) : M[i] = L[i]
  BY <1>1, <1>2 DEF In
<1> HIDE DEF M, m
<1> QED BY <1>1, <1>3, ReadSame DEF M

LEMMA EventsAreRead ==
  ASSUME NEW s \in Session
  PROVE  EventsOf(s) = Read(log, s) /\ EventsOf(s)' = Read(log', s)
BY DEF EventsOf, RowsOf, Number, ReadBefore, Read, In, NumberIn, Earlier, Before

-----------------------------------------------------------------------------
(* The projections. *)

(* The log is in order as far as the clock goes.                           *)
ClockInv ==
  /\ log \in Seq(EventType)
  /\ now \in 1..MaxTime
  /\ stamp \in [Proc -> 0..now]
  /\ \A i \in DOMAIN log : log[i].at <= now

ViewInv ==
  /\ ClockInv
  /\ complete \subseteq Session
  /\ projection = [s \in Session |-> projection[s]]
  /\ ProjectionIsFold

(* Event e is appended.  InOrder: none of its session is of a later time.  *)
Appended(e) ==
  e \in EventType /\ e.kind # "deleted" /\ e.at <= now /\ log' = Append(log, e)

InOrder(e) == \A i \in RowsOf(e.session) : log[i].at <= e.at

LEMMA ClockAppend ==
  ASSUME ClockInv, NEW e, Appended(e), UNCHANGED now, stamp' \in [Proc -> 0..now]
  PROVE  ClockInv'
<1>1. /\ log' \in Seq(EventType) /\ Len(log') = Len(log) + 1 /\ Len(log) \in Nat
      /\ \A i \in 1..Len(log) : log'[i] = log[i]
      /\ log'[Len(log) + 1] = e
  BY AppendProperties, LenProperties DEF ClockInv, Appended
<1>2. DOMAIN log' = 1..(Len(log) + 1) /\ DOMAIN log = 1..Len(log)
  BY <1>1, LenProperties DEF ClockInv
<1>3. ASSUME NEW i \in DOMAIN log' PROVE log'[i].at <= now
  <2>1. CASE i \in 1..Len(log)
    BY <1>1, <1>2, <2>1 DEF ClockInv
  <2>2. CASE i = Len(log) + 1
    BY <1>1, <2>2 DEF Appended
  <2> QED BY <1>1, <1>2, <2>1, <2>2
<1> QED BY <1>1, <1>3 DEF ClockInv

LEMMA EventsAppend ==
  ASSUME ClockInv, NEW e, Appended(e), NEW s \in Session
  PROVE  /\ s # e.session => EventsOf(s)' = EventsOf(s)
         /\ s = e.session /\ InOrder(e) => EventsOf(s)' = Append(EventsOf(s), e)
         /\ EventsOf(s) \in Seq(EventType)
<1>1. /\ log \in Seq(EventType) /\ e \in EventType /\ e.kind # "deleted"
      /\ log' = Append(log, e) /\ EventsOf(s) = Read(log, s) /\ EventsOf(s)' = Read(log', s)
  BY EventsAreRead DEF ClockInv, Appended
<1>2. CASE s # e.session
  <2>1. Read(Append(log, e), s) = Read(log, s)
    BY <1>1, <1>2, ReadOthers
  <2> QED BY <1>1, <1>2, <2>1, ReadType
<1>3. CASE s = e.session
  <2>1. ASSUME InOrder(e) PROVE Read(Append(log, e), s) = Append(Read(log, s), e)
    <3>1. \A i \in In(log, e.session) : log[i].at <= e.at
      BY <2>1 DEF In, RowsOf, InOrder
    <3> QED BY <1>1, <1>3, <3>1, ReadAppend
  <2> QED BY <1>1, <1>3, <2>1, ReadType
<1> QED BY <1>2, <1>3

LEMMA RebuiltAppend ==
  ASSUME ClockInv, NEW e, Appended(e), NEW s \in Session
  PROVE  /\ s # e.session => Rebuilt(s)' = Rebuilt(s)
         /\ s = e.session /\ InOrder(e) => Rebuilt(s)' = Project(Rebuilt(s), e)
<1>1. CASE s # e.session
  <2>1. EventsOf(s)' = EventsOf(s)
    BY <1>1, EventsAppend
  <2> QED BY <1>1, <2>1 DEF Rebuilt
<1>2. CASE s = e.session /\ InOrder(e)
  <2>1. EventsOf(s)' = Append(EventsOf(s), e) /\ EventsOf(s) \in Seq(EventType)
    BY <1>2, EventsAppend
  <2>2. e \in EventType
    BY DEF Appended
  <2> QED BY <1>2, <2>1, <2>2, ProjectFold DEF Rebuilt
<1> QED BY <1>1, <1>2

(* As long as the log stays so do the events and what they say.            *)
LEMMA RebuiltSame ==
  ASSUME UNCHANGED log, NEW s
  PROVE  EventsOf(s)' = EventsOf(s) /\ Rebuilt(s)' = Rebuilt(s)
BY DEF EventsOf, RowsOf, Number, ReadBefore, Rebuilt

LEMMA BlankIsRebuilt ==
  ASSUME NEW s, RowsOf(s) = {}
  PROVE  Rebuilt(s) = Blank
<1>1. Cardinality(RowsOf(s)) = 0
  BY FS_EmptySet
<1>2. EventsOf(s) = <<>>
  BY <1>1 DEF EventsOf
<1> QED BY <1>2, EmptyFolds DEF Rebuilt

(* What commits: an event that was stamped before, in order unless its     *)
(* session is late from then on.                                           *)
LEMMA CommitAppends ==
  ASSUME ClockInv, NEW p \in Proc, Commit(p)
  PROVE  \E e \in EventType, heard \in BOOLEAN :
           /\ Appended(e) /\ Committed(e, heard)
           /\ e.session \in Session
           /\ e.session \notin late' => InOrder(e)
<1>1. PICK s \in Session, kind \in Kind, heard \in BOOLEAN :
        \E t \in IF kind \in DOMAIN TaskMove THEN Task ELSE {None} :
          Committed([session |-> s, at |-> stamp[p], kind |-> kind, task |-> t], heard)
  BY DEF Commit
<1>2. PICK t \in IF kind \in DOMAIN TaskMove THEN Task ELSE {None} :
        Committed([session |-> s, at |-> stamp[p], kind |-> kind, task |-> t], heard)
  BY <1>1
<1> DEFINE e == [session |-> s, at |-> stamp[p], kind |-> kind, task |-> t]
<1>3. stamp[p] \in 1..MaxTime /\ stamp[p] <= now
  BY ConstantsAssumption DEF ClockInv, Commit
<1>4. t \in Task \cup {None}
  BY <1>1
<1>5. Appended(e)
  BY <1>2, <1>3, <1>4, ConstantsAssumption DEF Appended, EventType, Committed
<1>6. e.session \in Session
  OBVIOUS
<1>7. Committed(e, heard)
  BY <1>2
<1>8. e \in EventType
  BY <1>5 DEF Appended
<1> HIDE DEF e
<1>9. e.session \notin late' => InOrder(e)
  <2>1. \A i \in DOMAIN log : log[i] \in EventType
    BY LenProperties, ElementOfSeq DEF ClockInv
  <2>2. e.at \in Nat /\ \A i \in RowsOf(e.session) : log[i].at \in Nat
    BY <1>5, <2>1, ConstantsAssumption DEF EventType, Appended, RowsOf
  <2> QED BY <1>7, <2>2 DEF Committed, InOrder
<1> QED BY <1>5, <1>6, <1>7, <1>9, <1>8

LEMMA ViewCommit ==
  ASSUME ViewInv, NEW p \in Proc, Commit(p)
  PROVE  ViewInv'
<1>1. PICK e \in EventType, heard \in BOOLEAN :
        /\ Appended(e) /\ Committed(e, heard)
        /\ e.session \in Session
        /\ e.session \notin late' => InOrder(e)
  BY CommitAppends DEF ViewInv
<1>2. UNCHANGED now /\ stamp' = [stamp EXCEPT ![p] = 0]
  BY DEF Commit
<1>3. stamp' \in [Proc -> 0..now]
  BY <1>2, ConstantsAssumption DEF ViewInv, ClockInv
<1>4. ClockInv'
  BY <1>1, <1>2, <1>3, ClockAppend DEF ViewInv
<1>5. /\ projection' = IF heard THEN [projection EXCEPT ![e.session] = Project(@, e)]
                       ELSE projection
      /\ complete' = IF heard /\ e.session \notin late' THEN complete
                     ELSE complete \ {e.session}
  BY <1>1 DEF Committed
<1>6. complete' \subseteq complete /\ complete \subseteq Session
  BY <1>5 DEF ViewInv
<1>7. projection' = [s \in Session |-> projection'[s]]
  BY <1>5 DEF ViewInv
<1>8. ASSUME NEW s \in complete' PROVE projection'[s] = Rebuilt(s)'
  <2>1. s \in complete /\ s \in Session /\ projection[s] = Rebuilt(s)
    BY <1>6 DEF ViewInv, ProjectionIsFold
  <2>2. CASE s # e.session
    <3>1. projection'[s] = projection[s]
      BY <1>5, <2>1, <2>2 DEF ViewInv
    <3> QED BY <1>1, <2>1, <2>2, <3>1, RebuiltAppend DEF ViewInv
  <2>3. CASE s = e.session
    <3>1. heard /\ InOrder(e)
      BY <1>1, <1>5, <1>8, <2>3
    <3>2. projection'[s] = Project(projection[s], e)
      BY <1>5, <2>1, <2>3, <3>1 DEF ViewInv
    <3>3. Rebuilt(s)' = Project(Rebuilt(s), e)
      BY <1>1, <2>1, <2>3, <3>1, RebuiltAppend DEF ViewInv
    <3> QED BY <2>1, <3>2, <3>3
  <2> QED BY <2>2, <2>3
<1> QED BY <1>4, <1>6, <1>7, <1>8 DEF ViewInv, ProjectionIsFold

(* rollbackTo appends at the time that it is: nothing is of a later one.   *)
LEMMA RollbackAppends ==
  ASSUME ClockInv, NEW s \in Session, RollbackTo(s)
  PROVE  \E e \in EventType :
           /\ Appended(e) /\ InOrder(e) /\ e.session = s
           /\ projection' = [x \in Session |-> IF x = s THEN Project(Rebuilt(s), e)
                                               ELSE Rebuilt(x)]
<1> DEFINE e == [session |-> s, at |-> now, kind |-> "session_rolled_back", task |-> None]
<1>1. /\ log' = Append(log, e)
      /\ projection' = [x \in Session |-> IF x = s THEN Project(Rebuilt(s), e)
                                          ELSE Rebuilt(x)]
  BY DEF RollbackTo
<1>2. e \in EventType /\ e.kind # "deleted" /\ e.at = now /\ e.session = s
  BY DEF EventType, ClockInv
<1> HIDE DEF e
<1>3. now \in Nat
  BY ConstantsAssumption DEF ClockInv
<1> QED BY <1>1, <1>2, <1>3 DEF Appended, InOrder, ClockInv, RowsOf

LEMMA ViewRollback ==
  ASSUME ViewInv, NEW r \in Session, RollbackTo(r)
  PROVE  ViewInv'
<1>1. PICK e \in EventType :
        /\ Appended(e) /\ InOrder(e) /\ e.session = r
        /\ projection' = [x \in Session |-> IF x = r THEN Project(Rebuilt(r), e)
                                            ELSE Rebuilt(x)]
  BY RollbackAppends DEF ViewInv
<1>2. UNCHANGED <<now, stamp>> /\ complete' = Session
  BY DEF RollbackTo
<1>3. ClockInv'
  BY <1>1, <1>2, ClockAppend DEF ViewInv, ClockInv
<1>4. projection' = [s \in Session |-> projection'[s]]
  BY <1>1
<1>5. ASSUME NEW s \in Session PROVE projection'[s] = Rebuilt(s)'
  <2>1. CASE s # r
    BY <1>1, <2>1, RebuiltAppend DEF ViewInv
  <2>2. CASE s = r
    BY <1>1, <2>2, RebuiltAppend DEF ViewInv
  <2> QED BY <2>1, <2>2
<1> QED BY <1>2, <1>3, <1>4, <1>5 DEF ViewInv, ProjectionIsFold

(* A step that appends nothing and rebuilds or forgets sessions.           *)
LEMMA ViewSet ==
  ASSUME ViewInv, ClockInv', UNCHANGED log, complete' \subseteq Session,
         projection' = [s \in Session |-> projection'[s]],
         \A s \in complete' : projection'[s] = Rebuilt(s)
  PROVE  ViewInv'
<1>1. \A s \in complete' : projection'[s] = Rebuilt(s)'
  BY RebuiltSame
<1> QED BY <1>1 DEF ViewInv, ProjectionIsFold

LEMMA ClockStep ==
  ASSUME ClockInv, UNCHANGED log,
         \/ UNCHANGED <<now, stamp>>
         \/ Tick
         \/ \E p \in Proc : Stamp(p)
         \/ UNCHANGED now /\ stamp' = [stamp EXCEPT ![Here] = 0]
  PROVE  ClockInv'
<1>1. now \in Nat /\ MaxTime \in Nat
  BY ConstantsAssumption DEF ClockInv
<1>2. CASE UNCHANGED <<now, stamp>>
  BY <1>2 DEF ClockInv
<1>3. CASE Tick
  <2>1. now' = now + 1 /\ now < MaxTime /\ UNCHANGED stamp
    BY <1>3 DEF Tick
  <2>2. ASSUME NEW i \in DOMAIN log PROVE log[i].at \in Nat
    <3>1. log[i] \in EventType
      BY LenProperties, ElementOfSeq DEF ClockInv
    <3> QED BY <1>1, <3>1 DEF EventType
  <2> QED BY <1>1, <2>1, <2>2 DEF ClockInv
<1>4. CASE \E p \in Proc : Stamp(p)
  <2>1. PICK p \in Proc : Stamp(p)
    BY <1>4
  <2>2. stamp' = [stamp EXCEPT ![p] = now] /\ UNCHANGED now
    BY <2>1 DEF Stamp
  <2>3. stamp' \in [Proc -> 0..now]
    BY <1>1, <2>2 DEF ClockInv
  <2> QED BY <2>2, <2>3 DEF ClockInv
<1>5. CASE UNCHANGED now /\ stamp' = [stamp EXCEPT ![Here] = 0]
  <2>1. stamp \in [Proc -> 0..now] /\ 0 \in 0..now
    BY <1>1 DEF ClockInv
  <2>2. stamp' \in [Proc -> 0..now]
    BY <1>5, <2>1
  <2> QED BY <1>5, <2>2 DEF ClockInv
<1> QED BY <1>2, <1>3, <1>4, <1>5

LEMMA ViewInVain ==
  ASSUME ViewInv, NEW s \in Session, HeardInVain(s)
  PROVE  ViewInv'
<1>1. /\ UNCHANGED <<log, now>> /\ stamp' = [stamp EXCEPT ![Here] = 0]
      /\ complete' = complete \ {s}
  BY DEF HeardInVain
<1>2. PICK view : projection' = [projection EXCEPT ![s] = view]
  BY DEF HeardInVain
<1>3. ClockInv'
  BY <1>1, ClockStep DEF ViewInv
<1>4. projection' = [x \in Session |-> projection'[x]]
  BY <1>2 DEF ViewInv
<1>5. \A x \in Session \ {s} : projection'[x] = projection[x]
  BY <1>2 DEF ViewInv
<1> QED BY <1>1, <1>3, <1>4, <1>5, ViewSet DEF ViewInv, ProjectionIsFold

(* Retention takes the events of one session and leaves the others.        *)
LEMMA PurgeLeaves ==
  ASSUME ClockInv, NEW s \in Session, PurgeSession(s)
  PROVE  /\ ClockInv'
         /\ \A x \in Session \ {s} : EventsOf(x)' = EventsOf(x)
         /\ Purged \cup {s} \subseteq Purged'
<1>1. /\ log' = [i \in DOMAIN log |-> IF i \in RowsOf(s) THEN Gap(s) ELSE log[i]]
      /\ RowsOf(s) # {} /\ UNCHANGED <<now, stamp>>
  BY DEF PurgeSession
<1>2. Len(log) \in Nat /\ DOMAIN log = 1..Len(log) /\ log \in Seq(EventType)
  BY LenProperties DEF ClockInv
<1>3. Gap(s) \in EventType /\ Gap(s).at = 1 /\ Gap(s).session = s /\ Gap(s).kind = "deleted"
  BY ConstantsAssumption DEF Gap, EventType
<1> HIDE DEF Gap
<1>4. RowsOf(s) \subseteq DOMAIN log /\ \A i \in RowsOf(s) : log[i].session = s
  BY DEF RowsOf
<1>5. /\ DOMAIN log' = DOMAIN log
      /\ \A i \in DOMAIN log : i \notin RowsOf(s) => log'[i] = log[i]
      /\ \A i \in RowsOf(s) : log'[i] = Gap(s)
  <2> HIDE DEF RowsOf
  <2> QED BY <1>1, <1>4
<1>6. log' \in Seq(EventType)
  <2>1. \A i \in 1..Len(log) : log[i] \in EventType
    BY <1>2, ElementOfSeq
  <2>2. log' \in [1..Len(log) -> EventType]
    BY <1>1, <1>2, <1>3, <2>1
  <2> QED BY <1>2, <2>2, SeqDef
<1>7. ClockInv'
  BY <1>1, <1>3, <1>5, <1>6 DEF ClockInv
<1>8. ASSUME NEW x \in Session \ {s} PROVE EventsOf(x)' = EventsOf(x)
  <2>1. In(log', x) = In(log, x) /\ \A i \in In(log, x) : log'[i] = log[i]
    BY <1>3, <1>4, <1>5 DEF In
  <2> QED BY <1>2, <1>6, <2>1, ReadSame, EventsAreRead
<1>9. ASSUME NEW x \in Purged \cup {s} PROVE x \in Purged'
  <2>1. CASE x = s
    BY <1>1, <1>3, <1>4, <1>5, <2>1 DEF Purged
  <2>2. CASE x # s
    BY <1>5, <2>2 DEF Purged, RowsOf
  <2> QED BY <2>1, <2>2
<1> QED BY <1>7, <1>8, <1>9

LEMMA ViewPurge ==
  ASSUME ViewInv, NEW s \in Session, PurgeSession(s)
  PROVE  ViewInv'
<1>1. complete' = complete \ {s} /\ UNCHANGED projection
  BY DEF PurgeSession
<1>2. ClockInv' /\ \A x \in Session \ {s} : Rebuilt(x)' = Rebuilt(x)
  BY PurgeLeaves DEF ViewInv, Rebuilt
<1> QED BY <1>1, <1>2 DEF ViewInv, ProjectionIsFold

LEMMA ViewStep ==
  ASSUME ViewInv, [Next]_vars
  PROVE  ViewInv'
<1>1. CASE UNCHANGED vars
  BY <1>1, ClockStep, ViewSet DEF vars, ViewInv, ProjectionIsFold
<1>2. CASE Tick
  BY <1>2, ClockStep, ViewSet DEF Tick, ViewInv, ProjectionIsFold
<1>3. ASSUME NEW p \in Proc, Stamp(p) PROVE ViewInv'
  BY <1>3, ClockStep, ViewSet DEF Stamp, ViewInv, ProjectionIsFold
<1>4. CASE RebuildAll
  BY <1>4, ClockStep, ViewSet DEF RebuildAll, ViewInv
<1>5. CASE Restart
  BY <1>5, ClockStep, ViewSet, BlankIsRebuilt DEF Restart, NoEvents, ViewInv
<1>6. ASSUME NEW s \in Session, RebuildSession(s) PROVE ViewInv'
  BY <1>6, ClockStep, ViewSet, BlankIsRebuilt DEF RebuildSession, NoEvents, ViewInv
<1>7. ASSUME NEW k \in Capture,
             \/ \E s \in Session : CaptureReads(k, s)
             \/ CaptureInserts(k)
             \/ CaptureFails(k)
      PROVE  ViewInv'
  BY <1>7, ClockStep, ViewSet
     DEF CaptureReads, CaptureInserts, CaptureFails, ViewInv, ProjectionIsFold
<1>8. ASSUME NEW i \in DOMAIN snapshots, Damage(i) PROVE ViewInv'
  BY <1>8, ClockStep, ViewSet DEF Damage, ViewInv, ProjectionIsFold
<1> QED BY <1>1, <1>2, <1>3, <1>4, <1>5, <1>6, <1>7, <1>8, ViewCommit, ViewRollback,
           ViewInVain, ViewPurge DEF Next

LEMMA ViewInit == Init => ViewInv
<1> SUFFICES ASSUME Init PROVE ViewInv
  OBVIOUS
<1>1. log = <<>> /\ log \in Seq(EventType) /\ DOMAIN log = {}
  BY DEF Init
<1>2. now \in 1..MaxTime /\ stamp \in [Proc -> 0..now]
  BY ConstantsAssumption DEF Init
<1>3. ASSUME NEW s \in Session PROVE Rebuilt(s) = Blank
  <2>1. RowsOf(s) = {}
    BY <1>1 DEF RowsOf
  <2> QED BY <2>1, BlankIsRebuilt
<1> QED BY <1>1, <1>2, <1>3 DEF Init, ViewInv, ClockInv, ProjectionIsFold

LEMMA ViewInvariance == Spec => []ViewInv
<1>1. ViewInv /\ [Next]_vars => ViewInv'
  BY ViewStep
<1> QED BY <1>1, ViewInit, PTL DEF Spec

(* What the projections hold of a session is what a rebuild would give,    *)
(* for any number of processes and events: none is lost or counted twice.  *)
THEOREM ProjectionsFold == Spec => []ProjectionIsFold
BY ViewInvariance, PTL DEF ViewInv

-----------------------------------------------------------------------------
(* The states that events give.  A task that is there once stays there.    *)

WellFormed(state) ==
  /\ state = [f \in Field |-> state[f]]
  /\ \A t \in Task : state[t] = [status |-> state[t].status,
                                 updatedAt |-> state[t].updatedAt]

Prefix(q, n) == SubSeq(q, 1, n)

LEMMA PrefixIsPrefix ==
  ASSUME NEW S, NEW q \in Seq(S), NEW n \in 0..Len(q)
  PROVE  /\ Prefix(q, n) \in Seq(S) /\ Len(Prefix(q, n)) = n
         /\ \A i \in 1..n : Prefix(q, n)[i] = q[i]
<1>1. Len(q) \in Nat
  BY LenProperties
<1>2. n \in Int /\ 1 \in Int /\ \A i \in 1..n : q[i] \in S
  BY <1>1, ElementOfSeq
<1>3. /\ SubSeq(q, 1, n) \in Seq(S)
      /\ Len(SubSeq(q, 1, n)) = IF 1 <= n THEN n - 1 + 1 ELSE 0
      /\ \A i \in 1..(n - 1 + 1) : SubSeq(q, 1, n)[i] = q[1 + i - 1]
  BY <1>2, SubSeqProperties
<1>4. /\ n - 1 + 1 = n /\ (IF 1 <= n THEN n - 1 + 1 ELSE 0) = n
      /\ \A i \in 1..n : 1 + i - 1 = i
  BY <1>1
<1> QED BY <1>3, <1>4 DEF Prefix

LEMMA PrefixAppends ==
  ASSUME NEW S, NEW q \in Seq(S)
  PROVE  /\ Prefix(q, 0) = <<>> /\ Prefix(q, Len(q)) = q
         /\ \A n \in 0..Len(q) : Prefix(q, n) \in Seq(S)
         /\ \A n \in 1..Len(q) : /\ q[n] \in S
                                 /\ Prefix(q, n) = Append(Prefix(q, n - 1), q[n])
<1>1. Len(q) \in Nat
  BY LenProperties
<1>2. \A i \in 1..Len(q) : q[i] \in S
  BY ElementOfSeq
<1>3. \A n \in 0..Len(q) : /\ Prefix(q, n) \in Seq(S) /\ Len(Prefix(q, n)) = n
                           /\ \A i \in 1..n : Prefix(q, n)[i] = q[i]
  BY PrefixIsPrefix
<1>4. Prefix(q, 0) = <<>> /\ Prefix(q, Len(q)) = q
  BY SubSeqEmpty, SubSeqFull DEF Prefix
<1>5. ASSUME NEW n \in 1..Len(q)
      PROVE  Prefix(q, n) = Append(Prefix(q, n - 1), q[n])
  <2> DEFINE a == Prefix(q, n)
             b == Prefix(q, n - 1)
             c == Append(b, q[n])
  <2>1. n - 1 \in 0..Len(q) /\ n \in 0..Len(q) /\ n \in Nat /\ q[n] \in S
    BY <1>1, <1>2
  <2>2. /\ a \in Seq(S) /\ Len(a) = n /\ \A i \in 1..n : a[i] = q[i]
        /\ b \in Seq(S) /\ Len(b) = n - 1 /\ \A i \in 1..(n - 1) : b[i] = q[i]
    BY <1>3, <2>1
  <2> HIDE DEF a, b
  <2>3. /\ c \in Seq(S) /\ Len(c) = Len(b) + 1 /\ c[Len(b) + 1] = q[n]
        /\ \A i \in 1..Len(b) : c[i] = b[i]
    BY <2>1, <2>2, AppendProperties
  <2> HIDE DEF c
  <2>4. Len(c) = n /\ c[n] = q[n] /\ \A i \in 1..(n - 1) : c[i] = q[i]
    BY <2>1, <2>2, <2>3
  <2>5. \A i \in 1..n : a[i] = c[i]
    BY <2>1, <2>2, <2>4
  <2>6. a = c
    BY <2>2, <2>3, <2>4, <2>5, SeqEqual
  <2> QED BY <2>6 DEF a, b, c
<1> QED BY <1>2, <1>3, <1>4, <1>5

LEMMA StartIsWellFormed == WellFormed(Start)
BY ConstantsAssumption DEF WellFormed, Start, Field, Absent

LEMMA ReduceIsWellFormed ==
  ASSUME NEW state, WellFormed(state), NEW e \in EventType
  PROVE  /\ WellFormed(Reduce(state, e))
         /\ \A t \in Task : state[t] # Absent => Reduce(state, e)[t] # Absent
<1> DEFINE next == Reduce(state, e)
<1>1. next = [f \in Field |-> next[f]]
  BY DEF Reduce
<1>2. e.at \in Nat \ {0}
  BY ConstantsAssumption DEF EventType
<1>3. ASSUME NEW t \in Task
      PROVE  /\ next[t] = [status |-> next[t].status, updatedAt |-> next[t].updatedAt]
             /\ state[t] # Absent => next[t] # Absent
  <2>1. t \in Field /\ t \notin {"status", "active", "updatedAt"}
    BY ConstantsAssumption DEF Field
  <2>2. next[t] = IF e.task = t
                  THEN [status |-> TaskMove[e.kind], updatedAt |-> e.at]
                  ELSE IF e.task = None /\ state[t] # Absent
                  THEN [state[t] EXCEPT !.updatedAt = e.at] ELSE state[t]
    BY <2>1 DEF Reduce, FieldAfter
  <2>3. PICK a, b : state[t] = [status |-> a, updatedAt |-> b]
    BY DEF WellFormed
  <2>4. [state[t] EXCEPT !.updatedAt = e.at] = [status |-> a, updatedAt |-> e.at]
    BY <2>3
  <2>5. \A x : [status |-> x, updatedAt |-> e.at] # Absent
    BY <1>2 DEF Absent
  <2>6. next[t] = state[t] \/ \E x : next[t] = [status |-> x, updatedAt |-> e.at]
    BY <2>2, <2>4
  <2> HIDE DEF next
  <2> QED BY <2>3, <2>5, <2>6
<1> QED BY <1>1, <1>3 DEF WellFormed

(* By induction over the number of events.                                 *)
LEMMA StatesAreWellFormed ==
  ASSUME NEW q \in Seq(EventType), NEW n \in 0..Len(q)
  PROVE  WellFormed(StateAfter(Prefix(q, n)))
<1> DEFINE Bad == {m \in 0..Len(q) : ~WellFormed(StateAfter(Prefix(q, m)))}
<1>1. Len(q) \in Nat
  BY LenProperties
<1>2. Bad \subseteq Nat
  BY <1>1
<1>3. ASSUME Bad # {} PROVE FALSE
  <2>1. PICK k \in Bad : \A j \in Bad : k <= j
    BY <1>2, <1>3, Least
  <2>2. k # 0
    BY <2>1, PrefixAppends, EmptyFolds, StartIsWellFormed
  <2>3. k \in 1..Len(q) /\ k - 1 \in 0..Len(q) /\ k - 1 \notin Bad
    BY <1>1, <2>1, <2>2
  <2>4. WellFormed(StateAfter(Prefix(q, k - 1)))
    BY <2>3
  <2>5. /\ Prefix(q, k) = Append(Prefix(q, k - 1), q[k])
        /\ Prefix(q, k - 1) \in Seq(EventType) /\ q[k] \in EventType
    BY <2>3, PrefixAppends
  <2>6. StateAfter(Prefix(q, k)) = Reduce(StateAfter(Prefix(q, k - 1)), q[k])
    BY <2>5, ReduceFold
  <2> QED BY <2>1, <2>4, <2>5, <2>6, ReduceIsWellFormed
<1> QED BY <1>3

LEMMA TasksStay ==
  ASSUME NEW q \in Seq(EventType), NEW t \in Task,
         NEW m \in 0..Len(q), NEW n \in m..Len(q),
         StateAfter(Prefix(q, n))[t] = Absent
  PROVE  StateAfter(Prefix(q, m))[t] = Absent
<1> DEFINE Gone == {k \in m..Len(q) : StateAfter(Prefix(q, k))[t] = Absent}
<1>1. Len(q) \in Nat /\ m \in Nat
  BY LenProperties
<1>2. Gone \subseteq Nat /\ Gone # {}
  BY <1>1
<1>3. PICK k \in Gone : \A j \in Gone : k <= j
  BY <1>2, Least
<1>4. ASSUME k # m PROVE FALSE
  <2>1. k \in 1..Len(q) /\ k - 1 \in 0..Len(q) /\ k - 1 \in m..Len(q) /\ k - 1 \notin Gone
    BY <1>1, <1>3, <1>4
  <2>2. StateAfter(Prefix(q, k - 1))[t] # Absent
    BY <2>1
  <2>3. /\ Prefix(q, k) = Append(Prefix(q, k - 1), q[k])
        /\ Prefix(q, k - 1) \in Seq(EventType) /\ q[k] \in EventType
    BY <2>1, PrefixAppends
  <2>4. StateAfter(Prefix(q, k)) = Reduce(StateAfter(Prefix(q, k - 1)), q[k])
    BY <2>3, ReduceFold
  <2>5. WellFormed(StateAfter(Prefix(q, k - 1)))
    BY <2>1, StatesAreWellFormed
  <2> QED BY <1>3, <2>2, <2>3, <2>4, <2>5, ReduceIsWellFormed
<1> QED BY <1>3, <1>4

-----------------------------------------------------------------------------
(* Snapshots that tell what the events say. *)

LEMMA Greatest ==
  ASSUME NEW T, T \subseteq Nat, T # {}, NEW n \in Nat, \A k \in T : k <= n
  PROVE  \E m \in T : \A j \in T : j <= m
<1> DEFINE Left == {n - k : k \in T}
<1>1. Left \subseteq Nat /\ Left # {}
  <2>1. \A k \in T : n - k \in Nat
    OBVIOUS
  <2> QED BY <2>1
<1>2. PICK d \in Left : \A e \in Left : d <= e
  BY <1>1, Least
<1>3. PICK m \in T : d = n - m
  BY <1>2
<1>4. ASSUME NEW j \in T PROVE j <= m
  <2>1. n - j \in Left
    OBVIOUS
  <2>2. n - m <= n - j
    BY <1>2, <1>3, <2>1
  <2> QED BY <2>2
<1> QED BY <1>4

(* In one session, the numbers grow with the inserts, ...                  *)
Ordered(s) ==
  /\ \A i \in SnapshotsOf(s) : /\ i \in 1..Len(snapshots)
                               /\ snapshots[i].seq \in 1..Len(EventsOf(s))
  /\ \A i, j \in SnapshotsOf(s) : i < j => snapshots[i].seq <= snapshots[j].seq

(* ... each snapshot is what the events up to its number give, ...          *)
Truthful(s) ==
  \A i \in SnapshotsOf(s) : snapshots[i].state = StateAt(s, snapshots[i].seq)

(* ... and each delta tells the difference to the one inserted before it.  *)
Chained(s) ==
  \A i \in SnapshotsOf(s) : ~snapshots[i].keyframe =>
    \E p \in SnapshotsOf(s) :
      /\ p < i /\ \A j \in SnapshotsOf(s) : j < i => j <= p
      /\ snapshots[i].diff = Changes(snapshots[p].state, snapshots[i].state)

Sound(s) ==
  /\ Len(snapshots) \in Nat
  /\ EventsOf(s) \in Seq(EventType)
  /\ Ordered(s) /\ Truthful(s) /\ Chained(s)

LEMMA Numbers ==
  ASSUME NEW s, Sound(s)
  PROVE  /\ Len(EventsOf(s)) \in Nat /\ Len(snapshots) \in Nat
         /\ \A i \in SnapshotsOf(s) :
              /\ i \in Nat /\ i <= Len(snapshots)
              /\ snapshots[i].seq \in Nat /\ snapshots[i].seq <= Len(EventsOf(s))
<1>1. Len(EventsOf(s)) \in Nat
  BY LenProperties DEF Sound
<1> QED BY <1>1 DEF Sound, Ordered

LEMMA LastIsGreatest ==
  ASSUME NEW s, Sound(s), NEW I \in SUBSET SnapshotsOf(s), NEW m \in I,
         \A j \in I : j <= m
  PROVE  LastListed(I) = m
<1>1. \A i \in I : i \in Nat /\ snapshots[i].seq \in Nat
  BY Numbers
<1>2. \A j \in I \ {m} : ListedBefore(j, m)
  <2> SUFFICES ASSUME NEW j \in I \ {m} PROVE ListedBefore(j, m)
    OBVIOUS
  <2>1. j < m
    BY <1>1
  <2>2. snapshots[j].seq <= snapshots[m].seq
    BY <2>1 DEF Sound, Ordered
  <2> QED BY <1>1, <2>1, <2>2 DEF ListedBefore
<1>3. ASSUME NEW i \in I, \A j \in I \ {i} : ListedBefore(j, i), i # m PROVE FALSE
  <2>1. ListedBefore(m, i) /\ ListedBefore(i, m)
    BY <1>2, <1>3
  <2> QED BY <1>1, <2>1 DEF ListedBefore
<1> QED BY <1>2, <1>3 DEF LastListed

LEMMA NearestIsNearest ==
  ASSUME NEW s, Sound(s), NEW n \in Nat, Keyframes(s, n) # {}
  PROVE  /\ Nearest(s, n) \in Keyframes(s, n)
         /\ \A j \in Keyframes(s, n) : snapshots[j].seq <= snapshots[Nearest(s, n)].seq
<1> DEFINE K == Keyframes(s, n)
           Seqs == {snapshots[i].seq : i \in K}
<1>1. \A i \in K : i \in Nat /\ snapshots[i].seq \in Nat /\ snapshots[i].seq <= n
  BY Numbers DEF Keyframes
<1>2. Seqs \subseteq Nat /\ Seqs # {} /\ \A q \in Seqs : q <= n
  BY <1>1
<1> HIDE DEF K
<1>3. PICK top \in Seqs : \A q \in Seqs : q <= top
  BY <1>2, Greatest
<1> DEFINE At == {i \in K : snapshots[i].seq = top}
<1>4. At \subseteq Nat /\ At # {}
  BY <1>1, <1>3
<1>5. PICK b \in At : \A j \in At : b <= j
  BY <1>4, Least
<1>6. ASSUME NEW j \in K \ {b}
      PROVE  \/ snapshots[j].seq < snapshots[b].seq
             \/ snapshots[j].seq = snapshots[b].seq /\ b < j
  <2>1. snapshots[j].seq <= top /\ snapshots[b].seq = top
    BY <1>3
  <2>2. CASE snapshots[j].seq = top
    <3>1. b <= j
      BY <1>5, <2>2
    <3> QED BY <1>1, <2>1, <2>2, <3>1
  <2> QED BY <1>1, <2>1, <2>2
<1>7. \E i \in K : \A j \in K \ {i} :
        \/ snapshots[j].seq < snapshots[i].seq
        \/ snapshots[j].seq = snapshots[i].seq /\ i < j
  BY <1>6
<1>8. /\ Nearest(s, n) \in K
      /\ \A j \in K \ {Nearest(s, n)} :
           \/ snapshots[j].seq < snapshots[Nearest(s, n)].seq
           \/ snapshots[j].seq = snapshots[Nearest(s, n)].seq /\ Nearest(s, n) < j
  BY <1>7 DEF K, Nearest
<1> QED BY <1>1, <1>8 DEF K

(* What a delta after the nearest keyframe was taken against is such a     *)
(* delta too, or a snapshot of the state of that keyframe.                 *)
LEMMA TakenAgainst ==
  ASSUME NEW s, Sound(s), DeltasHaveBase(s), NEW n \in Nat, NEW b \in Keyframes(s, n),
         \A j \in Keyframes(s, n) : snapshots[j].seq <= snapshots[b].seq,
         NEW i \in Deltas(s, snapshots[b].seq, n)
  PROVE  /\ b < i
         /\ \E p \in SnapshotsOf(s) :
              /\ p < i /\ \A j \in SnapshotsOf(s) : j < i => j <= p
              /\ snapshots[i].diff = Changes(snapshots[p].state, snapshots[i].state)
              /\ \/ p \in Deltas(s, snapshots[b].seq, n)
                 \/ /\ snapshots[p].seq = snapshots[b].seq
                    /\ snapshots[p].state = snapshots[b].state
<1> DEFINE seq(j) == snapshots[j].seq
<1>1. /\ i \in SnapshotsOf(s) /\ ~snapshots[i].keyframe /\ seq(i) > seq(b) /\ seq(i) <= n
      /\ b \in SnapshotsOf(s) /\ snapshots[b].keyframe
  BY DEF Deltas, Keyframes
<1>2. PICK p \in SnapshotsOf(s) :
        /\ p < i /\ \A j \in SnapshotsOf(s) : j < i => j <= p
        /\ snapshots[i].diff = Changes(snapshots[p].state, snapshots[i].state)
  BY <1>1 DEF Sound, Chained
<1>3. /\ i \in Nat /\ b \in Nat /\ p \in Nat
      /\ seq(i) \in Nat /\ seq(b) \in Nat /\ seq(p) \in Nat
  BY <1>1, Numbers
<1>4. b < i
  <2>1. i < b => seq(i) <= seq(b)
    BY <1>1 DEF Sound, Ordered
  <2> QED BY <1>1, <1>3, <2>1
<1>5. b <= p
  BY <1>1, <1>2, <1>4
<1>6. seq(b) <= seq(p) /\ seq(p) <= seq(i)
  <2>1. b < p => seq(b) <= seq(p)
    BY <1>1 DEF Sound, Ordered
  <2>2. seq(p) <= seq(i)
    BY <1>1, <1>2 DEF Sound, Ordered
  <2> QED BY <1>3, <1>5, <2>1, <2>2
<1>7. CASE seq(p) = seq(b)
  BY <1>1, <1>2, <1>4, <1>7 DEF Sound, Truthful
<1>8. CASE seq(p) > seq(b)
  <2>1. seq(p) <= n
    BY <1>1, <1>3, <1>6
  <2>2. ASSUME snapshots[p].keyframe PROVE FALSE
    <3>1. ~snapshots[p].intact
      BY <1>3, <1>8, <2>1, <2>2 DEF Keyframes
    <3>2. ListedBefore(p, i)
      BY <1>2, <1>3, <1>6 DEF ListedBefore
    <3> QED BY <1>1, <3>1, <3>2 DEF DeltasHaveBase
  <2>3. p \in Deltas(s, snapshots[b].seq, n)
    BY <1>8, <2>1, <2>2 DEF Deltas
  <2> QED BY <1>2, <1>4, <2>3
<1>9. seq(p) = seq(b) \/ seq(p) > seq(b)
  BY <1>3, <1>6
<1> HIDE DEF seq
<1> QED BY <1>7, <1>8, <1>9

(* A field that no delta changes after m, up to i, is in i what it is in m. *)
LEMMA FieldStays ==
  ASSUME NEW s, Sound(s), DeltasHaveBase(s), NEW n \in Nat, NEW b \in Keyframes(s, n),
         \A j \in Keyframes(s, n) : snapshots[j].seq <= snapshots[b].seq,
         NEW f \in Field,
         NEW m \in Deltas(s, snapshots[b].seq, n) \cup {b},
         NEW i \in Deltas(s, snapshots[b].seq, n), m <= i,
         \A j \in Deltas(s, snapshots[b].seq, n) :
           m < j /\ j <= i => f \notin DOMAIN snapshots[j].diff
  PROVE  snapshots[i].state[f] = snapshots[m].state[f]
<1> DEFINE D == Deltas(s, snapshots[b].seq, n)
           Bad == {k \in D : /\ m <= k /\ k <= i
                             /\ snapshots[k].state[f] # snapshots[m].state[f]}
<1>1. /\ D \subseteq SnapshotsOf(s) /\ b \in SnapshotsOf(s) /\ b \notin D
      /\ \A k \in D : snapshots[k].seq > snapshots[b].seq
      /\ i \in D
  BY DEF Deltas, Keyframes
<1>2. \A k \in SnapshotsOf(s) : k \in Nat /\ snapshots[k].seq \in Nat
  BY Numbers
<1> HIDE DEF D
<1>3. Bad \subseteq Nat
  BY <1>1, <1>2
<1>4. ASSUME Bad # {} PROVE FALSE
  <2>1. PICK k \in Bad : \A j \in Bad : k <= j
    BY <1>3, <1>4, Least
  <2>2. k # m
    BY <2>1
  <2>3. m < k /\ k <= i /\ k \in D /\ m \in SnapshotsOf(s)
    BY <1>1, <1>2, <2>1, <2>2 DEF D
  <2>4. PICK p \in SnapshotsOf(s) :
          /\ p < k /\ \A j \in SnapshotsOf(s) : j < k => j <= p
          /\ snapshots[k].diff = Changes(snapshots[p].state, snapshots[k].state)
          /\ \/ p \in D
             \/ /\ snapshots[p].seq = snapshots[b].seq
                /\ snapshots[p].state = snapshots[b].state
    BY <2>3, TakenAgainst DEF D
  <2>5. m <= p
    BY <2>3, <2>4
  <2>6. snapshots[p].state[f] = snapshots[k].state[f]
    <3>1. f \notin DOMAIN snapshots[k].diff
      BY <2>3 DEF D
    <3> QED BY <2>4, <3>1 DEF Changes
  <2>7. CASE p \in D
    <3>1. p \in Nat /\ k \in Nat /\ i \in Nat
      BY <1>1, <1>2, <2>3
    <3>2. p <= i /\ ~ (k <= p)
      BY <2>3, <2>4, <3>1
    <3>3. p \notin Bad
      BY <2>1, <3>2
    <3> QED BY <2>1, <2>5, <2>6, <2>7, <3>2, <3>3
  <2>8. CASE p \notin D
    <3>1. snapshots[p].seq = snapshots[b].seq /\ snapshots[p].state = snapshots[b].state
      BY <2>4, <2>8
    <3>2. CASE m = b
      BY <2>1, <2>6, <3>1, <3>2
    <3>3. CASE m \in D
      <4>1. m < p => snapshots[m].seq <= snapshots[p].seq
        BY <2>3, <2>4 DEF Sound, Ordered
      <4>2. m # p /\ snapshots[m].seq > snapshots[b].seq
        BY <1>1, <2>8, <3>3
      <4> QED BY <1>1, <1>2, <2>3, <2>5, <3>1, <4>1, <4>2
    <3> QED BY <3>2, <3>3 DEF D
  <2> QED BY <2>7, <2>8
<1> QED BY <1>2, <1>4, <1>1 DEF D

(* The deltas bring the state of the keyframe to that of the last of them. *)
LEMMA PatchedIsLast ==
  ASSUME NEW s, Sound(s), DeltasHaveBase(s), NEW n \in Nat, NEW b \in Keyframes(s, n),
         \A j \in Keyframes(s, n) : snapshots[j].seq <= snapshots[b].seq,
         NEW m \in Deltas(s, snapshots[b].seq, n),
         \A j \in Deltas(s, snapshots[b].seq, n) : j <= m,
         NEW f \in Field
  PROVE  Patched(snapshots[b].state, Deltas(s, snapshots[b].seq, n))[f]
           = snapshots[m].state[f]
<1> DEFINE D == Deltas(s, snapshots[b].seq, n)
           C == {i \in D : f \in DOMAIN snapshots[i].diff}
<1>1. /\ D \in SUBSET SnapshotsOf(s) /\ C \in SUBSET D
      /\ b < m
  BY TakenAgainst DEF Deltas
<1>2. \A i \in SnapshotsOf(s) : i \in Nat /\ i <= Len(snapshots)
  BY Numbers
<1>3. b \in Nat /\ m \in Nat /\ Len(snapshots) \in Nat
  BY <1>1, <1>2, Numbers DEF Keyframes
<1>4. Patched(snapshots[b].state, D)[f] =
        IF C = {} THEN snapshots[b].state[f] ELSE snapshots[LastListed(C)].diff[f]
  BY DEF Patched
<1>5. CASE C = {}
  <2>1. \A j \in D : f \notin DOMAIN snapshots[j].diff
    BY <1>5
  <2>2. b <= m /\ b \in D \cup {b}
    BY <1>1, <1>3
  <2>3. snapshots[m].state[f] = snapshots[b].state[f]
    BY <2>1, <2>2, FieldStays
  <2> QED BY <1>4, <1>5, <2>3
<1>6. CASE C # {}
  <2>1. C \subseteq Nat /\ \A k \in C : k <= Len(snapshots)
    BY <1>1, <1>2
  <2> HIDE DEF C
  <2>2. PICK c \in C : \A j \in C : j <= c
    BY <1>3, <1>6, <2>1, Greatest
  <2>3. LastListed(C) = c
    BY <1>1, <2>2, LastIsGreatest
  <2>4. c \in D /\ c \in Nat /\ f \in DOMAIN snapshots[c].diff
    BY <2>1, <2>2 DEF C
  <2>5. \A j \in D : c < j /\ j <= m => f \notin DOMAIN snapshots[j].diff
    <3> SUFFICES ASSUME NEW j \in D, c < j, f \in DOMAIN snapshots[j].diff PROVE FALSE
      OBVIOUS
    <3>1. j \in C /\ j \in Nat
      BY <1>1, <1>2 DEF C
    <3> QED BY <2>2, <2>4, <3>1
  <2>6. c <= m /\ c \in D \cup {b}
    BY <2>4
  <2>7. snapshots[m].state[f] = snapshots[c].state[f]
    BY <2>5, <2>6, FieldStays
  <2>8. PICK p \in SnapshotsOf(s) :
          snapshots[c].diff = Changes(snapshots[p].state, snapshots[c].state)
    BY <2>4, TakenAgainst
  <2>9. snapshots[c].diff[f] = snapshots[c].state[f]
    BY <2>4, <2>8 DEF Changes
  <2> QED BY <1>4, <1>6, <2>3, <2>7, <2>9
<1> QED BY <1>5, <1>6

LEMMA StateIsWellFormed ==
  ASSUME NEW s, Sound(s), NEW n \in 0..Len(EventsOf(s))
  PROVE  WellFormed(StateAt(s, n))
<1>1. EventsOf(s) \in Seq(EventType)
  BY DEF Sound
<1>2. WellFormed(StateAfter(Prefix(EventsOf(s), n)))
  BY <1>1, StatesAreWellFormed
<1> QED BY <1>2 DEF StateAt, Prefix

(* What is patched is the state at the last of these snapshots.            *)
LEMMA PatchedIsTrue ==
  ASSUME NEW s, Sound(s), DeltasHaveBase(s), NEW n \in 1..Len(EventsOf(s)),
         NEW b \in Keyframes(s, n),
         \A j \in Keyframes(s, n) : snapshots[j].seq <= snapshots[b].seq
  PROVE  \E q \in 1..n :
           /\ Patched(snapshots[b].state, Deltas(s, snapshots[b].seq, n)) = StateAt(s, q)
           /\ \/ snapshots[b].seq = n
              \/ \E i \in Deltas(s, snapshots[b].seq, n) : snapshots[i].seq = n
              => q = n
<1> DEFINE D == Deltas(s, snapshots[b].seq, n)
           P == Patched(snapshots[b].state, D)
<1>1. /\ D \subseteq SnapshotsOf(s) /\ b \in SnapshotsOf(s)
      /\ \A i \in D : snapshots[i].seq > snapshots[b].seq /\ snapshots[i].seq <= n
      /\ snapshots[b].seq <= n
  BY DEF Deltas, Keyframes
<1>2. /\ Len(EventsOf(s)) \in Nat /\ n \in Nat /\ Len(snapshots) \in Nat
      /\ \A i \in SnapshotsOf(s) : /\ i \in Nat /\ i <= Len(snapshots)
                                   /\ snapshots[i].seq \in 1..Len(EventsOf(s))
                                   /\ snapshots[i].state = StateAt(s, snapshots[i].seq)
  BY Numbers DEF Sound, Ordered, Truthful
<1>3. \A i \in SnapshotsOf(s) :
        snapshots[i].state = [f \in Field |-> snapshots[i].state[f]]
  <2> SUFFICES ASSUME NEW i \in SnapshotsOf(s)
               PROVE  WellFormed(snapshots[i].state)
    BY DEF WellFormed
  <2>1. snapshots[i].seq \in 0..Len(EventsOf(s))
    BY <1>2
  <2> QED BY <1>2, <2>1, StateIsWellFormed
<1>4. P = [f \in Field |-> P[f]]
  BY DEF Patched
<1>5. CASE D = {}
  <2>1. \A f \in Field : P[f] = snapshots[b].state[f]
    BY <1>5 DEF Patched
  <2>2. P = snapshots[b].state
    BY <1>1, <1>3, <1>4, <2>1
  <2>3. snapshots[b].seq \in 1..n
    BY <1>1, <1>2
  <2> QED BY <1>1, <1>2, <1>5, <2>2, <2>3
<1>6. CASE D # {}
  <2>1. D \subseteq Nat /\ \A k \in D : k <= Len(snapshots)
    BY <1>1, <1>2
  <2> HIDE DEF D
  <2>2. PICK m \in D : \A j \in D : j <= m
    BY <1>2, <1>6, <2>1, Greatest
  <2>3. \A f \in Field : P[f] = snapshots[m].state[f]
    BY <1>2, <2>2, PatchedIsLast DEF D
  <2>4. P = snapshots[m].state
    <3>1. snapshots[m].state = [f \in Field |-> snapshots[m].state[f]]
      BY <1>1, <1>3, <2>2
    <3> HIDE DEF P
    <3> QED BY <1>4, <2>3, <3>1
  <2>5. snapshots[m].seq \in 1..n
    BY <1>1, <1>2, <2>2
  <2>6. ASSUME NEW i \in D, snapshots[i].seq = n PROVE snapshots[m].seq = n
    <3>1. i < m => snapshots[i].seq <= snapshots[m].seq
      BY <1>1, <2>2 DEF Sound, Ordered
    <3>2. i = m \/ i < m
      BY <1>1, <1>2, <2>2
    <3> QED BY <1>2, <2>5, <2>6, <3>1, <3>2
  <2>7. snapshots[b].seq # n
    BY <1>1, <1>2, <2>2
  <2> QED BY <1>1, <1>2, <2>2, <2>4, <2>5, <2>6, <2>7 DEF D
<1> QED BY <1>5, <1>6

(* Snapshots that are sound reconstruct what the events say.               *)
LEMMA SoundIsFold ==
  ASSUME NEW s, Sound(s), DeltasHaveBase(s)
  PROVE  IsFold(s)
<1> SUFFICES ASSUME NEW n \in 1..Len(EventsOf(s))
             PROVE  Reconstructed(s, n) = StateAt(s, n)
  BY DEF IsFold
<1>1. Len(EventsOf(s)) \in Nat /\ n \in Nat /\ EventsOf(s) \in Seq(EventType)
  BY Numbers DEF Sound
<1>2. CASE Keyframes(s, n) = {}
  BY <1>2 DEF Reconstructed
<1>3. CASE Keyframes(s, n) # {}
  <2> DEFINE b == Nearest(s, n)
             D == Deltas(s, snapshots[b].seq, n)
             P == Patched(snapshots[b].state, D)
             done == snapshots[b].seq = n \/ \E i \in D : snapshots[i].seq = n
             R == StateAt(s, n)
  <2>1. /\ b \in Keyframes(s, n)
        /\ \A j \in Keyframes(s, n) : snapshots[j].seq <= snapshots[b].seq
    BY <1>1, <1>3, NearestIsNearest
  <2>2. Reconstructed(s, n) =
          IF done THEN P
          ELSE [f \in Field |-> IF f \in Task /\ R[f] = Absent THEN P[f] ELSE R[f]]
    BY <1>3 DEF Reconstructed
  <2> HIDE DEF b
  <2>3. PICK q \in 1..n : P = StateAt(s, q) /\ (done => q = n)
    BY <2>1, PatchedIsTrue
  <2>4. CASE done
    BY <2>2, <2>3, <2>4
  <2>5. CASE ~done
    <3>1. ASSUME NEW f \in Task, R[f] = Absent PROVE P[f] = R[f]
      <4>1. q \in 0..Len(EventsOf(s)) /\ n \in q..Len(EventsOf(s))
        BY <1>1
      <4>2. StateAfter(Prefix(EventsOf(s), n))[f] = Absent
        BY <3>1 DEF StateAt, Prefix
      <4>3. StateAfter(Prefix(EventsOf(s), q))[f] = Absent
        BY <1>1, <4>1, <4>2, TasksStay
      <4> QED BY <2>3, <3>1, <4>3 DEF StateAt, Prefix
    <3>2. R = [f \in Field |-> R[f]]
      BY <1>1, StateIsWellFormed DEF WellFormed
    <3>3. Reconstructed(s, n) =
            [f \in Field |-> IF f \in Task /\ R[f] = Absent THEN P[f] ELSE R[f]]
      BY <2>2, <2>5
    <3> HIDE DEF P, R, done
    <3>4. Reconstructed(s, n) = [f \in Field |-> R[f]]
      BY <3>1, <3>3
    <3> QED BY <3>2, <3>4 DEF R
  <2> QED BY <2>4, <2>5
<1> QED BY <1>2, <1>3

-----------------------------------------------------------------------------
(* Snapshots and captures under way.                                       *)

IsSeq(q) == \E S : q \in Seq(S)

LEMMA Longer ==
  ASSUME NEW q, IsSeq(q), NEW e
  PROVE  /\ IsSeq(Append(q, e)) /\ Len(q) \in Nat
         /\ DOMAIN q = 1..Len(q) /\ DOMAIN Append(q, e) = 1..(Len(q) + 1)
         /\ Len(Append(q, e)) = Len(q) + 1
         /\ Append(q, e)[Len(q) + 1] = e
         /\ \A i \in DOMAIN q : Append(q, e)[i] = q[i]
<1>1. PICK S : q \in Seq(S)
  BY DEF IsSeq
<1> DEFINE T == S \cup {e}
<1>2. q \in Seq(T) /\ e \in T
  <2>1. Len(q) \in Nat /\ q \in [1..Len(q) -> S]
    BY <1>1, LenProperties
  <2>2. q \in [1..Len(q) -> T]
    BY <2>1
  <2> QED BY <2>1, <2>2, SeqDef
<1> HIDE DEF T
<1>3. /\ Append(q, e) \in Seq(T) /\ Len(Append(q, e)) = Len(q) + 1
      /\ Append(q, e)[Len(q) + 1] = e /\ \A i \in 1..Len(q) : Append(q, e)[i] = q[i]
  BY <1>2, AppendProperties
<1>4. Len(q) \in Nat /\ DOMAIN q = 1..Len(q)
      /\ DOMAIN Append(q, e) = 1..Len(Append(q, e))
  BY <1>2, <1>3, LenProperties
<1> QED BY <1>3, <1>4 DEF IsSeq

LEMMA Altered ==
  ASSUME NEW q, IsSeq(q), NEW i \in DOMAIN q, NEW r
  PROVE  /\ IsSeq([q EXCEPT ![i] = r]) /\ Len([q EXCEPT ![i] = r]) = Len(q)
         /\ DOMAIN [q EXCEPT ![i] = r] = DOMAIN q
<1>1. PICK S : q \in Seq(S)
  BY DEF IsSeq
<1> DEFINE T == S \cup {r}
           a == [q EXCEPT ![i] = r]
<1>2. Len(q) \in Nat /\ q \in [1..Len(q) -> S]
  BY <1>1, LenProperties
<1>3. a \in [1..Len(q) -> T]
  BY <1>2
<1>4. a \in Seq(T)
  BY <1>2, <1>3, SeqDef
<1>5. Len(a) \in Nat /\ DOMAIN a = 1..Len(a)
  BY <1>4, LenProperties
<1> QED BY <1>2, <1>3, <1>4, <1>5 DEF IsSeq

RowOK(r) ==
  /\ r = [session |-> r.session, seq |-> r.seq, keyframe |-> r.keyframe,
          state |-> r.state, intact |-> r.intact, diff |-> r.diff]
  /\ r.session \in Session
  /\ \A s \in Session \ Purged : r.session = s => r.seq \in 1..Len(EventsOf(s))
  /\ r.keyframe => r.diff = NoChange

Tables ==
  /\ ClockInv
  /\ complete \subseteq Session /\ late \subseteq Session /\ overlapped \subseteq Session
  /\ IsSeq(snapshots) /\ \A i \in DOMAIN snapshots : RowOK(snapshots[i])
  /\ capture = [k \in Capture |-> capture[k]]
  /\ \A k \in Capture : capture[k] # None =>
       RowOK(capture[k].row) /\ capture[k].read \subseteq DOMAIN snapshots

(* Row r tells what the events of s say, and follows the snapshots of s.   *)
Fits(s, r) ==
  /\ r.state = StateAt(s, r.seq)
  /\ \A j \in SnapshotsOf(s) : snapshots[j].seq <= r.seq
  /\ ~r.keyframe =>
       \E p \in SnapshotsOf(s) :
         /\ \A j \in SnapshotsOf(s) : j <= p
         /\ r.diff = Changes(snapshots[p].state, r.state)

(* A capture of s has read all the snapshots there are. *)
UpToDate(k, s) ==
  /\ capture[k] # None /\ capture[k].row.session = s
  /\ capture[k].read = SnapshotsOf(s)

Faithful(s) ==
  /\ \A i, j \in SnapshotsOf(s) : i < j => snapshots[i].seq <= snapshots[j].seq
  /\ Truthful(s)
  /\ Chained(s)
  /\ \A k \in Capture : UpToDate(k, s) => Fits(s, capture[k].row)

LogInv ==
  /\ Tables
  /\ \A s \in Session \ (late \cup overlapped \cup Purged) : Faithful(s)

LEMMA FaithfulIsSound ==
  ASSUME Tables, NEW s \in Session \ Purged, Faithful(s)
  PROVE  Sound(s)
<1>1. EventsOf(s) \in Seq(EventType)
  BY EventsAreRead, ReadType DEF Tables, ClockInv
<1>2. Len(snapshots) \in Nat /\ DOMAIN snapshots = 1..Len(snapshots)
  BY Longer DEF Tables
<1>3. \A i \in SnapshotsOf(s) : /\ i \in 1..Len(snapshots)
                                /\ snapshots[i].seq \in 1..Len(EventsOf(s))
  BY <1>2 DEF SnapshotsOf, Tables, RowOK
<1> QED BY <1>1, <1>2, <1>3 DEF Sound, Ordered, Faithful

(* Events only become more, and those in order do not change what the      *)
(* ones before them gave.                                                  *)
LEMMA EventsGrow ==
  ASSUME ClockInv, NEW e, Appended(e), NEW s \in Session
  PROVE  /\ Len(EventsOf(s)) \in Nat /\ Len(EventsOf(s)') \in Nat
         /\ Len(EventsOf(s)) <= Len(EventsOf(s)')
<1> DEFINE I == In(log, s)
           J == In(log', s)
<1>1. log \in Seq(EventType) /\ e \in EventType /\ log' = Append(log, e)
  BY DEF ClockInv, Appended
<1>2. /\ log' \in Seq(EventType) /\ Len(log') = Len(log) + 1 /\ Len(log) \in Nat
      /\ \A i \in 1..Len(log) : log'[i] = log[i]
  BY <1>1, AppendProperties, LenProperties
<1>3. DOMAIN log = 1..Len(log) /\ DOMAIN log' = 1..(Len(log) + 1)
  BY <1>1, <1>2, LenProperties
<1>4. I \subseteq J
  BY <1>2, <1>3 DEF In
<1>5. IsFiniteSet(J) /\ Cardinality(I) \in Nat /\ Cardinality(J) \in Nat
  BY <1>1, <1>2, RowsAreFinite
<1>6. Cardinality(I) <= Cardinality(J)
  BY <1>4, <1>5, FS_Subset
<1>7. Len(EventsOf(s)) = Cardinality(I) /\ Len(EventsOf(s)') = Cardinality(J)
  BY <1>1, <1>2, ReadType, EventsAreRead
<1> QED BY <1>5, <1>6, <1>7

LEMMA PrefixKept ==
  ASSUME NEW S, NEW q \in Seq(S), NEW e \in S, NEW n \in 1..Len(q)
  PROVE  Prefix(Append(q, e), n) = Prefix(q, n)
<1> DEFINE a == Append(q, e)
<1>1. /\ a \in Seq(S) /\ Len(a) = Len(q) + 1 /\ Len(q) \in Nat
      /\ \A i \in 1..Len(q) : a[i] = q[i]
  BY AppendProperties, LenProperties
<1> HIDE DEF a
<1>2. n \in 0..Len(q) /\ n \in 0..Len(a) /\ \A i \in 1..n : a[i] = q[i]
  BY <1>1
<1>3. /\ Prefix(q, n) \in Seq(S) /\ Len(Prefix(q, n)) = n
      /\ \A i \in 1..n : Prefix(q, n)[i] = q[i]
      /\ Prefix(a, n) \in Seq(S) /\ Len(Prefix(a, n)) = n
      /\ \A i \in 1..n : Prefix(a, n)[i] = a[i]
  BY <1>1, <1>2, PrefixIsPrefix
<1>4. \A i \in 1..n : Prefix(a, n)[i] = Prefix(q, n)[i]
  BY <1>2, <1>3
<1>5. Prefix(a, n) = Prefix(q, n)
  BY <1>3, <1>4, SeqEqual
<1> QED BY <1>5 DEF a

LEMMA StatesKept ==
  ASSUME ClockInv, NEW e, Appended(e), NEW s \in Session,
         s = e.session => InOrder(e), NEW n \in 1..Len(EventsOf(s))
  PROVE  StateAt(s, n)' = StateAt(s, n)
<1>1. EventsOf(s) \in Seq(EventType) /\ e \in EventType
  BY EventsAppend DEF Appended
<1>2. EventsOf(s)' = EventsOf(s) \/ EventsOf(s)' = Append(EventsOf(s), e)
  BY EventsAppend
<1>3. Prefix(Append(EventsOf(s), e), n) = Prefix(EventsOf(s), n)
  BY <1>1, PrefixKept
<1>4. Prefix(EventsOf(s)', n) = Prefix(EventsOf(s), n)
  BY <1>2, <1>3
<1> QED BY <1>4 DEF StateAt, Prefix

LEMMA PurgedStay ==
  ASSUME ClockInv, NEW e, Appended(e)
  PROVE  Purged \subseteq Purged'
<1>1. /\ Len(log') = Len(log) + 1 /\ Len(log) \in Nat /\ log' \in Seq(EventType)
      /\ \A i \in 1..Len(log) : log'[i] = log[i]
  BY AppendProperties, LenProperties DEF ClockInv, Appended
<1>2. DOMAIN log = 1..Len(log) /\ DOMAIN log' = 1..(Len(log) + 1)
  BY <1>1, LenProperties DEF ClockInv
<1> QED BY <1>1, <1>2 DEF Purged

LEMMA Unlogged ==
  ASSUME UNCHANGED log
  PROVE  Purged' = Purged /\ \A s \in Session : EventsOf(s)' = EventsOf(s)
BY DEF EventsOf, RowsOf, Number, ReadBefore, Purged

LEMMA Uninserted ==
  ASSUME UNCHANGED snapshots
  PROVE  \A s \in Session : SnapshotsOf(s)' = SnapshotsOf(s)
BY DEF SnapshotsOf

(* What a step that adds no snapshot has to keep.                          *)
LEMMA FaithfulKept ==
  ASSUME NEW s \in Session, Faithful(s), UNCHANGED snapshots,
         \A i \in SnapshotsOf(s) :
           StateAt(s, snapshots[i].seq)' = StateAt(s, snapshots[i].seq),
         \A k \in Capture : UpToDate(k, s)' => Fits(s, capture[k].row)'
  PROVE  Faithful(s)'
<1>1. SnapshotsOf(s)' = SnapshotsOf(s)
  BY Uninserted
<1>2. Truthful(s)'
  BY <1>1 DEF Faithful, Truthful
<1>3. Chained(s)'
  BY <1>1 DEF Faithful, Chained
<1> QED BY <1>1, <1>2, <1>3 DEF Faithful

LEMMA FitsKept ==
  ASSUME NEW s \in Session, NEW k \in Capture, UpToDate(k, s), Fits(s, capture[k].row),
         UNCHANGED snapshots, capture'[k] = capture[k],
         StateAt(s, capture[k].row.seq)' = StateAt(s, capture[k].row.seq)
  PROVE  Fits(s, capture[k].row)'
<1>1. SnapshotsOf(s)' = SnapshotsOf(s)
  BY Uninserted
<1> QED BY <1>1 DEF Fits

(* An event is appended.                                                   *)
LEMMA LogAppend ==
  ASSUME LogInv, NEW e, Appended(e), ClockInv', complete' \subseteq Session,
         late \subseteq late', late' \subseteq Session,
         e.session \notin late' => InOrder(e),
         UNCHANGED <<snapshots, capture, overlapped>>
  PROVE  LogInv'
<1>1. ClockInv
  BY DEF LogInv, Tables
<1>2. \A s \in Session : /\ Len(EventsOf(s)) \in Nat /\ Len(EventsOf(s)') \in Nat
                         /\ Len(EventsOf(s)) <= Len(EventsOf(s)')
  BY <1>1, EventsGrow
<1>3. Purged \subseteq Purged'
  BY <1>1, PurgedStay
<1>4. Tables'
  BY <1>2, <1>3 DEF LogInv, Tables, RowOK
<1>5. ASSUME NEW s \in Session \ (late' \cup overlapped' \cup Purged') PROVE Faithful(s)'
  <2>1. Faithful(s) /\ s \notin Purged /\ (s = e.session => InOrder(e))
    BY <1>3 DEF LogInv
  <2>2. \A n \in 1..Len(EventsOf(s)) : StateAt(s, n)' = StateAt(s, n)
    BY <1>1, <2>1, StatesKept
  <2>3. \A i \in SnapshotsOf(s) :
          StateAt(s, snapshots[i].seq)' = StateAt(s, snapshots[i].seq)
    <3> SUFFICES ASSUME NEW i \in SnapshotsOf(s)
                 PROVE  StateAt(s, snapshots[i].seq)' = StateAt(s, snapshots[i].seq)
      OBVIOUS
    <3>1. snapshots[i].seq \in 1..Len(EventsOf(s))
      BY <2>1 DEF SnapshotsOf, LogInv, Tables, RowOK
    <3> QED BY <2>2, <3>1 DEF StateAt
  <2>4. ASSUME NEW k \in Capture, UpToDate(k, s)' PROVE Fits(s, capture[k].row)'
    <3>1. UpToDate(k, s)
      BY <2>4, Uninserted DEF UpToDate
    <3>2. capture[k].row.seq \in 1..Len(EventsOf(s))
      BY <2>1, <3>1 DEF UpToDate, LogInv, Tables, RowOK
    <3>3. StateAt(s, capture[k].row.seq)' = StateAt(s, capture[k].row.seq)
      BY <2>2, <3>2 DEF StateAt
    <3>4. Fits(s, capture[k].row)
      BY <2>1, <3>1 DEF Faithful
    <3> QED BY <3>1, <3>3, <3>4, FitsKept
  <2> QED BY <2>1, <2>3, <2>4, FaithfulKept
<1> QED BY <1>4, <1>5 DEF LogInv

(* Nothing is appended, inserted or read.                                  *)
LEMMA LogQuiet ==
  ASSUME LogInv, ClockInv', complete' \subseteq Session,
         UNCHANGED <<log, snapshots, capture, late, overlapped>>
  PROVE  LogInv'
<1>1. Purged' = Purged /\ \A s \in Session : EventsOf(s)' = EventsOf(s)
  BY Unlogged
<1>2. Tables'
  BY <1>1 DEF LogInv, Tables, RowOK
<1>3. ASSUME NEW s \in Session \ (late \cup overlapped \cup Purged) PROVE Faithful(s)'
  <2>1. Faithful(s) /\ s \in Session
    BY DEF LogInv
  <2>2. ASSUME NEW k \in Capture, UpToDate(k, s)' PROVE Fits(s, capture[k].row)'
    <3>1. UpToDate(k, s)
      BY <2>2, Uninserted DEF UpToDate
    <3> QED BY <1>1, <2>1, <3>1, FitsKept DEF Faithful, StateAt
  <2> QED BY <1>1, <2>1, <2>2, FaithfulKept DEF StateAt
<1> QED BY <1>1, <1>2, <1>3 DEF LogInv

(* The last snapshot listed is the last one inserted.                      *)
LEMMA BaseIsLast ==
  ASSUME NEW s, Sound(s), SnapshotsOf(s) # {}
  PROVE  /\ Base(s) \in SnapshotsOf(s)
         /\ \A j \in SnapshotsOf(s) : j <= Base(s)
<1>1. /\ SnapshotsOf(s) \subseteq Nat /\ Len(snapshots) \in Nat
      /\ \A j \in SnapshotsOf(s) : j <= Len(snapshots)
  BY Numbers
<1>2. PICK m \in SnapshotsOf(s) : \A j \in SnapshotsOf(s) : j <= m
  BY <1>1, Greatest
<1>3. Base(s) = m
  BY <1>2, LastIsGreatest DEF Base
<1> QED BY <1>2, <1>3

(* The row a capture makes.                                                *)
LEMMA RowMade ==
  ASSUME LogInv, NEW s \in Session, RowsOf(s) # {}, NEW forced \in BOOLEAN
  PROVE  /\ RowOK(Snapshot(s, forced)) /\ Snapshot(s, forced).session = s
         /\ s \notin late \cup overlapped \cup Purged => Fits(s, Snapshot(s, forced))
<1> DEFINE r == Snapshot(s, forced)
           N == Len(EventsOf(s))
<1>1. EventsOf(s) \in Seq(EventType)
  BY EventsAreRead, ReadType DEF LogInv, Tables, ClockInv
<1>2. N \in Nat /\ N # 0
  <2>1. /\ log \in Seq(EventType) /\ In(log, s) = RowsOf(s)
        /\ N = Cardinality(In(log, s))
    BY EventsAreRead, ReadType DEF LogInv, Tables, ClockInv, In, RowsOf
  <2> QED BY <2>1, RowsAreFinite, FS_EmptySet
<1>3. /\ r = [session |-> r.session, seq |-> r.seq, keyframe |-> r.keyframe,
              state |-> r.state, intact |-> r.intact, diff |-> r.diff]
      /\ r.session = s /\ r.seq = N /\ r.state = StateAfter(EventsOf(s))
      /\ r.keyframe => r.diff = NoChange
      /\ ~r.keyframe => /\ r.diff = Changes(snapshots[Base(s)].state, r.state)
                        /\ Cardinality(SnapshotsOf(s)) % KeyframeInterval # 0
  BY DEF Snapshot, Sequence
<1> HIDE DEF r
<1>4. RowOK(r)
  BY <1>2, <1>3 DEF RowOK
<1>5. ASSUME s \notin late \cup overlapped \cup Purged PROVE Fits(s, r)
  <2>1. Faithful(s) /\ Sound(s)
    BY <1>5, FaithfulIsSound DEF LogInv
  <2>2. r.state = StateAt(s, r.seq)
    BY <1>1, <1>3, PrefixAppends DEF StateAt, Prefix
  <2>3. \A j \in SnapshotsOf(s) : snapshots[j].seq <= r.seq
    BY <1>3, <2>1, Numbers
  <2>4. ASSUME ~r.keyframe PROVE SnapshotsOf(s) # {}
    <3>1. 0 % KeyframeInterval = 0
      BY ConstantsAssumption
    <3> QED BY <1>3, <2>4, <3>1, FS_EmptySet
  <2>5. ~r.keyframe =>
          \E p \in SnapshotsOf(s) :
            /\ \A j \in SnapshotsOf(s) : j <= p
            /\ r.diff = Changes(snapshots[p].state, r.state)
    BY <1>3, <2>1, <2>4, BaseIsLast
  <2> QED BY <2>2, <2>3, <2>5 DEF Fits
<1> QED BY <1>3, <1>4, <1>5 DEF r

LEMMA LogRead ==
  ASSUME LogInv, NEW k \in Capture, NEW s \in Session, CaptureReads(k, s)
  PROVE  LogInv'
<1>1. PICK forced \in BOOLEAN :
        capture' = [capture EXCEPT ![k] =
                      [row |-> Snapshot(s, forced), read |-> SnapshotsOf(s)]]
  BY DEF CaptureReads
<1> DEFINE r == Snapshot(s, forced)
<1>2. /\ RowsOf(s) # {}
      /\ UNCHANGED <<log, now, stamp, projection, complete, snapshots, late, overlapped>>
  BY DEF CaptureReads
<1>3. RowOK(r) /\ r.session = s /\ (s \notin late \cup overlapped \cup Purged => Fits(s, r))
  BY <1>2, RowMade
<1> HIDE DEF r
<1>4. /\ capture' = [c \in Capture |-> capture'[c]]
      /\ capture'[k].row = r /\ capture'[k].read = SnapshotsOf(s)
      /\ \A c \in Capture \ {k} : capture'[c] = capture[c]
  BY <1>1 DEF LogInv, Tables, r
<1>5. /\ Purged' = Purged
      /\ \A x \in Session : /\ EventsOf(x)' = EventsOf(x)
                            /\ SnapshotsOf(x)' = SnapshotsOf(x)
  BY <1>2, Unlogged, Uninserted
<1>6. ClockInv'
  BY <1>2, ClockStep DEF LogInv, Tables
<1>7. ASSUME NEW c \in Capture, capture'[c] # None
      PROVE  RowOK(capture[c].row)' /\ capture'[c].read \subseteq DOMAIN snapshots
  <2>1. CASE c = k
    BY <1>3, <1>4, <1>5, <2>1 DEF RowOK, SnapshotsOf
  <2>2. CASE c # k
    BY <1>4, <1>5, <1>7, <2>2 DEF LogInv, Tables, RowOK
  <2> QED BY <2>1, <2>2
<1>8. Tables'
  BY <1>2, <1>4, <1>5, <1>6, <1>7 DEF LogInv, Tables, RowOK
<1>9. ASSUME NEW x \in Session \ (late \cup overlapped \cup Purged) PROVE Faithful(x)'
  <2>1. Faithful(x) /\ x \in Session
    BY DEF LogInv
  <2>2. ASSUME NEW c \in Capture, UpToDate(c, x)' PROVE Fits(x, capture[c].row)'
    <3>1. CASE c = k
      <4>1. x = s
        BY <1>3, <1>4, <2>2, <3>1 DEF UpToDate
      <4> QED BY <1>2, <1>3, <1>4, <1>5, <3>1, <4>1 DEF Fits, StateAt
    <3>2. CASE c # k
      <4>1. UpToDate(c, x) /\ capture'[c] = capture[c]
        BY <1>4, <1>5, <2>2, <3>2 DEF UpToDate
      <4> QED BY <1>2, <1>5, <2>1, <4>1, FitsKept DEF Faithful, StateAt
    <3> QED BY <3>1, <3>2
  <2> QED BY <1>2, <1>5, <2>1, <2>2, FaithfulKept DEF StateAt
<1> QED BY <1>2, <1>5, <1>8, <1>9 DEF LogInv

LEMMA LogFailure ==
  ASSUME LogInv, NEW k \in Capture, CaptureFails(k)
  PROVE  LogInv'
<1>1. /\ capture' = [capture EXCEPT ![k] = None]
      /\ UNCHANGED <<log, now, stamp, projection, complete, snapshots, late, overlapped>>
  BY DEF CaptureFails
<1>2. /\ capture' = [c \in Capture |-> capture'[c]] /\ capture'[k] = None
      /\ \A c \in Capture \ {k} : capture'[c] = capture[c]
  BY <1>1 DEF LogInv, Tables
<1>3. /\ Purged' = Purged
      /\ \A x \in Session : /\ EventsOf(x)' = EventsOf(x)
                            /\ SnapshotsOf(x)' = SnapshotsOf(x)
  BY <1>1, Unlogged, Uninserted
<1>4. ClockInv'
  BY <1>1, ClockStep DEF LogInv, Tables
<1>5. Tables'
  BY <1>1, <1>2, <1>3, <1>4 DEF LogInv, Tables, RowOK
<1>6. ASSUME NEW x \in Session \ (late \cup overlapped \cup Purged) PROVE Faithful(x)'
  <2>1. Faithful(x) /\ x \in Session
    BY DEF LogInv
  <2>2. ASSUME NEW c \in Capture, UpToDate(c, x)' PROVE Fits(x, capture[c].row)'
    <3>1. UpToDate(c, x) /\ capture'[c] = capture[c]
      BY <1>2, <1>3, <2>2 DEF UpToDate
    <3> QED BY <1>1, <1>3, <2>1, <3>1, FitsKept DEF Faithful, StateAt
  <2> QED BY <1>1, <1>3, <2>1, <2>2, FaithfulKept DEF StateAt
<1> QED BY <1>1, <1>3, <1>5, <1>6 DEF LogInv

LEMMA LogDamage ==
  ASSUME LogInv, NEW d \in DOMAIN snapshots, Damage(d)
  PROVE  LogInv'
<1> DEFINE r == [snapshots[d] EXCEPT !.intact = FALSE]
<1>1. /\ snapshots' = [snapshots EXCEPT ![d] = r]
      /\ UNCHANGED <<log, now, stamp, projection, complete, capture, late, overlapped>>
  BY DEF Damage
<1>2. RowOK(snapshots[d])
  BY DEF LogInv, Tables
<1>3. /\ r = [session |-> snapshots[d].session, seq |-> snapshots[d].seq,
              keyframe |-> snapshots[d].keyframe, state |-> snapshots[d].state,
              intact |-> FALSE, diff |-> snapshots[d].diff]
  <2>1. PICK a, b, c, e, f, g :
          snapshots[d] = [session |-> a, seq |-> b, keyframe |-> c, state |-> e,
                          intact |-> f, diff |-> g]
    BY <1>2 DEF RowOK
  <2>2. r = [session |-> a, seq |-> b, keyframe |-> c, state |-> e,
             intact |-> FALSE, diff |-> g]
    <3>1. ASSUME NEW v
          PROVE  [[session |-> a, seq |-> b, keyframe |-> c, state |-> e,
                   intact |-> f, diff |-> g] EXCEPT !.intact = v]
                   = [session |-> a, seq |-> b, keyframe |-> c, state |-> e,
                      intact |-> v, diff |-> g]
      OBVIOUS
    <3> QED BY <2>1, <3>1, Zenon
  <2>3. /\ snapshots[d].session = a /\ snapshots[d].seq = b /\ snapshots[d].keyframe = c
        /\ snapshots[d].state = e /\ snapshots[d].diff = g
    BY <2>1
  <2> HIDE DEF r
  <2> QED BY <2>2, <2>3
<1>4. RowOK(r)
  BY <1>2, <1>3 DEF RowOK
<1>5. IsSeq(snapshots') /\ DOMAIN snapshots' = DOMAIN snapshots
  BY <1>1, Altered DEF LogInv, Tables
<1>6. \A i \in DOMAIN snapshots :
        /\ snapshots'[i].session = snapshots[i].session
        /\ snapshots'[i].seq = snapshots[i].seq
        /\ snapshots'[i].keyframe = snapshots[i].keyframe
        /\ snapshots'[i].state = snapshots[i].state
        /\ snapshots'[i].diff = snapshots[i].diff
        /\ RowOK(snapshots'[i])
  <2> SUFFICES ASSUME NEW i \in DOMAIN snapshots
               PROVE  /\ snapshots'[i].session = snapshots[i].session
                      /\ snapshots'[i].seq = snapshots[i].seq
                      /\ snapshots'[i].keyframe = snapshots[i].keyframe
                      /\ snapshots'[i].state = snapshots[i].state
                      /\ snapshots'[i].diff = snapshots[i].diff
                      /\ RowOK(snapshots'[i])
    OBVIOUS
  <2>1. CASE i = d
    <3>1. snapshots'[i] = r
      BY <1>1, <2>1
    <3> QED BY <1>3, <1>4, <2>1, <3>1
  <2>2. CASE i # d
    BY <1>1, <2>2 DEF LogInv, Tables
  <2> QED BY <2>1, <2>2
<1> HIDE DEF r
<1>7. /\ Purged' = Purged
      /\ \A x \in Session : EventsOf(x)' = EventsOf(x) /\ SnapshotsOf(x)' = SnapshotsOf(x)
  BY <1>1, <1>5, <1>6, Unlogged DEF SnapshotsOf
<1>8. ClockInv'
  BY <1>1, ClockStep DEF LogInv, Tables
<1>9. Tables'
  BY <1>1, <1>5, <1>6, <1>7, <1>8 DEF LogInv, Tables, RowOK
<1>10. ASSUME NEW x \in Session \ (late \cup overlapped \cup Purged) PROVE Faithful(x)'
  <2>1. Faithful(x) /\ x \in Session
    BY DEF LogInv
  <2>2. SnapshotsOf(x) \subseteq DOMAIN snapshots /\ SnapshotsOf(x)' = SnapshotsOf(x)
    BY <1>7 DEF SnapshotsOf
  <2>3. \A i, j \in SnapshotsOf(x)' : i < j => snapshots'[i].seq <= snapshots'[j].seq
    BY <1>6, <2>1, <2>2 DEF Faithful
  <2>4. Truthful(x)'
    BY <1>6, <1>7, <2>1, <2>2 DEF Faithful, Truthful, StateAt
  <2>5. Chained(x)'
    BY <1>6, <2>1, <2>2 DEF Faithful, Chained
  <2>6. ASSUME NEW c \in Capture, UpToDate(c, x)' PROVE Fits(x, capture[c].row)'
    <3>1. UpToDate(c, x) /\ capture'[c] = capture[c]
      BY <1>1, <2>2, <2>6 DEF UpToDate
    <3>2. Fits(x, capture[c].row)
      BY <2>1, <3>1 DEF Faithful
    <3> QED BY <1>6, <1>7, <2>2, <3>1, <3>2 DEF Fits, StateAt
  <2> QED BY <2>3, <2>4, <2>5, <2>6 DEF Faithful
<1> QED BY <1>1, <1>7, <1>9, <1>10 DEF LogInv

(* A capture inserts its row: for a session with no snapshot it has not    *)
(* read, the row is the next of the chain; no other capture is up to date. *)
LEMMA LogInsert ==
  ASSUME LogInv, NEW k \in Capture, CaptureInserts(k)
  PROVE  LogInv'
<1> DEFINE r == capture[k].row
           m == Len(snapshots) + 1
<1>1. /\ capture[k] # None
      /\ snapshots' = Append(snapshots, r)
      /\ overlapped' = IF SnapshotsOf(r.session) = capture[k].read
                       THEN overlapped ELSE overlapped \cup {r.session}
      /\ capture' = [capture EXCEPT ![k] = None]
      /\ UNCHANGED <<log, now, stamp, projection, complete, late>>
  BY DEF CaptureInserts
<1>2. RowOK(r) /\ r.session \in Session
  BY <1>1 DEF LogInv, Tables, RowOK
<1>3. /\ capture' = [c \in Capture |-> capture'[c]] /\ capture'[k] = None
      /\ \A c \in Capture \ {k} : capture'[c] = capture[c]
  BY <1>1 DEF LogInv, Tables
<1>4. /\ IsSeq(snapshots') /\ Len(snapshots) \in Nat
      /\ DOMAIN snapshots = 1..Len(snapshots) /\ DOMAIN snapshots' = 1..m
      /\ Len(snapshots') = m /\ snapshots'[m] = r
      /\ \A i \in DOMAIN snapshots : snapshots'[i] = snapshots[i]
  BY <1>1, Longer DEF LogInv, Tables
<1> HIDE DEF r
<1>5. /\ m \in Nat /\ m \notin DOMAIN snapshots /\ DOMAIN snapshots \subseteq DOMAIN snapshots'
      /\ DOMAIN snapshots' = DOMAIN snapshots \cup {m}
      /\ \A i \in DOMAIN snapshots : i \in Nat /\ i < m
  BY <1>4
<1> HIDE DEF m
<1>6. Purged' = Purged /\ \A x \in Session : EventsOf(x)' = EventsOf(x)
  BY <1>1, Unlogged
<1>7. \A x \in Session :
        /\ SnapshotsOf(x) \subseteq DOMAIN snapshots
        /\ SnapshotsOf(x)' = SnapshotsOf(x) \cup (IF x = r.session THEN {m} ELSE {})
  BY <1>4, <1>5 DEF SnapshotsOf
<1>8. ClockInv'
  BY <1>1, ClockStep DEF LogInv, Tables
<1>9. Tables'
  <2>1. \A i \in DOMAIN snapshots' : RowOK(snapshots[i])'
    <3> SUFFICES ASSUME NEW i \in DOMAIN snapshots' PROVE RowOK(snapshots[i])'
      OBVIOUS
    <3>1. CASE i = m
      BY <1>2, <1>4, <1>6, <3>1 DEF RowOK
    <3>2. CASE i \in DOMAIN snapshots
      BY <1>4, <1>6, <3>2 DEF LogInv, Tables, RowOK
    <3> QED BY <1>5, <3>1, <3>2
  <2>2. overlapped' \subseteq Session
    BY <1>1, <1>2 DEF LogInv, Tables
  <2>3. ASSUME NEW c \in Capture, capture'[c] # None
        PROVE  RowOK(capture[c].row)' /\ capture'[c].read \subseteq DOMAIN snapshots'
    <3>1. c # k /\ capture'[c] = capture[c]
      BY <1>3, <2>3
    <3> QED BY <1>5, <1>6, <2>3, <3>1 DEF LogInv, Tables, RowOK
  <2> QED BY <1>1, <1>3, <1>4, <1>8, <2>1, <2>2, <2>3 DEF LogInv, Tables
<1>10. ASSUME NEW x \in Session \ (late' \cup overlapped' \cup Purged') PROVE Faithful(x)'
  <2>1. Faithful(x) /\ x \in Session
    BY <1>1, <1>6 DEF LogInv
  <2>2. ASSUME NEW c \in Capture, UpToDate(c, x)' PROVE Fits(x, capture[c].row)'
    <3>1. c # k /\ capture'[c] = capture[c]
      BY <1>3, <2>2 DEF UpToDate
    <3>2. capture[c].read \subseteq DOMAIN snapshots
      BY <2>2, <3>1 DEF UpToDate, LogInv, Tables
    <3>3. x # r.session
      BY <1>5, <1>7, <2>1, <2>2, <3>1, <3>2 DEF UpToDate
    <3>4. UpToDate(c, x) /\ SnapshotsOf(x)' = SnapshotsOf(x)
      BY <1>7, <2>1, <2>2, <3>1, <3>3 DEF UpToDate
    <3>5. Fits(x, capture[c].row)
      BY <2>1, <3>4 DEF Faithful
    <3> QED BY <1>4, <1>6, <1>7, <2>1, <3>1, <3>4, <3>5 DEF Fits, StateAt
  <2>3. CASE x # r.session
    <3>1. SnapshotsOf(x)' = SnapshotsOf(x) /\ SnapshotsOf(x) \subseteq DOMAIN snapshots
      BY <1>7, <2>1, <2>3
    <3>2. \A i, j \in SnapshotsOf(x)' : i < j => snapshots'[i].seq <= snapshots'[j].seq
      BY <1>4, <2>1, <3>1 DEF Faithful
    <3>3. Truthful(x)'
      BY <1>4, <1>6, <2>1, <3>1 DEF Faithful, Truthful, StateAt
    <3>4. Chained(x)'
      BY <1>4, <2>1, <3>1 DEF Faithful, Chained
    <3> QED BY <2>2, <3>2, <3>3, <3>4 DEF Faithful
  <2>4. CASE x = r.session
    <3>1. UpToDate(k, x)
      BY <1>1, <2>4 DEF UpToDate, r
    <3>2. Fits(x, r)
      BY <2>1, <3>1 DEF Faithful, r
    <3>3. SnapshotsOf(x)' = SnapshotsOf(x) \cup {m} /\ SnapshotsOf(x) \subseteq DOMAIN snapshots
      BY <1>7, <2>1, <2>4
    <3>4. \A i, j \in SnapshotsOf(x)' : i < j => snapshots'[i].seq <= snapshots'[j].seq
      <4> SUFFICES ASSUME NEW i \in SnapshotsOf(x)', NEW j \in SnapshotsOf(x)', i < j
                   PROVE  snapshots'[i].seq <= snapshots'[j].seq
        OBVIOUS
      <4>1. i \in SnapshotsOf(x) /\ snapshots'[i] = snapshots[i]
        BY <1>4, <1>5, <3>3
      <4>2. CASE j = m
        BY <1>4, <3>2, <4>1, <4>2 DEF Fits
      <4>3. CASE j \in SnapshotsOf(x)
        BY <1>4, <2>1, <3>3, <4>1, <4>3 DEF Faithful
      <4> QED BY <3>3, <4>2, <4>3
    <3>5. Truthful(x)'
      BY <1>4, <1>6, <2>1, <3>2, <3>3 DEF Faithful, Truthful, Fits, StateAt
    <3>6. Chained(x)'
      <4> SUFFICES ASSUME NEW i \in SnapshotsOf(x)', ~snapshots'[i].keyframe
                   PROVE  \E p \in SnapshotsOf(x)' :
                            /\ p < i /\ \A j \in SnapshotsOf(x)' : j < i => j <= p
                            /\ snapshots'[i].diff = Changes(snapshots'[p].state,
                                                            snapshots'[i].state)
        BY DEF Chained
      <4>1. CASE i = m
        <5>1. PICK p \in SnapshotsOf(x) :
                /\ \A j \in SnapshotsOf(x) : j <= p
                /\ r.diff = Changes(snapshots[p].state, r.state)
          BY <1>4, <3>2, <4>1 DEF Fits
        <5>2. p < m /\ snapshots'[p] = snapshots[p] /\ p \in SnapshotsOf(x)'
          BY <1>4, <1>5, <3>3
        <5>3. \A j \in SnapshotsOf(x)' : j < m => j <= p
          BY <1>5, <3>3, <5>1
        <5> QED BY <1>4, <4>1, <5>1, <5>2, <5>3
      <4>2. CASE i \in SnapshotsOf(x)
        <5>1. snapshots'[i] = snapshots[i] /\ i \in Nat /\ i < m
          BY <1>4, <1>5, <3>3, <4>2
        <5>2. PICK p \in SnapshotsOf(x) :
                /\ p < i /\ \A j \in SnapshotsOf(x) : j < i => j <= p
                /\ snapshots[i].diff = Changes(snapshots[p].state, snapshots[i].state)
          BY <2>1, <4>2, <5>1 DEF Faithful, Chained
        <5>3. snapshots'[p] = snapshots[p] /\ p \in SnapshotsOf(x)'
          BY <1>4, <3>3
        <5>4. \A j \in SnapshotsOf(x)' : j < i => j <= p
          BY <1>5, <3>3, <5>1, <5>2
        <5> QED BY <5>1, <5>2, <5>3, <5>4
      <4> QED BY <3>3, <4>1, <4>2
    <3> QED BY <2>2, <3>4, <3>5, <3>6 DEF Faithful
  <2> QED BY <2>3, <2>4
<1> QED BY <1>9, <1>10 DEF LogInv

LEMMA LogCommit ==
  ASSUME LogInv, NEW p \in Proc, Commit(p)
  PROVE  LogInv'
<1>1. ClockInv
  BY DEF LogInv, Tables
<1>2. PICK e \in EventType, heard \in BOOLEAN :
        /\ Appended(e) /\ Committed(e, heard)
        /\ e.session \in Session
        /\ e.session \notin late' => InOrder(e)
  BY <1>1, CommitAppends
<1>3. UNCHANGED <<now, snapshots, capture, overlapped>> /\ stamp' = [stamp EXCEPT ![p] = 0]
  BY DEF Commit
<1>4. stamp' \in [Proc -> 0..now]
  BY <1>1, <1>3, ConstantsAssumption DEF ClockInv
<1>5. ClockInv'
  BY <1>1, <1>2, <1>3, <1>4, ClockAppend
<1>6. /\ late \subseteq late' /\ late' \subseteq Session
      /\ complete' \subseteq Session
  BY <1>2 DEF Committed, LogInv, Tables
<1> QED BY <1>2, <1>3, <1>5, <1>6, LogAppend

LEMMA LogRollback ==
  ASSUME LogInv, NEW s \in Session, RollbackTo(s)
  PROVE  LogInv'
<1>1. ClockInv
  BY DEF LogInv, Tables
<1>2. PICK e \in EventType : Appended(e) /\ InOrder(e)
  BY <1>1, RollbackAppends
<1>3. UNCHANGED <<now, stamp, snapshots, capture, late, overlapped>> /\ complete' = Session
  BY DEF RollbackTo
<1>4. ClockInv'
  BY <1>1, <1>2, <1>3, ClockAppend DEF ClockInv
<1> QED BY <1>2, <1>3, <1>4, LogAppend DEF LogInv, Tables

(* A session without gaps keeps its events, and what they say.             *)
LEMMA LogPurge ==
  ASSUME LogInv, NEW s \in Session, PurgeSession(s)
  PROVE  LogInv'
<1>1. /\ UNCHANGED <<now, stamp, projection, snapshots, capture, late, overlapped>>
      /\ complete' = complete \ {s}
  BY DEF PurgeSession
<1>2. /\ ClockInv' /\ Purged \cup {s} \subseteq Purged'
      /\ \A x \in Session \ Purged' : EventsOf(x)' = EventsOf(x)
  BY PurgeLeaves DEF LogInv, Tables
<1>3. Tables'
  BY <1>1, <1>2 DEF LogInv, Tables, RowOK
<1>4. ASSUME NEW x \in Session \ (late' \cup overlapped' \cup Purged') PROVE Faithful(x)'
  <2>1. Faithful(x) /\ x \in Session /\ EventsOf(x)' = EventsOf(x)
    BY <1>1, <1>2 DEF LogInv
  <2>2. ASSUME NEW k \in Capture, UpToDate(k, x)' PROVE Fits(x, capture[k].row)'
    <3>1. UpToDate(k, x)
      BY <1>1, <2>2, Uninserted DEF UpToDate
    <3> QED BY <1>1, <2>1, <3>1, FitsKept DEF Faithful, StateAt
  <2> QED BY <1>1, <2>1, <2>2, FaithfulKept DEF StateAt
<1> QED BY <1>3, <1>4 DEF LogInv

LEMMA LogStep ==
  ASSUME LogInv, [Next]_vars
  PROVE  LogInv'
<1>1. ClockInv /\ complete \subseteq Session
  BY DEF LogInv, Tables
<1>2. NoEvents \subseteq Session
  BY DEF NoEvents
<1>3. CASE UNCHANGED vars
  BY <1>1, <1>3, ClockStep, LogQuiet DEF vars
<1>4. CASE Tick
  BY <1>1, <1>4, ClockStep, LogQuiet DEF Tick
<1>5. ASSUME NEW p \in Proc, Stamp(p) PROVE LogInv'
  BY <1>1, <1>5, ClockStep, LogQuiet DEF Stamp
<1>6. CASE RebuildAll
  BY <1>1, <1>6, ClockStep, LogQuiet DEF RebuildAll
<1>7. CASE Restart
  BY <1>1, <1>2, <1>7, ClockStep, LogQuiet DEF Restart
<1>8. ASSUME NEW s \in Session, RebuildSession(s) PROVE LogInv'
  BY <1>1, <1>2, <1>8, ClockStep, LogQuiet DEF RebuildSession
<1>9. ASSUME NEW s \in Session, HeardInVain(s) PROVE LogInv'
  BY <1>1, <1>9, ClockStep, LogQuiet DEF HeardInVain
<1> QED BY <1>3, <1>4, <1>5, <1>6, <1>7, <1>8, <1>9, LogCommit, LogRollback, LogRead,
           LogInsert, LogFailure, LogDamage, LogPurge DEF Next

LEMMA LogInit == Init => LogInv
<1> SUFFICES ASSUME Init PROVE LogInv
  OBVIOUS
<1>1. ClockInv
  BY ViewInit DEF ViewInv
<1>2. snapshots = <<>> /\ snapshots \in Seq({}) /\ DOMAIN snapshots = {}
  BY DEF Init
<1>3. \A s : SnapshotsOf(s) = {}
  BY <1>2 DEF SnapshotsOf
<1>4. capture = [k \in Capture |-> None]
  BY DEF Init
<1>5. Tables
  BY <1>1, <1>2, <1>4 DEF Init, Tables, IsSeq
<1>6. ASSUME NEW s \in Session PROVE Faithful(s)
  BY <1>3, <1>4 DEF Faithful, Truthful, Chained, UpToDate
<1> QED BY <1>5, <1>6 DEF LogInv

LEMMA LogInvariance == Spec => []LogInv
<1>1. LogInv /\ [Next]_vars => LogInv'
  BY LogStep
<1> QED BY <1>1, LogInit, PTL DEF Spec

(* The log, the clock and the snapshots are well formed: a snapshot counts  *)
(* events its session has, also where they come late or captures overlap,  *)
(* unless some were deleted, and a keyframe carries no changes.            *)
THEOREM LogTypes == Spec => []LogTypeOK
<1>1. LogInv => LogTypeOK
  <2> SUFFICES ASSUME LogInv PROVE LogTypeOK
    OBVIOUS
  <2>1. stamp \in [Proc -> 0..MaxTime]
    BY ConstantsAssumption DEF LogInv, Tables, ClockInv
  <2> QED BY <2>1 DEF LogInv, Tables, ClockInv, RowOK, LogTypeOK
<1> QED BY <1>1, LogInvariance, PTL

(* Whatever keyframes and deltas there are, the state reconstructed at an   *)
(* event number is what the events up to it give, in every session without *)
(* late or deleted events and overlapping captures whose deltas have their *)
(* keyframes.                                                              *)
THEOREM ReconstructionsFold == Spec => []ReconstructionIsFold
<1>1. LogInv => ReconstructionIsFold
  BY FaithfulIsSound, SoundIsFold DEF LogInv, ReconstructionIsFold
<1> QED BY <1>1, LogInvariance, PTL
=============================================================================
