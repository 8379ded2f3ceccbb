-------------------------- MODULE TaskLeaseProofs --------------------------
(***************************************************************************)
(* Proofs about TaskLease, for every set of tasks, lease ids and passes,   *)
(* with one or several processes on the database.                          *)
(*                                                                         *)
(* The invariants checked by TLC are not inductive by themselves: that a   *)
(* new lease outranks the others needs a newest lease to count on from     *)
(* (NewestExists), and that a pass writes to rows of leases, and not to    *)
(* ids never issued, needs what it remembers to be leases (PassKnown).     *)
(***************************************************************************)
EXTENDS TaskLease, TLAPS

(* Among the leases of a task one has the greatest generation. *)
NewestExists == \A t \in Task : LeasesOf(t) # {} => Newest(LeasesOf(t)) # {}

(* The leases a pass goes by have been issued. *)
PassKnown == \A p \in Pass : \A l \in pass[p].expired : Issued(l)

(* What every operation on the tables keeps, also those of modules that     *)
(* grant leases in another order than claimTask does.                       *)
TablesOK == TypeOK /\ PassKnown /\ NewestExists

IInv == TablesOK /\ ActiveIsNewest

-----------------------------------------------------------------------------
(* Rows of the leases table. *)

LEMMA RowCases ==
  ASSUME TypeOK, NEW l \in LeaseId
  PROVE  /\ Issued(l) <=> lease[l] \in LeaseRow
         /\ ~Issued(l) <=> lease[l] = NoRow
         /\ lease[l].status \in LeaseStatus => Issued(l)
  BY DEF TypeOK, Issued, LeaseRow, NoRow, LeaseStatus

(* The generation a new lease counts on from is that of the newest one. *)
LEMMA LatestGenerationIsNewest ==
  ASSUME TypeOK, NewestExists, NEW t \in Task
  PROVE  /\ LatestGeneration(t) \in Nat
         /\ \A m \in LeasesOf(t) : lease[m].generation <= LatestGeneration(t)
<1>1. CASE LeasesOf(t) = {}
  BY <1>1 DEF LatestGeneration
<1>2. CASE LeasesOf(t) # {}
  <2> DEFINE l == CHOOSE l \in Newest(LeasesOf(t)) : TRUE
  <2>1. l \in Newest(LeasesOf(t))
    BY <1>2 DEF NewestExists
  <2>2. l \in LeaseId /\ Issued(l) /\ LatestGeneration(t) = lease[l].generation
    BY <1>2, <2>1 DEF Newest, LeasesOf, LatestGeneration
  <2>3. lease[l].generation \in Nat
    BY <2>2, RowCases DEF LeaseRow
  <2> QED BY <2>1, <2>2, <2>3 DEF Newest
<1> QED BY <1>1, <1>2

(* A step that grants nothing: rows keep their task and generation, and no *)
(* row becomes ACTIVE.                                                     *)
NothingGranted ==
  \A l \in LeaseId :
    /\ Issued(l)' <=> Issued(l)
    /\ Issued(l) => /\ lease'[l].task = lease[l].task
                    /\ lease'[l].generation = lease[l].generation
    /\ lease'[l].status = "ACTIVE" => lease[l].status = "ACTIVE"

LEMMA NothingGrantedKeepsOrder ==
  ASSUME NothingGranted, NEW t \in Task
  PROVE  /\ LeasesOf(t)' = LeasesOf(t)
         /\ Newest(LeasesOf(t))' = Newest(LeasesOf(t))
<1>1. LeasesOf(t)' = LeasesOf(t)
  BY DEF NothingGranted, LeasesOf
<1>2. \A l \in LeasesOf(t) : l \in LeaseId /\ lease'[l].generation = lease[l].generation
  BY DEF NothingGranted, LeasesOf
<1> QED BY <1>1, <1>2 DEF Newest

LEMMA NothingGrantedKeepsNewest ==
  ASSUME NewestExists, NothingGranted
  PROVE  NewestExists'
<1>1. \A t \in Task : LeasesOf(t)' = LeasesOf(t)
  BY NothingGrantedKeepsOrder
<1>2. \A t \in Task : Newest(LeasesOf(t))' = Newest(LeasesOf(t))
  BY NothingGrantedKeepsOrder
<1> QED BY <1>1, <1>2 DEF NewestExists

LEMMA NothingGrantedKeepsRank ==
  ASSUME ActiveIsNewest, NothingGranted
  PROVE  ActiveIsNewest'
<1> SUFFICES ASSUME NEW l \in LeaseId, NEW m \in LeaseId,
                    lease'[l].status = "ACTIVE", Issued(m)', l # m,
                    lease'[l].task = lease'[m].task
             PROVE  lease'[m].generation < lease'[l].generation
  BY DEF ActiveIsNewest
<1>1. lease[l].status = "ACTIVE" /\ Issued(l) /\ Issued(m)
  BY DEF NothingGranted, Issued
<1> QED BY <1>1 DEF NothingGranted, ActiveIsNewest

-----------------------------------------------------------------------------
(* The initial state, and the actions one by one. *)

LEMMA InitIInv == ConstantsAssumption /\ Init => IInv
<1> SUFFICES ASSUME ConstantsAssumption, Init PROVE IInv
  OBVIOUS
<1>1. TypeOK
  BY DEF TypeOK, Init, ConstantsAssumption, TaskStatus, PassState, PassStage, Idle
<1>2. \A l \in LeaseId : ~Issued(l)
  BY DEF Init, Issued, NoRow
<1>3. \A t \in Task : LeasesOf(t) = {}
  BY <1>2 DEF LeasesOf
<1>4. PassKnown
  BY DEF PassKnown, Init, Idle
<1>5. ActiveIsNewest
  BY <1>2 DEF ActiveIsNewest
<1> QED BY <1>1, <1>3, <1>4, <1>5 DEF IInv, TablesOK, NewestExists

(* Events are only ever appended, and only of known types. *)
LEMMA RecordType ==
  ASSUME TypeOK, NEW types, types \subseteq EventType, NEW l \in LeaseId,
         Record(types, l)
  PROVE  audit' \subseteq EventType \X LeaseId
  BY DEF Record, TypeOK

LEMMA RecordSomeType ==
  ASSUME TypeOK, NEW types, types \subseteq EventType, NEW l \in LeaseId,
         RecordSome(types, l)
  PROVE  audit' \subseteq EventType \X LeaseId
<1>1. PICK kept \in SUBSET types : Record(kept, l)
  BY DEF RecordSome
<1> QED BY <1>1, RecordType

(* What every pass remembers stays a set of leases when rows are kept. *)
LEMMA PassKnownKept ==
  ASSUME PassKnown, UNCHANGED pass,
         \A l \in LeaseId : Issued(l) => Issued(l)', TypeOK
  PROVE  PassKnown'
  BY DEF PassKnown, TypeOK, PassState

(* What a claim does to the rows of the leases.                            *)

LEMMA ClaimRows ==
  ASSUME TypeOK, NEW t \in Task, NEW n \in LeaseId, ClaimTask(t, n)
  PROVE  /\ ~Issued(n) /\ Issued(n)'
         /\ lease'[n].status = "ACTIVE" /\ lease'[n].task = t
         /\ lease'[n].generation = LatestGeneration(t) + 1
         /\ \A l \in LeaseId \ {n} :
              /\ Issued(l)' <=> Issued(l)
              /\ Issued(l) => /\ lease'[l].task = lease[l].task
                              /\ lease'[l].generation = lease[l].generation
                              /\ lease'[l].left = lease[l].left
              /\ \/ lease'[l].status = lease[l].status
                 \/ lease'[l].status = "EXPIRED" /\ lease[l].task = t /\ Issued(l)
<1>1. lease \in [LeaseId -> LeaseRow \cup {NoRow}] /\ ~Issued(n)
  BY DEF ClaimTask, TypeOK
<1>2. lease'[n] = NewLease(t)
  BY <1>1 DEF ClaimTask, FindActive, Newest, ActiveOf, LeasesOf
<1>3. ASSUME NEW l \in LeaseId \ {n}
      PROVE  \/ lease'[l] = lease[l]
             \/ /\ Issued(l) /\ lease[l].task = t
                /\ lease'[l] = [lease[l] EXCEPT !.status = "EXPIRED"]
  BY <1>1, <1>3 DEF ClaimTask, FindActive, Newest, ActiveOf, LeasesOf
<1>4. ASSUME NEW l \in LeaseId \ {n}
      PROVE  /\ Issued(l)' <=> Issued(l)
             /\ Issued(l) => /\ lease'[l].task = lease[l].task
                             /\ lease'[l].generation = lease[l].generation
                             /\ lease'[l].left = lease[l].left
             /\ \/ lease'[l].status = lease[l].status
                \/ lease'[l].status = "EXPIRED" /\ lease[l].task = t /\ Issued(l)
  <2>1. CASE lease'[l] = lease[l]
    BY <2>1 DEF Issued
  <2>2. CASE /\ Issued(l) /\ lease[l].task = t
             /\ lease'[l] = [lease[l] EXCEPT !.status = "EXPIRED"]
    <3> DEFINE row == [lease[l] EXCEPT !.status = "EXPIRED"]
    <3>1. lease[l] \in LeaseRow
      BY <2>2, RowCases
    <3>2. /\ row.status = "EXPIRED" /\ row.task = lease[l].task
          /\ row.generation = lease[l].generation /\ row.left = lease[l].left
      BY <3>1 DEF LeaseRow
    <3>3. lease'[l] = row
      BY <2>2
    <3> HIDE DEF row
    <3> QED BY <2>2, <3>2, <3>3 DEF Issued
  <2> QED BY <1>3, <2>1, <2>2
<1>5. /\ NewLease(t).status = "ACTIVE" /\ NewLease(t).task = t
      /\ NewLease(t).generation = LatestGeneration(t) + 1
  BY DEF NewLease
<1> QED BY <1>1, <1>2, <1>4, <1>5 DEF Issued

(* A new row, whatever its generation, leaves a newest one in its task.    *)
LEMMA GrantKeepsNewest ==
  ASSUME TypeOK, NewestExists, NEW n \in LeaseId, ~Issued(n), Issued(n)',
         lease'[n].generation \in Nat,
         \A l \in LeaseId \ {n} :
           /\ Issued(l)' <=> Issued(l)
           /\ Issued(l) => /\ lease'[l].task = lease[l].task
                           /\ lease'[l].generation = lease[l].generation
  PROVE  NewestExists'
<1> SUFFICES ASSUME NEW t \in Task, LeasesOf(t)' # {}
             PROVE  Newest(LeasesOf(t))' # {}
  BY DEF NewestExists
<1>1. ASSUME NEW m \in LeasesOf(t)', m # n
      PROVE  /\ m \in LeasesOf(t) /\ lease'[m].generation = lease[m].generation
             /\ lease[m].generation \in Nat
  BY <1>1, RowCases DEF LeasesOf, LeaseRow
<1>2. LeasesOf(t) \subseteq LeasesOf(t)'
  BY DEF LeasesOf
<1>3. CASE LeasesOf(t) = {}
  <2>1. LeasesOf(t)' = {n}
    BY <1>1, <1>3
  <2> QED BY <2>1 DEF Newest
<1>4. CASE LeasesOf(t) # {}
  <2>1. PICK c \in Newest(LeasesOf(t)) : TRUE
    BY <1>4 DEF NewestExists
  <2>2. c \in LeasesOf(t)' /\ c # n
    BY <2>1, <1>2 DEF Newest, LeasesOf
  <2>3. \A m \in LeasesOf(t)' : m # n => lease'[m].generation <= lease'[c].generation
    BY <2>1, <2>2, <1>1 DEF Newest
  <2>4. CASE n \in LeasesOf(t)' /\ lease'[n].generation > lease'[c].generation
    <3>1. \A m \in LeasesOf(t)' : lease'[m].generation <= lease'[n].generation
      BY <2>2, <2>3, <2>4, <1>1
    <3> QED BY <2>4, <3>1 DEF Newest
  <2>5. CASE n \in LeasesOf(t)' => lease'[n].generation <= lease'[c].generation
    BY <2>2, <2>3, <2>5 DEF Newest
  <2> QED BY <2>2, <2>4, <2>5, <1>1
<1> QED BY <1>3, <1>4

LEMMA NewLeaseType ==
  ASSUME ConstantsAssumption, TypeOK, NewestExists, NEW t \in Task
  PROVE  NewLease(t) \in LeaseRow
BY LatestGenerationIsNewest DEF NewLease, LeaseRow, LeaseStatus, ConstantsAssumption

(* claimTask keeps the tables in order, whoever else holds leases.         *)
LEMMA ClaimTables ==
  ASSUME ConstantsAssumption, TablesOK, NEW t \in Task, NEW n \in LeaseId,
         ClaimTask(t, n)
  PROVE  TablesOK'
<1> USE DEF TablesOK
<1>1. /\ ~Issued(n) /\ Issued(n)'
      /\ lease'[n].generation = LatestGeneration(t) + 1
      /\ \A l \in LeaseId \ {n} :
           /\ Issued(l)' <=> Issued(l)
           /\ Issued(l) => /\ lease'[l].task = lease[l].task
                           /\ lease'[l].generation = lease[l].generation
  BY ClaimRows
<1>2. lease' \in [LeaseId -> LeaseRow \cup {NoRow}]
  <2>1. NewLease(t) \in LeaseRow
    BY NewLeaseType
  <2>2. ASSUME NEW stale \in FindActive(t)
        PROVE  /\ stale \in LeaseId
               /\ [lease[stale] EXCEPT !.status = "EXPIRED"] \in LeaseRow
    <3>1. stale \in LeaseId /\ Issued(stale)
      BY DEF FindActive, Newest, ActiveOf, LeasesOf
    <3> QED BY <3>1, RowCases DEF LeaseRow, LeaseStatus
  <2> QED BY <2>1, <2>2 DEF ClaimTask, TypeOK
<1>3. TypeOK'
  <2>1. status' \in [Task -> TaskStatus]
    BY DEF ClaimTask, TypeOK, TaskStatus
  <2>2. audit' \subseteq EventType \X LeaseId
    BY RecordType DEF ClaimTask, EventType
  <2> QED BY <1>2, <2>1, <2>2 DEF ClaimTask, TypeOK
<1>4. PassKnown'
  BY <1>1, PassKnownKept DEF ClaimTask
<1>5. NewestExists'
  <2>1. lease'[n].generation \in Nat
    BY <1>1, LatestGenerationIsNewest
  <2> QED BY <1>1, <2>1, GrantKeepsNewest
<1> QED BY <1>3, <1>4, <1>5

(* claimTask: the new row outranks all the leases of its task. *)
LEMMA ClaimStep ==
  ASSUME ConstantsAssumption, IInv, NEW t \in Task, NEW n \in LeaseId,
         ClaimTask(t, n)
  PROVE  IInv'
<1> USE DEF IInv, TablesOK
<1>1. /\ LatestGeneration(t) \in Nat
      /\ \A m \in LeasesOf(t) : lease[m].generation <= LatestGeneration(t)
  BY LatestGenerationIsNewest
<1>2. /\ ~Issued(n) /\ Issued(n)'
      /\ lease'[n].status = "ACTIVE" /\ lease'[n].task = t
      /\ lease'[n].generation = LatestGeneration(t) + 1
      /\ \A l \in LeaseId \ {n} :
           /\ Issued(l)' <=> Issued(l)
           /\ Issued(l) => /\ lease'[l].task = lease[l].task
                           /\ lease'[l].generation = lease[l].generation
           /\ lease'[l].status = "ACTIVE" => lease[l].status = "ACTIVE"
  BY ClaimRows
<1>3. ASSUME NEW l \in LeaseId, lease[l].status = "ACTIVE", lease[l].task = t
      PROVE  lease'[l].status # "ACTIVE"
  <2>1. PICK stale \in FindActive(t) :
             lease' = [lease EXCEPT ![stale].status = "EXPIRED",
                                    ![n] = NewLease(t)]
    BY <1>3 DEF ClaimTask, ActiveOf, LeasesOf, Issued
  <2>2. /\ stale \in LeaseId /\ Issued(stale) /\ stale # n
        /\ lease[stale].task = t /\ lease[stale].status = "ACTIVE"
    BY <1>2 DEF FindActive, Newest, ActiveOf, LeasesOf
  <2>3. l = stale
    <3>1. Issued(l) /\ lease[l].generation \in Nat /\ lease[stale].generation \in Nat
      BY <1>3, <2>2, RowCases DEF LeaseRow, LeaseStatus
    <3> QED BY <1>3, <2>2, <3>1 DEF ActiveIsNewest
  <2> DEFINE row == [lease[stale] EXCEPT !.status = "EXPIRED"]
  <2>4. row.status = "EXPIRED"
    BY <2>2, RowCases DEF LeaseRow
  <2>5. lease'[stale] = row
    BY <2>1, <2>2 DEF TypeOK
  <2> HIDE DEF row
  <2> QED BY <2>3, <2>4, <2>5
<1>4. ActiveIsNewest'
  <2> SUFFICES ASSUME NEW l \in LeaseId, NEW m \in LeaseId,
                      lease'[l].status = "ACTIVE", Issued(m)', l # m,
                      lease'[l].task = lease'[m].task
               PROVE  lease'[m].generation < lease'[l].generation
    BY DEF ActiveIsNewest
  <2>1. CASE l = n
    <3>1. m \in LeasesOf(t) /\ lease'[m].generation = lease[m].generation
      BY <2>1, <1>2 DEF LeasesOf
    <3>2. lease[m].generation \in Nat
      BY <3>1, RowCases DEF LeasesOf, LeaseRow
    <3> QED BY <2>1, <3>1, <3>2, <1>1, <1>2
  <2>2. CASE l # n /\ m # n
    <3>1. lease[l].status = "ACTIVE" /\ Issued(l) /\ Issued(m)
      BY <2>2, <1>2 DEF Issued
    <3> QED BY <2>2, <3>1, <1>2 DEF ActiveIsNewest
  <2>3. CASE l # n /\ m = n
    <3>1. lease[l].status = "ACTIVE" /\ Issued(l) /\ lease[l].task = t
      BY <2>3, <1>2 DEF Issued
    <3> QED BY <2>3, <3>1, <1>3
  <2> QED BY <2>1, <2>2, <2>3
<1> QED BY <1>4, ClaimTables

(* Any other change of the leases table takes nothing but status, expiry or *)
(* renewals of rows that have been issued.                                  *)
LEMMA RowUpdate ==
  ASSUME TypeOK, NEW l \in LeaseId, Issued(l), NEW s \in LeaseStatus
  PROVE  /\ [lease[l] EXCEPT !.status = s] \in LeaseRow
         /\ [lease[l] EXCEPT !.status = s].task = lease[l].task
         /\ [lease[l] EXCEPT !.status = s].generation = lease[l].generation
         /\ [lease[l] EXCEPT !.status = s].status = s
  BY RowCases DEF LeaseRow

(* One lease ends. *)
LEMMA EndLease ==
  ASSUME TypeOK, NEW l \in LeaseId, Issued(l), NEW s \in LeaseStatus \ {"ACTIVE"},
         lease' = [lease EXCEPT ![l].status = s]
  PROVE  /\ lease' \in [LeaseId -> LeaseRow \cup {NoRow}]
         /\ NothingGranted
<1>1. /\ lease'[l] = [lease[l] EXCEPT !.status = s]
      /\ \A m \in LeaseId \ {l} : lease'[m] = lease[m]
  BY DEF TypeOK
<1>2. lease' \in [LeaseId -> LeaseRow \cup {NoRow}]
  BY RowUpdate DEF TypeOK
<1>3. NothingGranted
  <2> SUFFICES ASSUME NEW m \in LeaseId
               PROVE /\ Issued(m)' <=> Issued(m)
                     /\ Issued(m) => /\ lease'[m].task = lease[m].task
                                     /\ lease'[m].generation = lease[m].generation
                     /\ lease'[m].status = "ACTIVE" => lease[m].status = "ACTIVE"
    BY DEF NothingGranted
  <2>1. CASE m = l
    <3>1. /\ lease'[l].status = s
          /\ lease'[l].task = lease[l].task
          /\ lease'[l].generation = lease[l].generation
      <4> DEFINE row == [lease[l] EXCEPT !.status = s]
      <4>1. /\ row.task = lease[l].task
            /\ row.generation = lease[l].generation
            /\ row.status = s
        BY RowUpdate
      <4>2. lease'[l] = row
        BY <1>1
      <4> HIDE DEF row
      <4> QED BY <4>1, <4>2
    <3>2. Issued(m)' <=> Issued(m)
      BY <2>1, <3>1 DEF Issued, LeaseStatus
    <3> QED BY <2>1, <3>1, <3>2
  <2>2. CASE m # l
    BY <2>2, <1>1 DEF Issued
  <2> QED BY <2>1, <2>2
<1> QED BY <1>2, <1>3

(* A step that grants nothing keeps the tables in order when it keeps types *)
(* and what the passes remember.                                            *)
LEMMA KeepTables ==
  ASSUME TablesOK, NothingGranted, TypeOK', PassKnown'
  PROVE  TablesOK'
  BY NothingGrantedKeepsNewest DEF TablesOK

LEMMA SameLeases ==
  ASSUME UNCHANGED lease
  PROVE  NothingGranted
  BY DEF NothingGranted, Issued

LEMMA RenewStep ==
  ASSUME ConstantsAssumption, TablesOK, NEW l \in LeaseId, Renew(l)
  PROVE  TablesOK' /\ NothingGranted
<1> USE DEF TablesOK
<1> DEFINE row == [lease[l] EXCEPT !.left = Ttl, !.renewals = @ + 1]
<1>1. Issued(l) /\ lease[l] \in LeaseRow
  BY RowCases DEF Renew, Live, LeaseStatus
<1>2. /\ lease' = [lease EXCEPT ![l] = row]
      /\ lease[l].renewals < MaxRenewals
  BY DEF Renew
<1>3. /\ row \in LeaseRow
      /\ row.task = lease[l].task /\ row.generation = lease[l].generation
      /\ row.status = lease[l].status
  <2>1. lease[l].renewals \in 0..MaxRenewals
    BY <1>1 DEF LeaseRow
  <2>2. lease[l].renewals + 1 \in 0..MaxRenewals /\ Ttl \in 0..Ttl
    BY <1>2, <2>1 DEF ConstantsAssumption
  <2> QED BY <1>1, <2>2 DEF LeaseRow
<1>4. lease'[l] = row /\ \A m \in LeaseId \ {l} : lease'[m] = lease[m]
  BY <1>2 DEF TypeOK
<1>5. NothingGranted
  BY <1>3, <1>4 DEF NothingGranted, Issued
<1>6. TypeOK'
  <2>1. audit' \subseteq EventType \X LeaseId
    BY RecordType DEF Renew, EventType
  <2>2. lease' \in [LeaseId -> LeaseRow \cup {NoRow}]
    BY <1>2, <1>3 DEF TypeOK
  <2> QED BY <2>1, <2>2 DEF TypeOK, Renew
<1>7. PassKnown'
  BY <1>5, PassKnownKept DEF Renew, NothingGranted
<1> QED BY <1>5, <1>6, <1>7, KeepTables

LEMMA LateHeartbeatStep ==
  ASSUME TablesOK, NEW l \in LeaseId, LateHeartbeat(l)
  PROVE  TablesOK' /\ NothingGranted
<1> USE DEF TablesOK
<1>1. Issued(l) /\ lease[l].task \in Task
  BY RowCases DEF LateHeartbeat, ExpiredActive, LeaseStatus, LeaseRow
<1>2. /\ lease' \in [LeaseId -> LeaseRow \cup {NoRow}]
      /\ NothingGranted
  BY <1>1, EndLease DEF LateHeartbeat, LeaseStatus
<1>3. TypeOK'
  <2>1. audit' \subseteq EventType \X LeaseId
    BY RecordType DEF LateHeartbeat, EventType
  <2> QED BY <2>1, <1>1, <1>2 DEF TypeOK, LateHeartbeat, TaskStatus
<1>4. PassKnown'
  BY <1>2, PassKnownKept DEF LateHeartbeat, NothingGranted
<1> QED BY <1>2, <1>3, <1>4, KeepTables

LEMMA FinishStep ==
  ASSUME TablesOK, NEW l \in LeaseId, NEW s \in TaskStatus,
         NEW events, events \subseteq EventType, Finish(l, s, events)
  PROVE  TablesOK' /\ NothingGranted
<1> USE DEF TablesOK
<1>1. Issued(l) /\ lease[l].task \in Task
  BY RowCases DEF Finish, VerifyOwnership, LeaseRow
<1>2. /\ lease' \in [LeaseId -> LeaseRow \cup {NoRow}]
      /\ NothingGranted
  BY <1>1, EndLease DEF Finish, LeaseStatus
<1>3. TypeOK'
  <2>1. audit' \subseteq EventType \X LeaseId
    BY RecordType DEF Finish
  <2> QED BY <2>1, <1>1, <1>2 DEF TypeOK, Finish
<1>4. PassKnown'
  BY <1>2, PassKnownKept DEF Finish, NothingGranted
<1> QED BY <1>2, <1>3, <1>4, KeepTables

LEMMA UpdateStatusStep ==
  ASSUME ConstantsAssumption, TablesOK, NEW t \in Task, NEW s \in Moves,
         UpdateStatus(t, s)
  PROVE  TablesOK' /\ NothingGranted
<1> USE DEF TablesOK
<1>1. NothingGranted
  BY SameLeases DEF UpdateStatus
<1>2. TypeOK'
  BY DEF TypeOK, UpdateStatus, ConstantsAssumption, TaskStatus
<1>3. PassKnown'
  BY <1>1, PassKnownKept DEF UpdateStatus, NothingGranted
<1> QED BY <1>1, <1>2, <1>3, KeepTables

-----------------------------------------------------------------------------
(* The recovery passes. *)

LEMMA IdleType == Idle \in PassState /\ Idle.expired = {}
  BY DEF Idle, PassState, PassStage

(* A pass that only reads. *)
LEMMA ReadStep ==
  ASSUME TablesOK, NEW p \in Pass, NEW s \in PassState, SetPass(p, s),
         \A l \in s.expired : Issued(l),
         UNCHANGED <<status, attempts, lease, audit>>
  PROVE  TablesOK' /\ NothingGranted
<1> USE DEF TablesOK
<1>1. NothingGranted
  BY SameLeases
<1>2. TypeOK'
  BY DEF TypeOK, SetPass
<1>3. PassKnown'
  BY DEF PassKnown, SetPass, TypeOK, Issued
<1> QED BY <1>1, <1>2, <1>3, KeepTables

LEMMA AfterLeaseType ==
  ASSUME TypeOK, PassKnown, NEW p \in Pass, NEW l \in LeaseId
  PROVE  /\ AfterLease(p, l) \in PassState
         /\ \A m \in AfterLease(p, l).expired : Issued(m)
  BY IdleType DEF AfterLease, TypeOK, PassState, PassKnown

(* A pass that ends a lease, or several, and goes on. *)
LEMMA PassKnownWrite ==
  ASSUME TypeOK, PassKnown, NEW p \in Pass, NEW s \in PassState, SetPass(p, s),
         \A l \in s.expired : Issued(l), NothingGranted
  PROVE  PassKnown' /\ pass' \in [Pass -> PassState]
<1>1. pass' \in [Pass -> PassState]
  BY DEF TypeOK, SetPass
<1>2. ASSUME NEW q \in Pass, NEW l \in pass'[q].expired PROVE Issued(l)'
  <2>1. l \in LeaseId
    BY <1>1 DEF PassState
  <2>2. Issued(l)
    BY DEF PassKnown, SetPass, TypeOK
  <2> QED BY <2>1, <2>2 DEF NothingGranted
<1> QED BY <1>1, <1>2 DEF PassKnown

LEMMA RecoverLeaseStep ==
  ASSUME ConstantsAssumption, TablesOK, NEW p \in Pass, NEW l \in LeaseId,
         RecoverLease(p, l)
  PROVE  TablesOK' /\ NothingGranted
<1> USE DEF TablesOK
<1>1. CASE ReclaimAndRequeue(p, l)
  <2>1. Issued(l) /\ lease[l].task \in Task
    BY <1>1, RowCases DEF ReclaimAndRequeue, PassKnown, LeaseRow
  <2>2. /\ lease' \in [LeaseId -> LeaseRow \cup {NoRow}]
        /\ NothingGranted
    BY <1>1, <2>1, EndLease DEF ReclaimAndRequeue, LeaseStatus
  <2>3. PassKnown' /\ pass' \in [Pass -> PassState]
    BY <1>1, <2>2, AfterLeaseType, PassKnownWrite DEF ReclaimAndRequeue
  <2>4. audit' \subseteq EventType \X LeaseId
    BY <1>1, RecordSomeType DEF ReclaimAndRequeue, EventType
  <2>5. attempts' \in [Task -> 1..MaxAttempts]
    BY <1>1, <2>1 DEF ReclaimAndRequeue, HasAttempts, TypeOK, ConstantsAssumption
  <2>6. status' \in [Task -> TaskStatus]
    BY <1>1, <2>1 DEF ReclaimAndRequeue, TypeOK, TaskStatus
  <2> QED BY <2>2, <2>3, <2>4, <2>5, <2>6, KeepTables DEF TypeOK
<1>2. CASE FailStalled(p, l)
  <2>1. Issued(l) /\ lease[l].task \in Task
    BY <1>2, RowCases DEF FailStalled, PassKnown, LeaseRow
  <2>2. /\ lease' \in [LeaseId -> LeaseRow \cup {NoRow}]
        /\ NothingGranted
    BY <1>2, <2>1, EndLease DEF FailStalled, LeaseStatus
  <2>3. PassKnown' /\ pass' \in [Pass -> PassState]
    BY <1>2, <2>2, AfterLeaseType, PassKnownWrite DEF FailStalled
  <2>4. audit' \subseteq EventType \X LeaseId
    BY <1>2, RecordSomeType DEF FailStalled, EventType
  <2>5. attempts' \in [Task -> 1..MaxAttempts]
    BY <1>2 DEF FailStalled, TypeOK
  <2>6. status' \in [Task -> TaskStatus]
    BY <1>2, <2>1 DEF FailStalled, TypeOK, TaskStatus
  <2> QED BY <2>2, <2>3, <2>4, <2>5, <2>6, KeepTables DEF TypeOK
<1>3. CASE RecoveryThrows(p, l)
  BY <1>3, IdleType, ReadStep DEF RecoveryThrows
<1> QED BY <1>1, <1>2, <1>3 DEF RecoverLease

LEMMA ListStep ==
  ASSUME TablesOK, NEW p \in Pass,
         \/ DetectStalledLeases(p) \/ ListExpiredLeases(p)
         \/ EvictionFails(p) \/ ListInterruptedTasks(p) \/ Crash(p)
  PROVE  TablesOK' /\ NothingGranted
<1> USE DEF TablesOK
<1>1. ExpiredActive \subseteq LeaseId /\ \A l \in ExpiredActive : Issued(l)
  BY RowCases DEF ExpiredActive, LeaseStatus
<1>2. CASE DetectStalledLeases(p)
  <2> DEFINE s == [Idle EXCEPT !.stage = "stalled", !.expired = ExpiredActive]
  <2>1. s \in PassState /\ s.expired = ExpiredActive
    BY <1>1 DEF Idle, PassState, PassStage
  <2> QED BY <1>1, <1>2, <2>1, ReadStep DEF DetectStalledLeases
<1>3. CASE ListExpiredLeases(p)
  <2> DEFINE s == [Idle EXCEPT !.stage = "evict", !.expired = ExpiredActive]
  <2>1. s \in PassState /\ s.expired = ExpiredActive
    BY <1>1 DEF Idle, PassState, PassStage
  <2> QED BY <1>1, <1>3, <2>1, ReadStep DEF ListExpiredLeases
<1>4. CASE ListInterruptedTasks(p)
  <2> DEFINE s == [Idle EXCEPT !.stage = "reset",
                               !.tasks = {t \in Task : Interrupted(p, t)}]
  <2>1. s \in PassState /\ s.expired = {}
    BY DEF Idle, PassState, PassStage
  <2> QED BY <1>4, <2>1, ReadStep DEF ListInterruptedTasks
<1>5. CASE Crash(p)
  BY <1>5, IdleType, ReadStep DEF Crash
<1>6. CASE EvictionFails(p)
  <2> DEFINE s == [pass[p] EXCEPT !.stage = "list"]
  <2>1. s \in PassState /\ s.expired = pass[p].expired
    BY DEF TypeOK, PassState, PassStage
  <2> QED BY <1>6, <2>1, ReadStep DEF EvictionFails, PassKnown
<1> QED BY <1>2, <1>3, <1>4, <1>5, <1>6

LEMMA EvictStep ==
  ASSUME TablesOK, NEW p \in Pass, EvictLeases(p)
  PROVE  TablesOK' /\ NothingGranted
<1> USE DEF TablesOK
<1>1. \A l \in LeaseId :
        lease'[l] = IF l \in pass[p].expired
                    THEN [lease[l] EXCEPT !.status = "EXPIRED"] ELSE lease[l]
  BY DEF EvictLeases
<1>2. \A l \in pass[p].expired : l \in LeaseId /\ Issued(l)
  BY DEF PassKnown, TypeOK, PassState
<1>3. NothingGranted
  <2> SUFFICES ASSUME NEW l \in LeaseId
               PROVE /\ Issued(l)' <=> Issued(l)
                     /\ Issued(l) => /\ lease'[l].task = lease[l].task
                                     /\ lease'[l].generation = lease[l].generation
                     /\ lease'[l].status = "ACTIVE" => lease[l].status = "ACTIVE"
    BY DEF NothingGranted
  <2>1. CASE l \in pass[p].expired
    <3>1. /\ lease'[l].status = "EXPIRED"
          /\ lease'[l].task = lease[l].task
          /\ lease'[l].generation = lease[l].generation
      BY <2>1, <1>1, <1>2, RowUpdate DEF LeaseStatus
    <3> QED BY <2>1, <3>1, <1>2 DEF Issued
  <2>2. CASE l \notin pass[p].expired
    BY <2>2, <1>1 DEF Issued
  <2> QED BY <2>1, <2>2
<1>4. lease' \in [LeaseId -> LeaseRow \cup {NoRow}]
  <2>1. \A l \in LeaseId : lease'[l] \in LeaseRow \cup {NoRow}
    BY <1>1, <1>2, RowUpdate DEF TypeOK, LeaseStatus
  <2> QED BY <2>1 DEF EvictLeases
<1>5. PassKnown' /\ pass' \in [Pass -> PassState]
  <2> DEFINE s == [pass[p] EXCEPT !.stage = "list"]
  <2>1. s \in PassState /\ \A l \in s.expired : Issued(l)
    BY DEF TypeOK, PassState, PassStage, PassKnown
  <2> QED BY <1>3, <2>1, PassKnownWrite DEF EvictLeases
<1> QED BY <1>3, <1>4, <1>5, KeepTables DEF TypeOK, EvictLeases

LEMMA ResetStep ==
  ASSUME TablesOK, NEW p \in Pass, ResetTasks(p)
  PROVE  TablesOK' /\ NothingGranted
<1> USE DEF TablesOK
<1>1. NothingGranted
  BY SameLeases DEF ResetTasks
<1>2. PassKnown' /\ pass' \in [Pass -> PassState]
  BY <1>1, IdleType, PassKnownWrite DEF ResetTasks
<1>3. status' \in [Task -> TaskStatus]
  BY DEF ResetTasks, TypeOK, TaskStatus
<1> QED BY <1>1, <1>2, <1>3, KeepTables DEF TypeOK, ResetTasks

LEMMA TickStep ==
  ASSUME ConstantsAssumption, TablesOK, Tick
  PROVE  TablesOK' /\ NothingGranted
<1> USE DEF TablesOK
<1>1. \A l \in LeaseId :
        lease'[l] = IF l \in FreshActive THEN [lease[l] EXCEPT !.left = @ - 1]
                    ELSE lease[l]
  BY DEF Tick
<1>2. ASSUME NEW l \in FreshActive
      PROVE  /\ lease'[l] \in LeaseRow
             /\ lease'[l].task = lease[l].task
             /\ lease'[l].generation = lease[l].generation
             /\ lease'[l].status = lease[l].status
             /\ l \in LeaseId
  <2>1. l \in LeaseId /\ lease[l] \in LeaseRow /\ lease[l].left # 0
    BY RowCases DEF FreshActive, Expired, LeaseStatus
  <2>2. lease[l].left - 1 \in 0..Ttl
    BY <2>1 DEF LeaseRow, ConstantsAssumption
  <2> QED BY <2>1, <2>2, <1>1 DEF LeaseRow
<1>3. NothingGranted
  BY <1>1, <1>2 DEF NothingGranted, Issued
<1>4. lease' \in [LeaseId -> LeaseRow \cup {NoRow}]
  <2>1. \A l \in LeaseId : lease'[l] \in LeaseRow \cup {NoRow}
    BY <1>1, <1>2 DEF TypeOK
  <2> QED BY <2>1 DEF Tick
<1>5. PassKnown'
  BY <1>3, PassKnownKept DEF Tick, NothingGranted
<1> QED BY <1>3, <1>4, <1>5, KeepTables DEF TypeOK, Tick

-----------------------------------------------------------------------------
(* The theorems. *)

(* Only claimTask grants; every other step leaves the rows' ranks alone.    *)
LEMMA TablesStep ==
  ASSUME ConstantsAssumption, TablesOK, Next
  PROVE  /\ TablesOK'
         /\ NothingGranted \/ \E t \in Task, l \in LeaseId : ClaimTask(t, l)
<1>1. CASE \E t \in Task, l \in LeaseId : ClaimTask(t, l)
  BY <1>1, ClaimTables
<1>2. ASSUME NEW l \in LeaseId,
             \/ Renew(l) \/ LateHeartbeat(l)
             \/ CompleteTask(l) \/ FailTask(l) \/ ReleaseTask(l)
      PROVE  TablesOK' /\ NothingGranted
  <2>1. CASE Renew(l)
    BY <2>1, RenewStep
  <2>2. CASE LateHeartbeat(l)
    BY <2>2, LateHeartbeatStep
  <2>3. CASE CompleteTask(l)
    BY <2>3, FinishStep DEF CompleteTask, TaskStatus, EventType
  <2>4. CASE FailTask(l)
    BY <2>4, FinishStep DEF FailTask, TaskStatus, EventType
  <2>5. CASE ReleaseTask(l)
    BY <2>5, FinishStep DEF ReleaseTask, TaskStatus, EventType
  <2> QED BY <1>2, <2>1, <2>2, <2>3, <2>4, <2>5
<1>3. CASE \E t \in Task, s \in Moves : UpdateStatus(t, s)
  BY <1>3, UpdateStatusStep
<1>4. ASSUME NEW p \in Pass, StalledRecovery(p) \/ CrashRecovery(p) \/ Crash(p)
      PROVE  TablesOK' /\ NothingGranted
  <2>1. CASE \E l \in LeaseId : RecoverLease(p, l)
    BY <2>1, RecoverLeaseStep
  <2>2. CASE EvictLeases(p)
    BY <2>2, EvictStep
  <2>3. CASE ResetTasks(p)
    BY <2>3, ResetStep
  <2>4. CASE \/ DetectStalledLeases(p) \/ ListExpiredLeases(p)
             \/ EvictionFails(p) \/ ListInterruptedTasks(p) \/ Crash(p)
    BY <2>4, ListStep
  <2> QED BY <1>4, <2>1, <2>2, <2>3, <2>4 DEF StalledRecovery, CrashRecovery
<1>5. CASE Tick
  BY <1>5, TickStep
<1> QED BY <1>1, <1>2, <1>3, <1>4, <1>5 DEF Next, Worker

LEMMA StepCases ==
  ASSUME ConstantsAssumption, IInv, Next
  PROVE  /\ IInv'
         /\ NothingGranted \/ \E t \in Task, l \in LeaseId : ClaimTask(t, l)
<1>1. /\ TablesOK'
      /\ NothingGranted \/ \E t \in Task, l \in LeaseId : ClaimTask(t, l)
  BY TablesStep DEF IInv
<1>2. CASE NothingGranted
  BY <1>1, <1>2, NothingGrantedKeepsRank DEF IInv
<1>3. CASE \E t \in Task, l \in LeaseId : ClaimTask(t, l)
  BY <1>3, ClaimStep
<1> QED BY <1>1, <1>2, <1>3

LEMMA TablesStutter ==
  ASSUME TablesOK, UNCHANGED vars
  PROVE  TablesOK'
BY DEF TablesOK, vars, TypeOK, PassKnown, NewestExists, Issued, LeasesOf, Newest

LEMMA StutterStep ==
  ASSUME IInv, UNCHANGED vars
  PROVE  IInv'
BY DEF IInv, TablesOK, vars, TypeOK, PassKnown, NewestExists, ActiveIsNewest, Issued,
       LeasesOf, Newest

(* The strengthened invariant holds throughout. *)
THEOREM Invariance == Spec => []IInv
<1>1. Init => IInv
  BY InitIInv, ConstantsAssumption
<1>2. IInv /\ [Next]_vars => IInv'
  BY StepCases, StutterStep, ConstantsAssumption
<1> QED BY <1>1, <1>2, PTL DEF Spec

(* The tables, the event log and the passes always have their types: in     *)
(* particular no attempt count passes maxAttempts and no generation is      *)
(* reused from zero.                                                        *)
THEOREM TypeCorrect == Spec => []TypeOK
BY Invariance, PTL DEF IInv, TablesOK

(* An ACTIVE lease outranks every other lease of its task, however claims,  *)
(* heartbeats and the recovery passes of several processes interleave.      *)
THEOREM FencingTokens == Spec => []ActiveIsNewest
BY Invariance, PTL DEF IInv, TablesOK

LEMMA OneIsActive ==
  ASSUME IInv
  PROVE  OneActiveLease
<1> SUFFICES ASSUME NEW l \in LeaseId, NEW m \in LeaseId,
                    lease[l].status = "ACTIVE", lease[m].status = "ACTIVE",
                    lease[l].task = lease[m].task, l # m
             PROVE  FALSE
  BY DEF OneActiveLease
<1>1. Issued(l) /\ Issued(m)
  BY DEF Issued
<1>2. lease[l].generation \in Nat /\ lease[m].generation \in Nat
  BY <1>1, RowCases DEF IInv, TablesOK, LeaseRow
<1> QED BY <1>1, <1>2 DEF IInv, TablesOK, ActiveIsNewest

(* Mutual exclusion: a task never has two ACTIVE leases. *)
THEOREM MutualExclusion == Spec => []OneActiveLease
BY OneIsActive, Invariance, PTL

(* A new lease outranks all earlier ones, and rank and task are for life. *)
THEOREM GenerationsGrow == Spec => TokensGrow
<1> DEFINE Grow ==
      \A l \in LeaseId :
        IF Issued(l) THEN /\ lease'[l].task = lease[l].task
                          /\ lease'[l].generation = lease[l].generation
        ELSE lease'[l].status # "NONE" =>
               \A m \in LeasesOf(lease'[l].task) :
                 lease[m].generation < lease'[l].generation
<1>1. ASSUME NothingGranted PROVE Grow
  BY <1>1 DEF NothingGranted, Issued
<1>2. ASSUME IInv, NEW t \in Task, NEW n \in LeaseId, ClaimTask(t, n) PROVE Grow
  <2>1. /\ LatestGeneration(t) \in Nat
        /\ \A m \in LeasesOf(t) : lease[m].generation <= LatestGeneration(t)
    BY <1>2, LatestGenerationIsNewest DEF IInv, TablesOK
  <2>2. ~Issued(n) /\ lease \in [LeaseId -> LeaseRow \cup {NoRow}]
    BY <1>2 DEF ClaimTask, IInv, TablesOK, TypeOK
  <2>3. lease'[n] = NewLease(t)
    BY <1>2, <2>2 DEF ClaimTask, FindActive, Newest, ActiveOf, LeasesOf
  <2>4. ASSUME NEW l \in LeaseId, l # n
        PROVE  lease'[l] = lease[l] \/ (Issued(l) /\ lease'[l] = [lease[l] EXCEPT !.status = "EXPIRED"])
    BY <1>2, <2>2, <2>4 DEF ClaimTask, FindActive, Newest, ActiveOf, LeasesOf
  <2>5. ASSUME NEW l \in LeaseId, l # n
        PROVE  /\ Issued(l) => /\ lease'[l].task = lease[l].task
                               /\ lease'[l].generation = lease[l].generation
               /\ ~Issued(l) => lease'[l].status = "NONE"
    <3>1. CASE lease'[l] = lease[l]
      BY <3>1 DEF Issued
    <3>2. CASE Issued(l) /\ lease'[l] = [lease[l] EXCEPT !.status = "EXPIRED"]
      BY <1>2, <3>2, RowUpdate DEF IInv, TablesOK, LeaseStatus
    <3> QED BY <2>4, <2>5, <3>1, <3>2
  <2>6. /\ lease'[n].task = t
        /\ lease'[n].generation = LatestGeneration(t) + 1
    BY <2>3 DEF NewLease
  <2>7. \A m \in LeasesOf(t) : lease[m].generation < lease'[n].generation
    <3> TAKE m \in LeasesOf(t)
    <3>1. lease[m].generation \in Nat
      BY <1>2, RowCases DEF IInv, TablesOK, LeasesOf, LeaseRow
    <3> QED BY <2>1, <2>6, <3>1
  <2> QED BY <2>2, <2>5, <2>6, <2>7
<1>3. IInv /\ [Next]_vars => Grow \/ UNCHANGED vars
  BY <1>1, <1>2, StepCases, ConstantsAssumption
<1> QED BY <1>3, Invariance, PTL DEF Spec, TokensGrow

(* What a worker's call leaves on the audit trail, and nothing else does.   *)
WorkerEvent == {"TASK_HEARTBEAT", "TASK_COMPLETED", "TASK_RELEASED"}

(* An ACTIVE lease has not been superseded. *)
LEMMA ActiveNotSuperseded ==
  ASSUME IInv, NEW l \in LeaseId, lease[l].status = "ACTIVE"
  PROVE  ~Superseded(l)
<1> SUFFICES ASSUME NEW m \in LeasesOf(lease[l].task),
                    lease[m].generation > lease[l].generation
             PROVE  FALSE
  BY DEF Superseded
<1>1. /\ m \in LeaseId /\ Issued(m) /\ Issued(l)
      /\ lease[m].task = lease[l].task
  BY DEF LeasesOf, Issued
<1>2. lease[m].generation \in Nat /\ lease[l].generation \in Nat
  BY <1>1, RowCases DEF IInv, TablesOK, LeaseRow
<1> QED BY <1>1, <1>2 DEF IInv, TablesOK, ActiveIsNewest

(* A worker writes, and has a write recorded, under its ACTIVE lease only. *)
LEMMA WriteUnderActive ==
  ASSUME Next, NEW l \in LeaseId, NEW e \in WorkerEvent,
         <<e, l>> \in audit', <<e, l>> \notin audit
  PROVE  lease[l].status = "ACTIVE"
<1>1. ASSUME NEW types, types \cap WorkerEvent = {}, NEW n \in LeaseId, Record(types, n)
      PROVE  FALSE
  BY <1>1 DEF Record
<1>2. ASSUME NEW types, NEW n \in LeaseId, Record(types, n)
      PROVE  l = n
  BY <1>2 DEF Record
<1>3. CASE \E t \in Task, n \in LeaseId : ClaimTask(t, n)
  BY <1>3, <1>1 DEF ClaimTask, WorkerEvent
<1>4. CASE \E n \in LeaseId : Renew(n) \/ LateHeartbeat(n)
  BY <1>4, <1>2 DEF Renew, Live, LateHeartbeat, ExpiredActive
<1>5. CASE \E n \in LeaseId : CompleteTask(n) \/ FailTask(n) \/ ReleaseTask(n)
  <2>1. PICK n \in LeaseId : l = n /\ VerifyOwnership(n)
    BY <1>5, <1>2 DEF CompleteTask, FailTask, ReleaseTask, Finish
  <2> QED BY <2>1 DEF VerifyOwnership, FindActive, Newest, ActiveOf
<1>6. CASE \E p \in Pass, n \in LeaseId : ReclaimAndRequeue(p, n) \/ FailStalled(p, n)
  <2>1. PICK n \in LeaseId, types \in SUBSET {"TASK_LEASE_EXPIRED", "TASK_RECLAIMED", "TASK_FAILED"} :
          Record(types, n)
    BY <1>6 DEF ReclaimAndRequeue, FailStalled, RecordSome
  <2> QED BY <2>1, <1>1 DEF WorkerEvent
<1>7. ASSUME UNCHANGED audit PROVE FALSE
  BY <1>7
<1>8. CASE \/ \E t \in Task, s \in Moves : UpdateStatus(t, s)
           \/ \E p \in Pass : \/ CrashRecovery(p) \/ Crash(p) \/ DetectStalledLeases(p)
                              \/ \E n \in LeaseId : RecoveryThrows(p, n)
           \/ Tick
  BY <1>7, <1>8 DEF UpdateStatus, CrashRecovery, ListExpiredLeases, EvictLeases,
     EvictionFails, ListInterruptedTasks, ResetTasks, Crash, DetectStalledLeases, RecoveryThrows, Tick
<1> QED BY <1>3, <1>4, <1>5, <1>6, <1>8
        DEF Next, Worker, StalledRecovery, RecoverLease

(* Fencing: whatever a worker calls after its task was granted to another,  *)
(* nothing is renewed, completed or given back under its lease.             *)
THEOREM Fencing == Spec => StaleWorkerIsFenced
<1>1. IInv /\ Next =>
        \A l \in LeaseId : Superseded(l) =>
          \A e \in {"TASK_HEARTBEAT", "TASK_COMPLETED", "TASK_RELEASED"} :
            <<e, l>> \in audit' => <<e, l>> \in audit
  BY WriteUnderActive, ActiveNotSuperseded DEF WorkerEvent
<1> QED BY <1>1, Invariance, PTL DEF Spec, StaleWorkerIsFenced

-----------------------------------------------------------------------------
(* Nothing is settled: no task is completed, no lease given back.          *)
NothingSettled ==
  /\ \A l \in LeaseId : Issued(l) => Issued(l)' /\ lease'[l].task = lease[l].task
  /\ audit \subseteq audit'
  /\ \A t \in Task : status'[t] = "completed" => status[t] = "completed"
  /\ \A l \in LeaseId : lease'[l].status = "RELEASED" => lease[l].status = "RELEASED"

LEMMA NothingSettledKeeps ==
  ASSUME OutcomeOnRecord, NothingSettled
  PROVE  OutcomeOnRecord'
<1>1. \A t \in Task : LeasesOf(t) \subseteq LeasesOf(t)'
  BY DEF NothingSettled, LeasesOf
<1> QED BY <1>1 DEF NothingSettled, OutcomeOnRecord

(* The outcome and the release are among the events of a finish.           *)
LEMMA FinishRecords ==
  ASSUME IInv, OutcomeOnRecord, NEW l \in LeaseId, NEW s \in TaskStatus,
         NEW events, "TASK_RELEASED" \in events,
         s = "completed" => "TASK_COMPLETED" \in events, events \subseteq EventType,
         Finish(l, s, events)
  PROVE  OutcomeOnRecord'
<1>1. NothingGranted
  BY FinishStep DEF IInv, TablesOK
<1>2. /\ Issued(l)
      /\ status' = [status EXCEPT ![lease[l].task] = s]
      /\ lease' = [lease EXCEPT ![l].status = "RELEASED"]
      /\ audit' = audit \cup {<<e, l>> : e \in events}
  BY DEF Finish, VerifyOwnership, Record
<1>3. \A t \in Task : LeasesOf(t)' = LeasesOf(t)
  BY <1>1 DEF NothingGranted, LeasesOf
<1>4. ASSUME NEW t \in Task, status'[t] = "completed"
      PROVE  \E m \in LeasesOf(t)' : <<"TASK_COMPLETED", m>> \in audit'
  <2>1. CASE t = lease[l].task /\ s = "completed"
    <3>1. l \in LeasesOf(t)'
      BY <1>2, <1>3, <2>1 DEF LeasesOf
    <3> QED BY <1>2, <2>1, <3>1
  <2>2. CASE status[t] = "completed"
    BY <1>2, <1>3, <2>2 DEF OutcomeOnRecord
  <2> QED BY <1>2, <1>4, <2>1, <2>2 DEF IInv, TablesOK, TypeOK
<1>5. ASSUME NEW m \in LeaseId, lease'[m].status = "RELEASED"
      PROVE  <<"TASK_RELEASED", m>> \in audit'
  <2>1. CASE m = l
    BY <1>2, <2>1
  <2>2. CASE m # l
    BY <1>2, <1>5, <2>2 DEF IInv, TablesOK, TypeOK, OutcomeOnRecord
  <2> QED BY <2>1, <2>2
<1> QED BY <1>4, <1>5 DEF OutcomeOnRecord

(* A lease that ends otherwise is not given back. *)
LEMMA EndSettlesNothing ==
  ASSUME IInv, NEW l \in LeaseId, Issued(l), NEW s \in {"EXPIRED", "REVOKED"},
         lease' = [lease EXCEPT ![l].status = s]
  PROVE  \A m \in LeaseId : lease'[m].status = "RELEASED" => lease[m].status = "RELEASED"
<1> TAKE m \in LeaseId
<1>1. CASE m = l
  <2> DEFINE row == [lease[l] EXCEPT !.status = s]
  <2>1. row.status = s
    BY RowUpdate DEF IInv, TablesOK, LeaseStatus
  <2>2. lease'[l] = row
    BY DEF IInv, TablesOK, TypeOK
  <2> HIDE DEF row
  <2> QED BY <1>1, <2>1, <2>2
<1>2. CASE m # l
  BY <1>2 DEF IInv, TablesOK, TypeOK
<1> QED BY <1>1, <1>2

LEMMA OutcomeStep ==
  ASSUME ConstantsAssumption, IInv, OutcomeOnRecord, Next
  PROVE  OutcomeOnRecord'
<1> USE DEF IInv, TablesOK
<1>0. ASSUME NothingGranted PROVE \A l \in LeaseId : Issued(l) => Issued(l)' /\ lease'[l].task = lease[l].task
  BY <1>0 DEF NothingGranted
<1>1. ASSUME NEW t \in Task, NEW n \in LeaseId, ClaimTask(t, n) PROVE NothingSettled
  <2>1. \A l \in LeaseId : Issued(l) => Issued(l)' /\ lease'[l].task = lease[l].task
    BY <1>1, ClaimRows DEF IInv, TablesOK
  <2>2. \A l \in LeaseId : lease'[l].status = "RELEASED" => lease[l].status = "RELEASED"
    BY <1>1, ClaimRows DEF IInv, TablesOK
  <2> QED BY <1>1, <2>1, <2>2 DEF ClaimTask, Record, NothingSettled, TypeOK
<1>2. ASSUME NEW l \in LeaseId, Renew(l) PROVE NothingSettled
  <2>1. Issued(l)
    BY <1>2 DEF Renew, Live, Issued
  <2>2. lease[l] \in LeaseRow /\ lease[l].status = "ACTIVE"
    BY <1>2, <2>1, RowCases DEF Renew, Live
  <2>3. [lease[l] EXCEPT !.left = Ttl, !.renewals = @ + 1].status = "ACTIVE"
    BY <2>2 DEF LeaseRow
  <2>4. \A m \in LeaseId : lease'[m].status = "RELEASED" => lease[m].status = "RELEASED"
    BY <1>2, <2>3 DEF Renew, TypeOK
  <2> QED BY <1>0, <1>2, <2>4, RenewStep DEF IInv, TablesOK, Renew, Record, NothingSettled
<1>3. ASSUME NEW l \in LeaseId, LateHeartbeat(l) PROVE NothingSettled
  <2>1. Issued(l) /\ lease' = [lease EXCEPT ![l].status = "EXPIRED"]
    BY <1>3 DEF LateHeartbeat, ExpiredActive, Issued
  <2>2. \A m \in LeaseId : lease'[m].status = "RELEASED" => lease[m].status = "RELEASED"
    BY <2>1, EndSettlesNothing
  <2>3. \A t \in Task : status'[t] = "completed" => status[t] = "completed"
    BY <1>3 DEF LateHeartbeat, TypeOK
  <2>4. audit \subseteq audit'
    BY <1>3 DEF LateHeartbeat, Record
  <2>5. NothingGranted
    BY <1>3, LateHeartbeatStep DEF IInv, TablesOK
  <2> QED BY <1>0, <2>2, <2>3, <2>4, <2>5 DEF NothingSettled
<1>4. ASSUME NEW l \in LeaseId, CompleteTask(l) \/ FailTask(l) \/ ReleaseTask(l)
      PROVE  OutcomeOnRecord'
  BY <1>4, FinishRecords DEF CompleteTask, FailTask, ReleaseTask, TaskStatus, EventType
<1>5. ASSUME NEW t \in Task, NEW s \in Moves, UpdateStatus(t, s) PROVE NothingSettled
  <2>1. s # "completed"
    BY DEF ConstantsAssumption
  <2> QED BY <1>5, <2>1 DEF UpdateStatus, NothingSettled, Issued
<1>6. ASSUME NEW p \in Pass, NEW l \in LeaseId, RecoverLease(p, l) PROVE NothingSettled
  <2>1. CASE RecoveryThrows(p, l)
    BY <2>1 DEF RecoveryThrows, NothingSettled, Issued
  <2>2. CASE ReclaimAndRequeue(p, l) \/ FailStalled(p, l)
    <3>1. /\ Issued(l)
          /\ \E s \in {"EXPIRED", "REVOKED"} : lease' = [lease EXCEPT ![l].status = s]
          /\ \E s \in {"queued", "failed"} : status' = [status EXCEPT ![lease[l].task] = s]
          /\ \E types : Record(types, l)
      BY <2>2 DEF ReclaimAndRequeue, FailStalled, RecordSome, PassKnown
    <3>2. \A m \in LeaseId : lease'[m].status = "RELEASED" => lease[m].status = "RELEASED"
      BY <3>1, EndSettlesNothing
    <3>3. audit \subseteq audit'
      BY <3>1 DEF Record
    <3>4. \A t \in Task : status'[t] = "completed" => status[t] = "completed"
      BY <3>1 DEF TypeOK
    <3> QED BY <1>0, <1>6, <3>2, <3>3, <3>4, RecoverLeaseStep DEF IInv, TablesOK, NothingSettled
  <2> QED BY <1>6, <2>1, <2>2 DEF RecoverLease
<1>7. ASSUME NEW p \in Pass, EvictLeases(p) PROVE NothingSettled
  <2>1. ASSUME NEW l \in LeaseId, lease'[l].status = "RELEASED"
        PROVE  lease[l].status = "RELEASED"
    <3>1. CASE l \in pass[p].expired
      <4>1. lease'[l] = [lease[l] EXCEPT !.status = "EXPIRED"] /\ Issued(l)
        BY <1>7, <3>1 DEF EvictLeases, PassKnown
      <4>2. [lease[l] EXCEPT !.status = "EXPIRED"].status = "EXPIRED"
        BY <4>1, RowUpdate DEF LeaseStatus
      <4> QED BY <2>1, <4>1, <4>2
    <3>2. CASE l \notin pass[p].expired
      BY <1>7, <2>1, <3>2 DEF EvictLeases
    <3> QED BY <3>1, <3>2
  <2> QED BY <1>0, <1>7, <2>1, EvictStep DEF IInv, TablesOK, EvictLeases, NothingSettled
<1>8. ASSUME NEW p \in Pass, ResetTasks(p) PROVE NothingSettled
  BY <1>8 DEF ResetTasks, NothingSettled, Issued
<1>9. ASSUME NEW p \in Pass,
             \/ DetectStalledLeases(p) \/ ListExpiredLeases(p)
             \/ EvictionFails(p) \/ ListInterruptedTasks(p) \/ Crash(p)
      PROVE  NothingSettled
  BY <1>9 DEF DetectStalledLeases, ListExpiredLeases, EvictionFails, ListInterruptedTasks,
     Crash, NothingSettled, Issued
<1>10. ASSUME Tick PROVE NothingSettled
  <2>1. ASSUME NEW l \in LeaseId, lease'[l].status = "RELEASED"
        PROVE  lease[l].status = "RELEASED"
    <3>1. CASE l \in FreshActive
      <4>1. lease[l].status = "ACTIVE" /\ lease[l] \in LeaseRow
        BY <3>1, RowCases DEF FreshActive, LeaseStatus
      <4>2. lease'[l] = [lease[l] EXCEPT !.left = @ - 1]
        BY <1>10, <3>1 DEF Tick
      <4> QED BY <2>1, <4>1, <4>2 DEF LeaseRow
    <3>2. CASE l \notin FreshActive
      BY <1>10, <2>1, <3>2 DEF Tick
    <3> QED BY <3>1, <3>2
  <2> QED BY <1>0, <1>10, <2>1, TickStep DEF IInv, TablesOK, Tick, NothingSettled
<1> QED BY <1>1, <1>2, <1>3, <1>4, <1>5, <1>6, <1>7, <1>8, <1>9, <1>10, NothingSettledKeeps
        DEF Next, Worker, StalledRecovery, CrashRecovery

(* The events of a transaction are written with it, so what is decided is  *)
(* on the audit trail, also when events of the recovery passes are lost.   *)
THEOREM OutcomesRecorded == Spec => []OutcomeOnRecord
<1>1. Init => OutcomeOnRecord
  BY DEF Init, OutcomeOnRecord, NoRow
<1>2. IInv /\ OutcomeOnRecord /\ [Next]_vars => OutcomeOnRecord'
  <2>1. UNCHANGED vars /\ OutcomeOnRecord => OutcomeOnRecord'
    BY DEF vars, OutcomeOnRecord, LeasesOf, Issued
  <2> QED BY <2>1, OutcomeStep, ConstantsAssumption
<1> QED BY <1>1, <1>2, Invariance, PTL DEF Spec

-----------------------------------------------------------------------------
(* One process has the database open.  A live lease then keeps its task, a *)
(* completed task stays completed, and leases implement FencedOwnership.   *)
(*                                                                         *)
(* With one process a pass is not interrupted, except that time passes and *)
(* that it dies.  So what a pass has read is still so when it writes       *)
(* (PassCurrent), and no pass touches a task under a live lease.           *)

InHand == {"claimed", "running", "waiting_approval", "waiting_resource",
           "blocked", "paused", "review", "verifying"}

(* What a pass remembers as s is still so. *)
Current(s) ==
  /\ s.stage = "idle" => s.expired = {}
  /\ s.stage # "reset" => s.tasks = {}
  /\ s.stage \in {"stalled", "evict"} => s.expired \subseteq ExpiredActive
  /\ s.stage = "list" => \A l \in s.expired : Expired(l)
  /\ \A t \in s.tasks : /\ status[t] \in {"running", "claimed", "verifying"}
                        /\ \A l \in LeasesOf(t) : ~Live(l)

PassCurrent == \A p \in Pass : Current(pass[p])

OnePass == \A p, q \in Pass : p # q => pass[p].stage = "idle" \/ pass[q].stage = "idle"

(* What was completed is so on the board, and was completed once. *)
CompletedOnce ==
  /\ \A l \in LeaseId : <<"TASK_COMPLETED", l>> \in audit => Issued(l)
  /\ \A t \in Task : \A l, m \in CompletionsOf(t) : l = m /\ status[t] = "completed"

SingleInv ==
  /\ IInv
  /\ OnePass
  /\ PassCurrent
  /\ HeldWhileLive
  /\ CompletedOnce

(* No lease comes to life, tasks under live leases stay in hand, and what  *)
(* is completed stays so.                                                  *)
Calm ==
  /\ NothingGranted
  /\ \A l \in LeaseId : Live(l)' => Live(l)
  /\ \A l \in LeaseId : Live(l)' => status'[lease[l].task] \in InHand
  /\ \A t \in Task : status[t] = "completed" => status'[t] = "completed"
  /\ \A l \in LeaseId : <<"TASK_COMPLETED", l>> \in audit' => <<"TASK_COMPLETED", l>> \in audit
  /\ audit \subseteq audit'

-----------------------------------------------------------------------------
LEMMA LiveIsIssued ==
  ASSUME IInv, NEW l \in LeaseId, Live(l)
  PROVE  Issued(l) /\ lease[l].task \in Task /\ l \in ActiveOf(lease[l].task)
  BY RowCases DEF IInv, TablesOK, Live, Issued, LeaseRow, ActiveOf, LeasesOf

LEMMA HeldMeansInHand ==
  ASSUME IInv, HeldWhileLive, NEW l \in LeaseId, Live(l)
  PROVE  status[lease[l].task] \in InHand
<1>1. status[lease[l].task] \in TaskStatus
  BY LiveIsIssued DEF IInv, TablesOK, TypeOK
<1> QED BY <1>1 DEF HeldWhileLive, TaskStatus, InHand

LEMMA CalmKeeps ==
  ASSUME IInv, HeldWhileLive, CompletedOnce, Calm
  PROVE  HeldWhileLive' /\ CompletedOnce'
<1>1. HeldWhileLive'
  <2> SUFFICES ASSUME NEW l \in LeaseId, Live(l)'
               PROVE  status'[lease'[l].task] \notin
                        {"queued", "available", "completed", "failed", "cancelled"}
    BY DEF HeldWhileLive
  <2>1. Issued(l) /\ lease'[l].task = lease[l].task
    BY LiveIsIssued DEF Calm, NothingGranted
  <2> QED BY <2>1 DEF Calm, InHand
<1>2. CompletedOnce'
  <2>1. ASSUME NEW t \in Task PROVE CompletionsOf(t)' \subseteq CompletionsOf(t)
    BY DEF Calm, NothingGranted, CompletionsOf, LeasesOf
  <2> QED BY <2>1 DEF CompletedOnce, Calm, NothingGranted
<1> QED BY <1>1, <1>2

(* A process that runs no pass, or the next step of the one it runs. *)
LEMMA IdleIsCurrent == Current(Idle)
  BY DEF Current, Idle

LEMMA NoPass ==
  ASSUME SharedDb = FALSE, PassCurrent, Undisturbed, UNCHANGED pass
  PROVE  PassCurrent' /\ OnePass'
<1>1. \A p \in Pass : pass[p].stage = "idle"
  BY DEF Undisturbed
<1>2. ASSUME NEW p \in Pass PROVE Current(pass[p])'
  <2>1. pass[p].stage = "idle" /\ Current(pass[p]) /\ pass'[p] = pass[p]
    BY <1>1 DEF PassCurrent
  <2> QED BY <2>1 DEF Current
<1> QED BY <1>1, <1>2 DEF PassCurrent, OnePass

LEMMA PassGoesOn ==
  ASSUME TypeOK, PassCurrent, NEW p \in Pass, NEW s \in PassState, SetPass(p, s),
         Current(pass[p])', \A q \in Pass \ {p} : pass[q].stage = "idle"
  PROVE  PassCurrent' /\ OnePass'
<1>1. pass'[p] = s /\ \A q \in Pass \ {p} : pass'[q] = pass[q]
  BY DEF SetPass, TypeOK
<1>2. ASSUME NEW q \in Pass, q # p PROVE Current(pass[q])'
  <2>1. pass[q].stage = "idle" /\ Current(pass[q]) /\ pass'[q] = pass[q]
    BY <1>1, <1>2 DEF PassCurrent
  <2> QED BY <2>1 DEF Current
<1>3. Current(pass[p])'
  OBVIOUS
<1>4. \A q \in Pass \ {p} : pass'[q].stage = "idle"
  BY <1>1
<1> QED BY <1>2, <1>3, <1>4 DEF PassCurrent, OnePass

LEMMA OthersAreIdle ==
  ASSUME OnePass, NEW p \in Pass, pass[p].stage # "idle"
  PROVE  \A q \in Pass \ {p} : pass[q].stage = "idle"
BY DEF OnePass

-----------------------------------------------------------------------------
(* The steps of workers, of time, and of the passes.                       *)

(* A row whose status was given an ending is not live.                     *)
LEMMA Ended ==
  ASSUME IInv, NEW l \in LeaseId, Issued(l), NEW s \in LeaseStatus \ {"ACTIVE"},
         lease' = [lease EXCEPT ![l].status = s]
  PROVE  /\ ~Live(l)'
         /\ \A m \in LeaseId \ {l} : lease'[m] = lease[m]
         /\ \A m \in LeaseId : Live(m)' => Live(m)
<1> DEFINE row == [lease[l] EXCEPT !.status = s]
<1>1. row.status = s
  BY RowUpdate DEF IInv, TablesOK
<1>2. lease'[l] = row /\ \A m \in LeaseId \ {l} : lease'[m] = lease[m]
  BY DEF IInv, TablesOK, TypeOK
<1> HIDE DEF row
<1> QED BY <1>1, <1>2 DEF Live, Expired

(* The only ACTIVE lease of a task ends, and the task moves with it.       *)
LEMMA LastLeaseEnds ==
  ASSUME IInv, HeldWhileLive, NEW l \in LeaseId, Issued(l), lease[l].status = "ACTIVE",
         NEW s \in LeaseStatus \ {"ACTIVE"},
         lease' = [lease EXCEPT ![l].status = s],
         NEW new, status' = [status EXCEPT ![lease[l].task] = new]
  PROVE  /\ \A m \in LeaseId : Live(m)' => Live(m)
         /\ \A m \in LeaseId : Live(m)' => status'[lease[m].task] \in InHand
<1>1. /\ ~Live(l)'
      /\ \A m \in LeaseId : Live(m)' => Live(m)
  BY Ended
<1>2. ASSUME NEW m \in LeaseId, Live(m)'
      PROVE  status'[lease[m].task] \in InHand
  <2>1. Live(m) /\ m # l
    BY <1>1, <1>2
  <2>2. lease[m].task # lease[l].task
    BY <2>1, OneIsActive DEF OneActiveLease, Live
  <2>3. status'[lease[m].task] = status[lease[m].task]
    BY <2>1, <2>2, LiveIsIssued DEF IInv, TablesOK, TypeOK
  <2> QED BY <2>1, <2>3, HeldMeansInHand
<1> QED BY <1>1, <1>2

LEMMA ClaimKeepsHeld ==
  ASSUME ConstantsAssumption, IInv, IInv', HeldWhileLive, CompletedOnce,
         NEW t \in Task, NEW n \in LeaseId, ClaimTask(t, n)
  PROVE  HeldWhileLive' /\ CompletedOnce'
<1>1. /\ ~Issued(n)
      /\ lease'[n].task = t /\ lease'[n].status = "ACTIVE"
      /\ \A l \in LeaseId \ {n} :
           /\ Issued(l)' <=> Issued(l)
           /\ Issued(l) => lease'[l].task = lease[l].task /\ lease'[l].left = lease[l].left
           /\ lease'[l].status = lease[l].status \/ lease'[l].status = "EXPIRED"
  BY ClaimRows DEF IInv, TablesOK
<1>2. /\ status' = [status EXCEPT ![t] = "claimed"] /\ status[t] # "completed"
      /\ audit' = audit \cup {<<e, n>> : e \in {"TASK_CLAIMED", "TASK_LEASE_ACQUIRED"}}
  BY DEF ClaimTask, Claimable, Record
<1>3. HeldWhileLive'
  <2> SUFFICES ASSUME NEW l \in LeaseId, Live(l)'
               PROVE  status'[lease'[l].task] \notin
                        {"queued", "available", "completed", "failed", "cancelled"}
    BY DEF HeldWhileLive
  <2>1. lease'[l].task \in Task
    BY LiveIsIssued, RowCases DEF IInv, TablesOK, TypeOK, Live, LeaseRow, LeaseStatus, NoRow
  <2>2. CASE lease'[l].task = t
    BY <1>2, <2>2 DEF IInv, TablesOK, TypeOK
  <2>3. CASE lease'[l].task # t
    <3>1. l # n /\ Issued(l)' BY <1>1, <2>3 DEF Live, Issued
    <3>2. Live(l) /\ lease'[l].task = lease[l].task
      BY <1>1, <3>1 DEF Live, Expired
    <3> QED BY <1>2, <2>1, <2>3, <3>2 DEF HeldWhileLive, IInv, TablesOK, TypeOK
  <2> QED BY <2>2, <2>3
<1>4. CompletedOnce'
  <2>1. ASSUME NEW u \in Task PROVE CompletionsOf(u)' \subseteq CompletionsOf(u)
    <3> SUFFICES ASSUME NEW l \in LeaseId, Issued(l)', lease'[l].task = u,
                        <<"TASK_COMPLETED", l>> \in audit'
                 PROVE  l \in CompletionsOf(u)
      BY DEF CompletionsOf, LeasesOf
    <3>1. <<"TASK_COMPLETED", l>> \in audit BY <1>2
    <3>2. CASE l # n BY <1>1, <3>1, <3>2 DEF CompletionsOf, LeasesOf
    <3> QED BY <1>1, <3>1, <3>2 DEF CompletedOnce
  <2>2. ASSUME NEW u \in Task, status[u] = "completed" PROVE status'[u] = "completed"
    BY <1>2, <2>2 DEF IInv, TablesOK, TypeOK
  <2>3. \A l \in LeaseId : <<"TASK_COMPLETED", l>> \in audit' => Issued(l)'
    BY <1>1, <1>2 DEF CompletedOnce
  <2> QED BY <2>1, <2>2, <2>3 DEF CompletedOnce
<1> QED BY <1>3, <1>4

LEMMA RenewIsCalm ==
  ASSUME ConstantsAssumption, IInv, HeldWhileLive, NEW l \in LeaseId, Renew(l)
  PROVE  Calm
<1>1. NothingGranted /\ Live(l)
  BY RenewStep DEF IInv, TablesOK, Renew
<1>2. \A m \in LeaseId \ {l} : lease'[m] = lease[m]
  BY DEF Renew, IInv, TablesOK, TypeOK
<1>3. \A m \in LeaseId : Live(m)' => Live(m)
  BY <1>1, <1>2 DEF Live, Expired
<1>4. \A m \in LeaseId : Live(m)' => status'[lease[m].task] \in InHand
  BY <1>3, HeldMeansInHand DEF Renew
<1> QED BY <1>1, <1>3, <1>4 DEF Calm, Renew, Record

LEMMA LateHeartbeatIsCalm ==
  ASSUME IInv, HeldWhileLive, NEW l \in LeaseId, LateHeartbeat(l)
  PROVE  Calm
<1>1. /\ Issued(l) /\ lease[l].status = "ACTIVE"
      /\ lease' = [lease EXCEPT ![l].status = "EXPIRED"]
      /\ status' = [status EXCEPT ![lease[l].task] = "queued"]
      /\ CanMove(lease[l].task, "queued")
  BY DEF LateHeartbeat, ExpiredActive, Issued
<1>2. status[lease[l].task] # "completed"
  BY <1>1 DEF CanMove, VALID_TRANSITIONS
<1>3. NothingGranted
  BY LateHeartbeatStep DEF IInv, TablesOK
<1>4. \A t \in Task : status[t] = "completed" => status'[t] = "completed"
  BY <1>1, <1>2 DEF IInv, TablesOK, TypeOK
<1> QED BY <1>1, <1>3, <1>4, LastLeaseEnds DEF Calm, LateHeartbeat, Record, LeaseStatus

(* failTask and releaseTask: a task under a live lease is not decided.     *)
LEMMA GiveBackIsCalm ==
  ASSUME IInv, HeldWhileLive, NEW l \in LeaseId, FailTask(l) \/ ReleaseTask(l)
  PROVE  Calm
<1>1. PICK s \in {"failed", "queued"}, events \in SUBSET {"TASK_FAILED", "TASK_RELEASED"} :
        Finish(l, s, events)
  BY DEF FailTask, ReleaseTask
<1>2. /\ Live(l) /\ Issued(l)
      /\ lease' = [lease EXCEPT ![l].status = "RELEASED"]
      /\ status' = [status EXCEPT ![lease[l].task] = s]
      /\ Record(events, l)
  BY <1>1 DEF Finish, VerifyOwnership, FindActive, Newest, ActiveOf, Live
<1>3. NothingGranted
  BY <1>1, FinishStep DEF IInv, TablesOK, TaskStatus, EventType
<1>4. status[lease[l].task] # "completed"
  BY <1>2 DEF HeldWhileLive
<1>5. \A t \in Task : status[t] = "completed" => status'[t] = "completed"
  BY <1>2, <1>4 DEF IInv, TablesOK, TypeOK
<1>6. /\ \A m \in LeaseId : Live(m)' => Live(m)
      /\ \A m \in LeaseId : Live(m)' => status'[lease[m].task] \in InHand
  BY <1>2, LastLeaseEnds DEF Live, LeaseStatus
<1> QED BY <1>2, <1>3, <1>5, <1>6 DEF Calm, Record

LEMMA CompleteKeepsHeld ==
  ASSUME IInv, HeldWhileLive, CompletedOnce, NEW l \in LeaseId, CompleteTask(l)
  PROVE  /\ HeldWhileLive' /\ CompletedOnce'
         /\ \A t \in Task : status[t] = "completed" => status'[t] = "completed"
<1>1. /\ Live(l) /\ Issued(l)
      /\ lease' = [lease EXCEPT ![l].status = "RELEASED"]
      /\ status' = [status EXCEPT ![lease[l].task] = "completed"]
      /\ audit' = audit \cup {<<e, l>> : e \in {"TASK_COMPLETED", "TASK_RELEASED"}}
  BY DEF CompleteTask, Finish, VerifyOwnership, FindActive, Newest, ActiveOf, Live, Record
<1>2. NothingGranted
  BY FinishStep DEF IInv, TablesOK, CompleteTask, TaskStatus, EventType
<1>3. \A m \in LeaseId : Live(m)' => status'[lease[m].task] \in InHand
  BY <1>1, LastLeaseEnds DEF Live, LeaseStatus
<1>4. HeldWhileLive'
  <2> SUFFICES ASSUME NEW m \in LeaseId, Live(m)'
               PROVE  status'[lease'[m].task] \notin
                        {"queued", "available", "completed", "failed", "cancelled"}
    BY DEF HeldWhileLive
  <2>1. Live(m) BY <1>1, Ended DEF LeaseStatus
  <2>2. lease'[m].task = lease[m].task BY <1>2, <2>1, LiveIsIssued DEF NothingGranted
  <2> QED BY <1>3, <2>2 DEF InHand
<1>5. \A t \in Task : status[t] = "completed" => status'[t] = "completed"
  BY <1>1 DEF IInv, TablesOK, TypeOK
<1>6. status[lease[l].task] # "completed" /\ lease[l].task \in Task
  BY <1>1, LiveIsIssued DEF HeldWhileLive
<1>7. CompletionsOf(lease[l].task) = {}
  BY <1>6 DEF CompletedOnce
<1>8. CompletedOnce'
  <2>1. ASSUME NEW t \in Task, NEW m \in CompletionsOf(t)'
        PROVE  \/ m = l /\ t = lease[l].task
               \/ m \in CompletionsOf(t)
    <3>1. m \in LeaseId /\ Issued(m) /\ lease[m].task = t
      BY <1>2, <2>1 DEF CompletionsOf, LeasesOf, NothingGranted
    <3>2. m = l \/ <<"TASK_COMPLETED", m>> \in audit
      BY <1>1, <2>1 DEF CompletionsOf
    <3> QED BY <3>1, <3>2 DEF CompletionsOf, LeasesOf
  <2>2. ASSUME NEW t \in Task, NEW m \in CompletionsOf(t)', NEW n \in CompletionsOf(t)'
        PROVE  m = n /\ status'[t] = "completed"
    <3>1. CASE t = lease[l].task
      BY <1>1, <1>6, <1>7, <2>1, <2>2, <3>1 DEF IInv, TablesOK, TypeOK
    <3>2. CASE t # lease[l].task
      <4>1. m \in CompletionsOf(t) /\ n \in CompletionsOf(t)
        BY <2>1, <2>2, <3>2
      <4> QED BY <1>5, <4>1 DEF CompletedOnce
    <3> QED BY <3>1, <3>2
  <2>3. \A m \in LeaseId : <<"TASK_COMPLETED", m>> \in audit' => Issued(m)'
    BY <1>1, <1>2 DEF CompletedOnce, NothingGranted
  <2> QED BY <2>2, <2>3 DEF CompletedOnce
<1> QED BY <1>4, <1>5, <1>8

LEMMA MoveIsCalm ==
  ASSUME ConstantsAssumption, IInv, HeldWhileLive, NEW t \in Task, NEW s \in Moves,
         UpdateStatus(t, s)
  PROVE  Calm
<1>1. /\ status' = [status EXCEPT ![t] = s]
      /\ status[t] # "completed"
      /\ UNCHANGED <<attempts, lease, audit, pass>>
  BY DEF UpdateStatus, CanMove, VALID_TRANSITIONS
<1>2. s \in InHand
  BY DEF ConstantsAssumption, InHand
<1>3. NothingGranted
  BY <1>1, SameLeases
<1>4. \A u \in Task : status[u] = "completed" => status'[u] = "completed"
  BY <1>1 DEF IInv, TablesOK, TypeOK
<1>5. \A m \in LeaseId : Live(m)' => Live(m)
  BY <1>1 DEF Live, Expired
<1>6. ASSUME NEW m \in LeaseId, Live(m) PROVE status'[lease[m].task] \in InHand
  <2>1. status[lease[m].task] \in InHand /\ lease[m].task \in Task
    BY <1>6, HeldMeansInHand, LiveIsIssued
  <2> QED BY <1>1, <1>2, <2>1 DEF IInv, TablesOK, TypeOK
<1> QED BY <1>1, <1>3, <1>4, <1>5, <1>6 DEF Calm

-----------------------------------------------------------------------------
(* Time passes, also during a pass: what has expired stays so.             *)
LEMMA TickKeeps ==
  ASSUME ConstantsAssumption, IInv, HeldWhileLive, PassCurrent, OnePass, Tick
  PROVE  Calm /\ PassCurrent' /\ OnePass'
<1>1. NothingGranted /\ UNCHANGED <<status, attempts, audit, pass>>
  BY TickStep DEF IInv, TablesOK, Tick
<1>2. \A l \in LeaseId \ FreshActive : lease'[l] = lease[l]
  BY DEF Tick
<1>3. \A l \in FreshActive : Live(l)
  BY DEF FreshActive, Live
<1>4. \A l \in LeaseId : Live(l)' => Live(l)
  BY <1>2, <1>3 DEF Live, Expired
<1>5. Calm
  BY <1>1, <1>4, HeldMeansInHand DEF Calm
<1>6. ASSUME NEW l \in LeaseId, Expired(l) PROVE lease'[l] = lease[l]
  BY <1>2, <1>6 DEF FreshActive, Expired
<1>7. \A t \in Task : LeasesOf(t)' = LeasesOf(t)
  BY <1>1, NothingGrantedKeepsOrder
<1>8. ASSUME NEW p \in Pass PROVE Current(pass[p])'
  <2>1. Current(pass[p]) /\ pass'[p] = pass[p]
    BY <1>1 DEF PassCurrent
  <2>2. pass[p].expired \subseteq LeaseId /\ pass[p].tasks \subseteq Task
    BY DEF IInv, TablesOK, TypeOK, PassState
  <2>3. ExpiredActive \subseteq ExpiredActive'
    BY <1>6 DEF ExpiredActive, Expired
  <2>4. \A l \in LeaseId : Expired(l) => Expired(l)'
    BY <1>6 DEF Expired
  <2>5. \A t \in pass[p].tasks : \A l \in LeasesOf(t)' : ~Live(l)'
    BY <1>4, <1>7, <2>1, <2>2 DEF Current, LeasesOf
  <2> QED BY <1>1, <2>1, <2>2, <2>3, <2>4, <2>5 DEF Current
<1> QED BY <1>1, <1>5, <1>8 DEF PassCurrent, OnePass

(* A pass that only reads, or forgets what it read. *)
LEMMA ReadingIsCalm ==
  ASSUME IInv, HeldWhileLive, UNCHANGED <<status, attempts, lease, audit>>
  PROVE  Calm
<1>1. NothingGranted
  BY SameLeases
<1>2. \A l \in LeaseId : Live(l)' => Live(l)
  BY DEF Live, Expired
<1> QED BY <1>1, <1>2, HeldMeansInHand DEF Calm

LEMMA ReadKeeps ==
  ASSUME SharedDb = FALSE, IInv, HeldWhileLive, PassCurrent, OnePass, NEW p \in Pass,
         \/ DetectStalledLeases(p) \/ ListExpiredLeases(p)
         \/ EvictionFails(p) \/ ListInterruptedTasks(p) \/ Crash(p)
         \/ \E l \in LeaseId : RecoveryThrows(p, l)
  PROVE  Calm /\ PassCurrent' /\ OnePass'
<1>1. UNCHANGED <<status, attempts, lease, audit>>
  BY DEF DetectStalledLeases, ListExpiredLeases, EvictionFails, ListInterruptedTasks,
     Crash, RecoveryThrows
<1>2. Calm
  BY <1>1, ReadingIsCalm
<1>3. /\ ExpiredActive \subseteq LeaseId
      /\ pass \in [Pass -> PassState] /\ pass[p] \in PassState
      /\ Current(pass[p])
  BY DEF ExpiredActive, IInv, TablesOK, TypeOK, PassCurrent
<1>4. \A q \in Pass \ {p} : pass[q].stage = "idle"
  BY OthersAreIdle DEF DetectStalledLeases, ListExpiredLeases, EvictionFails,
     ListInterruptedTasks, Crash, RecoveryThrows, Undisturbed
<1>5. ASSUME NEW s \in PassState, SetPass(p, s), Current(s)
      PROVE  PassCurrent' /\ OnePass'
  <2>1. pass'[p] = s BY <1>3, <1>5 DEF SetPass
  <2>2. Current(pass[p])'
    BY <1>1, <1>5, <2>1 DEF Current, ExpiredActive, Expired, Live, LeasesOf, Issued
  <2> QED BY <1>4, <1>5, <2>2, PassGoesOn DEF IInv, TablesOK
<1>6. CASE DetectStalledLeases(p)
  <2> DEFINE s == [Idle EXCEPT !.stage = "stalled", !.expired = ExpiredActive]
  <2>1. s \in PassState /\ Current(s)
    BY <1>3 DEF Idle, PassState, PassStage, Current
  <2> QED BY <1>2, <1>5, <1>6, <2>1 DEF DetectStalledLeases
<1>7. CASE ListExpiredLeases(p)
  <2> DEFINE s == [Idle EXCEPT !.stage = "evict", !.expired = ExpiredActive]
  <2>1. s \in PassState /\ Current(s)
    BY <1>3 DEF Idle, PassState, PassStage, Current
  <2> QED BY <1>2, <1>5, <1>7, <2>1 DEF ListExpiredLeases
<1>8. CASE EvictionFails(p)
  <2> DEFINE s == [pass[p] EXCEPT !.stage = "list"]
  <2>1. s \in PassState /\ s.stage = "list" /\ s.expired = pass[p].expired /\ s.tasks = pass[p].tasks
    BY <1>3 DEF PassState, PassStage
  <2>2. pass[p].tasks = {} /\ pass[p].expired \subseteq ExpiredActive
    BY <1>3, <1>8 DEF EvictionFails, Current
  <2>3. Current(s)
    BY <2>1, <2>2 DEF Current, ExpiredActive
  <2> QED BY <1>2, <1>5, <1>8, <2>1, <2>3 DEF EvictionFails
<1>9. CASE ListInterruptedTasks(p)
  <2> DEFINE s == [Idle EXCEPT !.stage = "reset",
                               !.tasks = {t \in Task : Interrupted(p, t)}]
  <2>1. s \in PassState /\ s.stage = "reset" /\ s.expired = {}
        /\ s.tasks = {t \in Task : Interrupted(p, t)}
    BY DEF Idle, PassState, PassStage
  <2>2. \A l \in pass[p].expired : Expired(l)
    BY <1>3, <1>9 DEF ListInterruptedTasks, Current
  <2>3. ASSUME NEW t \in Task, Interrupted(p, t)
        PROVE  /\ status[t] \in {"running", "claimed", "verifying"}
               /\ \A l \in LeasesOf(t) : ~Live(l)
    BY <2>2, <2>3 DEF Interrupted, ActiveOf, Live
  <2>4. Current(s)
    BY <2>1, <2>3 DEF Current
  <2> QED BY <1>2, <1>5, <1>9, <2>1, <2>4 DEF ListInterruptedTasks
<1>10. CASE Crash(p) \/ \E l \in LeaseId : RecoveryThrows(p, l)
  BY <1>2, <1>5, <1>10, IdleType, IdleIsCurrent DEF Crash, RecoveryThrows
<1> QED BY <1>6, <1>7, <1>8, <1>9, <1>10

(* A lease is taken back as it was listed, and it is still expired.        *)
LEMMA RecoverKeeps ==
  ASSUME IInv, HeldWhileLive, PassCurrent, OnePass, NEW p \in Pass, NEW l \in LeaseId,
         ReclaimAndRequeue(p, l) \/ FailStalled(p, l), NothingGranted
  PROVE  Calm /\ PassCurrent' /\ OnePass'
<1>1. /\ pass[p].stage = "stalled" /\ l \in pass[p].expired
      /\ SetPass(p, AfterLease(p, l))
      /\ \E s \in {"EXPIRED", "REVOKED"} : lease' = [lease EXCEPT ![l].status = s]
      /\ \E s \in {"queued", "failed"} :
           /\ CanMove(lease[l].task, s)
           /\ status' = [status EXCEPT ![lease[l].task] = s]
      /\ \E types \in SUBSET {"TASK_LEASE_EXPIRED", "TASK_RECLAIMED", "TASK_FAILED"} :
           Record(types, l)
  BY DEF ReclaimAndRequeue, FailStalled, RecordSome
<1>2. /\ Current(pass[p]) /\ pass[p] \in PassState
      /\ pass[p].expired \subseteq ExpiredActive
      /\ pass[p].tasks = {}
  BY <1>1 DEF PassCurrent, Current, IInv, TablesOK, TypeOK
<1>3. lease[l].status = "ACTIVE" /\ Issued(l)
  BY <1>1, <1>2 DEF ExpiredActive, Issued
<1>4. status[lease[l].task] # "completed"
  BY <1>1 DEF CanMove, VALID_TRANSITIONS
<1>5. \A t \in Task : status[t] = "completed" => status'[t] = "completed"
  BY <1>1, <1>4 DEF IInv, TablesOK, TypeOK
<1>6. /\ \A m \in LeaseId : Live(m)' => Live(m)
      /\ \A m \in LeaseId : Live(m)' => status'[lease[m].task] \in InHand
  BY <1>1, <1>3, LastLeaseEnds DEF LeaseStatus
<1>7. Calm
  BY <1>1, <1>5, <1>6 DEF Calm, Record
<1>8. \A m \in LeaseId \ {l} : lease'[m] = lease[m]
  BY <1>1 DEF IInv, TablesOK, TypeOK
<1>9. Current(pass[p])'
  <2>1. pass'[p] = AfterLease(p, l) BY <1>1 DEF SetPass, IInv, TablesOK, TypeOK
  <2>2. CASE pass[p].expired = {l}
    <3>1. pass'[p] = Idle BY <2>1, <2>2 DEF AfterLease
    <3> QED BY <3>1 DEF Current, Idle
  <2>3. CASE pass[p].expired # {l}
    <3>1. pass'[p] = [pass[p] EXCEPT !.expired = @ \ {l}] BY <2>1, <2>3 DEF AfterLease
    <3>2. /\ pass'[p].stage = "stalled" /\ pass'[p].tasks = {}
          /\ pass'[p].expired = pass[p].expired \ {l}
      BY <1>1, <1>2, <3>1 DEF PassState
    <3>3. pass'[p].expired \subseteq ExpiredActive'
      BY <1>2, <1>8, <3>2 DEF ExpiredActive, Expired
    <3> QED BY <3>2, <3>3 DEF Current
  <2> QED BY <2>2, <2>3
<1>10. AfterLease(p, l) \in PassState
  BY AfterLeaseType DEF IInv, TablesOK
<1>11. PassCurrent' /\ OnePass'
  BY <1>1, <1>9, <1>10, OthersAreIdle, PassGoesOn DEF IInv, TablesOK
<1> QED BY <1>7, <1>11

LEMMA EvictKeeps ==
  ASSUME IInv, HeldWhileLive, PassCurrent, OnePass, NEW p \in Pass, EvictLeases(p)
  PROVE  Calm /\ PassCurrent' /\ OnePass'
<1>1. NothingGranted
  BY EvictStep DEF IInv, TablesOK
<1>2. /\ \A l \in LeaseId \ pass[p].expired : lease'[l] = lease[l]
      /\ \A l \in pass[p].expired : lease'[l] = [lease[l] EXCEPT !.status = "EXPIRED"]
      /\ SetPass(p, [pass[p] EXCEPT !.stage = "list"])
      /\ pass[p].stage = "evict"
      /\ UNCHANGED <<status, attempts, audit>>
  BY DEF EvictLeases, IInv, TablesOK, TypeOK, PassState
<1>3. pass[p] \in PassState /\ Current(pass[p])
  BY DEF IInv, TablesOK, TypeOK, PassCurrent
<1>4. pass[p].expired \subseteq ExpiredActive /\ pass[p].tasks = {}
  BY <1>2, <1>3 DEF Current
<1>5. ASSUME NEW l \in pass[p].expired
      PROVE  lease'[l].status = "EXPIRED" /\ lease'[l].left = lease[l].left
  <2> DEFINE row == [lease[l] EXCEPT !.status = "EXPIRED"]
  <2>1. lease[l] \in LeaseRow
    BY <1>4, RowCases DEF IInv, TablesOK, ExpiredActive, LeaseStatus
  <2>2. row.status = "EXPIRED" /\ row.left = lease[l].left
    BY <2>1 DEF LeaseRow
  <2>3. lease'[l] = row
    BY <1>2
  <2> HIDE DEF row
  <2> QED BY <2>2, <2>3
<1>6. \A l \in LeaseId : Live(l)' => Live(l)
  BY <1>2, <1>5 DEF Live, Expired
<1>7. Calm
  BY <1>1, <1>2, <1>6, HeldMeansInHand DEF Calm
<1> DEFINE s == [pass[p] EXCEPT !.stage = "list"]
<1>8. s \in PassState /\ s.stage = "list" /\ s.expired = pass[p].expired /\ s.tasks = {}
  BY <1>3, <1>4 DEF PassState, PassStage
<1>9. pass'[p] = s
  BY <1>2 DEF SetPass, IInv, TablesOK, TypeOK
<1> HIDE DEF s
<1>10. Current(pass[p])'
  BY <1>4, <1>5, <1>8, <1>9 DEF Current, Expired, ExpiredActive
<1>11. SetPass(p, s)
  BY <1>2 DEF s
<1> QED BY <1>2, <1>7, <1>8, <1>10, <1>11, OthersAreIdle, PassGoesOn DEF IInv, TablesOK

(* The tasks that are reset are in nobody's hands and not decided. *)
LEMMA ResetKeeps ==
  ASSUME IInv, HeldWhileLive, PassCurrent, OnePass, NEW p \in Pass, ResetTasks(p)
  PROVE  Calm /\ PassCurrent' /\ OnePass'
<1>1. /\ pass[p].stage = "reset"
      /\ SetPass(p, Idle)
      /\ UNCHANGED <<attempts, lease, audit>>
      /\ \A t \in Task : status'[t] = IF t \in pass[p].tasks THEN "queued" ELSE status[t]
  BY DEF ResetTasks
<1>2. \A t \in pass[p].tasks : /\ status[t] \in {"running", "claimed", "verifying"}
                               /\ \A l \in LeasesOf(t) : ~Live(l)
  BY DEF PassCurrent, Current
<1>3. NothingGranted
  BY <1>1, SameLeases
<1>4. \A l \in LeaseId : Live(l)' => Live(l)
  BY <1>1 DEF Live, Expired
<1>5. ASSUME NEW l \in LeaseId, Live(l) PROVE status'[lease[l].task] \in InHand
  <2>1. lease[l].task \in Task /\ l \in LeasesOf(lease[l].task)
    BY <1>5, LiveIsIssued DEF LeasesOf
  <2>2. status'[lease[l].task] = status[lease[l].task]
    BY <1>1, <1>2, <1>5, <2>1
  <2> QED BY <1>5, <2>2, HeldMeansInHand
<1>6. \A t \in Task : status[t] = "completed" => status'[t] = "completed"
  BY <1>1, <1>2
<1>7. Calm
  BY <1>1, <1>3, <1>4, <1>5, <1>6 DEF Calm
<1>8. Current(pass[p])'
  <2>1. pass'[p] = Idle BY <1>1 DEF SetPass, IInv, TablesOK, TypeOK
  <2> QED BY <2>1 DEF Current, Idle
<1> QED BY <1>1, <1>7, <1>8, IdleType, OthersAreIdle, PassGoesOn DEF IInv, TablesOK

-----------------------------------------------------------------------------
(* The invariant of one process.                                           *)

(* Every step but a claim or a completion is calm. *)
LEMMA SingleStep ==
  ASSUME SharedDb = FALSE, SingleInv, Next
  PROVE  /\ SingleInv'
         /\ \/ Calm
            \/ \E t \in Task, l \in LeaseId : ClaimTask(t, l)
            \/ \E l \in LeaseId : CompleteTask(l)
         /\ \A t \in Task : status[t] = "completed" => status'[t] = "completed"
<1> USE ConstantsAssumption DEF SingleInv
<1>0. IInv'
  BY StepCases
<1>1. ASSUME Undisturbed, UNCHANGED pass PROVE PassCurrent' /\ OnePass'
  BY <1>1, NoPass
<1>2. ASSUME Calm
      PROVE  /\ HeldWhileLive' /\ CompletedOnce'
             /\ \A t \in Task : status[t] = "completed" => status'[t] = "completed"
  BY <1>2, CalmKeeps DEF Calm
<1>3. ASSUME NEW t \in Task, NEW l \in LeaseId, ClaimTask(t, l)
      PROVE  /\ SingleInv'
             /\ \A u \in Task : status[u] = "completed" => status'[u] = "completed"
  <2>1. HeldWhileLive' /\ CompletedOnce' BY <1>0, <1>3, ClaimKeepsHeld
  <2>2. PassCurrent' /\ OnePass' BY <1>1, <1>3 DEF ClaimTask
  <2>3. \A u \in Task : status[u] = "completed" => status'[u] = "completed"
    BY <1>3 DEF ClaimTask, Claimable, IInv, TablesOK, TypeOK
  <2> QED BY <1>0, <2>1, <2>2, <2>3
<1>4. ASSUME NEW l \in LeaseId, CompleteTask(l)
      PROVE  /\ SingleInv'
             /\ \A u \in Task : status[u] = "completed" => status'[u] = "completed"
  <2>1. PassCurrent' /\ OnePass' BY <1>1, <1>4 DEF CompleteTask, Finish
  <2> QED BY <1>0, <1>4, <2>1, CompleteKeepsHeld
<1>5. ASSUME NEW l \in LeaseId,
             Renew(l) \/ LateHeartbeat(l) \/ FailTask(l) \/ ReleaseTask(l)
      PROVE  Calm /\ PassCurrent' /\ OnePass'
  <2>1. Undisturbed /\ UNCHANGED pass
    BY <1>5 DEF Renew, LateHeartbeat, FailTask, ReleaseTask, Finish
  <2> QED BY <1>1, <1>5, <2>1, RenewIsCalm, LateHeartbeatIsCalm, GiveBackIsCalm
<1>6. ASSUME NEW t \in Task, NEW s \in Moves, UpdateStatus(t, s)
      PROVE  Calm /\ PassCurrent' /\ OnePass'
  BY <1>1, <1>6, MoveIsCalm DEF UpdateStatus
<1>7. ASSUME NEW p \in Pass, NEW l \in LeaseId, ReclaimAndRequeue(p, l) \/ FailStalled(p, l)
      PROVE  Calm /\ PassCurrent' /\ OnePass'
  <2>1. NothingGranted BY <1>7, RecoverLeaseStep DEF IInv, TablesOK, RecoverLease
  <2> QED BY <1>7, <2>1, RecoverKeeps
<1>8. ASSUME NEW p \in Pass,
             \/ DetectStalledLeases(p) \/ ListExpiredLeases(p)
             \/ EvictionFails(p) \/ ListInterruptedTasks(p) \/ Crash(p)
             \/ \E l \in LeaseId : RecoveryThrows(p, l)
      PROVE  Calm /\ PassCurrent' /\ OnePass'
  BY <1>8, ReadKeeps
<1>9. ASSUME NEW p \in Pass, EvictLeases(p) \/ ResetTasks(p)
      PROVE  Calm /\ PassCurrent' /\ OnePass'
  BY <1>9, EvictKeeps, ResetKeeps
<1>10. ASSUME Tick PROVE Calm /\ PassCurrent' /\ OnePass'
  BY <1>10, TickKeeps
<1>11. \/ Calm /\ PassCurrent' /\ OnePass'
       \/ \E t \in Task, l \in LeaseId : ClaimTask(t, l)
       \/ \E l \in LeaseId : CompleteTask(l)
  BY <1>5, <1>6, <1>7, <1>8, <1>9, <1>10
     DEF Next, Worker, StalledRecovery, RecoverLease, CrashRecovery
<1> QED BY <1>0, <1>2, <1>3, <1>4, <1>11

LEMMA SingleInit == Init => SingleInv
<1> SUFFICES ASSUME Init PROVE SingleInv
  OBVIOUS
<1>1. IInv
  BY InitIInv, ConstantsAssumption
<1>2. \A l \in LeaseId : ~Issued(l) /\ ~Live(l)
  BY DEF Init, Issued, Live, NoRow
<1>3. PassCurrent /\ OnePass
  BY IdleIsCurrent DEF PassCurrent, OnePass, Init, Idle
<1>4. CompletedOnce
  BY <1>2 DEF CompletedOnce, CompletionsOf, LeasesOf, Init
<1> QED BY <1>1, <1>2, <1>3, <1>4 DEF SingleInv, HeldWhileLive

LEMMA SingleStutter ==
  ASSUME SingleInv, UNCHANGED vars
  PROVE  SingleInv'
<1>1. IInv'
  BY StutterStep DEF SingleInv
<1>2. UNCHANGED <<status, lease, audit, pass>>
  BY DEF vars
<1>3. HeldWhileLive' /\ OnePass'
  BY <1>2 DEF SingleInv, OnePass, HeldWhileLive, Live, Expired
<1>4. PassCurrent'
  BY <1>2 DEF SingleInv, PassCurrent, Current, ExpiredActive, Expired, Live, LeasesOf, Issued
<1>5. CompletedOnce'
  <2>1. \A t \in Task : CompletionsOf(t)' = CompletionsOf(t)
    BY <1>2 DEF CompletionsOf, LeasesOf, Issued
  <2> QED BY <1>2, <2>1 DEF SingleInv, CompletedOnce, Issued
<1> QED BY <1>1, <1>3, <1>4, <1>5 DEF SingleInv

THEOREM SingleInvariance ==
  ASSUME SharedDb = FALSE
  PROVE  Spec => []SingleInv
<1>1. Init => SingleInv
  BY SingleInit
<1>2. SingleInv /\ [Next]_vars => SingleInv'
  BY SingleStep, SingleStutter
<1> QED BY <1>1, <1>2, PTL DEF Spec

(* With one process, the task of a live lease is neither offered to other  *)
(* workers nor decided, whatever passes ran before.                        *)
THEOREM LiveLeaseKeepsTask ==
  ASSUME SharedDb = FALSE
  PROVE  Spec => []HeldWhileLive
BY SingleInvariance, PTL DEF SingleInv

(* With one process, no late call and no recovery pass reopens a task.     *)
THEOREM CompletedStays ==
  ASSUME SharedDb = FALSE
  PROVE  Spec => CompletedIsFinal
<1>1. SingleInv /\ [Next]_vars =>
        \/ \A t \in Task : status[t] = "completed" => status'[t] = "completed"
        \/ UNCHANGED vars
  BY SingleStep
<1> QED BY <1>1, SingleInvariance, PTL DEF Spec, CompletedIsFinal

-----------------------------------------------------------------------------
(* The leases implement FencedOwnership.                                   *)

(* The generation that a set of rows stands for, before and after a step.  *)
LEMMA SameGeneration ==
  ASSUME NEW S, \A l \in S : lease'[l].generation = lease[l].generation
  PROVE  (IF S = {} THEN 0 ELSE lease'[CHOOSE l \in S : TRUE].generation) = GenerationOf(S)
BY DEF GenerationOf

LEMMA GenerationOfOne ==
  ASSUME NEW l
  PROVE  GenerationOf({l}) = lease[l].generation
<1>1. (CHOOSE m \in {l} : TRUE) = l
  OBVIOUS
<1> QED BY <1>1 DEF GenerationOf

LEMMA OneActive ==
  ASSUME IInv, NEW l \in LeaseId, lease[l].status = "ACTIVE"
  PROVE  ActiveOf(lease[l].task) = {l} /\ lease[l].generation \in Nat \ {0}
<1>1. Issued(l)
  BY DEF Issued
<1>2. l \in ActiveOf(lease[l].task)
  BY <1>1 DEF ActiveOf, LeasesOf
<1>3. \A m \in ActiveOf(lease[l].task) : m = l
  BY OneIsActive DEF OneActiveLease, ActiveOf, LeasesOf
<1>4. lease[l].generation \in Nat \ {0}
  BY <1>1, RowCases DEF IInv, TablesOK, LeaseRow
<1> QED BY <1>2, <1>3, <1>4

(* A step that grants nothing leaves the tokens. *)
LEMMA TokensKept ==
  ASSUME NewestExists, NothingGranted, NEW t \in Task
  PROVE  LatestGeneration(t)' = LatestGeneration(t)
<1>1. /\ LeasesOf(t)' = LeasesOf(t)
      /\ Newest(LeasesOf(t))' = Newest(LeasesOf(t))
  BY NothingGrantedKeepsOrder
<1>2. CASE LeasesOf(t) = {}
  BY <1>1, <1>2 DEF LatestGeneration
<1>3. CASE LeasesOf(t) # {}
  <2> DEFINE l == CHOOSE l \in Newest(LeasesOf(t)) : TRUE
  <2>1. l \in Newest(LeasesOf(t))
    BY <1>3 DEF NewestExists
  <2>2. l \in LeaseId /\ Issued(l)
    BY <2>1 DEF Newest, LeasesOf
  <2>3. LatestGeneration(t)' = lease'[l].generation /\ LatestGeneration(t) = lease[l].generation
    BY <1>1, <1>3 DEF LatestGeneration
  <2> HIDE DEF l
  <2> QED BY <2>2, <2>3 DEF NothingGranted
<1> QED BY <1>2, <1>3

(* A calm step deposes those whose lease ended. *)
LEMMA CalmDeposes ==
  ASSUME SingleInv, Calm
  PROVE  \E S \in SUBSET Task : Ownership!Depose(S)
<1> DEFINE S == {t \in Task : ActiveOf(t)' = {}}
<1>1. ASSUME NEW t \in Task PROVE LatestGeneration(t)' = LatestGeneration(t)
  BY TokensKept DEF SingleInv, IInv, TablesOK, Calm
<1>2. ASSUME NEW t \in Task PROVE GenerationOf(CompletionsOf(t))' = GenerationOf(CompletionsOf(t))
  <2>1. CompletionsOf(t)' = CompletionsOf(t)
    BY DEF Calm, NothingGranted, CompletionsOf, LeasesOf
  <2>2. \A l \in CompletionsOf(t) : lease'[l].generation = lease[l].generation
    BY DEF Calm, NothingGranted, CompletionsOf, LeasesOf
  <2> QED BY <2>1, <2>2, SameGeneration DEF GenerationOf
<1>3. ASSUME NEW t \in Task
      PROVE  GenerationOf(ActiveOf(t))' = IF t \in S THEN 0 ELSE GenerationOf(ActiveOf(t))
  <2>1. CASE ActiveOf(t)' = {}
    BY <2>1 DEF GenerationOf
  <2>2. CASE ActiveOf(t)' # {}
    <3>1. ActiveOf(t)' \subseteq ActiveOf(t)
      BY DEF Calm, NothingGranted, ActiveOf, LeasesOf
    <3>2. PICK l \in ActiveOf(t)' : TRUE BY <2>2
    <3>3. l \in LeaseId /\ lease[l].status = "ACTIVE" /\ lease[l].task = t /\ Issued(l)
      BY <3>1 DEF ActiveOf, LeasesOf
    <3>4. ActiveOf(t) = {l} BY <3>3, OneActive DEF SingleInv
    <3>5. ActiveOf(t)' = ActiveOf(t) BY <3>1, <3>2, <3>4
    <3>6. \A m \in ActiveOf(t) : lease'[m].generation = lease[m].generation
      BY DEF Calm, NothingGranted, ActiveOf, LeasesOf
    <3>7. GenerationOf(ActiveOf(t))' = GenerationOf(ActiveOf(t))
      BY <3>5, <3>6, SameGeneration DEF GenerationOf
    <3> QED BY <2>2, <3>7
  <2> QED BY <2>1, <2>2
<1> QED BY <1>1, <1>2, <1>3 DEF Ownership!Depose

(* A completion is one under the token in force. *)
LEMMA CompletionCompletes ==
  ASSUME SingleInv, NEW l \in LeaseId, CompleteTask(l), NEW t \in Task, t = lease[l].task
  PROVE  Ownership!Complete(t)
<1> USE DEF SingleInv
<1>1. /\ Live(l) /\ Issued(l) /\ lease[l].status = "ACTIVE"
      /\ lease' = [lease EXCEPT ![l].status = "RELEASED"]
      /\ audit' = audit \cup {<<e, l>> : e \in {"TASK_COMPLETED", "TASK_RELEASED"}}
  BY DEF CompleteTask, Finish, VerifyOwnership, FindActive, Newest, ActiveOf, Live, Record
<1>2. NothingGranted
  BY FinishStep DEF IInv, TablesOK, CompleteTask, TaskStatus, EventType
<1>3. status[t] # "completed"
  BY <1>1 DEF HeldWhileLive
<1>4. CompletionsOf(t) = {} /\ GenerationOf(CompletionsOf(t)) = 0
  BY <1>3 DEF CompletedOnce, GenerationOf
<1>5. ActiveOf(t) = {l} /\ GenerationOf(ActiveOf(t)) = lease[l].generation
      /\ lease[l].generation # 0
  BY <1>1, OneActive, GenerationOfOne
<1>6. lease'[l].generation = lease[l].generation /\ lease'[l].task = t /\ Issued(l)'
  BY <1>1, <1>2 DEF NothingGranted
<1>7. ~Live(l)' /\ lease'[l].status # "ACTIVE" /\ \A m \in LeaseId \ {l} : lease'[m] = lease[m]
  <2> DEFINE row == [lease[l] EXCEPT !.status = "RELEASED"]
  <2>1. row.status = "RELEASED" BY <1>1, RowUpdate DEF IInv, TablesOK, LeaseStatus
  <2>2. lease'[l] = row BY <1>1 DEF IInv, TablesOK, TypeOK
  <2> HIDE DEF row
  <2> QED BY <1>1, <2>1, <2>2, Ended DEF LeaseStatus
<1>8. \A u \in Task : LatestGeneration(u)' = LatestGeneration(u)
  BY <1>2, TokensKept DEF IInv, TablesOK
<1>9. CompletionsOf(t)' = {l}
  <2>1. l \in CompletionsOf(t)'
    BY <1>1, <1>6 DEF CompletionsOf, LeasesOf
  <2>2. ASSUME NEW m \in CompletionsOf(t)', m # l PROVE FALSE
    <3>1. m \in CompletionsOf(t)
      BY <1>1, <1>2, <2>2 DEF CompletionsOf, LeasesOf, NothingGranted
    <3> QED BY <1>4, <3>1
  <2> QED BY <2>1, <2>2
<1>10. GenerationOf(CompletionsOf(t))' = lease[l].generation
  <2>1. (CHOOSE m \in {l} : TRUE) = l OBVIOUS
  <2>2. GenerationOf(CompletionsOf(t))' = lease'[l].generation
    BY <1>9, <2>1 DEF GenerationOf
  <2> QED BY <1>6, <2>2
<1>11. ActiveOf(t)' = {} /\ GenerationOf(ActiveOf(t))' = 0
  <2>1. \A m \in ActiveOf(t)' : m \in ActiveOf(t) /\ m # l
    BY <1>2, <1>7 DEF ActiveOf, LeasesOf, NothingGranted
  <2>2. ActiveOf(t)' = {} BY <1>5, <2>1
  <2> QED BY <2>2 DEF GenerationOf
<1>12. ASSUME NEW u \in Task, u # t
       PROVE  /\ GenerationOf(CompletionsOf(u))' = GenerationOf(CompletionsOf(u))
              /\ GenerationOf(ActiveOf(u))' = GenerationOf(ActiveOf(u))
  <2>1. CompletionsOf(u)' = CompletionsOf(u)
    BY <1>1, <1>2, <1>6, <1>12 DEF CompletionsOf, LeasesOf, NothingGranted
  <2>2. ActiveOf(u)' = ActiveOf(u)
    BY <1>6, <1>7, <1>12 DEF ActiveOf, LeasesOf, Issued
  <2>3. \A m \in CompletionsOf(u) \cup ActiveOf(u) : lease'[m].generation = lease[m].generation
    BY <1>2 DEF CompletionsOf, ActiveOf, LeasesOf, NothingGranted
  <2> QED BY <2>1, <2>2, <2>3, SameGeneration DEF GenerationOf
<1> QED BY <1>4, <1>5, <1>8, <1>10, <1>11, <1>12 DEF Ownership!Complete

(* A claim grants the next token. *)
LEMMA ClaimGrants ==
  ASSUME SingleInv, SingleInv', NEW t \in Task, NEW n \in LeaseId, ClaimTask(t, n)
  PROVE  Ownership!Grant(t)
<1> USE DEF SingleInv
<1>1. /\ ~Issued(n) /\ Issued(n)'
      /\ lease'[n].status = "ACTIVE" /\ lease'[n].task = t
      /\ lease'[n].generation = LatestGeneration(t) + 1
      /\ \A l \in LeaseId \ {n} :
           /\ Issued(l)' <=> Issued(l)
           /\ Issued(l) => /\ lease'[l].task = lease[l].task
                           /\ lease'[l].generation = lease[l].generation
           /\ \/ lease'[l].status = lease[l].status
              \/ lease'[l].status = "EXPIRED" /\ lease[l].task = t /\ Issued(l)
  BY ClaimRows, ConstantsAssumption DEF IInv, TablesOK
<1>2. /\ status[t] # "completed"
      /\ audit' = audit \cup {<<e, n>> : e \in {"TASK_CLAIMED", "TASK_LEASE_ACQUIRED"}}
  BY DEF ClaimTask, Claimable, Record
<1>3. CompletionsOf(t) = {} /\ GenerationOf(CompletionsOf(t)) = 0
  BY <1>2 DEF CompletedOnce, GenerationOf
<1>4. LatestGeneration(t) \in Nat
      /\ \A m \in LeasesOf(t) : lease[m].generation <= LatestGeneration(t)
  BY LatestGenerationIsNewest DEF IInv, TablesOK
<1>5. LatestGeneration(t)' = LatestGeneration(t) + 1
  <2>1. n \in LeasesOf(t)' BY <1>1 DEF LeasesOf
  <2> DEFINE c == CHOOSE c \in Newest(LeasesOf(t))' : TRUE
  <2>2. c \in Newest(LeasesOf(t))' BY <2>1 DEF IInv, TablesOK, NewestExists
  <2>3. LatestGeneration(t)' = lease'[c].generation BY <2>1 DEF LatestGeneration
  <2> HIDE DEF c
  <2>4. c \in LeasesOf(t)' /\ lease'[n].generation <= lease'[c].generation
    BY <2>1, <2>2 DEF Newest
  <2>5. CASE c = n BY <1>1, <2>3, <2>5
  <2>6. CASE c # n
    <3>1. c \in LeasesOf(t) /\ lease'[c].generation = lease[c].generation
      BY <1>1, <2>4, <2>6 DEF LeasesOf
    <3>2. lease[c].generation \in Nat BY <3>1, RowCases DEF IInv, TablesOK, LeasesOf, LeaseRow
    <3> QED BY <1>1, <1>4, <2>4, <3>1, <3>2
  <2> QED BY <2>5, <2>6
<1>6. GenerationOf(ActiveOf(t))' = LatestGeneration(t) + 1
  <2>1. ActiveOf(t)' = {n}
    <3>1. n \in ActiveOf(t)' BY <1>1 DEF ActiveOf, LeasesOf
    <3>2. ASSUME NEW m \in ActiveOf(t)', m # n PROVE FALSE
      <4>1. m \in LeaseId /\ lease'[m].status = "ACTIVE" /\ lease'[m].task = t /\ Issued(m)'
        BY DEF ActiveOf, LeasesOf
      <4>2. lease'[m].generation \in Nat /\ lease'[n].generation \in Nat
        BY <1>1, <4>1, RowCases DEF IInv, TablesOK, TypeOK, Issued, LeaseRow, NoRow
      <4> QED BY <1>1, <3>2, <4>1, <4>2 DEF IInv, TablesOK, ActiveIsNewest
    <3> QED BY <3>1, <3>2
  <2>2. (CHOOSE m \in {n} : TRUE) = n OBVIOUS
  <2> QED BY <1>1, <2>1, <2>2 DEF GenerationOf
<1>7. ASSUME NEW u \in Task
      PROVE  GenerationOf(CompletionsOf(u))' = GenerationOf(CompletionsOf(u))
  <2>1. <<"TASK_COMPLETED", n>> \notin audit' BY <1>1, <1>2 DEF CompletedOnce
  <2>2. CompletionsOf(u)' = CompletionsOf(u)
    BY <1>1, <1>2, <2>1 DEF CompletionsOf, LeasesOf
  <2>3. \A m \in CompletionsOf(u) : lease'[m].generation = lease[m].generation
    BY <1>1 DEF CompletionsOf, LeasesOf
  <2> QED BY <2>2, <2>3, SameGeneration DEF GenerationOf
<1>8. ASSUME NEW u \in Task, u # t
      PROVE  /\ LatestGeneration(u)' = LatestGeneration(u)
             /\ GenerationOf(ActiveOf(u))' = GenerationOf(ActiveOf(u))
  <2>1. /\ LeasesOf(u)' = LeasesOf(u)
        /\ \A m \in LeasesOf(u) : m \in LeaseId /\ lease'[m].generation = lease[m].generation
    BY <1>1, <1>8 DEF LeasesOf
  <2>2. Newest(LeasesOf(u))' = Newest(LeasesOf(u))
    BY <2>1 DEF Newest
  <2>3. LatestGeneration(u)' = LatestGeneration(u)
    <3>1. CASE LeasesOf(u) = {} BY <2>1, <3>1 DEF LatestGeneration
    <3>2. CASE LeasesOf(u) # {}
      <4> DEFINE c == CHOOSE c \in Newest(LeasesOf(u)) : TRUE
      <4>1. c \in LeasesOf(u) BY <3>2 DEF IInv, TablesOK, NewestExists, Newest
      <4>2. LatestGeneration(u)' = lease'[c].generation /\ LatestGeneration(u) = lease[c].generation
        BY <2>1, <2>2, <3>2 DEF LatestGeneration
      <4> HIDE DEF c
      <4> QED BY <2>1, <4>1, <4>2
    <3> QED BY <3>1, <3>2
  <2>4. ActiveOf(u)' = ActiveOf(u)
    <3>1. \A m \in LeasesOf(u) : lease'[m].status = lease[m].status
      BY <1>1, <1>8 DEF LeasesOf
    <3> QED BY <2>1, <3>1 DEF ActiveOf
  <2>5. GenerationOf(ActiveOf(u))' = GenerationOf(ActiveOf(u))
    <3>1. \A m \in ActiveOf(u) : lease'[m].generation = lease[m].generation
      BY <2>1 DEF ActiveOf
    <3> QED BY <2>4, <3>1, SameGeneration DEF GenerationOf
  <2> QED BY <2>3, <2>5
<1> QED BY <1>3, <1>5, <1>6, <1>7, <1>8 DEF Ownership!Grant

LEMMA OwnershipInit == Init => Ownership!Init
<1> SUFFICES ASSUME Init PROVE Ownership!Init
  OBVIOUS
<1>1. \A t \in Task : LeasesOf(t) = {}
  BY DEF Init, LeasesOf, Issued, NoRow
<1>2. \A t \in Task : ActiveOf(t) = {} /\ CompletionsOf(t) = {}
  BY <1>1 DEF ActiveOf, CompletionsOf
<1> QED BY <1>1, <1>2 DEF Ownership!Init, LatestGeneration, GenerationOf

LEMMA OwnershipStutter ==
  ASSUME UNCHANGED vars
  PROVE  UNCHANGED Ownership!vars
<1>1. UNCHANGED <<lease, audit>>
  BY DEF vars
<1>2. ASSUME NEW t \in Task
      PROVE  /\ LeasesOf(t)' = LeasesOf(t)
             /\ ActiveOf(t)' = ActiveOf(t)
             /\ CompletionsOf(t)' = CompletionsOf(t)
  BY <1>1 DEF LeasesOf, ActiveOf, CompletionsOf, Issued
<1>3. ASSUME NEW t \in Task PROVE LatestGeneration(t)' = LatestGeneration(t)
  <2>1. Newest(LeasesOf(t))' = Newest(LeasesOf(t))
    BY <1>1, <1>2 DEF Newest
  <2> QED BY <1>1, <1>2, <2>1 DEF LatestGeneration
<1>4. ASSUME NEW t \in Task
      PROVE  /\ GenerationOf(ActiveOf(t))' = GenerationOf(ActiveOf(t))
             /\ GenerationOf(CompletionsOf(t))' = GenerationOf(CompletionsOf(t))
  <2>1. \A l \in ActiveOf(t) \cup CompletionsOf(t) :
          lease'[l].generation = lease[l].generation
    BY <1>1
  <2> QED BY <1>2, <2>1, SameGeneration DEF GenerationOf
<1> QED BY <1>3, <1>4 DEF Ownership!vars

LEMMA OwnershipStep ==
  ASSUME SharedDb = FALSE, SingleInv, Next
  PROVE  Ownership!Next
<1>1. SingleInv'
  BY SingleStep
<1>2. CASE Calm
  BY <1>2, CalmDeposes DEF Ownership!Next
<1>3. ASSUME NEW t \in Task, NEW n \in LeaseId, ClaimTask(t, n) PROVE Ownership!Next
  BY <1>1, <1>3, ClaimGrants DEF Ownership!Next
<1>4. ASSUME NEW l \in LeaseId, CompleteTask(l) PROVE Ownership!Next
  <2>1. Live(l)
    BY <1>4 DEF CompleteTask, Finish, VerifyOwnership, FindActive, Newest, ActiveOf, Live
  <2>2. lease[l].task \in Task
    BY <2>1, LiveIsIssued DEF SingleInv
  <2> QED BY <1>4, <2>2, CompletionCompletes DEF Ownership!Next
<1> QED BY <1>2, <1>3, <1>4, SingleStep

(* With one process, the leases carry out what FencedOwnership promises:   *)
(* tokens grow one by one, one is in force, and a task is completed once,  *)
(* under the token in force.                                               *)
THEOREM OwnershipIsFenced ==
  ASSUME SharedDb = FALSE
  PROVE  Spec => ImplementsFencedOwnership
<1>1. SingleInv /\ [Next]_vars => [Ownership!Next]_(Ownership!vars)
  BY OwnershipStep, OwnershipStutter
<1> QED BY <1>1, OwnershipInit, SingleInvariance, PTL
        DEF Spec, ImplementsFencedOwnership, Ownership!Spec
=============================================================================
