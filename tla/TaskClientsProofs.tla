------------------------- MODULE TaskClientsProofs -------------------------
(***************************************************************************)
(* Proofs about what is built on TaskLease: handoffs, remote dispatches    *)
(* and the resuming of a session, for every value of the constants.        *)
(*                                                                         *)
(* A handoff counts on from the lease it was prepared under and not from   *)
(* the newest one, so ActiveIsNewest is lost and with it IInv; TablesOK is *)
(* not, and is all that is used here of TaskLease.  What is said of the    *)
(* types, and that the source of an accepted handoff is fenced, holds for  *)
(* any number of processes; that a handoff gives exactly one lease away    *)
(* needs a single one.                                                     *)
(*                                                                         *)
(* Each step of a remote call is a step of TaskLease or leaves the tasks   *)
(* and leases alone, so all that is proved about task claims holds with    *)
(* remote workers too, for one or several processes.  On top of that rest  *)
(* the invariants of the dispatches: a lease that is no longer live never  *)
(* comes back to life, so what a call read of it before stays true until   *)
(* the call writes.                                                        *)
(***************************************************************************)
EXTENDS TaskHandoff, RemoteDispatch, SessionResume, TaskLeaseProofs,
        FiniteSetTheorems

-----------------------------------------------------------------------------
(* Resuming a session. *)

ResumeInv ==
  /\ TablesOK
  /\ ResumeTypeOK

LEMMA ResumedType ==
  /\ Resumed.between = {}
  /\ Resumed \in [tasks : SUBSET Task, between : SUBSET Task]
BY DEF Resumed

LEMMA DroppedType ==
  ASSUME ResumeInv, NEW t \in Task
  PROVE  /\ Dropped(t).between = {}
         /\ Dropped(t) \in [tasks : SUBSET Task, between : SUBSET Task]
BY DEF Dropped, ResumeInv, ResumeTypeOK

(* Only the status of a task is written, or nothing.                       *)
LEMMA MoveKeepsTables ==
  ASSUME TablesOK, NEW t \in Task, NEW s \in TaskStatus,
         status' = status \/ status' = [status EXCEPT ![t] = s],
         UNCHANGED <<attempts, lease, audit, pass>>
  PROVE  TablesOK'
<1>1. status' \in [Task -> TaskStatus]
  BY DEF TablesOK, TypeOK
<1>2. TypeOK' /\ PassKnown'
  BY <1>1 DEF TablesOK, TypeOK, PassKnown, Issued
<1> QED BY <1>2, SameLeases, KeepTables

LEMMA SmallSets ==
  /\ Cardinality({}) <= 1
  /\ \A t : Cardinality({t}) <= 1
BY FS_EmptySet, FS_Singleton

LEMMA ResumeStep ==
  ASSUME ConstantsAssumption, ResumeInv, [ResumeNext]_resumeVars
  PROVE  ResumeInv'
<1>1. CASE UNCHANGED resumeVars
  BY <1>1, TablesStutter DEF resumeVars, vars, ResumeInv, ResumeTypeOK, TablesOK
<1>2. CASE Next /\ UNCHANGED resume
  <2>1. TablesOK'
    BY <1>2, TablesStep DEF ResumeInv
  <2> QED BY <1>2, <2>1 DEF ResumeInv, ResumeTypeOK, TablesOK
<1>3. ASSUME UNCHANGED vars,
             resume' \in [tasks : SUBSET Task, between : SUBSET Task],
             resume'.between = {}
      PROVE  ResumeInv'
  <2>1. TablesOK'
    BY <1>3, TablesStutter DEF ResumeInv
  <2> QED BY <1>3, <2>1, SmallSets DEF ResumeInv, ResumeTypeOK, TablesOK
<1>4. CASE ListSessionTasks
  BY <1>3, <1>4, ResumedType DEF ListSessionTasks, Resumed
<1>5. CASE CrashResume
  BY <1>3, <1>5, ResumedType DEF CrashResume
<1>6. ASSUME NEW t \in Task, BlockTask(t) PROVE ResumeInv'
  <2>1. TablesOK'
    BY <1>6, MoveKeepsTables DEF BlockTask, ResumeInv, TaskStatus
  <2>2. /\ resume' \in [tasks : SUBSET Task, between : SUBSET Task]
        /\ resume'.between = {} \/ resume'.between = {t}
        /\ resume'.between \subseteq resume'.tasks
    BY <1>6, DroppedType DEF BlockTask, ResumeInv, ResumeTypeOK
  <2> QED BY <2>1, <2>2, SmallSets DEF ResumeInv, ResumeTypeOK, TablesOK
<1>7. ASSUME NEW t \in Task, QueueTask(t) PROVE ResumeInv'
  <2>1. TablesOK'
    BY <1>7, MoveKeepsTables DEF QueueTask, ResumeInv, TaskStatus
  <2> QED BY <1>7, <2>1, DroppedType, SmallSets
          DEF QueueTask, ResumeInv, ResumeTypeOK, TablesOK
<1> QED BY <1>1, <1>2, <1>4, <1>5, <1>6, <1>7 DEF ResumeNext, Restore

(* What a resume remembers is always well formed, and at most one task is   *)
(* on its way from "blocked" to "queued".                                  *)
LEMMA ResumeInvariance == ResumeSpec => []ResumeInv
<1>1. ResumeInit => ResumeInv
  <2> SUFFICES ASSUME ResumeInit PROVE ResumeInv
    OBVIOUS
  <2>1. IInv
    BY InitIInv, ConstantsAssumption DEF ResumeInit
  <2> QED BY <2>1, ResumedType, SmallSets
          DEF ResumeInit, ResumeInv, ResumeTypeOK, IInv, TablesOK
<1>2. ResumeInv /\ [ResumeNext]_resumeVars => ResumeInv'
  BY ResumeStep, ConstantsAssumption
<1> QED BY <1>1, <1>2, PTL DEF ResumeSpec

(* The tables keep their types, and what a resume remembers is well formed: *)
(* at most one task is on its way from "blocked" to "queued".  For one or   *)
(* several processes.                                                      *)
THEOREM ResumeTypes == ResumeSpec => []ResumeTypeOK
<1>1. ResumeInv => ResumeTypeOK
  BY DEF ResumeInv
<1> QED BY <1>1, ResumeInvariance, PTL

(* A completed task is only ever reset by a recovery pass that listed it.  *)
LEMMA OnlyAPassTakesBack ==
  ASSUME ConstantsAssumption, ResumeInv, [ResumeNext]_resumeVars,
         NEW t \in Task, status[t] = "completed"
  PROVE  \/ status'[t] = "completed"
         \/ \E p \in Pass : ResetTasks(p) /\ t \in pass[p].tasks
<1>1. ASSUME NEW u \in Task, NEW s, CanMove(u, s), status' = [status EXCEPT ![u] = s]
      PROVE  status'[t] = "completed"
  <2>1. CASE u # t
    BY <1>1, <2>1 DEF ResumeInv, TablesOK, TypeOK
  <2>2. CASE u = t
    BY <1>1, <2>2 DEF CanMove, VALID_TRANSITIONS, ResumeInv, TablesOK, TypeOK
  <2> QED BY <2>1, <2>2
<1>2. CASE Next
  <2>1. ASSUME NEW l \in LeaseId, Worker(l) PROVE status'[t] = "completed"
    <3>1. CASE \E u \in Task : ClaimTask(u, l)
      BY <3>1 DEF ClaimTask, Claimable, ResumeInv, TablesOK, TypeOK
    <3>2. CASE Renew(l)
      BY <3>2 DEF Renew
    <3>3. CASE LateHeartbeat(l) \/ CompleteTask(l) \/ FailTask(l) \/ ReleaseTask(l)
      <4>1. lease[l].task \in Task
        BY <3>3, RowCases DEF LateHeartbeat, CompleteTask, FailTask, ReleaseTask,
           Finish, VerifyOwnership, ExpiredActive, Issued, ResumeInv, TablesOK,
           TypeOK, LeaseRow, NoRow
      <4> QED BY <1>1, <3>3, <4>1
              DEF LateHeartbeat, CompleteTask, FailTask, ReleaseTask, Finish
    <3> QED BY <2>1, <3>1, <3>2, <3>3 DEF Worker
  <2>2. ASSUME NEW u \in Task, NEW s \in Moves, UpdateStatus(u, s)
        PROVE  status'[t] = "completed"
    BY <1>1, <2>2 DEF UpdateStatus
  <2>3. ASSUME NEW p \in Pass, StalledRecovery(p) PROVE status'[t] = "completed"
    <3>1. CASE DetectStalledLeases(p)
      BY <3>1 DEF DetectStalledLeases
    <3>2. ASSUME NEW l \in LeaseId, RecoverLease(p, l) PROVE status'[t] = "completed"
      <4>1. CASE RecoveryThrows(p, l)
        BY <4>1 DEF RecoveryThrows
      <4>2. CASE ReclaimAndRequeue(p, l) \/ FailStalled(p, l)
        <5>1. lease[l].task \in Task
          BY <4>2, RowCases DEF ReclaimAndRequeue, FailStalled, PassKnown, Issued,
             ResumeInv, TablesOK, TypeOK, LeaseRow, NoRow
        <5> QED BY <1>1, <4>2, <5>1 DEF ReclaimAndRequeue, FailStalled
      <4> QED BY <3>2, <4>1, <4>2 DEF RecoverLease
    <3> QED BY <2>3, <3>1, <3>2 DEF StalledRecovery
  <2>4. ASSUME NEW p \in Pass, CrashRecovery(p)
        PROVE  \/ status'[t] = "completed"
               \/ ResetTasks(p) /\ t \in pass[p].tasks
    BY <2>4 DEF CrashRecovery, ListExpiredLeases, EvictLeases, EvictionFails,
       ListInterruptedTasks, ResetTasks
  <2>5. ASSUME NEW p \in Pass, Crash(p) PROVE status'[t] = "completed"
    BY <2>5 DEF Crash
  <2>6. CASE Tick
    BY <2>6 DEF Tick
  <2> QED BY <1>2, <2>1, <2>2, <2>3, <2>4, <2>5, <2>6 DEF Next
<1>3. ASSUME NEW u \in Task, Restore(u) PROVE status'[t] = "completed"
  BY <1>1, <1>3 DEF Restore, BlockTask, QueueTask
<1>4. CASE UNCHANGED vars
  BY <1>4 DEF vars
<1> QED BY <1>2, <1>3, <1>4
        DEF ResumeNext, ListSessionTasks, CrashResume, resumeVars

(* With one process: of the passes one is under way, which has listed no    *)
(* completed task, and none while the session is resumed.                  *)
LonePass ==
  /\ OnePass
  /\ \A p \in Pass : /\ pass[p].stage # "reset" => pass[p].tasks = {}
                     /\ \A t \in pass[p].tasks : status[t] # "completed"

LoneResume == resume # Resumed => Undisturbed

LoneInv == ResumeInv /\ LonePass /\ LoneResume

LEMMA PassWritten ==
  ASSUME TypeOK, LonePass, NEW p \in Pass, NEW s, SetPass(p, s),
         SharedDb = FALSE, Undisturbed \/ pass[p].stage # "idle",
         s.stage # "reset" => s.tasks = {},
         \A t \in s.tasks : status'[t] # "completed"
  PROVE  LonePass'
<1>1. pass'[p] = s /\ \A q \in Pass \ {p} : pass'[q] = pass[q]
  BY DEF SetPass, TypeOK
<1>2. \A q \in Pass \ {p} : pass[q].stage = "idle" /\ pass[q].tasks = {}
  BY DEF LonePass, OnePass, Undisturbed
<1>3. \A q \in Pass : /\ pass'[q].stage # "reset" => pass'[q].tasks = {}
                      /\ \A t \in pass'[q].tasks : status'[t] # "completed"
  BY <1>1, <1>2
<1>4. OnePass'
  BY <1>1, <1>2 DEF OnePass
<1> QED BY <1>3, <1>4 DEF LonePass

LEMMA LonePassStep ==
  ASSUME TypeOK, LonePass, SharedDb = FALSE, Next
  PROVE  LonePass'
<1>1. ASSUME Undisturbed, UNCHANGED pass PROVE LonePass'
  BY <1>1 DEF Undisturbed, LonePass, OnePass
<1>2. ASSUME NEW l \in LeaseId, Worker(l) PROVE LonePass'
  BY <1>1, <1>2 DEF Worker, ClaimTask, Renew, LateHeartbeat, CompleteTask, FailTask,
     ReleaseTask, Finish
<1>3. ASSUME NEW t \in Task, NEW s \in Moves, UpdateStatus(t, s) PROVE LonePass'
  BY <1>1, <1>3 DEF UpdateStatus
<1>4. ASSUME NEW p \in Pass, StalledRecovery(p) PROVE LonePass'
  <2>1. CASE DetectStalledLeases(p)
    BY <2>1, PassWritten DEF DetectStalledLeases, Idle
  <2>2. ASSUME NEW l \in LeaseId, RecoverLease(p, l) PROVE LonePass'
    <3>1. pass[p].stage = "stalled" /\ pass[p].tasks = {}
      BY <2>2 DEF RecoverLease, ReclaimAndRequeue, FailStalled, RecoveryThrows, LonePass
    <3>2. \E s \in {Idle, AfterLease(p, l)} : SetPass(p, s)
      BY <2>2 DEF RecoverLease, ReclaimAndRequeue, FailStalled, RecoveryThrows
    <3>3. Idle.tasks = {} /\ AfterLease(p, l).tasks = {}
      BY <3>1 DEF AfterLease, Idle, TypeOK
    <3> QED BY <3>1, <3>2, <3>3, PassWritten
  <2> QED BY <1>4, <2>1, <2>2 DEF StalledRecovery
<1>5. ASSUME NEW p \in Pass, CrashRecovery(p) PROVE LonePass'
  <2>1. CASE ListExpiredLeases(p)
    BY <2>1, PassWritten DEF ListExpiredLeases, Idle
  <2>2. CASE EvictLeases(p) \/ EvictionFails(p)
    <3>1. pass[p].stage = "evict" /\ pass[p].tasks = {}
      BY <2>2 DEF EvictLeases, EvictionFails, LonePass
    <3> DEFINE s == [pass[p] EXCEPT !.stage = "list"]
    <3>2. s.tasks = {} /\ SetPass(p, s)
      BY <2>2, <3>1 DEF EvictLeases, EvictionFails, TypeOK
    <3> QED BY <3>1, <3>2, PassWritten
  <2>3. CASE ListInterruptedTasks(p)
    <3> DEFINE s == [Idle EXCEPT !.stage = "reset",
                                 !.tasks = {t \in Task : Interrupted(p, t)}]
    <3>1. pass[p].stage = "list" /\ SetPass(p, s) /\ status' = status
      BY <2>3 DEF ListInterruptedTasks
    <3>2. s.stage = "reset" /\ \A t \in s.tasks : status[t] # "completed"
      BY DEF Idle, Interrupted
    <3> HIDE DEF s
    <3> QED BY <3>1, <3>2, PassWritten
  <2>4. CASE ResetTasks(p)
    BY <2>4, PassWritten DEF ResetTasks, Idle
  <2> QED BY <1>5, <2>1, <2>2, <2>3, <2>4 DEF CrashRecovery
<1>6. ASSUME NEW p \in Pass, Crash(p) PROVE LonePass'
  BY <1>6, PassWritten DEF Crash, Idle
<1>7. CASE Tick
  BY <1>7 DEF Tick, LonePass, OnePass
<1> QED BY <1>2, <1>3, <1>4, <1>5, <1>6, <1>7 DEF Next

LEMMA LoneStep ==
  ASSUME SharedDb = FALSE, LoneInv, [ResumeNext]_resumeVars
  PROVE  LonePass' /\ LoneResume'
<1> USE DEF LoneInv
<1>1. CASE Next /\ UNCHANGED resume /\ resume = Resumed
  <2>1. LonePass'
    BY <1>1, LonePassStep DEF ResumeInv, TablesOK
  <2> QED BY <1>1, <2>1 DEF LoneResume, Resumed
<1>2. ASSUME Undisturbed, UNCHANGED <<status, pass>>
      PROVE  LonePass' /\ LoneResume'
  BY <1>2 DEF Undisturbed, LonePass, OnePass, LoneResume
<1>3. CASE ListSessionTasks
  BY <1>2, <1>3 DEF ListSessionTasks, vars
<1>4. ASSUME NEW t \in Task, Restore(t) PROVE LonePass' /\ LoneResume'
  BY <1>4 DEF Restore, BlockTask, QueueTask, LoneResume, Resumed, Undisturbed, LonePass, OnePass
<1>5. CASE CrashResume
  BY <1>2, <1>5 DEF CrashResume, LoneResume, vars
<1>6. CASE UNCHANGED resumeVars
  BY <1>6 DEF resumeVars, vars, Undisturbed, LonePass, OnePass, LoneResume, Resumed
<1> QED BY <1>1, <1>3, <1>4, <1>5, <1>6 DEF ResumeNext

LEMMA LoneInvariance ==
  ASSUME SharedDb = FALSE
  PROVE  ResumeSpec => []LoneInv
<1>1. ResumeInit => LonePass /\ LoneResume
  BY DEF ResumeInit, Init, LonePass, LoneResume, OnePass, Idle
<1>2. LoneInv /\ [ResumeNext]_resumeVars => LonePass' /\ LoneResume'
  BY LoneStep
<1> QED BY <1>1, <1>2, ResumeInvariance, PTL DEF ResumeSpec, LoneInv

(* Resuming a session never takes a result back, though its list of tasks  *)
(* is old when it is used: not with other processes at work on the same    *)
(* tasks, as long as none of them runs a recovery pass, and not with       *)
(* recovery passes of the same process.                                    *)
THEOREM ResumeKeepsCompleted ==
  ASSUME Pass = {} \/ SharedDb = FALSE
  PROVE  ResumeSpec => CompletedIsFinal
<1>1. CASE Pass = {}
  <2>1. ResumeInv /\ [ResumeNext]_resumeVars
        => [\A t \in Task : status[t] = "completed" => status'[t] = "completed"]_vars
    BY <1>1, OnlyAPassTakesBack, ConstantsAssumption
  <2> QED BY <2>1, ResumeInvariance, PTL DEF ResumeSpec, CompletedIsFinal
<1>2. CASE SharedDb = FALSE
  <2>1. LoneInv /\ [ResumeNext]_resumeVars
        => [\A t \in Task : status[t] = "completed" => status'[t] = "completed"]_vars
    BY OnlyAPassTakesBack, ConstantsAssumption DEF LoneInv, LonePass
  <2>2. ResumeSpec => []LoneInv
    BY <1>2, LoneInvariance
  <2> QED BY <2>1, <2>2, PTL DEF ResumeSpec, CompletedIsFinal
<1> QED BY <1>1, <1>2

-----------------------------------------------------------------------------
(* Handoffs. *)

(* The lease of a handoff was granted, and is let go when it is accepted.  *)
SourceLetGo ==
  \A h \in HandoffId : handoff[h] # NoHandoff =>
    /\ Issued(handoff[h].lease)
    /\ handoff[h].status = "ACCEPTED" => lease[handoff[h].lease].status # "ACTIVE"

(* What rejectHandoff has read is in the table. *)
RejectingKnown == \A h \in rejecting : handoff[h] # NoHandoff

HandoffInv ==
  /\ HandoffTypeOK /\ PassKnown /\ NewestExists
  /\ SourceLetGo
  /\ RejectingKnown

(* With one process nothing happens between the two steps of a rejection.  *)
RejectingPrepared == \A h \in rejecting : handoff[h].status = "PREPARED"

(* Leases that were not granted were not handed over.                      *)
OriginIssued == \A l \in LeaseId : origin[l] # {} => Issued(l)

SingleHandoffInv ==
  /\ HandoffInv
  /\ RejectingPrepared
  /\ OriginIssued
  /\ TransferIsAccepted

-----------------------------------------------------------------------------
(* Rows of the two tables. *)

LEMMA HandoffRowCases ==
  ASSUME HandoffTypeOK, NEW h \in HandoffId
  PROVE  /\ handoff[h] # NoHandoff <=> handoff[h] \in HandoffRow
         /\ handoff[h].status \in HandoffStatus => handoff[h] \in HandoffRow
BY DEF HandoffTypeOK, HandoffRow, NoHandoff, HandoffStatus

LEMMA TablesAreOK ==
  ASSUME HandoffInv
  PROVE  TablesOK
BY DEF HandoffInv, HandoffTypeOK, TablesOK

(* A granted lease stays granted, and does not come into force again.      *)
RowsKept ==
  \A l \in LeaseId : Issued(l) =>
    /\ Issued(l)'
    /\ lease'[l].status = "ACTIVE" => lease[l].status = "ACTIVE"

LEMMA NextKeepsRows ==
  ASSUME ConstantsAssumption, TablesOK, Next
  PROVE  RowsKept
<1>1. CASE NothingGranted
  BY <1>1 DEF NothingGranted, RowsKept
<1>2. ASSUME NEW t \in Task, NEW n \in LeaseId, ClaimTask(t, n)
      PROVE  RowsKept
  <2>1. /\ ~Issued(n)
        /\ \A l \in LeaseId \ {n} :
             /\ Issued(l)' <=> Issued(l)
             /\ \/ lease'[l].status = lease[l].status
                \/ lease'[l].status = "EXPIRED" /\ lease[l].task = t /\ Issued(l)
    BY <1>2, ClaimRows DEF TablesOK
  <2> QED BY <2>1 DEF RowsKept
<1> QED BY <1>1, <1>2, TablesStep

(* The two rows a transfer writes, and no other. *)
LEMMA TransferRows ==
  ASSUME ConstantsAssumption, TypeOK, NEW source \in LeaseId, Issued(source),
         NEW l \in LeaseId, ~Issued(l), lease' = Transfer(source, l)
  PROVE  /\ lease' \in [LeaseId -> LeaseRow \cup {NoRow}]
         /\ Issued(l)' /\ lease'[l].generation \in Nat
         /\ \A m \in LeaseId \ {l} :
              /\ Issued(m)' <=> Issued(m)
              /\ Issued(m) => /\ lease'[m].task = lease[m].task
                              /\ lease'[m].generation = lease[m].generation
         /\ lease'[source].status # "ACTIVE"
         /\ RowsKept
<1> DEFINE s == IF lease[source].status = "ACTIVE" THEN "RELEASED"
                ELSE lease[source].status
           row == [lease[source] EXCEPT !.status = s]
           new == LeaseAfter(source)
<1>1. /\ lease[source] \in LeaseRow /\ source # l
      /\ lease \in [LeaseId -> LeaseRow \cup {NoRow}]
  BY RowCases DEF TypeOK
<1>2. /\ row \in LeaseRow /\ row.task = lease[source].task
      /\ row.generation = lease[source].generation
      /\ row.status = s /\ s # "ACTIVE" /\ s \in LeaseStatus
  BY <1>1 DEF LeaseRow, LeaseStatus
<1>3. /\ new \in LeaseRow /\ new.status = "ACTIVE"
      /\ new.generation \in Nat
  BY <1>1 DEF LeaseAfter, LeaseRow, LeaseStatus, ConstantsAssumption
<1>4. lease' = [lease EXCEPT ![source] = row, ![l] = new]
  BY <1>1 DEF Transfer
<1> HIDE DEF row, new, s
<1>5. /\ lease'[source] = row /\ lease'[l] = new
      /\ \A m \in LeaseId \ {source, l} : lease'[m] = lease[m]
      /\ lease' \in [LeaseId -> LeaseRow \cup {NoRow}]
  BY <1>1, <1>2, <1>3, <1>4
<1>6. Issued(source)'
  BY <1>2, <1>5 DEF Issued, LeaseStatus
<1>7. Issued(l)'
  BY <1>3, <1>5 DEF Issued
<1>8. \A m \in LeaseId \ {source, l} : Issued(m)' <=> Issued(m)
  BY <1>5 DEF Issued
<1>9. RowsKept
  BY <1>2, <1>5, <1>6, <1>8 DEF RowsKept
<1> QED BY <1>2, <1>3, <1>5, <1>6, <1>7, <1>8, <1>9

-----------------------------------------------------------------------------
(* The operations. *)

(* What a step of TaskLease, or any other that writes no handoff, keeps.   *)
LEMMA SourcesStayLetGo ==
  ASSUME HandoffInv, RowsKept, UNCHANGED handoff
  PROVE  SourceLetGo'
<1> SUFFICES ASSUME NEW h \in HandoffId, handoff[h] # NoHandoff
             PROVE  /\ Issued(handoff[h].lease)'
                    /\ handoff[h].status = "ACCEPTED" =>
                         lease'[handoff[h].lease].status # "ACTIVE"
  BY DEF SourceLetGo
<1>1. handoff[h].lease \in LeaseId /\ Issued(handoff[h].lease)
  BY HandoffRowCases DEF HandoffInv, SourceLetGo, HandoffRow
<1> QED BY <1>1 DEF HandoffInv, SourceLetGo, RowsKept

LEMMA LeaseTableStep ==
  ASSUME ConstantsAssumption, HandoffInv, Next, UNCHANGED handoffVars
  PROVE  HandoffInv' /\ RowsKept
<1>1. TablesOK' /\ RowsKept
  BY TablesAreOK, TablesStep, NextKeepsRows
<1>2. UNCHANGED <<handoff, rejecting, origin>>
  BY DEF handoffVars
<1>3. SourceLetGo'
  BY <1>1, <1>2, SourcesStayLetGo
<1> QED BY <1>1, <1>2, <1>3 DEF HandoffInv, HandoffTypeOK, TablesOK, RejectingKnown

(* prepareHandoff, under a lease that is in force. *)
LEMMA PrepareStep ==
  ASSUME HandoffInv, NEW h \in HandoffId, NEW l \in LeaseId, PrepareHandoff(h, l)
  PROVE  HandoffInv'
<1> DEFINE row == [status |-> "PREPARED", lease |-> l]
<1>1. /\ handoff[h] = NoHandoff /\ Issued(l)
      /\ handoff' = [handoff EXCEPT ![h] = row]
      /\ UNCHANGED <<status, attempts, lease, audit, pass, rejecting, origin>>
  BY DEF PrepareHandoff, VerifyOwnership, vars
<1>2. row \in HandoffRow /\ row.status = "PREPARED" /\ row.lease = l /\ row # NoHandoff
  BY DEF HandoffRow, HandoffStatus, NoHandoff
<1> HIDE DEF row
<1>3. /\ handoff'[h] = row /\ \A g \in HandoffId \ {h} : handoff'[g] = handoff[g]
      /\ handoff' \in [HandoffId -> HandoffRow \cup {NoHandoff}]
  BY <1>1, <1>2 DEF HandoffInv, HandoffTypeOK
<1>4. SourceLetGo'
  BY <1>1, <1>2, <1>3 DEF HandoffInv, SourceLetGo, Issued
<1>5. RejectingKnown'
  BY <1>1, <1>2, <1>3 DEF HandoffInv, HandoffTypeOK, RejectingKnown
<1>6. TablesOK'
  BY <1>1, TablesAreOK, TablesStutter DEF vars
<1> QED BY <1>1, <1>3, <1>4, <1>5, <1>6 DEF HandoffInv, HandoffTypeOK, TablesOK

(* acceptHandoff: the tables of TaskLease keep their order. *)
LEMMA AcceptTables ==
  ASSUME ConstantsAssumption, HandoffInv, NEW h \in HandoffId, NEW l \in LeaseId,
         AcceptHandoff(h, l)
  PROVE  /\ TablesOK' /\ RowsKept
         /\ handoff[h] \in HandoffRow /\ Issued(l)'
         /\ lease'[handoff[h].lease].status # "ACTIVE"
<1> USE DEF HandoffInv, HandoffTypeOK
<1> DEFINE source == handoff[h].lease
<1>1. /\ handoff[h] # NoHandoff /\ ~Issued(l)
      /\ lease' = Transfer(source, l)
      /\ status' = [status EXCEPT ![HandedTask(h)] = "claimed"]
      /\ RecordSome({"TASK_LEASE_ACQUIRED"}, l)
      /\ UNCHANGED <<attempts, pass>>
  BY DEF AcceptHandoff, AcceptUnder
<1>2. handoff[h] \in HandoffRow /\ source \in LeaseId /\ Issued(source)
  BY <1>1, HandoffRowCases DEF SourceLetGo, HandoffRow
<1> HIDE DEF source
<1>3. /\ lease' \in [LeaseId -> LeaseRow \cup {NoRow}]
      /\ Issued(l)' /\ lease'[l].generation \in Nat
      /\ \A m \in LeaseId \ {l} :
           /\ Issued(m)' <=> Issued(m)
           /\ Issued(m) => /\ lease'[m].task = lease[m].task
                           /\ lease'[m].generation = lease[m].generation
      /\ lease'[source].status # "ACTIVE"
      /\ RowsKept
  BY <1>1, <1>2, TransferRows
<1>4. audit' \subseteq EventType \X LeaseId
  BY <1>1, RecordSomeType DEF EventType
<1>5. status' \in [Task -> TaskStatus]
  BY <1>1 DEF TypeOK, TaskStatus
<1>6. TypeOK'
  BY <1>1, <1>3, <1>4, <1>5 DEF TypeOK
<1>7. NewestExists'
  BY <1>1, <1>3, GrantKeepsNewest
<1>8. PassKnown'
  BY <1>1, <1>3, PassKnownKept DEF RowsKept
<1> QED BY <1>2, <1>3, <1>6, <1>7, <1>8 DEF TablesOK, source

LEMMA AcceptStep ==
  ASSUME ConstantsAssumption, HandoffInv, NEW h \in HandoffId, NEW l \in LeaseId,
         AcceptHandoff(h, l)
  PROVE  HandoffInv'
<1> DEFINE row == [handoff[h] EXCEPT !.status = "ACCEPTED"]
<1>1. /\ TablesOK' /\ RowsKept
      /\ handoff[h] \in HandoffRow
      /\ lease'[handoff[h].lease].status # "ACTIVE"
  BY AcceptTables
<1>2. /\ handoff' = [handoff EXCEPT ![h] = row]
      /\ origin' = [origin EXCEPT ![l] = {h}]
      /\ UNCHANGED rejecting
  BY DEF AcceptHandoff, AcceptUnder
<1>3. row \in HandoffRow /\ row.lease = handoff[h].lease /\ row # NoHandoff
  BY <1>1 DEF HandoffRow, HandoffStatus, NoHandoff
<1> HIDE DEF row
<1>4. /\ handoff'[h] = row /\ \A g \in HandoffId \ {h} : handoff'[g] = handoff[g]
      /\ handoff' \in [HandoffId -> HandoffRow \cup {NoHandoff}]
  BY <1>2, <1>3 DEF HandoffInv, HandoffTypeOK
<1>5. ASSUME NEW g \in HandoffId, handoff[g] # NoHandoff
      PROVE  handoff[g].lease \in LeaseId /\ Issued(handoff[g].lease)
  BY <1>5, HandoffRowCases DEF HandoffInv, SourceLetGo, HandoffRow
<1>6. SourceLetGo'
  <2>1. handoff[h] # NoHandoff
    BY <1>1 DEF HandoffRow, NoHandoff
  <2>2. ASSUME NEW g \in HandoffId, handoff[g] # NoHandoff
        PROVE  /\ lease'[handoff[g].lease].status # "NONE"
               /\ handoff[g].status = "ACCEPTED" =>
                    lease'[handoff[g].lease].status # "ACTIVE"
    BY <1>1, <1>5, <2>2 DEF RowsKept, HandoffInv, SourceLetGo, Issued
  <2>3. ASSUME NEW g \in HandoffId, handoff'[g] # NoHandoff
        PROVE  /\ lease'[handoff'[g].lease].status # "NONE"
               /\ handoff'[g].status = "ACCEPTED" =>
                    lease'[handoff'[g].lease].status # "ACTIVE"
    BY <1>1, <1>3, <1>4, <2>1, <2>2, <2>3
  <2> QED BY <2>3 DEF SourceLetGo, Issued
<1>7. RejectingKnown'
  BY <1>2, <1>3, <1>4 DEF HandoffInv, HandoffTypeOK, RejectingKnown
<1>8. origin' \in [LeaseId -> SUBSET HandoffId]
  BY <1>2 DEF HandoffInv, HandoffTypeOK
<1> QED BY <1>1, <1>2, <1>4, <1>6, <1>7, <1>8 DEF HandoffInv, HandoffTypeOK, TablesOK

(* rejectHandoff: its read and its write. *)
LEMMA RejectStep ==
  ASSUME HandoffInv, NEW h \in HandoffId, ReadToReject(h) \/ SaveRejected(h)
  PROVE  HandoffInv'
<1>1. UNCHANGED <<status, attempts, lease, audit, pass, origin>>
  BY DEF ReadToReject, SaveRejected, vars
<1>2. TablesOK'
  BY <1>1, TablesAreOK, TablesStutter DEF vars
<1>3. CASE ReadToReject(h)
  <2>1. UNCHANGED handoff /\ rejecting' = rejecting \cup {h} /\ handoff[h].status = "PREPARED"
    BY <1>3 DEF ReadToReject
  <2>2. SourceLetGo'
    BY <1>1, <2>1 DEF HandoffInv, SourceLetGo, Issued
  <2>3. RejectingKnown'
    BY <2>1 DEF HandoffInv, RejectingKnown, NoHandoff
  <2> QED BY <1>1, <1>2, <2>1, <2>2, <2>3 DEF HandoffInv, HandoffTypeOK, TablesOK
<1>4. CASE SaveRejected(h)
  <2> DEFINE row == [handoff[h] EXCEPT !.status = "REJECTED"]
  <2>1. /\ handoff' = [handoff EXCEPT ![h] = row]
        /\ rejecting' = rejecting \ {h} /\ h \in rejecting
    BY <1>4 DEF SaveRejected
  <2>2. handoff[h] # NoHandoff /\ handoff[h] \in HandoffRow
    BY <2>1, HandoffRowCases DEF HandoffInv, RejectingKnown
  <2>3. /\ row \in HandoffRow /\ row.lease = handoff[h].lease
        /\ row.status = "REJECTED"
    BY <2>2 DEF HandoffRow, HandoffStatus
  <2> HIDE DEF row
  <2>4. /\ handoff'[h] = row /\ \A g \in HandoffId \ {h} : handoff'[g] = handoff[g]
        /\ handoff' \in [HandoffId -> HandoffRow \cup {NoHandoff}]
    BY <2>1, <2>3 DEF HandoffInv, HandoffTypeOK
  <2>5. SourceLetGo'
    BY <1>1, <2>2, <2>3, <2>4 DEF HandoffInv, SourceLetGo, Issued
  <2>6. RejectingKnown'
    BY <2>1, <2>4 DEF HandoffInv, HandoffTypeOK, RejectingKnown
  <2> QED BY <1>1, <1>2, <2>1, <2>4, <2>5, <2>6 DEF HandoffInv, HandoffTypeOK, TablesOK
<1> QED BY <1>3, <1>4

LEMMA HandoffStutter ==
  ASSUME HandoffInv, UNCHANGED <<vars, handoffVars>>
  PROVE  HandoffInv'
<1>1. UNCHANGED <<status, attempts, lease, audit, pass, handoff, rejecting, origin>>
  BY DEF vars, handoffVars
<1>2. TablesOK'
  BY <1>1, TablesAreOK, TablesStutter DEF vars
<1>3. SourceLetGo'
  BY <1>1 DEF HandoffInv, SourceLetGo, Issued
<1> QED BY <1>1, <1>2, <1>3 DEF HandoffInv, HandoffTypeOK, TablesOK, RejectingKnown

LEMMA HandoffStep ==
  ASSUME HandoffInv, HandoffNext
  PROVE  HandoffInv'
BY LeaseTableStep, PrepareStep, AcceptStep, RejectStep, ConstantsAssumption
   DEF HandoffNext, Handoff

LEMMA HandoffStart == HandoffInit => HandoffInv
<1> SUFFICES ASSUME HandoffInit PROVE HandoffInv
  OBVIOUS
<1>1. TablesOK
  BY InitIInv, ConstantsAssumption DEF HandoffInit, IInv
<1> QED BY <1>1 DEF HandoffInit, HandoffInv, HandoffTypeOK, TablesOK, SourceLetGo, RejectingKnown

-----------------------------------------------------------------------------
(* The theorems. *)

LEMMA HandoffInvariance == HandoffSpec => []HandoffInv
<1>1. HandoffInv /\ [HandoffNext]_<<vars, handoffVars>> => HandoffInv'
  BY HandoffStep, HandoffStutter
<1> QED BY <1>1, HandoffStart, PTL DEF HandoffSpec

(* The tables keep their types when tasks are handed over, by however many *)
(* processes: acceptHandoff writes only to rows that are there, and only   *)
(* one new row.                                                            *)
THEOREM HandoffTypes == HandoffSpec => []HandoffTypeOK
BY HandoffInvariance, PTL DEF HandoffInv

(* Whoever handed its task over can neither renew the lease it gave away   *)
(* nor complete, fail or release the task, whatever else is accepted,      *)
(* rejected or recovered, by however many processes.                       *)
THEOREM HandedOverIsFenced == HandoffSpec => SourceIsFenced
<1> DEFINE Fenced ==
      \A h \in HandoffId : handoff[h].status = "ACCEPTED" =>
        \A e \in {"TASK_HEARTBEAT", "TASK_COMPLETED", "TASK_RELEASED"} :
          <<e, handoff[h].lease>> \in audit' => <<e, handoff[h].lease>> \in audit
<1>1. ASSUME HandoffInv, Next PROVE Fenced
  <2> SUFFICES ASSUME NEW h \in HandoffId, handoff[h].status = "ACCEPTED",
                      NEW e \in WorkerEvent,
                      <<e, handoff[h].lease>> \in audit', <<e, handoff[h].lease>> \notin audit
               PROVE  FALSE
    BY DEF WorkerEvent
  <2>1. /\ handoff[h] \in HandoffRow /\ handoff[h].lease \in LeaseId
        /\ lease[handoff[h].lease].status # "ACTIVE"
    BY <1>1, HandoffRowCases DEF HandoffInv, HandoffStatus, HandoffRow, SourceLetGo, NoHandoff
  <2> QED BY <1>1, <2>1, WriteUnderActive
<1>2. ASSUME NEW h \in HandoffId, NEW l \in LeaseId, AcceptHandoff(h, l) PROVE Fenced
  <2>1. PICK kept \in SUBSET {"TASK_LEASE_ACQUIRED"} : audit' = audit \cup {<<e, l>> : e \in kept}
    BY <1>2 DEF AcceptHandoff, AcceptUnder, RecordSome, Record
  <2> QED BY <2>1
<1>3. ASSUME UNCHANGED audit PROVE Fenced
  BY <1>3
<1>4. HandoffInv /\ [HandoffNext]_<<vars, handoffVars>> => Fenced
  BY <1>1, <1>2, <1>3
     DEF HandoffNext, Handoff, PrepareHandoff, ReadToReject, SaveRejected, vars
<1> QED BY <1>4, HandoffInvariance, PTL DEF HandoffSpec, SourceIsFenced

-----------------------------------------------------------------------------
(* One process has the database open. *)

(* A step that leaves the handoffs, and what they gave, alone.             *)
LEMMA TransfersKept ==
  ASSUME TransferIsAccepted, UNCHANGED <<handoff, origin>>
  PROVE  TransferIsAccepted'
BY DEF TransferIsAccepted

LEMMA OriginsKept ==
  ASSUME OriginIssued, RowsKept, UNCHANGED origin
  PROVE  OriginIssued'
BY DEF OriginIssued, RowsKept

LEMMA RowsUnchanged ==
  ASSUME UNCHANGED lease
  PROVE  RowsKept
BY DEF RowsKept, Issued

(* A handoff that is prepared has given nothing away, and gives one lease. *)
LEMMA AcceptTransfers ==
  ASSUME ConstantsAssumption, SingleHandoffInv, NEW h \in HandoffId, NEW l \in LeaseId,
         AcceptHandoff(h, l)
  PROVE  TransferIsAccepted' /\ OriginIssued'
<1> USE DEF SingleHandoffInv
<1>1. /\ handoff[h].status = "PREPARED" /\ ~Issued(l)
      /\ handoff' = [handoff EXCEPT ![h].status = "ACCEPTED"]
      /\ origin' = [origin EXCEPT ![l] = {h}]
  BY DEF AcceptHandoff, AcceptUnder
<1>2. /\ origin \in [LeaseId -> SUBSET HandoffId]
      /\ handoff \in [HandoffId -> HandoffRow \cup {NoHandoff}]
      /\ handoff[h] \in HandoffRow
  BY AcceptTables DEF HandoffInv, HandoffTypeOK
<1>3. origin[l] = {}
  BY <1>1 DEF OriginIssued
<1>4. ASSUME NEW g \in HandoffId \ {h}
      PROVE  /\ {m \in LeaseId : g \in origin'[m]} = {m \in LeaseId : g \in origin[m]}
             /\ handoff'[g] = handoff[g]
  BY <1>1, <1>2, <1>3
<1>5. {m \in LeaseId : h \in origin'[m]} = {l} /\ Cardinality({l}) = 1
  <2>1. {m \in LeaseId : h \in origin[m]} = {}
    BY <1>1 DEF TransferIsAccepted
  <2>2. {m \in LeaseId : h \in origin'[m]} = {l}
    BY <1>1, <1>2, <2>1
  <2> QED BY <2>2, FS_Singleton
<1>6. handoff'[h].status = "ACCEPTED"
  BY <1>1, <1>2 DEF HandoffRow
<1>7. TransferIsAccepted'
  <2>1. ASSUME NEW g \in HandoffId
        PROVE  IF handoff'[g].status = "ACCEPTED"
               THEN Cardinality({m \in LeaseId : g \in origin'[m]}) = 1
               ELSE {m \in LeaseId : g \in origin'[m]} = {}
    <3>1. CASE g = h
      BY <1>5, <1>6, <3>1
    <3>2. CASE g # h
      BY <1>4, <3>2 DEF TransferIsAccepted
    <3> QED BY <3>1, <3>2
  <2> QED BY <2>1 DEF TransferIsAccepted
<1>8. OriginIssued'
  BY <1>1, <1>2, AcceptTables DEF OriginIssued, RowsKept
<1> QED BY <1>7, <1>8

(* Prepared or rejected, a handoff has given nothing away. *)
LEMMA NotAcceptedTransfers ==
  ASSUME SingleHandoffInv, NEW h \in HandoffId, handoff[h].status # "ACCEPTED",
         UNCHANGED <<lease, origin>>,
         handoff'[h].status # "ACCEPTED",
         \A g \in HandoffId \ {h} : handoff'[g] = handoff[g]
  PROVE  TransferIsAccepted' /\ OriginIssued'
<1>1. ASSUME NEW g \in HandoffId
      PROVE  handoff'[g].status = "ACCEPTED" <=> handoff[g].status = "ACCEPTED"
  BY <1>1
<1>2. TransferIsAccepted'
  BY <1>1 DEF SingleHandoffInv, TransferIsAccepted
<1>3. OriginIssued'
  BY RowsUnchanged, OriginsKept DEF SingleHandoffInv
<1> QED BY <1>2, <1>3

LEMMA SingleHandoffStep ==
  ASSUME SharedDb = FALSE, SingleHandoffInv, HandoffNext
  PROVE  /\ SingleHandoffInv'
         /\ \A h \in HandoffId : handoff'[h].status = "REJECTED" =>
              handoff[h].status \in {"PREPARED", "REJECTED"}
<1> USE DEF SingleHandoffInv
<1>1. HandoffInv'
  BY HandoffStep
<1>2. handoff \in [HandoffId -> HandoffRow \cup {NoHandoff}]
  BY DEF HandoffInv, HandoffTypeOK
<1>3. CASE rejecting = {} /\ Next /\ UNCHANGED handoffVars
  <2>1. RowsKept
    BY <1>3, TablesAreOK, NextKeepsRows, ConstantsAssumption
  <2>2. UNCHANGED <<handoff, rejecting, origin>>
    BY <1>3 DEF handoffVars
  <2>3. RejectingPrepared'
    BY <2>2 DEF RejectingPrepared
  <2> QED BY <1>1, <2>1, <2>2, <2>3, TransfersKept, OriginsKept
<1>4. ASSUME rejecting = {}, NEW h \in HandoffId, NEW l \in LeaseId, PrepareHandoff(h, l)
      PROVE  /\ SingleHandoffInv'
             /\ \A g \in HandoffId : handoff'[g].status = "REJECTED" =>
                  handoff[g].status \in {"PREPARED", "REJECTED"}
  <2>1. /\ handoff[h].status # "ACCEPTED" /\ handoff'[h].status = "PREPARED"
        /\ \A g \in HandoffId \ {h} : handoff'[g] = handoff[g]
        /\ UNCHANGED <<lease, origin, rejecting>>
    BY <1>2, <1>4 DEF PrepareHandoff, NoHandoff, vars
  <2>2. RejectingPrepared'
    BY <1>4, <2>1 DEF RejectingPrepared
  <2> QED BY <1>1, <2>1, <2>2, NotAcceptedTransfers
<1>5. ASSUME rejecting = {}, NEW h \in HandoffId, NEW l \in LeaseId, AcceptHandoff(h, l)
      PROVE  /\ SingleHandoffInv'
             /\ \A g \in HandoffId : handoff'[g].status = "REJECTED" =>
                  handoff[g].status \in {"PREPARED", "REJECTED"}
  <2>1. TransferIsAccepted' /\ OriginIssued'
    BY <1>5, AcceptTransfers, ConstantsAssumption
  <2>2. RejectingPrepared'
    BY <1>5 DEF AcceptHandoff, AcceptUnder, RejectingPrepared
  <2>3. /\ handoff[h] \in HandoffRow
        /\ handoff' = [handoff EXCEPT ![h].status = "ACCEPTED"]
    BY <1>5, AcceptTables, ConstantsAssumption DEF AcceptHandoff, AcceptUnder
  <2>4. /\ handoff'[h].status = "ACCEPTED"
        /\ \A g \in HandoffId \ {h} : handoff'[g] = handoff[g]
    BY <1>2, <2>3 DEF HandoffRow
  <2> QED BY <1>1, <2>1, <2>2, <2>4
<1>6. ASSUME rejecting = {}, NEW h \in HandoffId, ReadToReject(h)
      PROVE  SingleHandoffInv' /\ UNCHANGED handoff
  <2>1. /\ UNCHANGED <<handoff, origin, lease>>
        /\ rejecting' = {h} /\ handoff[h].status = "PREPARED"
    BY <1>6 DEF ReadToReject, vars
  <2>2. RejectingPrepared'
    BY <2>1 DEF RejectingPrepared
  <2> QED BY <1>1, <2>1, <2>2, TransfersKept, RowsUnchanged, OriginsKept
<1>7. ASSUME NEW h \in HandoffId, SaveRejected(h)
      PROVE  /\ SingleHandoffInv'
             /\ \A g \in HandoffId : handoff'[g].status = "REJECTED" =>
                  handoff[g].status \in {"PREPARED", "REJECTED"}
  <2>1. /\ h \in rejecting /\ handoff[h].status = "PREPARED"
        /\ handoff' = [handoff EXCEPT ![h].status = "REJECTED"]
        /\ rejecting' = rejecting \ {h}
        /\ UNCHANGED <<lease, origin>>
    BY <1>7 DEF SaveRejected, RejectingPrepared, vars
  <2>2. handoff[h] \in HandoffRow
    BY <2>1, HandoffRowCases DEF HandoffInv, HandoffStatus
  <2>3. /\ handoff'[h].status = "REJECTED"
        /\ \A g \in HandoffId \ {h} : handoff'[g] = handoff[g]
    BY <1>2, <2>1, <2>2 DEF HandoffRow
  <2>4. RejectingPrepared'
    BY <2>1, <2>3 DEF RejectingPrepared, HandoffInv, HandoffTypeOK
  <2> QED BY <1>1, <2>1, <2>3, <2>4, NotAcceptedTransfers
<1>8. ASSUME NEW h \in HandoffId, UNCHANGED handoff, handoff'[h].status = "REJECTED"
      PROVE  handoff[h].status = "REJECTED"
  BY <1>8
<1> QED BY <1>3, <1>4, <1>5, <1>6, <1>7, <1>8 DEF HandoffNext, Handoff, handoffVars

LEMMA SingleHandoffInvariance ==
  ASSUME SharedDb = FALSE
  PROVE  HandoffSpec => []SingleHandoffInv
<1>1. HandoffInit => SingleHandoffInv
  <2> SUFFICES ASSUME HandoffInit PROVE SingleHandoffInv
    OBVIOUS
  <2>1. HandoffInv
    BY HandoffStart
  <2>2. RejectingPrepared /\ OriginIssued
    BY DEF HandoffInit, RejectingPrepared, OriginIssued
  <2>3. TransferIsAccepted
    BY DEF HandoffInit, TransferIsAccepted, NoHandoff
  <2> QED BY <2>1, <2>2, <2>3 DEF SingleHandoffInv
<1>2. SingleHandoffInv /\ [HandoffNext]_<<vars, handoffVars>> => SingleHandoffInv'
  <2>1. ASSUME SingleHandoffInv, UNCHANGED <<vars, handoffVars>>
        PROVE  SingleHandoffInv'
    <3>1. UNCHANGED <<lease, handoff, rejecting, origin>>
      BY <2>1 DEF vars, handoffVars
    <3>2. RejectingPrepared'
      BY <2>1, <3>1 DEF SingleHandoffInv, RejectingPrepared
    <3> QED BY <2>1, <3>1, <3>2, HandoffStutter, TransfersKept, RowsUnchanged, OriginsKept
            DEF SingleHandoffInv
  <2> QED BY <2>1, SingleHandoffStep
<1> QED BY <1>1, <1>2, PTL DEF HandoffSpec

(* With one process a handoff transfers its task once, and only if it ends *)
(* up accepted: accepting looks at the status, and rejecting, which saves  *)
(* the row it has read, has nothing come between.                          *)
THEOREM HandoffTransfersOnce ==
  ASSUME SharedDb = FALSE
  PROVE  HandoffSpec => []TransferIsAccepted
BY SingleHandoffInvariance, PTL DEF SingleHandoffInv

(* With one process a handoff that was accepted is not rejected any more.  *)
THEOREM AcceptedIsNotRejected ==
  ASSUME SharedDb = FALSE
  PROVE  HandoffSpec => RejectedWasPrepared
<1>1. SingleHandoffInv /\ [HandoffNext]_<<vars, handoffVars>> =>
        \/ \A h \in HandoffId : handoff'[h].status = "REJECTED" =>
             handoff[h].status \in {"PREPARED", "REJECTED"}
        \/ UNCHANGED <<vars, handoffVars>>
  BY SingleHandoffStep
<1> QED BY <1>1, SingleHandoffInvariance, PTL DEF HandoffSpec, RejectedWasPrepared
-----------------------------------------------------------------------------
(* Remote dispatches. *)

(* A dispatch names a lease that was granted for its task. *)
DispatchKnown ==
  \A d \in DispatchId : Saved(d) =>
    Issued(LeaseOf(d)) /\ lease[LeaseOf(d)].task = dispatch[d].task

(* What a call has read and remembers as s. *)
ReadHolds(s) ==
  /\ s.stage = "save" => Issued(s.lease) /\ lease[s.lease].task = s.task
  /\ s.stage \in {"commit", "cancel", "release", "reclaim"} => Saved(s.dispatch)
  /\ s.stage \in {"reconcile", "reclaim"} => \A d \in s.left : Saved(d)
  /\ s.stage = "reclaim" => ~Live(LeaseOf(s.dispatch))

(* What the calls under way have read still holds. *)
CallKnown == \A c \in Caller : ReadHolds(call[c])

RemoteTypes ==
  /\ node \in [Node -> NodeStatus \cup {"NONE"}]
  /\ dispatch \in [DispatchId -> DispatchRow \cup {NoDispatch}]
  /\ call \in [Caller -> CallState]

RemoteInv ==
  /\ IInv
  /\ RemoteTypes
  /\ DispatchKnown
  /\ CallKnown
  /\ CompletedIsBacked
  /\ SettledHasLetGo

-----------------------------------------------------------------------------
(* Remote calls and the rules of ownership. *)

LEMMA SavedRow ==
  ASSUME RemoteTypes, NEW d \in DispatchId, Saved(d)
  PROVE  /\ dispatch[d] \in DispatchRow
         /\ LeaseOf(d) \in LeaseId
         /\ dispatch[d].task \in Task
  BY DEF RemoteTypes, Saved, NoDispatch, DispatchRow, LeaseOf

LEMMA CallFields ==
  ASSUME RemoteTypes, NEW c \in Caller
  PROVE  /\ call[c].stage \in {"claim", "save"} =>
              call[c].task \in Task /\ call[c].node \in Node /\ call[c].key \in Key
         /\ call[c].stage = "save" => call[c].lease \in LeaseId
         /\ call[c].stage \in {"commit", "cancel", "release", "reclaim"} =>
              call[c].dispatch \in DispatchId
         /\ call[c].stage \in {"reconcile", "reclaim"} =>
              call[c].left \in SUBSET DispatchId
         /\ call[c].stage = "beat" =>
              call[c].node \in Node /\ call[c].status \in NodeStatus
         /\ call[c].stage = "stalled" => call[c].nodes \in SUBSET Node
<1>1. call[c] \in CallState
  BY DEF RemoteTypes
<1> QED BY <1>1 DEF CallState, IdleCall

LEMMA TaskStep ==
  ASSUME RemoteTypes, CallKnown, [RemoteNext]_allVars
  PROVE  [Next]_vars
<1>1. CASE UNCHANGED allVars
  BY <1>1 DEF allVars
<1>2. CASE LocalStep
  BY <1>2 DEF LocalStep, Next
<1>3. ASSUME NEW n \in Node, RegisterNode(n) \/ \E s \in NodeStatus : MarkNode(n, s)
      PROVE  UNCHANGED vars
  BY <1>3 DEF RegisterNode, MarkNode
<1>4. ASSUME NEW c \in Caller, NodeStep(c)
      PROVE  UNCHANGED vars
  BY <1>4 DEF NodeStep, NodeHeartbeat, SaveOffline, UpdateHeartbeat, ListStalledNodes
<1>5. ASSUME NEW l \in LeaseId,
             Renew(l) \/ LateHeartbeat(l) \/ CompleteTask(l) \/ FailTask(l) \/ ReleaseTask(l)
      PROVE  Next
  BY <1>5 DEF Next, Worker
<1>6. ASSUME NEW c \in Caller, DispatchStep(c)
      PROVE  [Next]_vars
  <2>1. CASE \E l \in LeaseId : ClaimForDispatch(c, l)
    <3>1. PICK l \in LeaseId : call[c].stage = "claim" /\ ClaimTask(call[c].task, l)
      BY <2>1 DEF ClaimForDispatch
    <3> QED BY <3>1, CallFields DEF Next, Worker
  <2>2. CASE \/ \E t \in Task, n \in Node, k \in Key : DispatchTask(c, t, n, k)
             \/ \E d \in DispatchId : SaveDispatch(c, d)
    BY <2>2 DEF DispatchTask, SaveDispatch
  <2> QED BY <1>6, <2>1, <2>2 DEF DispatchStep
<1>7. ASSUME NEW c \in Caller, MessageStep(c)
      PROVE  [Next]_vars
  <2>1. CASE \E d \in DispatchId : RemoteHeartbeat(c, d)
    BY <2>1, <1>5, SavedRow DEF RemoteHeartbeat
  <2>2. CASE \E d \in DispatchId, o \in Outcome : AcceptRemoteResult(c, d, o)
    BY <2>2 DEF AcceptRemoteResult
  <2>3. CASE CommitResult(c)
    <3>1. call[c].dispatch \in DispatchId /\ Saved(call[c].dispatch)
      BY <2>3, CallFields DEF CommitResult, CallKnown, ReadHolds
    <3> QED BY <2>3, <3>1, <1>5, SavedRow
            DEF CommitResult, CommitSuccess, CommitFailure, NotOwner
  <2> QED BY <1>7, <2>1, <2>2, <2>3 DEF MessageStep
<1>8. ASSUME NEW c \in Caller, ControlStep(c)
      PROVE  [Next]_vars
  <2>1. CASE \/ \E d \in DispatchId : CancelDispatch(c, d)
             \/ SaveCancelled(c) \/ ListActiveDispatches(c) \/ SaveReclaimed(c)
    BY <2>1 DEF CancelDispatch, SaveCancelled, ListActiveDispatches, SaveReclaimed
  <2>2. CASE ReleaseCancelled(c)
    <3>1. call[c].dispatch \in DispatchId /\ Saved(call[c].dispatch)
      BY <2>2, CallFields DEF ReleaseCancelled, CallKnown, ReadHolds
    <3> QED BY <2>2, <3>1, <1>5, SavedRow DEF ReleaseCancelled
  <2>3. CASE \E d \in DispatchId : ReclaimLease(c, d)
    <3>1. PICK d \in DispatchId : ReclaimLease(c, d)
      BY <2>3
    <3>2. Saved(d)
      BY <3>1 DEF ReclaimLease, CallKnown, ReadHolds, ReadHolds
    <3> QED BY <3>1, <3>2, <1>5, SavedRow DEF ReclaimLease, NotOwner
  <2> QED BY <1>8, <2>1, <2>2, <2>3 DEF ControlStep
<1>9. ASSUME NEW c \in Caller, Leave(c)
      PROVE  UNCHANGED vars
  BY <1>9 DEF Leave
<1> QED BY <1>1, <1>2, <1>3, <1>4, <1>6, <1>7, <1>8, <1>9 DEF RemoteNext

-----------------------------------------------------------------------------
(* What a step of the tasks and leases leaves true. *)

(* A lease that can no longer be written under never can again. *)
LiveWasLive ==
  \A l \in LeaseId : Issued(l) /\ Live(l)' => Live(l)

LEMMA EndedStays ==
  ASSUME TypeOK, NEW l \in LeaseId, NEW s \in LeaseStatus \ {"ACTIVE"},
         lease' = [lease EXCEPT ![l].status = s]
  PROVE  LiveWasLive
<1>1. \A m \in LeaseId \ {l} : lease'[m] = lease[m]
  BY DEF TypeOK
<1>2. lease'[l].status = s \/ lease'[l] = lease[l] \/ ~Issued(l)
  <2>1. CASE Issued(l)
    <3> DEFINE row == [lease[l] EXCEPT !.status = s]
    <3>1. row.status = s /\ lease'[l] = row
      BY <2>1, RowUpdate DEF TypeOK
    <3> HIDE DEF row
    <3> QED BY <3>1
  <2> QED BY <2>1
<1> QED BY <1>1, <1>2 DEF LiveWasLive, Live, Expired

LEMMA LiveStep ==
  ASSUME ConstantsAssumption, IInv, [Next]_vars
  PROVE  LiveWasLive
<1>1. ASSUME UNCHANGED lease PROVE LiveWasLive
  BY <1>1 DEF LiveWasLive, Live, Expired
<1>2. CASE \E t \in Task, n \in LeaseId : ClaimTask(t, n)
  <2>1. PICK t \in Task, n \in LeaseId : ClaimTask(t, n)
    BY <1>2
  <2>2. ~Issued(n) /\ lease \in [LeaseId -> LeaseRow \cup {NoRow}]
    BY <2>1 DEF ClaimTask, IInv, TablesOK, TypeOK
  <2>3. CASE lease' = [lease EXCEPT ![n] = NewLease(t)]
    BY <2>2, <2>3 DEF LiveWasLive, Live, Expired
  <2>4. CASE \E stale \in FindActive(t) :
               /\ Expired(stale)
               /\ lease' = [lease EXCEPT ![stale].status = "EXPIRED", ![n] = NewLease(t)]
    <3>1. PICK stale \in LeaseId :
               /\ Expired(stale) /\ Issued(stale)
               /\ lease' = [lease EXCEPT ![stale].status = "EXPIRED", ![n] = NewLease(t)]
      BY <2>4 DEF FindActive, Newest, ActiveOf, LeasesOf
    <3>2. \A l \in LeaseId : Issued(l) /\ l # stale => lease'[l] = lease[l]
      BY <2>2, <3>1
    <3>3. lease'[stale] = [lease[stale] EXCEPT !.status = "EXPIRED"]
      BY <2>2, <3>1
    <3>4. lease'[stale].status = "EXPIRED"
      BY <3>1, <3>3, RowUpdate DEF IInv, TablesOK, LeaseStatus
    <3> QED BY <3>2, <3>4 DEF LiveWasLive, Live, Expired
  <2> QED BY <2>1, <2>3, <2>4 DEF ClaimTask
<1>3. CASE \E n \in LeaseId : Renew(n)
  <2>1. PICK n \in LeaseId : Renew(n)
    BY <1>3
  <2>2. \A l \in LeaseId \ {n} : lease'[l] = lease[l]
    BY <2>1 DEF Renew, IInv, TablesOK, TypeOK
  <2> QED BY <2>1, <2>2 DEF LiveWasLive, Live, Expired, Renew
<1>4. CASE \E n \in LeaseId : \/ LateHeartbeat(n) \/ CompleteTask(n)
                              \/ FailTask(n) \/ ReleaseTask(n)
  BY <1>4, EndedStays DEF IInv, TablesOK, LateHeartbeat, CompleteTask, FailTask, ReleaseTask, Finish,
     LeaseStatus
<1>5. CASE \E t \in Task, s \in Moves : UpdateStatus(t, s)
  BY <1>1, <1>5 DEF UpdateStatus
<1>6. ASSUME NEW p \in Pass, StalledRecovery(p) \/ CrashRecovery(p) \/ Crash(p)
      PROVE  LiveWasLive
  <2>1. CASE EvictLeases(p)
    <3>1. \A l \in LeaseId :
            lease'[l] = IF l \in pass[p].expired
                        THEN [lease[l] EXCEPT !.status = "EXPIRED"] ELSE lease[l]
      BY <2>1 DEF EvictLeases
    <3>2. ASSUME NEW l \in LeaseId, l \in pass[p].expired, Issued(l)
          PROVE  lease'[l].status = "EXPIRED"
      <4> DEFINE row == [lease[l] EXCEPT !.status = "EXPIRED"]
      <4>1. row.status = "EXPIRED" /\ lease'[l] = row
        BY <3>1, <3>2, RowUpdate DEF IInv, TablesOK, LeaseStatus
      <4> HIDE DEF row
      <4> QED BY <4>1
    <3> QED BY <3>1, <3>2 DEF LiveWasLive, Live, Expired
  <2>2. CASE \E l \in LeaseId : ReclaimAndRequeue(p, l) \/ FailStalled(p, l)
    BY <2>2, EndedStays DEF IInv, TablesOK, ReclaimAndRequeue, FailStalled, LeaseStatus
  <2>3. CASE \/ DetectStalledLeases(p) \/ ListExpiredLeases(p) \/ EvictionFails(p)
             \/ ListInterruptedTasks(p) \/ ResetTasks(p) \/ Crash(p)
             \/ \E l \in LeaseId : RecoveryThrows(p, l)
    BY <1>1, <2>3 DEF DetectStalledLeases, ListExpiredLeases, EvictionFails,
       ListInterruptedTasks, ResetTasks, Crash, RecoveryThrows
  <2> QED BY <1>6, <2>1, <2>2, <2>3 DEF StalledRecovery, CrashRecovery, RecoverLease
<1>7. CASE Tick
  BY <1>7 DEF Tick, FreshActive, LiveWasLive, Live, Expired
<1>8. CASE UNCHANGED vars
  BY <1>1, <1>8 DEF vars
<1> QED BY <1>2, <1>3, <1>4, <1>5, <1>6, <1>7, <1>8 DEF Next, Worker

(* Leases stay granted, for the task they were granted for. *)
LeasesKept ==
  \A l \in LeaseId : Issued(l) => Issued(l)' /\ lease'[l].task = lease[l].task

LEMMA ClaimKeeps ==
  ASSUME IInv, NEW t \in Task, NEW n \in LeaseId, ClaimTask(t, n)
  PROVE  /\ LeasesKept
         /\ Issued(n)' /\ lease'[n].task = t
<1>1. ~Issued(n) /\ lease \in [LeaseId -> LeaseRow \cup {NoRow}]
  BY DEF ClaimTask, IInv, TablesOK, TypeOK
<1>2. lease'[n] = NewLease(t)
  BY <1>1 DEF ClaimTask, FindActive, Newest, ActiveOf, LeasesOf
<1>3. ASSUME NEW l \in LeaseId, Issued(l)
      PROVE  lease'[l] = lease[l] \/ lease'[l] = [lease[l] EXCEPT !.status = "EXPIRED"]
  BY <1>1, <1>3 DEF ClaimTask, FindActive, Newest, ActiveOf, LeasesOf
<1>4. ASSUME NEW l \in LeaseId, Issued(l)
      PROVE  Issued(l)' /\ lease'[l].task = lease[l].task
  <2> DEFINE row == [lease[l] EXCEPT !.status = "EXPIRED"]
  <2>1. row.status = "EXPIRED" /\ row.task = lease[l].task
    BY <1>4, RowUpdate DEF IInv, TablesOK, LeaseStatus
  <2>2. lease'[l] = lease[l] \/ lease'[l] = row
    BY <1>3, <1>4
  <2> HIDE DEF row
  <2> QED BY <1>4, <2>1, <2>2 DEF Issued
<1>5. Issued(n)' /\ lease'[n].task = t
  BY <1>2 DEF NewLease, Issued
<1> QED BY <1>4, <1>5 DEF LeasesKept

LEMMA EventsStay == ASSUME [Next]_vars PROVE audit \subseteq audit'
<1>1. ASSUME NEW types, NEW l, Record(types, l) PROVE audit \subseteq audit'
  BY <1>1 DEF Record
<1> QED
  BY <1>1 DEF Next, Worker, ClaimTask, Renew, LateHeartbeat, CompleteTask, FailTask,
     ReleaseTask, Finish, UpdateStatus, StalledRecovery, DetectStalledLeases, RecoverLease,
     ReclaimAndRequeue, FailStalled, RecoveryThrows, RecordSome, CrashRecovery,
     ListExpiredLeases, EvictLeases, EvictionFails, ListInterruptedTasks, ResetTasks, Crash,
     Tick, vars

LEMMA TaskFacts ==
  ASSUME ConstantsAssumption, IInv, [Next]_vars
  PROVE  IInv' /\ LiveWasLive /\ LeasesKept /\ audit \subseteq audit'
<1>1. LeasesKept
  <2>1. CASE \E t \in Task, l \in LeaseId : ClaimTask(t, l)
    BY <2>1, ClaimKeeps
  <2>2. CASE NothingGranted
    BY <2>2 DEF NothingGranted, LeasesKept
  <2>3. CASE UNCHANGED vars
    BY <2>3 DEF vars, LeasesKept, Issued
  <2> QED BY <2>1, <2>2, <2>3, StepCases
<1> QED BY <1>1, StepCases, StutterStep, LiveStep, EventsStay

-----------------------------------------------------------------------------
(* The dispatches and the calls. *)

(* No row is deleted, and a row keeps its task and its lease. *)
DispatchesKept ==
  \A e \in DispatchId : Saved(e) =>
    /\ Saved(e)'
    /\ LeaseOf(e)' = LeaseOf(e)
    /\ dispatch'[e].task = dispatch[e].task

(* What a call has read stays true while another one steps. *)
LEMMA ReadStays ==
  ASSUME RemoteInv, LeasesKept, LiveWasLive, DispatchesKept, NEW b \in Caller,
         call'[b] = call[b]
  PROVE  ReadHolds(call[b])'
<1>1. ReadHolds(call[b]) /\ call'[b] = call[b]
  BY DEF RemoteInv, CallKnown
<1>2. call[b].stage = "save" =>
        Issued(call[b].lease)' /\ lease'[call[b].lease].task = call[b].task
  BY <1>1, CallFields DEF RemoteInv, ReadHolds, LeasesKept
<1>3. call[b].stage \in {"commit", "cancel", "release", "reclaim"} =>
        Saved(call[b].dispatch)'
  BY <1>1, CallFields DEF RemoteInv, ReadHolds, DispatchesKept
<1>4. call[b].stage \in {"reconcile", "reclaim"} => \A d \in call[b].left : Saved(d)'
  BY <1>1, CallFields DEF RemoteInv, ReadHolds, DispatchesKept
<1>5. call[b].stage = "reclaim" => ~Live(LeaseOf(call[b].dispatch))'
  <2> SUFFICES ASSUME call[b].stage = "reclaim" PROVE ~Live(LeaseOf(call[b].dispatch))'
    OBVIOUS
  <2> DEFINE d == call[b].dispatch
             l == LeaseOf(d)
  <2>1. d \in DispatchId /\ Saved(d) /\ ~Live(l)
    BY <1>1, CallFields DEF RemoteInv, ReadHolds
  <2>2. l \in LeaseId /\ Issued(l)
    BY <2>1, SavedRow DEF RemoteInv, DispatchKnown
  <2>3. LeaseOf(d)' = l
    BY <2>1, <1>1 DEF DispatchesKept
  <2>4. (~Live(l))' = ~Live(l)'
    OBVIOUS
  <2>5. lease'[l].status = "ACTIVE" => lease'[l].left = 0
    BY <2>1, <2>2 DEF LiveWasLive, Live, Expired
  <2> QED BY <2>3, <2>5, <1>1 DEF Live, Expired
<1> QED BY <1>1, <1>2, <1>3, <1>4, <1>5 DEF ReadHolds

(* Rows that are new, or that a call gave another status, hold what the     *)
(* invariants ask of them; the others do because leases do not revive.      *)
LEMMA RowsStep ==
  ASSUME RemoteInv, LeasesKept, LiveWasLive, audit \subseteq audit', DispatchesKept,
         dispatch' \in [DispatchId -> DispatchRow \cup {NoDispatch}],
         NEW d \in DispatchId,
         \A e \in DispatchId \ {d} : dispatch'[e] = dispatch[e],
         Saved(d)' =>
           /\ Issued(LeaseOf(d))'
           /\ lease'[LeaseOf(d)'].task = dispatch'[d].task
           /\ dispatch'[d].status = "COMPLETED" =>
                <<"TASK_COMPLETED", LeaseOf(d)'>> \in audit'
           /\ dispatch'[d].status \in {"COMPLETED", "FAILED", "RECLAIMED"} =>
                ~Live(LeaseOf(d))'
  PROVE  DispatchKnown' /\ CompletedIsBacked' /\ SettledHasLetGo'
<1>1. ASSUME NEW e \in DispatchId, e # d, Saved(e)'
      PROVE  /\ Saved(e) /\ LeaseOf(e)' = LeaseOf(e) /\ LeaseOf(e) \in LeaseId
             /\ Issued(LeaseOf(e)) /\ lease[LeaseOf(e)].task = dispatch[e].task
             /\ dispatch'[e] = dispatch[e]
  <2>1. dispatch'[e] = dispatch[e] /\ Saved(e)
    BY <1>1 DEF Saved
  <2> QED BY <2>1, SavedRow DEF LeaseOf, RemoteInv, DispatchKnown
<1>2. DispatchKnown'
  <2> SUFFICES ASSUME NEW e \in DispatchId, Saved(e)'
               PROVE  Issued(LeaseOf(e))' /\ lease'[LeaseOf(e)'].task = dispatch'[e].task
    BY DEF DispatchKnown
  <2>1. CASE e = d
    BY <2>1
  <2>2. CASE e # d
    BY <2>2, <1>1 DEF LeasesKept, Issued
  <2> QED BY <2>1, <2>2
<1>3. CompletedIsBacked'
  <2> SUFFICES ASSUME NEW e \in DispatchId, Saved(e)', dispatch'[e].status = "COMPLETED"
               PROVE  /\ <<"TASK_COMPLETED", LeaseOf(e)'>> \in audit'
                      /\ lease'[LeaseOf(e)'].task = dispatch'[e].task
    BY DEF CompletedIsBacked, Dispatched
  <2>1. lease'[LeaseOf(e)'].task = dispatch'[e].task
    BY <1>2 DEF DispatchKnown
  <2>2. CASE e = d
    BY <2>1, <2>2
  <2>3. CASE e # d
    <3>1. <<"TASK_COMPLETED", LeaseOf(e)>> \in audit
      BY <2>3, <1>1 DEF RemoteInv, CompletedIsBacked, Dispatched
    <3> QED BY <2>1, <2>3, <3>1, <1>1
  <2> QED BY <2>2, <2>3
<1>4. SettledHasLetGo'
  <2> SUFFICES ASSUME NEW e \in DispatchId, Saved(e)',
                      dispatch'[e].status \in {"COMPLETED", "FAILED", "RECLAIMED"}
               PROVE  ~Live(LeaseOf(e))'
    BY DEF SettledHasLetGo, Dispatched
  <2>1. CASE e = d
    BY <2>1
  <2>2. CASE e # d
    <3> DEFINE l == LeaseOf(e)
    <3>1. l \in LeaseId /\ Issued(l) /\ LeaseOf(e)' = l /\ ~Live(l)
      BY <2>2, <1>1 DEF RemoteInv, SettledHasLetGo, Dispatched
    <3>2. lease'[l].status = "ACTIVE" => lease'[l].left = 0
      BY <3>1 DEF LiveWasLive, Live, Expired
    <3> QED BY <3>1, <3>2 DEF Live, Expired
  <2> QED BY <2>1, <2>2
<1> QED BY <1>2, <1>3, <1>4

(* A call moves on, and the dispatches stay as they are. *)
LEMMA ReadingStep ==
  ASSUME ConstantsAssumption, RemoteInv, [Next]_vars, UNCHANGED dispatch,
         node' \in [Node -> NodeStatus \cup {"NONE"}],
         call' \in [Caller -> CallState],
         \A b \in Caller : call'[b] = call[b] \/ ReadHolds(call[b])'
  PROVE  RemoteInv'
<1>1. IInv' /\ LiveWasLive /\ LeasesKept /\ audit \subseteq audit'
  BY TaskFacts DEF RemoteInv
<1>2. DispatchesKept
  BY DEF DispatchesKept, Saved, LeaseOf
<1>3. RemoteTypes'
  BY DEF RemoteInv, RemoteTypes
<1>4. CallKnown'
  BY <1>1, <1>2, ReadStays DEF CallKnown
<1>5. DispatchKnown' /\ CompletedIsBacked' /\ SettledHasLetGo'
  <2>1. CASE DispatchId = {}
    BY <2>1 DEF DispatchKnown, CompletedIsBacked, SettledHasLetGo, Dispatched
  <2>2. ASSUME NEW d \in DispatchId
        PROVE  Saved(d)' =>
                 /\ Issued(LeaseOf(d))'
                 /\ lease'[LeaseOf(d)'].task = dispatch'[d].task
                 /\ dispatch'[d].status = "COMPLETED" =>
                      <<"TASK_COMPLETED", LeaseOf(d)'>> \in audit'
                 /\ dispatch'[d].status \in {"COMPLETED", "FAILED", "RECLAIMED"} =>
                      ~Live(LeaseOf(d))'
    <3> SUFFICES ASSUME Saved(d)'
                 PROVE  /\ Issued(LeaseOf(d))'
                        /\ lease'[LeaseOf(d)'].task = dispatch'[d].task
                        /\ dispatch'[d].status = "COMPLETED" =>
                             <<"TASK_COMPLETED", LeaseOf(d)'>> \in audit'
                        /\ dispatch'[d].status \in {"COMPLETED", "FAILED", "RECLAIMED"} =>
                             ~Live(LeaseOf(d))'
      OBVIOUS
    <3>1. Saved(d) /\ LeaseOf(d)' = LeaseOf(d) /\ dispatch' = dispatch
      BY DEF Saved, LeaseOf
    <3>2. LeaseOf(d) \in LeaseId /\ Issued(LeaseOf(d))
          /\ lease[LeaseOf(d)].task = dispatch[d].task
      BY <3>1, SavedRow DEF RemoteInv, DispatchKnown
    <3>3. Issued(LeaseOf(d))' /\ lease'[LeaseOf(d)'].task = dispatch'[d].task
      BY <1>1, <3>1, <3>2 DEF LeasesKept, Issued
    <3>4. dispatch'[d].status = "COMPLETED" => <<"TASK_COMPLETED", LeaseOf(d)'>> \in audit'
      BY <1>1, <3>1 DEF RemoteInv, CompletedIsBacked, Dispatched
    <3>5. dispatch'[d].status \in {"COMPLETED", "FAILED", "RECLAIMED"} => ~Live(LeaseOf(d))'
      BY <1>1, <3>1, <3>2 DEF RemoteInv, SettledHasLetGo, Dispatched, LiveWasLive, Live, Expired
    <3> QED BY <3>3, <3>4, <3>5
  <2> QED BY <1>1, <1>2, <1>3, <2>1, <2>2, RowsStep DEF RemoteTypes
<1> QED BY <1>1, <1>3, <1>4, <1>5 DEF RemoteInv

LEMMA SetCallFrame ==
  ASSUME RemoteTypes, NEW c \in Caller, NEW s \in CallState, SetCall(c, s)
  PROVE  /\ call' \in [Caller -> CallState]
         /\ call'[c] = s
         /\ \A b \in Caller \ {c} : call'[b] = call[b]
BY DEF RemoteTypes, SetCall

LEMMA IdleCallKnows == IdleCall \in CallState /\ IdleCall.stage = "idle"
BY DEF CallState, IdleCall

(* The call of c moves on to s and writes at most a node's status. *)
LEMMA CallStep ==
  ASSUME ConstantsAssumption, RemoteInv, [Next]_vars, UNCHANGED dispatch,
         node' \in [Node -> NodeStatus \cup {"NONE"}],
         NEW c \in Caller, NEW s \in CallState, SetCall(c, s),
         ReadHolds(call[c])'
  PROVE  RemoteInv'
<1>1. /\ call' \in [Caller -> CallState]
      /\ \A b \in Caller \ {c} : call'[b] = call[b]
  BY SetCallFrame DEF RemoteInv
<1> QED BY <1>1, ReadingStep

(* A call that is over, or that has only been made, remembers nothing that  *)
(* another call could make untrue.                                          *)
LEMMA NothingRead ==
  ASSUME RemoteTypes, NEW c \in Caller, NEW s \in CallState, SetCall(c, s),
         s.stage \in {"idle", "claim", "beat", "stalled"}
  PROVE  ReadHolds(call[c])'
<1>1. call'[c] = s
  BY SetCallFrame
<1> QED BY <1>1 DEF ReadHolds

LEMMA NodeSteps ==
  ASSUME ConstantsAssumption, RemoteInv, [Next]_vars, NEW c \in Caller, NodeStep(c)
  PROVE  RemoteInv'
<1> USE DEF RemoteInv, RemoteTypes
<1>1. ASSUME NEW n \in Node, NEW s \in NodeStatus, ReadForHeartbeat(c, n, s),
             UNCHANGED <<node, dispatch>>
      PROVE  RemoteInv'
  <2> DEFINE beat == [stage |-> "beat", node |-> n, status |-> s]
  <2>1. beat \in CallState /\ beat.stage = "beat"
    BY DEF CallState
  <2>2. SetCall(c, beat)
    BY <1>1 DEF ReadForHeartbeat
  <2> HIDE DEF beat
  <2> QED BY <1>1, <2>1, <2>2, NothingRead, CallStep
<1>2. ASSUME NEW n \in Node, NodeHeartbeat(c, n)
      PROVE  RemoteInv'
  <2>1. node[n] # "NONE" => HeartbeatStatus(n) \in NodeStatus
    BY DEF HeartbeatStatus, NodeStatus
  <2>2. PICK s \in NodeStatus : ReadForHeartbeat(c, n, s)
    BY <1>2, <2>1 DEF NodeHeartbeat, ReadForHeartbeat, Registered, NodeStatus
  <2> QED BY <1>1, <1>2, <2>2 DEF NodeHeartbeat
<1>3. CASE UpdateHeartbeat(c)
  <2>1. node' \in [Node -> NodeStatus \cup {"NONE"}]
    BY <1>3, CallFields DEF UpdateHeartbeat
  <2> QED BY <1>3, <2>1, IdleCallKnows, NothingRead, CallStep DEF UpdateHeartbeat
<1>4. CASE ListStalledNodes(c)
  <2>1. PICK silent \in SUBSET Node : SetCall(c, [stage |-> "stalled", nodes |-> silent])
    BY <1>4 DEF ListStalledNodes, Online
  <2> DEFINE s == [stage |-> "stalled", nodes |-> silent]
  <2>2. s \in CallState /\ s.stage = "stalled" /\ SetCall(c, s)
    BY <2>1 DEF CallState
  <2> HIDE DEF s
  <2> QED BY <1>4, <2>2, NothingRead, CallStep DEF ListStalledNodes
<1>5. ASSUME NEW n \in Node, SaveOffline(c, n)
      PROVE  RemoteInv'
  <2>1. node' \in [Node -> NodeStatus \cup {"NONE"}]
    BY <1>5 DEF SaveOffline, NodeStatus
  <2> DEFINE rest == [call[c] EXCEPT !.nodes = @ \ {n}]
  <2>2. rest \in CallState /\ rest.stage = "stalled"
    BY <1>5 DEF SaveOffline, CallState, IdleCall
  <2>3. \E s \in CallState : SetCall(c, s) /\ s.stage \in {"idle", "stalled"}
    BY <1>5, <2>2, IdleCallKnows DEF SaveOffline
  <2> QED BY <1>5, <2>1, <2>3, NothingRead, CallStep DEF SaveOffline
<1> QED BY <1>2, <1>3, <1>4, <1>5 DEF NodeStep

LEMMA DispatchStatusSet ==
  ASSUME RemoteTypes, NEW d \in DispatchId, Saved(d), NEW s \in DispatchStatus,
         SetDispatch(d, s)
  PROVE  /\ dispatch' \in [DispatchId -> DispatchRow \cup {NoDispatch}]
         /\ dispatch'[d].status = s
         /\ Saved(d)' /\ LeaseOf(d)' = LeaseOf(d) /\ dispatch'[d].task = dispatch[d].task
         /\ \A e \in DispatchId \ {d} : dispatch'[e] = dispatch[e]
         /\ DispatchesKept
<1> DEFINE row == [dispatch[d] EXCEPT !.status = s]
<1>1. dispatch[d] \in DispatchRow
  BY SavedRow
<1>2. /\ row \in DispatchRow /\ row.status = s
      /\ row.lease = dispatch[d].lease /\ row.task = dispatch[d].task
  BY <1>1 DEF DispatchRow
<1>3. dispatch' = [dispatch EXCEPT ![d] = row]
  BY DEF SetDispatch
<1>4. s # "NONE"
  BY DEF DispatchStatus, ActiveStatus
<1> HIDE DEF row
<1>5. /\ dispatch' \in [DispatchId -> DispatchRow \cup {NoDispatch}]
      /\ dispatch'[d] = row
      /\ \A e \in DispatchId \ {d} : dispatch'[e] = dispatch[e]
  BY <1>2, <1>3 DEF RemoteTypes
<1>6. Saved(d)' /\ LeaseOf(d)' = LeaseOf(d) /\ dispatch'[d].task = dispatch[d].task
  BY <1>2, <1>4, <1>5 DEF Saved, LeaseOf
<1> QED BY <1>2, <1>5, <1>6 DEF DispatchesKept, Saved, LeaseOf

(* A call gives the dispatch d the status s. *)
LEMMA SettleStep ==
  ASSUME ConstantsAssumption, RemoteInv, [Next]_vars, UNCHANGED node,
         NEW d \in DispatchId, Saved(d), NEW s \in DispatchStatus, SetDispatch(d, s),
         NEW l, l = LeaseOf(d),
         s = "COMPLETED" => <<"TASK_COMPLETED", l>> \in audit',
         s \in {"COMPLETED", "FAILED", "RECLAIMED"} => ~Live(l)',
         NEW c \in Caller, NEW r \in CallState, SetCall(c, r),
         DispatchesKept => ReadHolds(call[c])'
  PROVE  RemoteInv'
<1> USE DEF RemoteInv
<1>1. IInv' /\ LiveWasLive /\ LeasesKept /\ audit \subseteq audit'
  BY TaskFacts
<1>2. /\ dispatch' \in [DispatchId -> DispatchRow \cup {NoDispatch}]
      /\ dispatch'[d].status = s
      /\ LeaseOf(d)' = l /\ dispatch'[d].task = dispatch[d].task
      /\ \A e \in DispatchId \ {d} : dispatch'[e] = dispatch[e]
      /\ DispatchesKept
  BY DispatchStatusSet
<1>3. Issued(l)' /\ lease'[l].task = dispatch'[d].task
  BY <1>1, <1>2, SavedRow DEF DispatchKnown, LeasesKept
<1>4. /\ Issued(LeaseOf(d))' /\ lease'[LeaseOf(d)'].task = dispatch'[d].task
  BY <1>2, <1>3 DEF Issued
<1>5. dispatch'[d].status \in {"COMPLETED", "FAILED", "RECLAIMED"} => ~Live(LeaseOf(d))'
  BY <1>2 DEF Live, Expired
<1>6. dispatch'[d].status = "COMPLETED" => <<"TASK_COMPLETED", LeaseOf(d)'>> \in audit'
  BY <1>2
<1>7. DispatchKnown' /\ CompletedIsBacked' /\ SettledHasLetGo'
  BY <1>1, <1>2, <1>4, <1>5, <1>6, RowsStep
<1>8. CallKnown' /\ call' \in [Caller -> CallState]
  BY <1>1, <1>2, ReadStays, SetCallFrame DEF CallKnown
<1> QED BY <1>1, <1>2, <1>7, <1>8 DEF RemoteTypes

LEMMA DispatchSteps ==
  ASSUME ConstantsAssumption, RemoteInv, [Next]_vars, NEW c \in Caller, DispatchStep(c)
  PROVE  RemoteInv'
<1> USE DEF RemoteInv, RemoteTypes
<1>1. ASSUME NEW t \in Task, NEW n \in Node, NEW k \in Key, DispatchTask(c, t, n, k)
      PROVE  RemoteInv'
  <2> DEFINE s == [stage |-> "claim", task |-> t, node |-> n, key |-> k]
  <2>1. s \in CallState /\ s.stage = "claim" /\ SetCall(c, s)
    BY <1>1 DEF DispatchTask, CallState
  <2> HIDE DEF s
  <2> QED BY <1>1, <2>1, NothingRead, CallStep DEF DispatchTask
<1>2. ASSUME NEW l \in LeaseId, ClaimForDispatch(c, l)
      PROVE  RemoteInv'
  <2>1. PICK t \in Task, n \in Node, k \in Key :
          /\ ClaimTask(t, l)
          /\ SetCall(c, [stage |-> "save", task |-> t, node |-> n, key |-> k, lease |-> l])
    BY <1>2, CallFields DEF ClaimForDispatch
  <2> DEFINE s == [stage |-> "save", task |-> t, node |-> n, key |-> k, lease |-> l]
  <2>2. s \in CallState /\ s.stage = "save" /\ s.lease = l /\ s.task = t /\ SetCall(c, s)
    BY <2>1 DEF CallState
  <2> HIDE DEF s
  <2>3. call'[c] = s
    BY <2>2, SetCallFrame
  <2>4. ReadHolds(call[c])'
    BY <2>1, <2>2, <2>3, ClaimKeeps DEF ReadHolds
  <2> QED BY <1>2, <2>2, <2>4, CallStep DEF ClaimForDispatch
<1>3. ASSUME NEW d \in DispatchId, SaveDispatch(c, d), ~Saved(d)
      PROVE  RemoteInv'
  <2>1. PICK t \in Task, n \in Node, k \in Key, l \in LeaseId :
          /\ t = call[c].task /\ l = call[c].lease
          /\ dispatch' = [dispatch EXCEPT ![d] =
               [status |-> "DISPATCHED", task |-> t, lease |-> l, node |-> n, key |-> k]]
    BY <1>3, CallFields DEF SaveDispatch, NewDispatch
  <2> DEFINE row == [status |-> "DISPATCHED", task |-> t, lease |-> l, node |-> n, key |-> k]
  <2>2. /\ row \in DispatchRow
        /\ row.status = "DISPATCHED" /\ row.task = t /\ row.lease = l
        /\ dispatch' = [dispatch EXCEPT ![d] = row]
    BY <2>1 DEF DispatchRow, DispatchStatus, ActiveStatus
  <2> HIDE DEF row
  <2>3. /\ dispatch' \in [DispatchId -> DispatchRow \cup {NoDispatch}]
        /\ dispatch'[d] = row
        /\ \A e \in DispatchId \ {d} : dispatch'[e] = dispatch[e]
    BY <2>2
  <2>4. IInv' /\ LiveWasLive /\ LeasesKept /\ audit \subseteq audit'
    BY TaskFacts
  <2>5. DispatchesKept
    BY <1>3, <2>3 DEF DispatchesKept, SaveDispatch, Saved, LeaseOf
  <2>6. Issued(l) /\ lease[l].task = t
    BY <1>3, <2>1 DEF SaveDispatch, CallKnown, ReadHolds
  <2>7. Issued(l)' /\ lease'[l].task = t
    BY <2>4, <2>6 DEF LeasesKept
  <2>8. LeaseOf(d)' = l
    BY <2>2, <2>3 DEF LeaseOf
  <2>9. DispatchKnown' /\ CompletedIsBacked' /\ SettledHasLetGo'
    <3>1. Issued(LeaseOf(d))' /\ lease'[LeaseOf(d)'].task = dispatch'[d].task
      BY <2>2, <2>3, <2>7, <2>8 DEF Issued
    <3> QED BY <2>2, <2>3, <2>4, <2>5, <3>1, RowsStep
  <2>10. SetCall(c, IdleCall) /\ UNCHANGED node
    BY <1>3 DEF SaveDispatch
  <2>11. CallKnown' /\ call' \in [Caller -> CallState]
    BY <2>4, <2>5, <2>10, ReadStays, IdleCallKnows, NothingRead, SetCallFrame DEF CallKnown
  <2> QED BY <2>3, <2>4, <2>9, <2>10, <2>11
<1>4. ASSUME NEW d \in DispatchId, SaveDispatch(c, d), Saved(d)
      PROVE  RemoteInv'
  <2>1. SetDispatch(d, "DISPATCHED") /\ SetCall(c, IdleCall) /\ UNCHANGED node
    BY <1>4 DEF SaveDispatch
  <2>2. "DISPATCHED" \in DispatchStatus \ {"COMPLETED", "FAILED", "RECLAIMED"}
    BY DEF DispatchStatus, ActiveStatus
  <2> QED BY <1>4, <2>1, <2>2, IdleCallKnows, NothingRead, SettleStep
<1> QED BY <1>1, <1>2, <1>3, <1>4 DEF DispatchStep

(* The worker of a lease that may be written under owns its task. *)
LEMMA LiveIsOwned ==
  ASSUME IInv, NEW l \in LeaseId, Live(l)
  PROVE  VerifyOwnership(l)
<1>1. Issued(l) /\ l \in ActiveOf(lease[l].task)
  BY DEF Live, Issued, ActiveOf, LeasesOf
<1>2. ASSUME NEW m \in ActiveOf(lease[l].task)
      PROVE  lease[m].generation <= lease[l].generation
  <2>1. m \in LeaseId /\ Issued(m) /\ lease[m].task = lease[l].task
    BY <1>2 DEF ActiveOf, LeasesOf
  <2>2. lease[m].generation \in Nat /\ lease[l].generation \in Nat
    BY <1>1, <2>1, RowCases DEF IInv, TablesOK, LeaseRow
  <2> QED BY <1>1, <2>1, <2>2 DEF IInv, TablesOK, ActiveIsNewest, Live
<1> QED BY <1>1, <1>2 DEF VerifyOwnership, FindActive, Newest, Live

(* A call that ends a lease, or that the claim manager turned away, leaves  *)
(* nothing that could be written under.                                     *)
LEMMA LetGo ==
  ASSUME IInv, NEW l \in LeaseId,
         \/ CompleteTask(l) \/ FailTask(l) \/ ReleaseTask(l)
         \/ ~VerifyOwnership(l) /\ UNCHANGED vars
  PROVE  ~Live(l)'
<1>1. CASE ~VerifyOwnership(l) /\ UNCHANGED vars
  BY <1>1, LiveIsOwned DEF vars, Live, Expired
<1>2. CASE CompleteTask(l) \/ FailTask(l) \/ ReleaseTask(l)
  <2>1. Issued(l) /\ lease' = [lease EXCEPT ![l].status = "RELEASED"]
    BY <1>2 DEF CompleteTask, FailTask, ReleaseTask, Finish, VerifyOwnership
  <2> DEFINE row == [lease[l] EXCEPT !.status = "RELEASED"]
  <2>2. row.status = "RELEASED" /\ lease'[l] = row
    BY <2>1, RowUpdate DEF IInv, TablesOK, TypeOK, LeaseStatus
  <2> HIDE DEF row
  <2> QED BY <2>2 DEF Live
<1> QED BY <1>1, <1>2

LEMMA CommitStep ==
  ASSUME ConstantsAssumption, RemoteInv, [Next]_vars, NEW c \in Caller, CommitResult(c)
  PROVE  RemoteInv'
<1> USE DEF RemoteInv
<1>1. PICK d \in DispatchId : d = call[c].dispatch /\ Saved(d)
  BY CallFields DEF CommitResult, CallKnown, ReadHolds
<1>2. PICK l \in LeaseId : l = LeaseOf(d)
  BY <1>1, SavedRow
<1>3. /\ SetCall(c, IdleCall) /\ UNCHANGED node
      /\ CommitSuccess(d) \/ CommitFailure(d)
  BY <1>1 DEF CommitResult
<1>4. IdleCall \in CallState /\ ReadHolds(call[c])'
  BY <1>3, IdleCallKnows, NothingRead
<1>5. CASE CommitSuccess(d)
  <2>1. CompleteTask(l) /\ SetDispatch(d, "COMPLETED")
    BY <1>2, <1>5 DEF CommitSuccess
  <2>2. <<"TASK_COMPLETED", l>> \in audit'
    BY <2>1 DEF CompleteTask, Finish, Record
  <2>3. "COMPLETED" \in DispatchStatus
    BY DEF DispatchStatus
  <2> QED BY <1>1, <1>2, <1>3, <1>4, <2>1, <2>2, <2>3, LetGo, SettleStep
<1>6. CASE CommitFailure(d)
  <2>1. /\ SetDispatch(d, "FAILED")
        /\ FailTask(l) \/ (~VerifyOwnership(l) /\ UNCHANGED vars)
    BY <1>2, <1>6 DEF CommitFailure, NotOwner
  <2>2. ~Live(l)'
    BY <2>1, LetGo
  <2>3. "FAILED" \in DispatchStatus
    BY DEF DispatchStatus
  <2> QED BY <1>1, <1>2, <1>3, <1>4, <2>1, <2>2, <2>3, SettleStep
<1> QED BY <1>3, <1>5, <1>6

LEMMA MessageSteps ==
  ASSUME ConstantsAssumption, RemoteInv, [Next]_vars, NEW c \in Caller, MessageStep(c)
  PROVE  RemoteInv'
<1> USE DEF RemoteInv, RemoteTypes
<1>1. ASSUME NEW d \in DispatchId, RemoteHeartbeat(c, d)
      PROVE  RemoteInv'
  <2> DEFINE n == dispatch[d].node
  <2>1. n \in Node /\ node[n] \in NodeStatus \cup {"NONE"}
    BY <1>1, SavedRow DEF RemoteHeartbeat, DispatchRow
  <2>2. CASE UNCHANGED call
    BY <1>1, <2>2, ReadingStep DEF RemoteHeartbeat
  <2>3. CASE ReadForHeartbeat(c, n, HeartbeatStatus(n))
    <3>1. PICK m \in Node, s \in NodeStatus : ReadForHeartbeat(c, m, s)
      BY <2>1, <2>3 DEF HeartbeatStatus, NodeStatus, ReadForHeartbeat, Registered
    <3> DEFINE beat == [stage |-> "beat", node |-> m, status |-> s]
    <3>2. beat \in CallState /\ beat.stage = "beat" /\ SetCall(c, beat)
      BY <3>1 DEF CallState, ReadForHeartbeat
    <3> HIDE DEF beat
    <3> QED BY <1>1, <3>2, NothingRead, CallStep DEF RemoteHeartbeat
  <2> QED BY <1>1, <2>2, <2>3 DEF RemoteHeartbeat
<1>2. ASSUME NEW d \in DispatchId, NEW o \in Outcome, AcceptRemoteResult(c, d, o)
      PROVE  RemoteInv'
  <2> DEFINE s == [stage |-> "commit", dispatch |-> d, outcome |-> o]
  <2>1. s \in CallState /\ s.stage = "commit" /\ s.dispatch = d /\ SetCall(c, s)
    BY <1>2 DEF AcceptRemoteResult, CallState
  <2> HIDE DEF s
  <2>2. call'[c] = s
    BY <2>1, SetCallFrame
  <2>3. Saved(d) /\ UNCHANGED dispatch
    BY <1>2 DEF AcceptRemoteResult
  <2>4. ReadHolds(call[c])'
    BY <2>1, <2>2, <2>3 DEF ReadHolds, Saved
  <2> QED BY <1>2, <2>1, <2>4, CallStep DEF AcceptRemoteResult
<1> QED BY <1>1, <1>2, CommitStep DEF MessageStep

LEMMA CancelSteps ==
  ASSUME ConstantsAssumption, RemoteInv, [Next]_vars, NEW c \in Caller,
         \/ \E d \in DispatchId : CancelDispatch(c, d)
         \/ SaveCancelled(c) \/ ReleaseCancelled(c)
  PROVE  RemoteInv'
<1> USE DEF RemoteInv, RemoteTypes
<1>1. ASSUME NEW d \in DispatchId, CancelDispatch(c, d)
      PROVE  RemoteInv'
  <2> DEFINE s == [stage |-> "cancel", dispatch |-> d]
  <2>1. s \in CallState /\ s.stage = "cancel" /\ s.dispatch = d /\ SetCall(c, s)
    BY <1>1 DEF CancelDispatch, CallState
  <2> HIDE DEF s
  <2>2. call'[c] = s
    BY <2>1, SetCallFrame
  <2>3. Saved(d) /\ UNCHANGED dispatch
    BY <1>1 DEF CancelDispatch
  <2>4. ReadHolds(call[c])'
    BY <2>1, <2>2, <2>3 DEF ReadHolds, Saved
  <2> QED BY <1>1, <2>1, <2>4, CallStep DEF CancelDispatch
<1>2. CASE SaveCancelled(c)
  <2>1. PICK d \in DispatchId : d = call[c].dispatch /\ Saved(d)
    BY <1>2, CallFields DEF SaveCancelled, CallKnown, ReadHolds
  <2>2. PICK l \in LeaseId : l = LeaseOf(d)
    BY <2>1, SavedRow
  <2> DEFINE s == [call[c] EXCEPT !.stage = "release"]
  <2>3. s \in CallState /\ s.stage = "release" /\ s.dispatch = d /\ SetCall(c, s)
    BY <1>2, <2>1 DEF SaveCancelled, CallState, IdleCall
  <2> HIDE DEF s
  <2>4. call'[c] = s
    BY <2>3, SetCallFrame
  <2>5. DispatchesKept => ReadHolds(call[c])'
    BY <2>1, <2>3, <2>4 DEF DispatchesKept, ReadHolds, Saved
  <2>6. SetDispatch(d, "CANCELLED") /\ "CANCELLED" \in DispatchStatus
    BY <1>2, <2>1 DEF SaveCancelled, DispatchStatus
  <2>7. UNCHANGED node
    BY <1>2 DEF SaveCancelled
  <2> QED BY <2>1, <2>2, <2>3, <2>5, <2>6, <2>7, SettleStep
<1>3. CASE ReleaseCancelled(c)
  BY <1>3, IdleCallKnows, NothingRead, CallStep DEF ReleaseCancelled
<1> QED BY <1>1, <1>2, <1>3

LEMMA ReconcileSteps ==
  ASSUME ConstantsAssumption, RemoteInv, [Next]_vars, NEW c \in Caller,
         \/ ListActiveDispatches(c)
         \/ \E d \in DispatchId : ReclaimLease(c, d)
         \/ SaveReclaimed(c)
  PROVE  RemoteInv'
<1> USE DEF RemoteInv, RemoteTypes
<1>1. CASE ListActiveDispatches(c)
  <2> DEFINE active == {d \in DispatchId : dispatch[d].status \in ActiveStatus}
             s == [stage |-> "reconcile", left |-> active]
  <2>1. /\ s \in CallState /\ s.stage = "reconcile" /\ SetCall(c, s)
        /\ \A d \in s.left : d \in DispatchId /\ Saved(d)
    BY <1>1 DEF ListActiveDispatches, CallState, ActiveStatus, Saved
  <2>2. UNCHANGED dispatch /\ s.left \in SUBSET DispatchId
    BY <1>1 DEF ListActiveDispatches
  <2>3. \E r \in CallState : /\ r.stage = "reconcile" /\ SetCall(c, r)
                             /\ \A d \in r.left : d \in DispatchId /\ Saved(d)
    BY <2>1
  <2> HIDE DEF s
  <2>4. PICK r \in CallState : /\ r.stage = "reconcile" /\ SetCall(c, r)
                               /\ \A d \in r.left : d \in DispatchId /\ Saved(d)
    BY <2>3
  <2>5. call'[c] = r
    BY <2>4, SetCallFrame
  <2>6. ReadHolds(call[c])'
    BY <2>2, <2>4, <2>5 DEF ReadHolds, Saved
  <2> QED BY <1>1, <2>4, <2>6, CallStep DEF ListActiveDispatches
<1>2. ASSUME NEW d \in DispatchId, ReclaimLease(c, d)
      PROVE  RemoteInv'
  <2>1. PICK rest \in SUBSET DispatchId : rest = call[c].left \ {d}
    BY <1>2, CallFields DEF ReclaimLease
  <2>2. Saved(d) /\ \A e \in rest : Saved(e)
    BY <1>2, <2>1 DEF ReclaimLease, CallKnown, ReadHolds
  <2>3. PICK l \in LeaseId : l = LeaseOf(d)
    BY <2>2, SavedRow
  <2>4. ReleaseTask(l) \/ (~VerifyOwnership(l) /\ UNCHANGED vars)
    BY <1>2, <2>3 DEF ReclaimLease, NotOwner
  <2>5. ~Live(l)'
    BY <2>4, LetGo
  <2> DEFINE s == [stage |-> "reclaim", left |-> rest, dispatch |-> d]
  <2>6. /\ s \in CallState /\ s.stage = "reclaim" /\ s.dispatch = d /\ s.left = rest
        /\ SetCall(c, s)
    BY <1>2, <2>1 DEF ReclaimLease, CallState
  <2> HIDE DEF s
  <2>7. call'[c] = s /\ UNCHANGED dispatch
    BY <1>2, <2>6, SetCallFrame DEF ReclaimLease
  <2>8. LeaseOf(d)' = l
    BY <2>3, <2>7 DEF LeaseOf
  <2>9. ReadHolds(call[c])'
    BY <2>2, <2>5, <2>6, <2>7, <2>8 DEF ReadHolds, Saved, Live, Expired
  <2> QED BY <1>2, <2>6, <2>9, CallStep DEF ReclaimLease
<1>3. CASE SaveReclaimed(c)
  <2>1. PICK d \in DispatchId, left \in SUBSET DispatchId :
          /\ d = call[c].dispatch /\ left = call[c].left
          /\ Saved(d) /\ ~Live(LeaseOf(d)) /\ \A e \in left : Saved(e)
    BY <1>3, CallFields DEF SaveReclaimed, CallKnown, ReadHolds
  <2>2. PICK l \in LeaseId : l = LeaseOf(d)
    BY <2>1, SavedRow
  <2>3. ~Live(l)'
    BY <1>3, <2>1, <2>2 DEF SaveReclaimed, vars, Live, Expired
  <2>4. SetDispatch(d, "RECLAIMED") /\ UNCHANGED node /\ "RECLAIMED" \in DispatchStatus
    BY <1>3, <2>1 DEF SaveReclaimed, DispatchStatus
  <2>5. PICK r \in CallState : /\ SetCall(c, r)
                               /\ \/ r.stage = "idle"
                                  \/ r.stage = "reconcile" /\ r.left = left
    <3>1. [stage |-> "reconcile", left |-> left] \in CallState
      BY DEF CallState
    <3> QED BY <1>3, <2>1, <3>1, IdleCallKnows DEF SaveReclaimed
  <2>6. call'[c] = r
    BY <2>5, SetCallFrame
  <2>7. DispatchesKept => ReadHolds(call[c])'
    BY <2>1, <2>5, <2>6 DEF DispatchesKept, ReadHolds
  <2> QED BY <2>1, <2>2, <2>3, <2>4, <2>5, <2>7, SettleStep
<1> QED BY <1>1, <1>2, <1>3

-----------------------------------------------------------------------------
LEMMA InitRemoteInv == ASSUME ConstantsAssumption, RemoteInit PROVE RemoteInv
<1>1. IInv
  BY InitIInv DEF RemoteInit
<1>2. RemoteTypes
  BY IdleCallKnows DEF RemoteInit, RemoteTypes
<1>3. \A d \in DispatchId : ~Saved(d)
  BY DEF RemoteInit, NoDispatch, Saved
<1>4. CallKnown
  BY DEF RemoteInit, CallKnown, ReadHolds, IdleCall
<1> QED BY <1>1, <1>2, <1>3, <1>4
        DEF RemoteInv, DispatchKnown, CompletedIsBacked, SettledHasLetGo, Dispatched

LEMMA RemoteStepKeeps ==
  ASSUME ConstantsAssumption, RemoteInv, [RemoteNext]_allVars
  PROVE  RemoteInv'
<1>1. [Next]_vars
  BY TaskStep DEF RemoteInv
<1>2. CASE UNCHANGED <<dispatch, call>> /\ node' \in [Node -> NodeStatus \cup {"NONE"}]
  BY <1>1, <1>2, ReadingStep DEF RemoteInv, RemoteTypes
<1>3. CASE LocalStep \/ UNCHANGED allVars
  BY <1>2, <1>3 DEF LocalStep, remoteVars, allVars, RemoteInv, RemoteTypes
<1>4. ASSUME NEW n \in Node, RegisterNode(n) \/ \E s \in NodeStatus : MarkNode(n, s)
      PROVE  RemoteInv'
  <2>1. node' \in [Node -> NodeStatus \cup {"NONE"}]
    BY <1>4 DEF RegisterNode, MarkNode, NodeStatus, RemoteInv, RemoteTypes
  <2> QED BY <1>2, <1>4, <2>1 DEF RegisterNode, MarkNode
<1>5. ASSUME NEW c \in Caller, Leave(c)
      PROVE  RemoteInv'
  <2>1. node' \in [Node -> NodeStatus \cup {"NONE"}]
    BY <1>5 DEF Leave, RemoteInv, RemoteTypes
  <2>2. ReadHolds(call[c])'
    BY <1>5, IdleCallKnows, NothingRead DEF Leave, RemoteInv
  <2> QED BY <1>1, <1>5, <2>1, <2>2, IdleCallKnows, CallStep DEF Leave
<1>6. ASSUME NEW c \in Caller, ControlStep(c)
      PROVE  RemoteInv'
  BY <1>1, <1>6, CancelSteps, ReconcileSteps DEF ControlStep
<1> QED BY <1>1, <1>3, <1>4, <1>5, <1>6, NodeSteps, DispatchSteps, MessageSteps DEF RemoteNext

(* What is true of the dispatches, the calls under way and the leases at    *)
(* all times: the strengthening the theorems below rest on.                 *)
THEOREM RemoteInvariance == RemoteSpec => []RemoteInv
<1>1. RemoteInit => RemoteInv
  BY InitRemoteInv, ConstantsAssumption
<1>2. RemoteInv /\ [RemoteNext]_allVars => RemoteInv'
  BY RemoteStepKeeps, ConstantsAssumption
<1> QED BY <1>1, <1>2, PTL DEF RemoteSpec

(* Remote workers claim, renew and finish tasks as local ones do: every     *)
(* behaviour of the dispatches is one of TaskLease, so that its theorems    *)
(* hold of remote workers as well.                                          *)
THEOREM RemoteImplementsTaskLease == RemoteSpec => Spec
<1>1. RemoteInit => Init
  BY DEF RemoteInit
<1>2. RemoteInv /\ [RemoteNext]_allVars => [Next]_vars
  BY TaskStep DEF RemoteInv
<1> QED BY <1>1, <1>2, RemoteInvariance, PTL DEF RemoteSpec, Spec

(* Rows of the nodes and dispatches, and the calls, have their types. *)
THEOREM RemoteTypeCorrect == RemoteSpec => []RemoteTypeOK
<1>1. RemoteInv => RemoteTypeOK
  BY DEF RemoteInv, RemoteTypes, RemoteTypeOK, IInv, TablesOK
<1> QED BY <1>1, RemoteInvariance, PTL

(* A dispatch is completed only by the result its task was completed with,  *)
(* however calls of several processes interleave.                           *)
THEOREM CompletionsAreBacked == RemoteSpec => []CompletedIsBacked
BY RemoteInvariance, PTL DEF RemoteInv

(* No lease that can still be written under is left behind a dispatch that  *)
(* was completed, failed or reclaimed.                                      *)
THEOREM SettledLetsGo == RemoteSpec => []SettledHasLetGo
BY RemoteInvariance, PTL DEF RemoteInv

(* A result that has been read for ends with its transaction, or its call   *)
(* is given up.                                                             *)
LEMMA CommitEnds ==
  ASSUME RemoteInv, [RemoteNext]_allVars, NEW c \in Caller,
         call[c].stage = "commit", call'[c].stage = "idle"
  PROVE  CommitResult(c) \/ Leave(c)
<1> USE DEF RemoteInv, RemoteTypes
<1>1. ASSUME NEW b \in Caller, NEW s, SetCall(b, s), b # c
      PROVE  FALSE
  BY <1>1 DEF SetCall
<1>2. ASSUME UNCHANGED call PROVE FALSE
  BY <1>2
<1>3. ASSUME Enter(c) PROVE FALSE
  BY <1>3 DEF Enter, AllIdle
<1>4. ASSUME NEW b \in Caller, NodeStep(b)
      PROVE  FALSE
  BY <1>1, <1>3, <1>4 DEF NodeStep, NodeHeartbeat, ReadForHeartbeat, UpdateHeartbeat,
     ListStalledNodes, SaveOffline
<1>5. ASSUME NEW b \in Caller, DispatchStep(b)
      PROVE  FALSE
  BY <1>1, <1>3, <1>5 DEF DispatchStep, DispatchTask, ClaimForDispatch, SaveDispatch
<1>6. ASSUME NEW b \in Caller, MessageStep(b)
      PROVE  CommitResult(c)
  BY <1>1, <1>2, <1>3, <1>6
     DEF MessageStep, RemoteHeartbeat, ReadForHeartbeat, AcceptRemoteResult, CommitResult
<1>7. ASSUME NEW b \in Caller, ControlStep(b)
      PROVE  FALSE
  BY <1>1, <1>3, <1>7 DEF ControlStep, CancelDispatch, SaveCancelled, ReleaseCancelled,
     ListActiveDispatches, ReclaimLease, SaveReclaimed
<1>8. ASSUME NEW b \in Caller, Leave(b)
      PROVE  Leave(c)
  BY <1>1, <1>8 DEF Leave
<1>9. CASE LocalStep \/ (\E n \in Node : RegisterNode(n) \/ \E s \in NodeStatus : MarkNode(n, s))
           \/ UNCHANGED allVars
  BY <1>2, <1>9 DEF LocalStep, RegisterNode, MarkNode, remoteVars, allVars
<1> QED BY <1>4, <1>5, <1>6, <1>7, <1>8, <1>9 DEF RemoteNext

(* Split brain: the late result of a superseded worker changes no task and  *)
(* no lease and completes no dispatch.                                      *)
THEOREM RemoteFencing == RemoteSpec => StaleResultIsFenced
<1> DEFINE Fenced ==
      \A c \in Caller :
        call[c].stage = "commit" /\ call'[c].stage = "idle" =>
          LET d == call[c].dispatch IN
          Superseded(LeaseOf(d)) =>
            /\ status' = status /\ lease' = lease
            /\ dispatch'[d].status = "COMPLETED" => dispatch[d].status = "COMPLETED"
<1>1. RemoteInv /\ [RemoteNext]_allVars => Fenced
  <2> SUFFICES ASSUME RemoteInv, [RemoteNext]_allVars, NEW c \in Caller,
                      call[c].stage = "commit", call'[c].stage = "idle",
                      NEW d \in DispatchId, d = call[c].dispatch, Superseded(LeaseOf(d))
               PROVE  /\ status' = status /\ lease' = lease
                      /\ dispatch'[d].status = "COMPLETED" => dispatch[d].status = "COMPLETED"
    BY CallFields DEF RemoteInv
  <2>1. CASE Leave(c)
    BY <2>1 DEF Leave, vars
  <2>2. CASE CommitResult(c)
    <3>1. d \in DispatchId /\ Saved(d)
      BY <2>2 DEF RemoteInv, CallKnown, ReadHolds, CommitResult
    <3>2. PICK l \in LeaseId : l = LeaseOf(d)
      BY <3>1, SavedRow DEF RemoteInv
    <3>3. ~VerifyOwnership(l)
      BY <3>2, ActiveNotSuperseded
         DEF RemoteInv, VerifyOwnership, FindActive, Newest, ActiveOf
    <3>4. /\ CommitFailure(d)
          /\ UNCHANGED vars
      BY <2>2, <3>2, <3>3 DEF CommitResult, CommitSuccess, CommitFailure, CompleteTask, FailTask,
         Finish, NotOwner
    <3>5. dispatch'[d].status = "FAILED"
      BY <3>1, <3>4, DispatchStatusSet DEF RemoteInv, CommitFailure, DispatchStatus
    <3> QED BY <3>4, <3>5 DEF vars
  <2> QED BY <2>1, <2>2, CommitEnds
<1> QED BY <1>1, RemoteInvariance, PTL DEF RemoteSpec, StaleResultIsFenced
=============================================================================
