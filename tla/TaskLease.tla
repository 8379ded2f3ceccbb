----------------------------- MODULE TaskLease -----------------------------
(***************************************************************************)
(* Ownership of tasks: the tasks and leases tables, the operations of      *)
(* TaskClaimManager on them, and the two recovery passes that take leases  *)
(* back: StalledAgentRecoveryEngine and CrashRecoveryEngine.               *)
(*                                                                         *)
(* Every operation of TaskClaimManager is one SQLite transaction           *)
(* (BEGIN IMMEDIATE ... COMMIT, rolled back when the callback throws) in a *)
(* method without await, so it is one step.  The recovery passes first     *)
(* read, outside any transaction, and then write from what they read: each *)
(* of those is a step of its own, and a pass remembers in between what it  *)
(* has read.  When one process opens the database nothing else runs        *)
(* between those steps; when several do (SharedDb), anything may.          *)
(*                                                                         *)
(* A worker is known by the lease it was granted: it presents the lease    *)
(* id, generation and agent id of that one row, at any later time, also    *)
(* when the lease has long been taken from it.                             *)
(***************************************************************************)
EXTENDS Integers, FiniteSets

CONSTANTS
  Task,         \* ids of the tasks on the board
  LeaseId,      \* the lease ids randomUUID() may yield; bounds the claims made
  Pass,         \* recovery passes that may be under way at the same time
  Deps,         \* Deps[t]: the tasks t depends on
  Moves,        \* statuses the agent that works on a task may give it
  Ttl,          \* ttlMs, in ticks
  MaxRenewals,  \* maxRenewals of every lease
  MaxAttempts,  \* maxAttempts of StalledAgentRecoveryEngine
  SharedDb      \* TRUE: more than one process has the database open

ASSUME ConstantsAssumption ==
  /\ Deps \in [Task -> SUBSET Task]
  /\ Moves \subseteq {"running", "waiting_approval", "waiting_resource",
                      "blocked", "paused", "review", "verifying"}
  /\ Ttl \in Nat \ {0}
  /\ MaxRenewals \in Nat \ {0}
  /\ MaxAttempts \in Nat \ {0}
  /\ SharedDb \in BOOLEAN

VARIABLES
  status,    \* status[t]: tasks.status
  attempts,  \* attempts[t]: tasks.metadata.attemptCount ?? 1
  lease,     \* lease[l]: the row of the leases table with id l
  audit,     \* the events appended to the event log, as <<type, lease id>>
  pass       \* pass[p]: what recovery pass p has read and has yet to apply

vars == <<status, attempts, lease, audit, pass>>

TaskStatus == {"queued", "available", "claimed", "running",
               "waiting_approval", "waiting_resource", "blocked", "paused",
               "review", "verifying", "completed", "failed", "cancelled"}

LeaseStatus == {"ACTIVE", "RELEASED", "EXPIRED", "REVOKED"}

EventType == {"TASK_CLAIMED", "TASK_LEASE_ACQUIRED", "TASK_HEARTBEAT",
              "TASK_COMPLETED", "TASK_FAILED", "TASK_RELEASED",
              "TASK_LEASE_EXPIRED", "TASK_RECLAIMED"}

(* left is expiresAt as the number of ticks from now; 0 once it has passed. *)
LeaseRow == [status : LeaseStatus, task : Task, generation : Nat \ {0},
             left : 0..Ttl, renewals : 0..MaxRenewals]

(* An id no lease has been saved under yet. *)
NoRow == [status |-> "NONE"]

PassStage == {"idle", "stalled", "evict", "list", "reset"}

PassState == [stage : PassStage,
              expired : SUBSET LeaseId,  \* leases it found ACTIVE and expired
              tasks : SUBSET Task]       \* tasks it found interrupted

Idle == [stage |-> "idle", expired |-> {}, tasks |-> {}]

-----------------------------------------------------------------------------
(* The tables. *)

VALID_TRANSITIONS ==
  [queued           |-> {"available", "claimed", "cancelled", "blocked"},
   available        |-> {"claimed", "queued", "cancelled", "blocked"},
   claimed          |-> {"running", "queued", "available", "blocked",
                         "cancelled", "completed", "failed"},
   running          |-> {"waiting_approval", "waiting_resource", "blocked",
                         "paused", "review", "verifying", "completed",
                         "failed", "cancelled", "queued"},
   waiting_approval |-> {"running", "blocked", "cancelled", "failed"},
   waiting_resource |-> {"running", "queued", "blocked", "cancelled",
                         "failed"},
   blocked          |-> {"queued", "available", "claimed", "running",
                         "cancelled"},
   paused           |-> {"running", "cancelled"},
   review           |-> {"verifying", "completed", "failed", "running"},
   verifying        |-> {"completed", "failed", "running"},
   completed        |-> {},
   failed           |-> {"queued", "available"},
   cancelled        |-> {}]

(* assertValidTaskTransition does not throw. *)
CanMove(t, s) == status[t] = s \/ s \in VALID_TRANSITIONS[status[t]]

Issued(l) == lease[l].status # "NONE"

LeasesOf(t) == {l \in LeaseId : Issued(l) /\ lease[l].task = t}

(* Faulty: an expired lease is overlooked instead of being marked EXPIRED. *)
ActiveOf_Unexpired(t) ==
  {l \in LeasesOf(t) : lease[l].status = "ACTIVE" /\ lease[l].left > 0}

ActiveOf(t) == {l \in LeasesOf(t) : lease[l].status = "ACTIVE"}

Newest(S) == {l \in S : \A m \in S : lease[m].generation <= lease[l].generation}

(* The rows findActiveByTaskId may return: ORDER BY generation DESC LIMIT 1. *)
FindActive(t) == Newest(ActiveOf(t))

(* Faulty: the fencing token counts on from the lease in force only. *)
LatestGeneration_OfActive(t) ==
  IF ActiveOf(t) = {} THEN 0
  ELSE lease[CHOOSE l \in Newest(ActiveOf(t)) : TRUE].generation

(* findLatestByTaskId(t)?.generation ?? 0 *)
LatestGeneration(t) ==
  IF LeasesOf(t) = {} THEN 0
  ELSE lease[CHOOSE l \in Newest(LeasesOf(t)) : TRUE].generation

Expired(l) == lease[l].left = 0

ExpiredActive == {l \in LeaseId : lease[l].status = "ACTIVE" /\ Expired(l)}

FreshActive == {l \in LeaseId : lease[l].status = "ACTIVE" /\ ~Expired(l)}

(* A lease that has been granted and can still be written under. *)
Live(l) == lease[l].status = "ACTIVE" /\ ~Expired(l)

Record(types, l) == audit' = audit \cup {<<e, l>> : e \in types}

(* A single process runs a pass to its end before it does anything else. *)
Undisturbed == SharedDb \/ \A p \in Pass : pass[p].stage = "idle"

-----------------------------------------------------------------------------
(* TaskClaimManager *)

NewLease(t) == [status |-> "ACTIVE", task |-> t,
                generation |-> LatestGeneration(t) + 1,
                left |-> Ttl, renewals |-> 0]

Claimable(t) ==
  /\ status[t] \in {"queued", "available"}
  /\ \A d \in Deps[t] : status[d] = "completed"

(* claimTask: granted when no lease is active, or when the active one has  *)
(* expired, which is then marked so.                                       *)
ClaimTask(t, l) ==
  /\ Undisturbed
  /\ ~Issued(l)
  /\ Claimable(t)
  /\ \/ /\ ActiveOf(t) = {}
        /\ lease' = [lease EXCEPT ![l] = NewLease(t)]
     \/ \E stale \in FindActive(t) :
          /\ Expired(stale)
          /\ lease' = [lease EXCEPT ![stale].status = "EXPIRED",
                                    ![l] = NewLease(t)]
  /\ status' = [status EXCEPT ![t] = "claimed"]
  /\ Record({"TASK_CLAIMED", "TASK_LEASE_ACQUIRED"}, l)
  /\ UNCHANGED <<attempts, pass>>

(* heartbeat, in time: the lease is extended. *)
Renew(l) ==
  /\ Undisturbed
  /\ Live(l)
  /\ lease[l].renewals < MaxRenewals
  /\ lease' = [lease EXCEPT ![l].left = Ttl, ![l].renewals = @ + 1]
  /\ Record({"TASK_HEARTBEAT"}, l)
  /\ UNCHANGED <<status, attempts, pass>>

(* heartbeat, too late: the caller loses the lease and the task is queued  *)
(* again, unless the task cannot be queued from where it is, which rolls   *)
(* the whole transaction back.                                             *)
LateHeartbeat(l) ==
  /\ Undisturbed
  /\ l \in ExpiredActive
  /\ CanMove(lease[l].task, "queued")
  /\ lease' = [lease EXCEPT ![l].status = "EXPIRED"]
  /\ status' = [status EXCEPT ![lease[l].task] = "queued"]
  /\ Record({"TASK_RELEASED"}, l)
  /\ UNCHANGED <<attempts, pass>>

(* Faulty: the lease is looked up by its id, not as the one in force. *)
VerifyOwnership_ById(l) == Issued(l) /\ ~Expired(l)

(* verifyOwnership, for the worker that was granted l *)
VerifyOwnership(l) ==
  /\ Issued(l)
  /\ l \in FindActive(lease[l].task)
  /\ ~Expired(l)

(* The common part of completeTask, failTask and releaseTask. *)
Finish(l, newStatus, events) ==
  /\ Undisturbed
  /\ VerifyOwnership(l)
  /\ CanMove(lease[l].task, newStatus)
  /\ status' = [status EXCEPT ![lease[l].task] = newStatus]
  /\ lease' = [lease EXCEPT ![l].status = "RELEASED"]
  /\ Record(events, l)
  /\ UNCHANGED <<attempts, pass>>

(* Faulty: the completion is not among the events of the transaction. *)
CompleteTask_Unrecorded(l) == Finish(l, "completed", {"TASK_RELEASED"})

CompleteTask(l) == Finish(l, "completed", {"TASK_COMPLETED", "TASK_RELEASED"})

FailTask(l) == Finish(l, "failed", {"TASK_FAILED", "TASK_RELEASED"})

ReleaseTask(l) == Finish(l, "queued", {"TASK_RELEASED"})

(* TaskRepository.updateStatus, called for the agent that works on the task. *)
UpdateStatus(t, s) ==
  /\ Undisturbed
  /\ status[t] \notin {"queued", "available", s}
  /\ CanMove(t, s)
  /\ status' = [status EXCEPT ![t] = s]
  /\ UNCHANGED <<attempts, lease, audit, pass>>

-----------------------------------------------------------------------------
(* StalledAgentRecoveryEngine.recoverStalledLeases *)

SetPass(p, s) == pass' = [pass EXCEPT ![p] = s]

(* detectStalledLeases, outside any transaction *)
DetectStalledLeases(p) ==
  /\ Undisturbed
  /\ pass[p].stage = "idle"
  /\ ExpiredActive # {}
  /\ SetPass(p, [Idle EXCEPT !.stage = "stalled", !.expired = ExpiredActive])
  /\ UNCHANGED <<status, attempts, lease, audit>>

AfterLease(p, l) ==
  IF pass[p].expired = {l} THEN Idle
  ELSE [pass[p] EXCEPT !.expired = @ \ {l}]

(* The events of a recovery are appended one by one after its transaction,  *)
(* and an append that fails is swallowed: any of them may be lost.          *)
RecordSome(types, l) == \E kept \in SUBSET types : Record(kept, l)

(* Faulty: off by one. *)
HasAttempts_TooMany(t) == attempts[t] <= MaxAttempts

HasAttempts(t) == attempts[t] < MaxAttempts

(* The lease is taken back as it was listed: neither its status nor its     *)
(* expiry is read again, only the task is.                                  *)
ReclaimAndRequeue(p, l) ==
  LET t == lease[l].task IN
  /\ pass[p].stage = "stalled" /\ l \in pass[p].expired
  /\ HasAttempts(t)
  /\ CanMove(t, "queued")
  /\ lease' = [lease EXCEPT ![l].status = "EXPIRED"]
  /\ attempts' = [attempts EXCEPT ![t] = @ + 1]
  /\ status' = [status EXCEPT ![t] = "queued"]
  /\ RecordSome({"TASK_LEASE_EXPIRED", "TASK_RECLAIMED"}, l)
  /\ SetPass(p, AfterLease(p, l))

FailStalled(p, l) ==
  LET t == lease[l].task IN
  /\ pass[p].stage = "stalled" /\ l \in pass[p].expired
  /\ ~HasAttempts(t)
  /\ CanMove(t, "failed")
  /\ lease' = [lease EXCEPT ![l].status = "REVOKED"]
  /\ status' = [status EXCEPT ![t] = "failed"]
  /\ RecordSome({"TASK_LEASE_EXPIRED", "TASK_FAILED"}, l)
  /\ SetPass(p, AfterLease(p, l))
  /\ UNCHANGED attempts

(* save throws on the transition: the transaction is rolled back and the    *)
(* exception leaves the loop, with the leases that are still on the list.   *)
RecoveryThrows(p, l) ==
  LET t == lease[l].task IN
  /\ pass[p].stage = "stalled" /\ l \in pass[p].expired
  /\ ~CanMove(t, IF HasAttempts(t) THEN "queued" ELSE "failed")
  /\ SetPass(p, Idle)
  /\ UNCHANGED <<status, attempts, lease, audit>>

RecoverLease(p, l) ==
  ReclaimAndRequeue(p, l) \/ FailStalled(p, l) \/ RecoveryThrows(p, l)

-----------------------------------------------------------------------------
(* CrashRecoveryEngine.executeRecovery, sections 3 and 4 *)

ListExpiredLeases(p) ==
  /\ Undisturbed
  /\ pass[p].stage = "idle"
  /\ SetPass(p, [Idle EXCEPT !.stage = "evict", !.expired = ExpiredActive])
  /\ UNCHANGED <<status, attempts, lease, audit>>

EvictLeases(p) ==
  /\ pass[p].stage = "evict"
  /\ lease' = [l \in LeaseId |-> IF l \in pass[p].expired
                                 THEN [lease[l] EXCEPT !.status = "EXPIRED"]
                                 ELSE lease[l]]
  /\ SetPass(p, [pass[p] EXCEPT !.stage = "list"])
  /\ UNCHANGED <<status, attempts, audit>>

(* An error of the database is swallowed, and the pass goes on.             *)
EvictionFails(p) ==
  /\ pass[p].stage = "evict"
  /\ SetPass(p, [pass[p] EXCEPT !.stage = "list"])
  /\ UNCHANGED <<status, attempts, lease, audit>>

(* Faulty: the WHERE clause leaves a status out, or has none. *)
Interrupted_NotVerifying(p, t) ==
  status[t] \in {"running", "claimed"} /\ ActiveOf(t) \subseteq pass[p].expired

Interrupted_AnyStatus(p, t) ==
  LeasesOf(t) # {} /\ ActiveOf(t) \subseteq pass[p].expired

(* No ACTIVE lease with expires_at after the time the pass began, that is,  *)
(* none but those it then found expired, whatever has become of it since.   *)
Interrupted(p, t) ==
  /\ status[t] \in {"running", "claimed", "verifying"}
  /\ ActiveOf(t) \subseteq pass[p].expired

ListInterruptedTasks(p) ==
  /\ pass[p].stage = "list"
  /\ SetPass(p, [Idle EXCEPT !.stage = "reset",
                             !.tasks = {t \in Task : Interrupted(p, t)}])
  /\ UNCHANGED <<status, attempts, lease, audit>>

(* A plain UPDATE by id: no transition is checked and no event is appended. *)
ResetTasks(p) ==
  /\ pass[p].stage = "reset"
  /\ status' = [t \in Task |-> IF t \in pass[p].tasks THEN "queued"
                               ELSE status[t]]
  /\ SetPass(p, Idle)
  /\ UNCHANGED <<attempts, lease, audit>>

-----------------------------------------------------------------------------
(* The process that runs a pass dies, or its database call throws. *)
Crash(p) ==
  /\ pass[p].stage # "idle"
  /\ SetPass(p, Idle)
  /\ UNCHANGED <<status, attempts, lease, audit>>

(* Time passes: every lease is one tick closer to expiresAt. *)
Tick ==
  /\ FreshActive # {}
  /\ lease' = [l \in LeaseId |-> IF l \in FreshActive
                                 THEN [lease[l] EXCEPT !.left = @ - 1]
                                 ELSE lease[l]]
  /\ UNCHANGED <<status, attempts, audit, pass>>

Init ==
  /\ status \in [Task -> {"queued", "available"}]
  /\ attempts = [t \in Task |-> 1]
  /\ lease = [l \in LeaseId |-> NoRow]
  /\ audit = {}
  /\ pass = [p \in Pass |-> Idle]

Worker(l) ==
  \/ \E t \in Task : ClaimTask(t, l)
  \/ Renew(l)
  \/ LateHeartbeat(l)
  \/ CompleteTask(l)
  \/ FailTask(l)
  \/ ReleaseTask(l)

StalledRecovery(p) ==
  \/ DetectStalledLeases(p)
  \/ \E l \in LeaseId : RecoverLease(p, l)

CrashRecovery(p) ==
  \/ ListExpiredLeases(p)
  \/ EvictLeases(p)
  \/ EvictionFails(p)
  \/ ListInterruptedTasks(p)
  \/ ResetTasks(p)

Next ==
  \/ \E l \in LeaseId : Worker(l)
  \/ \E t \in Task, s \in Moves : UpdateStatus(t, s)
  \/ \E p \in Pass : StalledRecovery(p) \/ CrashRecovery(p) \/ Crash(p)
  \/ Tick

Spec == Init /\ [][Next]_vars

(* At every start of the API server executeRecovery runs before it listens;  *)
(* a pass that a crash cut short is run again at the next start, and not    *)
(* every one of them is cut short.  A pass is synchronous: once begun, it   *)
(* goes on.                                                                 *)
Fairness ==
  \A p \in Pass : /\ SF_vars(ListExpiredLeases(p))
                  /\ SF_vars(EvictLeases(p))
                  /\ SF_vars(ListInterruptedTasks(p))
                  /\ SF_vars(ResetTasks(p))
                  /\ WF_vars(\E l \in LeaseId : RecoverLease(p, l))

FairSpec == Spec /\ Fairness
-----------------------------------------------------------------------------
(* Types of the tables, the event log and the progress of the passes. *)
TypeOK ==
  /\ status \in [Task -> TaskStatus]
  /\ attempts \in [Task -> 1..MaxAttempts]
  /\ lease \in [LeaseId -> LeaseRow \cup {NoRow}]
  /\ audit \subseteq EventType \X LeaseId
  /\ pass \in [Pass -> PassState]

(* claimTask never grants a task that another lease still holds: at most    *)
(* one row per task is ACTIVE, whatever the passes do in between.           *)
OneActiveLease ==
  \A l, m \in LeaseId :
    /\ lease[l].status = "ACTIVE" /\ lease[m].status = "ACTIVE"
    /\ lease[l].task = lease[m].task
    => l = m

(* The generation is a fencing token: an ACTIVE lease has a generation      *)
(* above that of every other lease its task was ever given, so a worker     *)
(* that lost the task cannot hold the token its successor holds.            *)
ActiveIsNewest ==
  \A l, m \in LeaseId :
    /\ lease[l].status = "ACTIVE" /\ Issued(m) /\ l # m
    /\ lease[l].task = lease[m].task
    => lease[m].generation < lease[l].generation

(* While a worker may still write under its lease, its task is neither      *)
(* offered to other workers by the task board nor already decided.          *)
HeldWhileLive ==
  \A l \in LeaseId : Live(l) =>
    status[lease[l].task] \notin
      {"queued", "available", "completed", "failed", "cancelled"}

(* A completed task has its completion on the audit trail, and a lease that *)
(* was given back has its release there, under the lease it was done by.    *)
OutcomeOnRecord ==
  /\ \A t \in Task : status[t] = "completed" =>
       \E l \in LeasesOf(t) : <<"TASK_COMPLETED", l>> \in audit
  /\ \A l \in LeaseId : lease[l].status = "RELEASED" =>
       <<"TASK_RELEASED", l>> \in audit

(* What CrashRecoveryEngine looks for: a task in the hands of a worker that *)
(* can no longer write under its lease.                                     *)
Orphaned(t) ==
  /\ status[t] \in {"running", "claimed", "verifying"}
  /\ \A l \in LeasesOf(t) : ~Live(l)

(* Another lease of the same task has been granted after l. *)
Superseded(l) ==
  /\ Issued(l)
  /\ \E m \in LeasesOf(lease[l].task) :
       lease[m].generation > lease[l].generation

(* A worker whose task has been given to another is fenced off: none of its *)
(* late calls renews its lease, completes the task or gives the task back.  *)
StaleWorkerIsFenced ==
  [][\A l \in LeaseId : Superseded(l) =>
       \A e \in {"TASK_HEARTBEAT", "TASK_COMPLETED", "TASK_RELEASED"} :
         <<e, l>> \in audit' => <<e, l>> \in audit]_vars

(* Completed is a terminal status: no recovery pass and no late call takes  *)
(* a result back.                                                           *)
CompletedIsFinal ==
  [][\A t \in Task : status[t] = "completed" => status'[t] = "completed"]_vars

(* Generations are handed out in order: a new lease of a task outranks all  *)
(* the leases the task had, and no lease changes hands or rank afterwards.  *)
TokensGrow ==
  [][\A l \in LeaseId :
       IF Issued(l) THEN /\ lease'[l].task = lease[l].task
                         /\ lease'[l].generation = lease[l].generation
       ELSE lease'[l].status # "NONE" =>
              \A m \in LeasesOf(lease'[l].task) :
                lease[m].generation < lease'[l].generation]_vars

(* The leases carry out what FencedOwnership promises: the token in force   *)
(* is the generation of the ACTIVE lease, and a task was completed under    *)
(* the lease the audit trail has its completion for.                        *)
GenerationOf(S) == IF S = {} THEN 0 ELSE lease[CHOOSE l \in S : TRUE].generation

CompletionsOf(t) == {l \in LeasesOf(t) : <<"TASK_COMPLETED", l>> \in audit}

Ownership == INSTANCE FencedOwnership WITH
  token <- [t \in Task |-> LatestGeneration(t)],
  holder <- [t \in Task |-> GenerationOf(ActiveOf(t))],
  done <- [t \in Task |-> GenerationOf(CompletionsOf(t))]

ImplementsFencedOwnership == Ownership!Spec

(* A task whose worker is gone does not stay in its hands: startup recovery *)
(* puts it back on the board, also after a crash between its two updates.   *)
OrphanIsRequeued == \A t \in Task : Orphaned(t) ~> ~Orphaned(t)

(* Every lease that ends leaves an event that says so. *)
EndOfLeaseOnRecord ==
  \A l \in LeaseId : lease[l].status \in {"RELEASED", "EXPIRED", "REVOKED"} =>
    \E e \in {"TASK_RELEASED", "TASK_LEASE_EXPIRED"} : <<e, l>> \in audit

(* The stalled-agent passes are run again and again and crashes do not hit  *)
(* each of them.                                                            *)
StalledFairness ==
  \A p \in Pass :
    /\ SF_vars(DetectStalledLeases(p))
    /\ \A l \in LeaseId : SF_vars(RecoverLease(p, l))
    /\ WF_vars(EvictLeases(p) \/ ListInterruptedTasks(p) \/ ResetTasks(p))

StalledSpec == Spec /\ StalledFairness

(* A lease whose heartbeats stopped is taken back by the recovery passes. *)
StalledLeaseIsReclaimed ==
  \A l \in LeaseId : (l \in ExpiredActive) ~> (lease[l].status # "ACTIVE")
=============================================================================
