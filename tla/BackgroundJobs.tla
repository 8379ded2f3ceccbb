--------------------------- MODULE BackgroundJobs ---------------------------
(***************************************************************************)
(* Background jobs: BackgroundJobManager, the BackgroundJobSupervisor that *)
(* runs their workers, and BackgroundJobRecoveryReconciler.  Every job has *)
(* a task, which it claims, renews, completes and gives back through the   *)
(* TaskClaimManager of TaskLease, and two rows that must agree: its own    *)
(* and that of its task.                                                   *)
(*                                                                         *)
(* One process has the database open.  A worker is an asynchronous         *)
(* function that may settle at any time, whatever became of its job in the *)
(* meantime; every call it leads to is synchronous, hence one step, except *)
(* that a crash may fall between two transactions of the same call.        *)
(***************************************************************************)
EXTENDS TaskLease

CONSTANTS
  Job,             \* ids of the jobs
  TaskOf,          \* TaskOf[j]: the task of job j
  MaxJobAttempts,  \* maxAttempts of every job
  MaxActive        \* maxConcurrentJobsPerProject

ASSUME JobAssumption ==
  /\ TaskOf \in [Job -> Task]
  /\ MaxJobAttempts \in Nat \ {0}
  /\ MaxActive \in Nat \ {0}
  /\ SharedDb = FALSE

VARIABLES
  job,     \* job[j]: the row of background_jobs with id j
  late,    \* late[j]: the deadline of job j has passed
  worker,  \* worker[l]: the worker function runJob started under lease l
  active   \* active[j]: the entry for j in activeJobs, as the set of its lease

jobVars == <<job, late, worker, active>>

(* Faulty: a job is claimed while its worker may be at it. *)
Claimed_Running == {"QUEUED", "RECOVERY_REQUIRED", "RUNNING"}

(* The statuses claimJob claims a job in. *)
Claimed == {"QUEUED", "RECOVERY_REQUIRED"}

Terminal == {"COMPLETED", "FAILED", "CANCELLED", "TIMED_OUT"}

(* The statuses the code assigns. *)
JobStatus == {"QUEUED", "RUNNING", "RECOVERY_REQUIRED"} \cup Terminal

JobRow == [status : JobStatus, lease : SUBSET LeaseId,
           attempt : 0..MaxJobAttempts]

NoJob == [status |-> "NONE"]

(* timer: its heartbeat interval is set; aborted: its signal is.            *)
Working == [job : Job, timer : BOOLEAN, aborted : BOOLEAN]

NoWorker == [job |-> "none"]

IsRunning(l) == worker[l] # NoWorker

Running == {l \in LeaseId : IsRunning(l)}

(* The lease and generation a worker presents are those of the job's row.   *)
Fenced(j, l) == job[j].lease # {l}

-----------------------------------------------------------------------------
(* BackgroundJobManager *)

(* createJob; the task is saved first, by a transaction of its own.         *)
CreateJob(j) ==
  /\ Undisturbed
  /\ job[j] = NoJob
  /\ job' = [job EXCEPT ![j] = [status |-> "QUEUED", lease |-> {},
                                attempt |-> 0]]
  /\ UNCHANGED <<vars, late, worker, active>>

SetJob(j, s) == job' = [job EXCEPT ![j].status = s]

(* claimJob, with the claim of the task in the same transaction.            *)
ClaimJob(j, l) ==
  /\ job[j].status \in Claimed
  /\ ClaimTask(TaskOf[j], l)
  /\ job' = [job EXCEPT ![j] = [status |-> "RUNNING", lease |-> {l},
                                attempt |-> @.attempt + 1]]

CanComplete(j, l) ==
  ~Fenced(j, l) /\ VerifyOwnership(l) /\ CanMove(TaskOf[j], "completed")

(* Faulty: what completeTask answers is not looked at, as in failJob.       *)
CompleteJob_Unverified(j, l) ==
  /\ ~Fenced(j, l)
  /\ IF VerifyOwnership(l) THEN CompleteTask(l) ELSE UNCHANGED vars
  /\ SetJob(j, "COMPLETED")

CompleteJob(j, l) ==
  /\ CanComplete(j, l)
  /\ CompleteTask(l)
  /\ SetJob(j, "COMPLETED")

(* releaseTask and failTask when their answer is ignored.                   *)
TryRelease(S) ==
  IF \E l \in S : VerifyOwnership(l) THEN \E l \in S : ReleaseTask(l)
  ELSE UNCHANGED vars

TryFail(l) == IF VerifyOwnership(l) THEN FailTask(l) ELSE UNCHANGED vars

(* evaluateRetry, for an error that it takes to be transient or not.        *)
ShouldRetry(j, transient) == transient /\ job[j].attempt < MaxJobAttempts

(* failJob *)
FailJob(j, l, transient) ==
  IF Fenced(j, l) THEN UNCHANGED <<vars, job>>
  ELSE IF ShouldRetry(j, transient)
    THEN TryRelease({l}) /\ SetJob(j, "QUEUED")
    ELSE TryFail(l) /\ SetJob(j, "FAILED")

(* cancelJob *)
CancelJob(j) ==
  IF job[j].status \in Terminal THEN UNCHANGED <<vars, job>>
  ELSE TryRelease(job[j].lease) /\ SetJob(j, "CANCELLED")

-----------------------------------------------------------------------------
(* BackgroundJobSupervisor *)

CanAcceptJob == Cardinality({j \in Job : active[j] # {}}) < MaxActive

RunJob(j, l) ==
  /\ CanAcceptJob
  /\ ClaimJob(j, l)
  /\ worker' = [worker EXCEPT ![l] = [job |-> j, timer |-> TRUE,
                                      aborted |-> FALSE]]
  /\ active' = [active EXCEPT ![j] = {l}]
  /\ UNCHANGED late

StopTimer(l, abort) ==
  worker' = [worker EXCEPT ![l].timer = FALSE, ![l].aborted = @ \/ abort]

(* The heartbeat interval fires.  A deadline that has passed is acted upon  *)
(* before the lease is looked at, in whatever status the job is.            *)
HeartbeatCancelled(l) ==
  /\ job[worker[l].job].status = "CANCELLED"
  /\ StopTimer(l, TRUE)
  /\ UNCHANGED <<vars, job>>

(* Faulty: of the refusals only that of a cancelled job aborts the worker. *)
HeartbeatTimedOut_Unheard(l) ==
  LET j == worker[l].job IN
  /\ job[j].status # "CANCELLED" /\ late[j]
  /\ SetJob(j, "TIMED_OUT")
  /\ StopTimer(l, FALSE)
  /\ UNCHANGED vars

HeartbeatTimedOut(l) ==
  LET j == worker[l].job IN
  /\ job[j].status # "CANCELLED" /\ late[j]
  /\ SetJob(j, "TIMED_OUT")
  /\ StopTimer(l, TRUE)
  /\ UNCHANGED vars

HeartbeatRefused(l) ==
  LET j == worker[l].job IN
  /\ job[j].status # "CANCELLED" /\ ~late[j]
  /\ \/ /\ \/ Fenced(j, l)
           \/ lease[l].status # "ACTIVE"
           \/ Live(l) /\ lease[l].renewals = MaxRenewals
           \/ Expired(l) /\ ~CanMove(TaskOf[j], "queued")
        /\ UNCHANGED vars
     \/ ~Fenced(j, l) /\ LateHeartbeat(l)
  /\ StopTimer(l, FALSE)
  /\ UNCHANGED job

HeartbeatRenewed(l) ==
  LET j == worker[l].job IN
  /\ job[j].status # "CANCELLED" /\ ~late[j]
  /\ ~Fenced(j, l)
  /\ Renew(l)
  /\ UNCHANGED <<job, worker>>

HeartbeatJob(l) ==
  /\ Undisturbed
  /\ IsRunning(l) /\ worker[l].timer
  /\ \/ HeartbeatCancelled(l)
     \/ HeartbeatTimedOut(l)
     \/ HeartbeatRefused(l)
     \/ HeartbeatRenewed(l)
  /\ UNCHANGED <<late, active>>

(* The worker is done with: its timer is cleared and the entry of its job   *)
(* deleted, also when a later worker of that job has put it there.          *)
Leave(l) ==
  /\ Undisturbed
  /\ IsRunning(l)
  /\ worker' = [worker EXCEPT ![l] = NoWorker]
  /\ active' = [active EXCEPT ![worker[l].job] = {}]
  /\ UNCHANGED late

Caught(l, transient) ==
  IF worker[l].aborted THEN CancelJob(worker[l].job)
  ELSE FailJob(worker[l].job, l, transient)

(* The worker function resolves.  What completeJob throws is caught like an *)
(* error of the worker, and held to be transient.                           *)
WorkerResolves(l) ==
  LET j == worker[l].job IN
  /\ Leave(l)
  /\ \/ job[j].status = "COMPLETED" /\ UNCHANGED <<vars, job>>
     \/ job[j].status # "COMPLETED" /\ CompleteJob(j, l)
     \/ job[j].status # "COMPLETED" /\ ~CanComplete(j, l) /\ Caught(l, TRUE)

WorkerRejects(l) == Leave(l) /\ \E transient \in BOOLEAN : Caught(l, transient)

(* A user cancels the job, through the manager or through the supervisor.   *)
UserCancels(j) ==
  /\ Undisturbed
  /\ job[j] # NoJob
  /\ CancelJob(j)
  /\ UNCHANGED <<late, worker, active>>

AbortActiveJob(j) ==
  /\ Undisturbed
  /\ active[j] # {}
  /\ worker' = [l \in LeaseId |->
                  IF l \in active[j] /\ IsRunning(l)
                  THEN [worker[l] EXCEPT !.timer = FALSE, !.aborted = TRUE]
                  ELSE worker[l]]
  /\ active' = [active EXCEPT ![j] = {}]
  /\ CancelJob(j)
  /\ UNCHANGED late

-----------------------------------------------------------------------------
(* The process dies with all its workers, between two calls or after the    *)
(* first transaction of a cancelJob or of a reconcileSingleJob, which gives *)
(* the task back.                                                           *)
Die ==
  /\ worker' = [l \in LeaseId |-> NoWorker]
  /\ active' = [j \in Job |-> {}]
  /\ pass' = [p \in Pass |-> Idle]
  /\ UNCHANGED <<job, late>>

ProcessDies ==
  /\ Running # {} \/ \E p \in Pass : pass[p].stage # "idle"
  /\ Die
  /\ UNCHANGED <<status, attempts, lease, audit>>

DiesAfterRelease(j) ==
  /\ job[j].status = "RUNNING"
  /\ \E l \in job[j].lease : VerifyOwnership(l) /\ ReleaseTask(l)
  /\ Die

ReconcileSingleJob(j) ==
  /\ TryRelease(job[j].lease)
  /\ job' = [job EXCEPT
               ![j].status = IF job[j].attempt >= MaxJobAttempts THEN "FAILED"
                             ELSE "RECOVERY_REQUIRED",
               ![j].lease = {}]

(* The reconciler is for the start of a process, before any worker runs; it *)
(* is the caller who has to run it, and no start of the program does.       *)
Reconcile(j) ==
  /\ Undisturbed
  /\ Running = {}
  /\ job[j].status = "RUNNING"
  /\ ReconcileSingleJob(j)
  /\ UNCHANGED <<late, worker, active>>

DeadlinePasses(j) ==
  /\ job[j] # NoJob /\ ~late[j]
  /\ late' = [late EXCEPT ![j] = TRUE]
  /\ UNCHANGED <<vars, job, worker, active>>

JobInit ==
  /\ Init
  /\ job = [j \in Job |-> NoJob]
  /\ late = [j \in Job |-> FALSE]
  /\ worker = [l \in LeaseId |-> NoWorker]
  /\ active = [j \in Job |-> {}]

Supervised(l) ==
  \/ HeartbeatJob(l)
  \/ WorkerResolves(l)
  \/ WorkerRejects(l)

JobStep(j) ==
  \/ CreateJob(j)
  \/ \E l \in LeaseId : RunJob(j, l)
  \/ UserCancels(j)
  \/ AbortActiveJob(j)
  \/ DiesAfterRelease(j)
  \/ Reconcile(j)
  \/ DeadlinePasses(j)

(* The recovery passes of TaskLease run next to the jobs, and time passes.  *)
Background ==
  /\ \/ \E p \in Pass : StalledRecovery(p) \/ CrashRecovery(p)
     \/ Tick
  /\ UNCHANGED jobVars

JobNext ==
  \/ \E j \in Job : JobStep(j)
  \/ \E l \in LeaseId : Supervised(l)
  \/ ProcessDies
  \/ Background

JobSpec == JobInit /\ [][JobNext]_<<vars, jobVars>>

(* What the event loop does by itself: the interval of a worker fires again *)
(* and again until it is cleared, and a pass that was begun goes on.        *)
EventLoop ==
  /\ \A l \in LeaseId : SF_<<vars, jobVars>>(HeartbeatJob(l))
  /\ \A p \in Pass :
       WF_<<vars, jobVars>>(/\ pass[p].stage # "idle"
                            /\ StalledRecovery(p) \/ CrashRecovery(p)
                            /\ UNCHANGED jobVars)

FairJobSpec == JobSpec /\ EventLoop

(* The recovery the program starts by itself, that of tasks and leases.     *)
RecoverySpec == JobSpec /\ Fairness

(* A deployment that also runs the reconciler at each start, which nothing  *)
(* but the tests does.                                                      *)
ReconciledSpec ==
  RecoverySpec /\ \A j \in Job : SF_<<vars, jobVars>>(Reconcile(j))
-----------------------------------------------------------------------------
(* Types of the jobs and of what the supervisor has in memory. *)
JobTypeOK ==
  /\ TypeOK
  /\ job \in [Job -> JobRow \cup {NoJob}]
  /\ late \in [Job -> BOOLEAN]
  /\ worker \in [LeaseId -> Working \cup {NoWorker}]
  /\ active \in [Job -> SUBSET LeaseId]

(* The two rows of a job are written together: a job is only COMPLETED when *)
(* its task was completed under the lease the job's row names.              *)
CompletedTogether ==
  \A j \in Job : job[j].status = "COMPLETED" =>
    /\ status[TaskOf[j]] = "completed"
    /\ \E l \in job[j].lease : <<"TASK_COMPLETED", l>> \in audit

(* A job is started maxAttempts times at most: when it waits for a worker   *)
(* again an attempt is left.                                                *)
AttemptIsLeft ==
  \A j \in Job : job[j].status \in {"QUEUED", "RECOVERY_REQUIRED"} =>
    job[j].attempt < MaxJobAttempts

(* One worker has a job at a time as far as the supervisor started them: an *)
(* earlier worker has settled or died before the job is claimed again.      *)
OneWorkerPerJob ==
  \A l, m \in Running : worker[l].job = worker[m].job => l = m

Startable(j) ==
  /\ job[j].status \in Claimed
  /\ Claimable(TaskOf[j])
  /\ \A l \in LeasesOf(TaskOf[j]) : ~Live(l)

(* A stop reaches the worker: when a job is cancelled or its deadline has   *)
(* passed while the heartbeats of its worker go on, then that worker is     *)
(* aborted and the job decided, or the worker settles first, whatever       *)
(* cancelJob, recovery passes and late calls did to the lease meanwhile.    *)
StopIsHeard ==
  \A l \in LeaseId :
    /\ IsRunning(l) /\ worker[l].timer
    /\ job[worker[l].job].status = "CANCELLED" \/ late[worker[l].job]
    ~> \/ ~IsRunning(l)
       \/ worker[l].aborted /\ job[worker[l].job].status \in Terminal

(* A job that waits, or whose worker is gone with the process, ends up in   *)
(* the hands of a worker, or where one may start it, or decided: it is not  *)
(* stranded by recovery of the job and of the task pulling apart.  Under    *)
(* RecoverySpec it is: a RUNNING job whose process died stays RUNNING, as   *)
(* no start of the program runs the reconciler.  Under ReconciledSpec it is *)
(* not, unless maxAttempts of the job exceeds that of stalled recovery: a   *)
(* job may then wait for a task that has failed for good.                   *)
JobIsNotStranded ==
  \A j \in Job :
    job[j].status \in {"QUEUED", "RECOVERY_REQUIRED", "RUNNING"}
    ~> \/ Startable(j)
       \/ \E l \in Running : worker[l].job = j
       \/ job[j].status \in Terminal

(* A job that was cancelled, failed, completed or timed out stays so. *)
TerminalIsFinal ==
  [][\A j \in Job : job[j].status \in Terminal =>
       job'[j].status = job[j].status]_<<vars, jobVars>>

(* No more workers run at a time than the supervisor accepts. *)
WorkersWithinLimit == Cardinality(Running) <= MaxActive
=============================================================================
