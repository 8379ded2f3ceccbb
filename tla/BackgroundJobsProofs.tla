------------------------ MODULE BackgroundJobsProofs ------------------------
(***************************************************************************)
(* Proofs about BackgroundJobs, for every set of jobs, tasks and leases;   *)
(* two jobs may even have the same task.                                   *)
(*                                                                         *)
(* First, every step of the job manager and of its supervisor is, on the   *)
(* tables of TaskLease, a step of TaskLease or none (JobsImplementTasks),  *)
(* so what was proved of TaskLease with one process carries over.  Then    *)
(* the rows of jobs: the lease in a job's row is one of its task, and the  *)
(* worker at a job is the one whose lease that row names (WorkerHasJob).   *)
(***************************************************************************)
EXTENDS BackgroundJobs, TaskLeaseProofs

(* The leases jobs name were granted for their tasks. *)
LeaseOfTask(j) == \A l \in job[j].lease : Issued(l) /\ lease[l].task = TaskOf[j]

JobHasLease == \A j \in Job : job[j] # NoJob => LeaseOfTask(j)

(* A worker is at a job that names its lease and is not to be claimed.     *)
AtJob(l) ==
  /\ job[worker[l].job] # NoJob
  /\ job[worker[l].job].lease = {l}
  /\ job[worker[l].job].status \notin Claimed

WorkerHasJob == \A l \in Running : AtJob(l)

(* What the supervisor takes to be active is a job.                        *)
ActiveIsJob == \A j \in Job : active[j] # {} => job[j] # NoJob

JobInv ==
  /\ SingleInv
  /\ JobTypeOK
  /\ JobHasLease
  /\ WorkerHasJob
  /\ ActiveIsJob
  /\ AttemptIsLeft
  /\ CompletedTogether

-----------------------------------------------------------------------------
(* Rows of the jobs, and workers. *)

LEMMA JobRowCases ==
  ASSUME JobTypeOK, NEW j \in Job
  PROVE  /\ job[j] # NoJob <=> job[j] \in JobRow
         /\ job[j].status \in JobStatus => job[j] \in JobRow
BY DEF JobTypeOK, JobRow, NoJob, JobStatus, Terminal

LEMMA WorkerCases ==
  ASSUME JobTypeOK, NEW l \in LeaseId, IsRunning(l)
  PROVE  worker[l] \in Working /\ worker[l].job \in Job
BY DEF JobTypeOK, IsRunning, Working

-----------------------------------------------------------------------------
(* The tables of TaskLease.                                                *)

(* Granted leases keep their tasks, what is completed stays so, and events *)
(* are only appended.                                                      *)
TasksKept ==
  /\ \A l \in LeaseId : Issued(l) => Issued(l)' /\ lease'[l].task = lease[l].task
  /\ \A t \in Task : status[t] = "completed" => status'[t] = "completed"
  /\ audit \subseteq audit'

LEMMA TasksStep ==
  ASSUME SingleInv, Next \/ UNCHANGED vars
  PROVE  SingleInv' /\ TasksKept
<1>1. CASE UNCHANGED vars
  <2>1. SingleInv'
    BY <1>1, SingleStutter
  <2> QED BY <1>1, <2>1 DEF vars, TasksKept, Issued
<1>2. CASE Next
  <2>1. /\ SingleInv'
        /\ \/ Calm
           \/ \E t \in Task, l \in LeaseId : ClaimTask(t, l)
           \/ \E l \in LeaseId : CompleteTask(l)
        /\ \A t \in Task : status[t] = "completed" => status'[t] = "completed"
    BY <1>2, SingleStep, JobAssumption
  <2>2. TablesOK
    BY DEF SingleInv, IInv
  <2>3. CASE Calm
    BY <2>1, <2>3 DEF Calm, NothingGranted, TasksKept
  <2>4. ASSUME NEW t \in Task, NEW n \in LeaseId, ClaimTask(t, n)
        PROVE  TasksKept
    <3>1. /\ ~Issued(n)
          /\ \A l \in LeaseId \ {n} :
               /\ Issued(l)' <=> Issued(l)
               /\ Issued(l) => lease'[l].task = lease[l].task
      BY <2>2, <2>4, ClaimRows DEF TablesOK
    <3>2. audit \subseteq audit'
      BY <2>4 DEF ClaimTask, Record
    <3> QED BY <2>1, <3>1, <3>2 DEF TasksKept
  <2>5. ASSUME NEW l \in LeaseId, CompleteTask(l)
        PROVE  TasksKept
    <3>1. NothingGranted
      BY <2>2, <2>5, FinishStep DEF CompleteTask, TaskStatus, EventType
    <3>2. audit \subseteq audit'
      BY <2>5 DEF CompleteTask, Finish, Record
    <3> QED BY <2>1, <3>1, <3>2 DEF NothingGranted, TasksKept
  <2> QED BY <2>1, <2>3, <2>4, <2>5
<1> QED BY <1>1, <1>2

(* With the process all passes end, of which at most one was under way.    *)
LEMMA DeathIsCrash ==
  ASSUME SingleInv, Die, UNCHANGED <<status, attempts, lease, audit>>
  PROVE  Next \/ UNCHANGED vars
<1>1. pass' = [p \in Pass |-> Idle] /\ pass \in [Pass -> PassState]
  BY DEF Die, SingleInv, IInv, TablesOK, TypeOK
<1>2. ASSUME NEW p \in Pass, pass[p].stage = "idle" PROVE pass[p] = Idle
  <2>1. Current(pass[p]) /\ pass[p] \in PassState
    BY <1>1 DEF SingleInv, PassCurrent
  <2> QED BY <1>2, <2>1 DEF Current, PassState, Idle
<1>3. CASE \A p \in Pass : pass[p].stage = "idle"
  <2>1. pass' = pass
    BY <1>1, <1>2, <1>3
  <2> QED BY <2>1 DEF vars
<1>4. ASSUME NEW p \in Pass, pass[p].stage # "idle" PROVE Next
  <2>1. \A q \in Pass \ {p} : pass[q] = Idle
    BY <1>2, <1>4 DEF SingleInv, OnePass
  <2>2. pass' = [pass EXCEPT ![p] = Idle]
    BY <1>1, <2>1
  <2>3. Crash(p)
    BY <1>4, <2>2 DEF Crash, SetPass
  <2> QED BY <2>3 DEF Next
<1> QED BY <1>3, <1>4

LEMMA ReleaseIsNext ==
  ASSUME NEW l \in LeaseId, ReleaseTask(l) \/ FailTask(l) \/ CompleteTask(l)
                            \/ Renew(l) \/ LateHeartbeat(l)
  PROVE  Next
BY DEF Next, Worker

(* What the calls of the manager do to the tables of TaskLease.            *)
LEMMA CancelIsNext ==
  ASSUME JobTypeOK, NEW j \in Job, job[j] # NoJob, CancelJob(j)
  PROVE  Next \/ UNCHANGED vars
<1>1. job[j].lease \subseteq LeaseId
  BY JobRowCases DEF JobRow
<1>2. CASE TryRelease(job[j].lease)
  BY <1>1, <1>2, ReleaseIsNext DEF TryRelease
<1> QED BY <1>2 DEF CancelJob

LEMMA FailIsNext ==
  ASSUME NEW j \in Job, NEW l \in LeaseId, NEW transient, FailJob(j, l, transient)
  PROVE  Next \/ UNCHANGED vars
<1>1. CASE UNCHANGED <<vars, job>>
  BY <1>1
<1>2. CASE TryRelease({l}) \/ TryFail(l)
  BY <1>2, ReleaseIsNext DEF TryRelease, TryFail
<1> QED BY <1>1, <1>2 DEF FailJob

-----------------------------------------------------------------------------
(* The rows of jobs.                                                       *)

(* Workers go on or leave, except that some may come to the jobs of J.     *)
NewAtMost(J) ==
  /\ late' \in [Job -> BOOLEAN]
  /\ worker' \in [LeaseId -> Working \cup {NoWorker}]
  /\ active' \in [Job -> SUBSET LeaseId]
  /\ \A l \in LeaseId : worker'[l] # NoWorker =>
       \/ worker[l] # NoWorker /\ worker'[l].job = worker[l].job
       \/ worker'[l].job \in J
  /\ \A k \in Job : active'[k] # {} => active[k] # {} \/ k \in J

(* One row is written, in agreement with the tables of TaskLease.          *)
LEMMA JobWrite ==
  ASSUME JobInv, SingleInv', TasksKept, NEW j \in Job, NewAtMost({j}),
         NEW row \in JobRow, job' = [job EXCEPT ![j] = row],
         \A l \in row.lease : Issued(l)' /\ lease'[l].task = TaskOf[j],
         row.status \in Claimed => row.attempt < MaxJobAttempts,
         row.status = "COMPLETED" =>
           /\ status'[TaskOf[j]] = "completed"
           /\ \E l \in row.lease : <<"TASK_COMPLETED", l>> \in audit',
         \A l \in LeaseId : worker'[l] # NoWorker /\ worker'[l].job = j =>
           row.lease = {l} /\ row.status \notin Claimed
  PROVE  JobInv'
<1> USE DEF JobInv
<1>1. row # NoJob
  BY DEF JobRow, NoJob
<1>2. /\ job'[j] = row /\ \A k \in Job \ {j} : job'[k] = job[k]
      /\ job' \in [Job -> JobRow \cup {NoJob}]
  BY DEF JobTypeOK
<1>3. JobTypeOK'
  BY <1>2 DEF JobTypeOK, NewAtMost, SingleInv, IInv, TablesOK
<1>4. JobHasLease'
  <2>1. ASSUME NEW k \in Job, job'[k] # NoJob, NEW l \in job'[k].lease
        PROVE  Issued(l)' /\ lease'[l].task = TaskOf[k]
    <3>1. CASE k = j
      BY <1>2, <2>1, <3>1
    <3>2. CASE k # j
      <4>1. l \in LeaseId /\ Issued(l) /\ lease[l].task = TaskOf[k]
        BY <1>2, <2>1, <3>2, JobRowCases DEF JobHasLease, LeaseOfTask, JobRow
      <4> QED BY <4>1 DEF TasksKept
    <3> QED BY <3>1, <3>2
  <2> QED BY <2>1 DEF JobHasLease, LeaseOfTask
<1>5. WorkerHasJob'
  <2>1. ASSUME NEW l \in LeaseId, worker'[l] # NoWorker
        PROVE  /\ job'[worker'[l].job] # NoJob
               /\ job'[worker'[l].job].lease = {l}
               /\ job'[worker'[l].job].status \notin Claimed
    <3>1. CASE worker'[l].job = j
      BY <1>1, <1>2, <2>1, <3>1
    <3>2. CASE worker'[l].job # j
      <4>1. worker[l] # NoWorker /\ worker'[l].job = worker[l].job
        BY <2>1, <3>2 DEF NewAtMost
      <4>2. worker[l].job \in Job /\ AtJob(l)
        BY <4>1, WorkerCases DEF WorkerHasJob, Running, IsRunning
      <4> QED BY <1>2, <3>2, <4>1, <4>2 DEF AtJob
    <3> QED BY <3>1, <3>2
  <2> QED BY <2>1 DEF WorkerHasJob, AtJob, Running, IsRunning, Claimed
<1>6. ActiveIsJob'
  BY <1>1, <1>2 DEF ActiveIsJob, NewAtMost
<1>7. AttemptIsLeft'
  BY <1>2 DEF AttemptIsLeft, Claimed
<1>8. CompletedTogether'
  <2>1. ASSUME NEW k \in Job, k # j, job[k].status = "COMPLETED"
        PROVE  /\ status'[TaskOf[k]] = "completed"
               /\ \E l \in job[k].lease : <<"TASK_COMPLETED", l>> \in audit'
    <3>1. TaskOf[k] \in Task
      BY JobAssumption
    <3> QED BY <2>1, <3>1 DEF CompletedTogether, TasksKept
  <2> QED BY <1>2, <2>1 DEF CompletedTogether
<1> QED BY <1>3, <1>4, <1>5, <1>6, <1>7, <1>8

(* No row is written. *)
LEMMA JobsSame ==
  ASSUME JobInv, SingleInv', TasksKept, NewAtMost({}), UNCHANGED job
  PROVE  JobInv'
<1> USE DEF JobInv
<1>1. JobTypeOK'
  BY DEF JobTypeOK, NewAtMost, SingleInv, IInv, TablesOK
<1>2. JobHasLease'
  <2>1. ASSUME NEW k \in Job, job[k] # NoJob, NEW l \in job[k].lease
        PROVE  Issued(l)' /\ lease'[l].task = TaskOf[k]
    <3>1. l \in LeaseId /\ Issued(l) /\ lease[l].task = TaskOf[k]
      BY <2>1, JobRowCases DEF JobHasLease, LeaseOfTask, JobRow
    <3> QED BY <3>1 DEF TasksKept
  <2> QED BY <2>1 DEF JobHasLease, LeaseOfTask
<1>3. WorkerHasJob'
  <2>1. ASSUME NEW l \in LeaseId, worker'[l] # NoWorker
        PROVE  worker[l] # NoWorker /\ worker'[l].job = worker[l].job
    BY <2>1 DEF NewAtMost
  <2> QED BY <2>1 DEF WorkerHasJob, AtJob, Running, IsRunning
<1>4. ActiveIsJob' /\ AttemptIsLeft'
  BY DEF ActiveIsJob, AttemptIsLeft, NewAtMost
<1>5. CompletedTogether'
  BY JobAssumption DEF CompletedTogether, TasksKept
<1> QED BY <1>1, <1>2, <1>3, <1>4, <1>5

LEMMA NoneIsAtMostOne ==
  ASSUME NewAtMost({}), NEW j
  PROVE  NewAtMost({j})
BY DEF NewAtMost

(* A status is written.  A job is offered to workers only when none has it. *)
LEMMA StatusWrite ==
  ASSUME JobInv, SingleInv', TasksKept, NEW j \in Job, job[j] # NoJob, NewAtMost({}),
         NEW s \in JobStatus \ {"COMPLETED"}, SetJob(j, s),
         s \in Claimed =>
           /\ job[j].attempt < MaxJobAttempts
           /\ \A l \in LeaseId : worker'[l] # NoWorker => worker'[l].job # j
  PROVE  JobInv'
<1> DEFINE row == [job[j] EXCEPT !.status = s]
<1>1. job[j] \in JobRow
  BY JobRowCases DEF JobInv
<1>2. /\ row \in JobRow /\ row.status = s
      /\ row.lease = job[j].lease /\ row.attempt = job[j].attempt
  BY <1>1 DEF JobRow
<1>3. job' = [job EXCEPT ![j] = row]
  BY DEF SetJob
<1> HIDE DEF row
<1>4. ASSUME NEW l \in row.lease PROVE Issued(l)' /\ lease'[l].task = TaskOf[j]
  <2>1. l \in LeaseId /\ Issued(l) /\ lease[l].task = TaskOf[j]
    BY <1>1, <1>2, <1>4 DEF JobInv, JobHasLease, LeaseOfTask, JobRow
  <2> QED BY <2>1 DEF TasksKept
<1>5. ASSUME NEW l \in LeaseId, worker'[l] # NoWorker, worker'[l].job = j
      PROVE  row.lease = {l} /\ row.status \notin Claimed
  <2>1. l \in Running /\ worker[l].job = j
    BY <1>5 DEF NewAtMost, Running, IsRunning
  <2> QED BY <1>2, <1>5, <2>1 DEF JobInv, WorkerHasJob, AtJob
<1>6. NewAtMost({j})
  BY NoneIsAtMostOne
<1> QED BY <1>2, <1>3, <1>4, <1>5, <1>6, JobWrite

-----------------------------------------------------------------------------
(* The calls of the manager.                                               *)

LEMMA CancelKeeps ==
  ASSUME JobInv, NEW j \in Job, job[j] # NoJob, CancelJob(j), NewAtMost({})
  PROVE  JobInv' /\ (Next \/ UNCHANGED vars)
<1>1. Next \/ UNCHANGED vars
  BY CancelIsNext DEF JobInv
<1>2. SingleInv' /\ TasksKept
  BY <1>1, TasksStep DEF JobInv
<1>3. CASE UNCHANGED job
  BY <1>1, <1>2, <1>3, JobsSame
<1>4. CASE SetJob(j, "CANCELLED")
  BY <1>1, <1>2, <1>4, StatusWrite DEF JobStatus, Terminal, Claimed
<1> QED BY <1>3, <1>4 DEF CancelJob

(* The worker that fails leaves, and it was the only one at its job.       *)
LEMMA FailKeeps ==
  ASSUME JobInv, NEW l \in LeaseId, IsRunning(l), NEW transient,
         FailJob(worker[l].job, l, transient), NewAtMost({}), worker'[l] = NoWorker
  PROVE  JobInv' /\ (Next \/ UNCHANGED vars)
<1> DEFINE j == worker[l].job
<1>1. j \in Job /\ job[j] # NoJob /\ job[j].lease = {l}
  BY WorkerCases DEF JobInv, WorkerHasJob, AtJob, Running
<1>2. Next \/ UNCHANGED vars
  BY <1>1, FailIsNext
<1>3. SingleInv' /\ TasksKept
  BY <1>2, TasksStep DEF JobInv
<1>4. CASE UNCHANGED job
  BY <1>2, <1>3, <1>4, JobsSame
<1>5. CASE SetJob(j, "FAILED")
  <2> HIDE DEF j
  <2> QED BY <1>1, <1>2, <1>3, <1>5, StatusWrite DEF JobStatus, Terminal, Claimed
<1>6. CASE SetJob(j, "QUEUED") /\ ShouldRetry(j, transient)
  <2>1. ASSUME NEW m \in LeaseId, worker'[m] # NoWorker PROVE worker'[m].job # j
    <3>1. m \in Running /\ worker'[m].job = worker[m].job /\ m # l
      BY <2>1 DEF NewAtMost, Running, IsRunning
    <3>2. job[worker[m].job].lease = {m}
      BY <3>1 DEF JobInv, WorkerHasJob, AtJob
    <3> QED BY <1>1, <3>1, <3>2
  <2>2. job[j].attempt < MaxJobAttempts
    BY <1>6 DEF ShouldRetry
  <2> HIDE DEF j
  <2> QED BY <1>1, <1>2, <1>3, <1>6, <2>1, <2>2, StatusWrite DEF JobStatus, Terminal
<1> QED BY <1>4, <1>5, <1>6 DEF FailJob

(* completeJob: the task, under the lease of the row, and the row.         *)
LEMMA CompleteKeeps ==
  ASSUME JobInv, NEW j \in Job, NEW l \in LeaseId, job[j] # NoJob, CompleteJob(j, l),
         NewAtMost({})
  PROVE  JobInv' /\ Next
<1> DEFINE row == [job[j] EXCEPT !.status = "COMPLETED"]
<1>1. CompleteTask(l) /\ SetJob(j, "COMPLETED") /\ job[j].lease = {l}
  BY DEF CompleteJob, CanComplete, Fenced
<1>2. Next
  BY <1>1, ReleaseIsNext
<1>3. SingleInv' /\ TasksKept
  BY <1>2, TasksStep DEF JobInv
<1>4. job[j] \in JobRow /\ Issued(l) /\ lease[l].task = TaskOf[j]
  BY <1>1, JobRowCases DEF JobInv, JobHasLease, LeaseOfTask
<1>5. /\ row \in JobRow /\ row.lease = {l} /\ row.status = "COMPLETED"
  BY <1>1, <1>4 DEF JobRow, JobStatus, Terminal
<1>6. job' = [job EXCEPT ![j] = row]
  BY <1>1 DEF SetJob
<1> HIDE DEF row
<1>7. status'[TaskOf[j]] = "completed" /\ <<"TASK_COMPLETED", l>> \in audit'
  <2>1. status' = [status EXCEPT ![TaskOf[j]] = "completed"]
    BY <1>1, <1>4 DEF CompleteTask, Finish
  <2>2. <<"TASK_COMPLETED", l>> \in audit'
    BY <1>1 DEF CompleteTask, Finish, Record
  <2> QED BY <2>1, <2>2, JobAssumption DEF JobInv, SingleInv, IInv, TablesOK, TypeOK
<1>8. Issued(l)' /\ lease'[l].task = TaskOf[j]
  BY <1>3, <1>4 DEF TasksKept
<1>9. ASSUME NEW m \in LeaseId, worker'[m] # NoWorker, worker'[m].job = j
      PROVE  row.lease = {m} /\ row.status \notin Claimed
  <2>1. m \in Running /\ worker[m].job = j
    BY <1>9 DEF NewAtMost, Running, IsRunning
  <2>2. job[j].lease = {m}
    BY <2>1 DEF JobInv, WorkerHasJob, AtJob
  <2> QED BY <1>1, <1>5, <2>2 DEF Claimed
<1>10. NewAtMost({j})
  BY NoneIsAtMostOne
<1>11. row.status \notin Claimed
  BY <1>5 DEF Claimed
<1> QED BY <1>2, <1>3, <1>5, <1>6, <1>7, <1>8, <1>9, <1>10, <1>11, JobWrite

-----------------------------------------------------------------------------
(* The supervisor.                                                         *)

LEMMA LeaveIsLess ==
  ASSUME JobInv, NEW l \in LeaseId, Leave(l)
  PROVE  NewAtMost({}) /\ IsRunning(l) /\ worker'[l] = NoWorker
<1>1. /\ IsRunning(l)
      /\ worker' = [worker EXCEPT ![l] = NoWorker]
      /\ active' = [active EXCEPT ![worker[l].job] = {}]
      /\ UNCHANGED late
  BY DEF Leave
<1> QED BY <1>1 DEF NewAtMost, JobInv, JobTypeOK

LEMMA StopTimerKeepsJob ==
  ASSUME JobInv, NEW l \in LeaseId, IsRunning(l), NEW abort \in BOOLEAN,
         StopTimer(l, abort), UNCHANGED <<late, active>>
  PROVE  NewAtMost({})
<1> DEFINE w == [worker[l] EXCEPT !.timer = FALSE, !.aborted = @ \/ abort]
<1>1. worker[l] \in Working
  BY WorkerCases DEF JobInv
<1>2. w \in Working /\ w.job = worker[l].job
  BY <1>1 DEF Working
<1>3. worker' = [worker EXCEPT ![l] = w]
  BY DEF StopTimer
<1> HIDE DEF w
<1>4. worker'[l] = w /\ \A m \in LeaseId \ {l} : worker'[m] = worker[m]
  BY <1>3 DEF JobInv, JobTypeOK
<1>5. \A m \in LeaseId : worker'[m] # NoWorker =>
        worker[m] # NoWorker /\ worker'[m].job = worker[m].job
  BY <1>2, <1>4 DEF IsRunning
<1> QED BY <1>2, <1>3, <1>5 DEF NewAtMost, JobInv, JobTypeOK

LEMMA HeartbeatStep ==
  ASSUME JobInv, NEW l \in LeaseId, HeartbeatJob(l)
  PROVE  JobInv' /\ (Next \/ UNCHANGED vars)
<1>1. IsRunning(l) /\ UNCHANGED <<late, active>>
  BY DEF HeartbeatJob
<1>2. CASE HeartbeatCancelled(l) \/ HeartbeatRefused(l)
  <2>1. /\ UNCHANGED job /\ \E abort \in BOOLEAN : StopTimer(l, abort)
        /\ LateHeartbeat(l) \/ UNCHANGED vars
    BY <1>2 DEF HeartbeatCancelled, HeartbeatRefused
  <2>2. Next \/ UNCHANGED vars
    BY <2>1, ReleaseIsNext
  <2>3. SingleInv' /\ TasksKept
    BY <2>2, TasksStep DEF JobInv
  <2> QED BY <1>1, <2>1, <2>2, <2>3, StopTimerKeepsJob, JobsSame
<1>3. CASE HeartbeatTimedOut(l)
  <2> DEFINE j == worker[l].job
  <2>1. SetJob(j, "TIMED_OUT") /\ StopTimer(l, TRUE) /\ UNCHANGED vars
    BY <1>3 DEF HeartbeatTimedOut
  <2>2. j \in Job /\ job[j] # NoJob
    BY <1>1, WorkerCases DEF JobInv, WorkerHasJob, AtJob, Running
  <2>3. SingleInv' /\ TasksKept
    BY <2>1, TasksStep DEF JobInv
  <2>4. NewAtMost({})
    BY <1>1, <2>1, StopTimerKeepsJob
  <2> HIDE DEF j
  <2> QED BY <2>1, <2>2, <2>3, <2>4, StatusWrite DEF JobStatus, Terminal, Claimed
<1>4. CASE HeartbeatRenewed(l)
  <2>1. Renew(l) /\ UNCHANGED <<job, worker>>
    BY <1>4 DEF HeartbeatRenewed
  <2>2. Next
    BY <2>1, ReleaseIsNext
  <2>3. NewAtMost({})
    BY <1>1, <2>1 DEF NewAtMost, JobInv, JobTypeOK
  <2>4. SingleInv' /\ TasksKept
    BY <2>2, TasksStep DEF JobInv
  <2> QED BY <2>1, <2>2, <2>3, <2>4, JobsSame
<1> QED BY <1>2, <1>3, <1>4 DEF HeartbeatJob

LEMMA CaughtStep ==
  ASSUME JobInv, NEW l \in LeaseId, Leave(l), NEW transient, Caught(l, transient)
  PROVE  JobInv' /\ (Next \/ UNCHANGED vars)
<1>1. NewAtMost({}) /\ IsRunning(l) /\ worker'[l] = NoWorker
  BY LeaveIsLess
<1>2. worker[l].job \in Job /\ job[worker[l].job] # NoJob
  BY <1>1, WorkerCases DEF JobInv, WorkerHasJob, AtJob, Running
<1> QED BY <1>1, <1>2, CancelKeeps, FailKeeps DEF Caught

LEMMA SettleStep ==
  ASSUME JobInv, NEW l \in LeaseId, WorkerResolves(l) \/ WorkerRejects(l)
  PROVE  JobInv' /\ (Next \/ UNCHANGED vars)
<1>1. Leave(l)
  BY DEF WorkerResolves, WorkerRejects
<1>2. NewAtMost({}) /\ IsRunning(l)
  BY <1>1, LeaveIsLess
<1>3. worker[l].job \in Job /\ job[worker[l].job] # NoJob
  BY <1>2, WorkerCases DEF JobInv, WorkerHasJob, AtJob, Running
<1>4. CASE UNCHANGED <<vars, job>>
  <2>1. SingleInv' /\ TasksKept
    BY <1>4, TasksStep DEF JobInv
  <2> QED BY <1>2, <1>4, <2>1, JobsSame
<1>5. CASE CompleteJob(worker[l].job, l)
  BY <1>2, <1>3, <1>5, CompleteKeeps
<1>6. CASE \E transient \in BOOLEAN : Caught(l, transient)
  BY <1>1, <1>6, CaughtStep
<1> QED BY <1>4, <1>5, <1>6 DEF WorkerResolves, WorkerRejects

(* A job is claimed when no worker is at it, with an attempt left.         *)
LEMMA RunStep ==
  ASSUME JobInv, NEW j \in Job, NEW l \in LeaseId, RunJob(j, l)
  PROVE  JobInv' /\ Next
<1> DEFINE row == [status |-> "RUNNING", lease |-> {l}, attempt |-> job[j].attempt + 1]
           w == [job |-> j, timer |-> TRUE, aborted |-> FALSE]
<1>1. /\ job[j].status \in Claimed
      /\ ClaimTask(TaskOf[j], l)
      /\ job' = [job EXCEPT ![j] = row]
      /\ worker' = [worker EXCEPT ![l] = w]
      /\ active' = [active EXCEPT ![j] = {l}]
      /\ UNCHANGED late
  BY DEF RunJob, ClaimJob
<1>2. TaskOf[j] \in Task
  BY JobAssumption
<1>3. Next
  BY <1>1, <1>2 DEF Next, Worker
<1>4. SingleInv' /\ TasksKept
  BY <1>3, TasksStep DEF JobInv
<1>5. job[j] \in JobRow /\ job[j].attempt < MaxJobAttempts
  BY <1>1, JobRowCases DEF JobInv, AttemptIsLeft, Claimed, JobStatus
<1>6. /\ row \in JobRow /\ row.status = "RUNNING" /\ row.lease = {l}
  <2>1. job[j].attempt + 1 \in 0..MaxJobAttempts
    BY <1>5, JobAssumption DEF JobRow
  <2> QED BY <2>1 DEF JobRow, JobStatus
<1>7. w \in Working /\ w.job = j
  BY DEF Working
<1> HIDE DEF row, w
<1>8. worker'[l] = w /\ \A m \in LeaseId \ {l} : worker'[m] = worker[m]
  BY <1>1 DEF JobInv, JobTypeOK
<1>9. NewAtMost({j})
  BY <1>1, <1>7, <1>8 DEF NewAtMost, JobInv, JobTypeOK
<1>10. Issued(l)' /\ lease'[l].task = TaskOf[j]
  BY <1>1, <1>2, ClaimRows DEF JobInv, SingleInv, IInv, TablesOK
<1>11. ASSUME NEW m \in LeaseId, worker'[m] # NoWorker, worker'[m].job = j, m # l
       PROVE  FALSE
  <2>1. m \in Running /\ worker[m].job = j
    BY <1>8, <1>11 DEF Running, IsRunning
  <2> QED BY <1>1, <2>1 DEF JobInv, WorkerHasJob, AtJob
<1>12. row.status \notin Claimed
  BY <1>6 DEF Claimed
<1>13. \A m \in row.lease : Issued(m)' /\ lease'[m].task = TaskOf[j]
  BY <1>6, <1>10
<1>14. \A m \in LeaseId : worker'[m] # NoWorker /\ worker'[m].job = j =>
         row.lease = {m} /\ row.status \notin Claimed
  BY <1>6, <1>11, <1>12
<1>15. row.status # "COMPLETED"
  BY <1>6
<1>16. job' = [job EXCEPT ![j] = row]
  BY <1>1
<1>17. JobInv'
  BY <1>4, <1>6, <1>9, <1>12, <1>13, <1>14, <1>15, <1>16, JobWrite
<1> QED BY <1>3, <1>17

(* The user, the deadline, and the creation of a job. *)
LEMMA CallStep ==
  ASSUME JobInv, NEW j \in Job,
         CreateJob(j) \/ UserCancels(j) \/ AbortActiveJob(j) \/ DeadlinePasses(j)
  PROVE  JobInv' /\ (Next \/ UNCHANGED vars)
<1>1. CASE CreateJob(j)
  <2> DEFINE row == [status |-> "QUEUED", lease |-> {}, attempt |-> 0]
  <2>1. /\ job[j] = NoJob /\ job' = [job EXCEPT ![j] = row]
        /\ UNCHANGED <<vars, late, worker, active>>
    BY <1>1 DEF CreateJob
  <2>2. /\ row \in JobRow /\ row.lease = {} /\ row.status = "QUEUED"
        /\ row.attempt < MaxJobAttempts
    BY JobAssumption DEF JobRow, JobStatus
  <2> HIDE DEF row
  <2>3. SingleInv' /\ TasksKept
    BY <2>1, TasksStep DEF JobInv
  <2>4. NewAtMost({j})
    BY <2>1 DEF NewAtMost, JobInv, JobTypeOK
  <2>5. ASSUME NEW m \in LeaseId, worker'[m] # NoWorker, worker'[m].job = j
        PROVE  FALSE
    <3>1. m \in Running /\ worker[m].job = j
      BY <2>1, <2>5 DEF Running, IsRunning
    <3> QED BY <2>1, <3>1 DEF JobInv, WorkerHasJob, AtJob
  <2> QED BY <2>1, <2>2, <2>3, <2>4, <2>5, JobWrite
<1>2. CASE UserCancels(j)
  <2>1. job[j] # NoJob /\ CancelJob(j) /\ UNCHANGED <<late, worker, active>>
    BY <1>2 DEF UserCancels
  <2>2. NewAtMost({})
    BY <2>1 DEF NewAtMost, JobInv, JobTypeOK
  <2> QED BY <2>1, <2>2, CancelKeeps
<1>3. CASE AbortActiveJob(j)
  <2>1. /\ active[j] # {} /\ CancelJob(j) /\ UNCHANGED late
        /\ active' = [active EXCEPT ![j] = {}]
        /\ worker' = [l \in LeaseId |->
                        IF l \in active[j] /\ IsRunning(l)
                        THEN [worker[l] EXCEPT !.timer = FALSE, !.aborted = TRUE]
                        ELSE worker[l]]
    BY <1>3 DEF AbortActiveJob
  <2>2. job[j] # NoJob
    BY <2>1 DEF JobInv, ActiveIsJob
  <2>3. ASSUME NEW l \in LeaseId
        PROVE  /\ worker'[l] \in Working \cup {NoWorker}
               /\ worker'[l] # NoWorker =>
                    worker[l] # NoWorker /\ worker'[l].job = worker[l].job
    <3>1. CASE l \in active[j] /\ IsRunning(l)
      <4> DEFINE w == [worker[l] EXCEPT !.timer = FALSE, !.aborted = TRUE]
      <4>1. w \in Working /\ w.job = worker[l].job
        BY <3>1, WorkerCases DEF JobInv, Working
      <4>2. worker'[l] = w
        BY <2>1, <3>1
      <4> HIDE DEF w
      <4> QED BY <3>1, <4>1, <4>2 DEF IsRunning
    <3>2. CASE ~(l \in active[j] /\ IsRunning(l))
      <4>1. worker'[l] = worker[l]
        BY <2>1, <3>2
      <4> QED BY <4>1 DEF JobInv, JobTypeOK
    <3> QED BY <3>1, <3>2
  <2>4. worker' \in [LeaseId -> Working \cup {NoWorker}]
    BY <2>1, <2>3
  <2>5. NewAtMost({})
    BY <2>1, <2>3, <2>4 DEF NewAtMost, JobInv, JobTypeOK
  <2> QED BY <2>1, <2>2, <2>5, CancelKeeps
<1>4. CASE DeadlinePasses(j)
  <2>1. /\ late' = [late EXCEPT ![j] = TRUE]
        /\ UNCHANGED <<vars, job, worker, active>>
    BY <1>4 DEF DeadlinePasses
  <2>2. NewAtMost({})
    BY <2>1 DEF NewAtMost, JobInv, JobTypeOK
  <2>3. SingleInv' /\ TasksKept
    BY <2>1, TasksStep DEF JobInv
  <2> QED BY <2>1, <2>2, <2>3, JobsSame
<1> QED BY <1>1, <1>2, <1>3, <1>4

-----------------------------------------------------------------------------
(* Deaths and what comes after them.                                       *)

LEMMA DieStep ==
  ASSUME JobInv, ProcessDies \/ \E j \in Job : DiesAfterRelease(j)
  PROVE  JobInv' /\ (Next \/ UNCHANGED vars)
<1>1. Die
  BY DEF ProcessDies, DiesAfterRelease
<1>2. Next \/ UNCHANGED vars
  <2>1. CASE ProcessDies
    BY <2>1, DeathIsCrash DEF ProcessDies, JobInv
  <2>2. CASE \E j \in Job : DiesAfterRelease(j)
    <3>1. PICK j \in Job : job[j].status = "RUNNING" /\ DiesAfterRelease(j)
      BY <2>2 DEF DiesAfterRelease
    <3>2. job[j].lease \subseteq LeaseId
      BY <3>1, JobRowCases DEF JobInv, JobStatus, JobRow
    <3>3. \E l \in LeaseId : ReleaseTask(l)
      BY <3>1, <3>2 DEF DiesAfterRelease
    <3> QED BY <3>3, ReleaseIsNext
  <2> QED BY <2>1, <2>2
<1>3. SingleInv' /\ TasksKept
  BY <1>2, TasksStep DEF JobInv
<1>4. NewAtMost({})
  BY <1>1 DEF Die, NewAtMost, JobInv, JobTypeOK
<1> QED BY <1>1, <1>2, <1>3, <1>4, JobsSame DEF Die

LEMMA ReconcileStep ==
  ASSUME JobInv, NEW j \in Job, Reconcile(j)
  PROVE  JobInv' /\ (Next \/ UNCHANGED vars)
<1> DEFINE s == IF job[j].attempt >= MaxJobAttempts THEN "FAILED" ELSE "RECOVERY_REQUIRED"
           row == [job[j] EXCEPT !.status = s, !.lease = {}]
<1>1. /\ Running = {} /\ job[j].status = "RUNNING" /\ TryRelease(job[j].lease)
      /\ job' = [job EXCEPT ![j].status = s, ![j].lease = {}]
      /\ UNCHANGED <<late, worker, active>>
  BY DEF Reconcile, ReconcileSingleJob
<1>2. job[j] \in JobRow
  BY <1>1, JobRowCases DEF JobInv, JobStatus
<1>3. Next \/ UNCHANGED vars
  <2>1. job[j].lease \subseteq LeaseId
    BY <1>2 DEF JobRow
  <2> QED BY <1>1, <2>1, ReleaseIsNext DEF TryRelease
<1>4. SingleInv' /\ TasksKept
  BY <1>3, TasksStep DEF JobInv
<1>5. /\ row \in JobRow /\ row.lease = {} /\ row.status = s
      /\ row.attempt = job[j].attempt
  BY <1>2 DEF JobRow, JobStatus, Terminal
<1>6. s \in Claimed => job[j].attempt < MaxJobAttempts
  BY <1>2, JobAssumption DEF Claimed, JobRow
<1>7. s # "COMPLETED"
  OBVIOUS
<1>8. job' = [job EXCEPT ![j] = row]
  BY <1>1 DEF JobInv, JobTypeOK
<1> HIDE DEF row, s
<1>9. NewAtMost({j}) /\ \A l \in LeaseId : worker'[l] = NoWorker
  BY <1>1 DEF NewAtMost, JobInv, JobTypeOK, Running, IsRunning
<1> QED BY <1>3, <1>4, <1>5, <1>6, <1>7, <1>8, <1>9, JobWrite

(* Recovery and time, which the jobs only see the effects of.              *)
LEMMA BackgroundStep ==
  ASSUME JobInv, Background
  PROVE  JobInv' /\ Next
<1>1. Next /\ UNCHANGED <<job, late, worker, active>>
  BY DEF Background, Next, jobVars
<1>2. SingleInv' /\ TasksKept
  BY <1>1, TasksStep DEF JobInv
<1>3. NewAtMost({})
  BY <1>1 DEF NewAtMost, JobInv, JobTypeOK
<1> QED BY <1>1, <1>2, <1>3, JobsSame

-----------------------------------------------------------------------------
(* The theorems. *)

LEMMA JobsStep ==
  ASSUME JobInv, [JobNext]_<<vars, jobVars>>
  PROVE  JobInv' /\ (Next \/ UNCHANGED vars)
<1>1. CASE UNCHANGED <<vars, jobVars>>
  <2>1. UNCHANGED <<job, late, worker, active>>
    BY <1>1 DEF jobVars
  <2>2. NewAtMost({})
    BY <2>1 DEF NewAtMost, JobInv, JobTypeOK
  <2>3. SingleInv' /\ TasksKept
    BY <1>1, TasksStep DEF JobInv
  <2> QED BY <1>1, <2>1, <2>2, <2>3, JobsSame
<1>2. CASE JobNext
  BY <1>2, RunStep, CallStep, DieStep, ReconcileStep, HeartbeatStep, SettleStep,
     BackgroundStep
     DEF JobNext, JobStep, Supervised
<1> QED BY <1>1, <1>2

LEMMA JobsInit == JobInit => JobInv
<1> SUFFICES ASSUME JobInit PROVE JobInv
  OBVIOUS
<1>1. SingleInv
  BY SingleInit DEF JobInit
<1>2. JobTypeOK
  BY <1>1 DEF JobInit, JobTypeOK, SingleInv, IInv, TablesOK
<1>3. Running = {}
  BY DEF JobInit, Running, IsRunning
<1>4. /\ JobHasLease /\ ActiveIsJob /\ AttemptIsLeft /\ CompletedTogether
  BY DEF JobInit, JobHasLease, ActiveIsJob, AttemptIsLeft, CompletedTogether, NoJob
<1> QED BY <1>1, <1>2, <1>3, <1>4 DEF JobInv, WorkerHasJob

LEMMA JobInvariance == JobSpec => []JobInv
<1>1. JobInv /\ [JobNext]_<<vars, jobVars>> => JobInv'
  BY JobsStep
<1> QED BY <1>1, JobsInit, PTL DEF JobSpec

(* On the tables of TaskLease the job manager, the supervisor, a death of  *)
(* the process and the reconciler do nothing but what TaskLease describes: *)
(* what is proved of its leases holds when jobs are run.                   *)
THEOREM JobsImplementTasks == JobSpec => Spec
<1>1. JobInit => Init
  BY DEF JobInit
<1>2. JobInv /\ [JobNext]_<<vars, jobVars>> => [Next]_vars
  BY JobsStep
<1> QED BY <1>1, <1>2, JobInvariance, PTL DEF JobSpec, Spec

(* The rows of jobs, the timers and the entries of active jobs keep their  *)
(* types: in particular no job is started more than maxAttempts times.     *)
THEOREM JobTypes == JobSpec => []JobTypeOK
BY JobInvariance, PTL DEF JobInv

(* A job is only COMPLETED with its task, which was completed under the    *)
(* lease the job's row names, whatever is cancelled, times out or dies.    *)
THEOREM JobsCompleteTogether == JobSpec => []CompletedTogether
BY JobInvariance, PTL DEF JobInv

(* A job that waits for a worker has an attempt left, also after the       *)
(* reconciler has put it back.                                             *)
THEOREM AttemptsRemain == JobSpec => []AttemptIsLeft
BY JobInvariance, PTL DEF JobInv

(* The supervisor starts no second worker of a job while one is at it.     *)
THEOREM WorkersAreAlone == JobSpec => []OneWorkerPerJob
<1>1. JobInv => OneWorkerPerJob
  <2> SUFFICES ASSUME JobInv, NEW l \in Running, NEW m \in Running,
                      worker[l].job = worker[m].job
               PROVE  l = m
    BY DEF OneWorkerPerJob
  <2>1. job[worker[l].job].lease = {l} /\ job[worker[l].job].lease = {m}
    BY DEF JobInv, WorkerHasJob, AtJob
  <2> QED BY <2>1
<1> QED BY <1>1, JobInvariance, PTL

(* While jobs are run, a completed task stays completed and a live lease   *)
(* keeps its task: the calls of workers that settle late change nothing.   *)
THEOREM JobsKeepTasks == JobSpec => CompletedIsFinal /\ []HeldWhileLive
BY JobsImplementTasks, CompletedStays, LiveLeaseKeepsTask, JobAssumption
=============================================================================
