--------------------------- MODULE SessionResume ---------------------------
(***************************************************************************)
(* Resuming a session: what SessionResumeEngine does to the tasks, next to *)
(* the workers and the recovery passes of TaskLease.  restoreDAG takes the *)
(* tasks as they were listed, and puts every one that was in the hands of  *)
(* a worker back on the board, by way of "blocked", in two updates that    *)
(* are transactions of their own.                                          *)
(***************************************************************************)
EXTENDS TaskLease

VARIABLE
  resume  \* the interrupted tasks restoreDAG has yet to put back, and the
          \* one it has made "blocked" and not yet "queued", as a set

Resumed == [tasks |-> {}, between |-> {}]

resumeVars == <<vars, resume>>

InHands(t) == status[t] \in {"running", "claimed", "verifying"}

(* listBySession and the copies restoreDAG makes of its rows: whether a     *)
(* lease on the task is still live is not asked.                            *)
ListSessionTasks ==
  /\ Undisturbed
  /\ resume = Resumed
  /\ resume' = [Resumed EXCEPT !.tasks = {t \in Task : InHands(t)}]
  /\ resume'.tasks # {}
  /\ UNCHANGED vars

Dropped(t) == [tasks |-> resume.tasks \ {t}, between |-> {}]

(* Faulty: the next task is begun before the last one is queued. *)
BlockTask_Together(t) ==
  /\ t \in resume.tasks \ resume.between
  /\ CanMove(t, "blocked")
  /\ status' = [status EXCEPT ![t] = "blocked"]
  /\ resume' = [resume EXCEPT !.between = @ \cup {t}]
  /\ UNCHANGED <<attempts, lease, audit, pass>>

(* updateStatus reads the task again; where it throws, the task is left.    *)
BlockTask(t) ==
  /\ t \in resume.tasks
  /\ resume.between = {}
  /\ IF CanMove(t, "blocked")
       THEN /\ status' = [status EXCEPT ![t] = "blocked"]
            /\ resume' = [resume EXCEPT !.between = {t}]
       ELSE /\ resume' = Dropped(t)
            /\ UNCHANGED status
  /\ UNCHANGED <<attempts, lease, audit, pass>>

(* Faulty: a plain UPDATE, which checks no transition. *)
QueueTask_Unchecked(t) ==
  /\ t \in resume.between
  /\ status' = [status EXCEPT ![t] = "queued"]
  /\ resume' = Dropped(t)
  /\ UNCHANGED <<attempts, lease, audit, pass>>

QueueTask(t) ==
  /\ t \in resume.between
  /\ status' = IF CanMove(t, "queued") THEN [status EXCEPT ![t] = "queued"]
               ELSE status
  /\ resume' = Dropped(t)
  /\ UNCHANGED <<attempts, lease, audit, pass>>

(* The process that resumes the session dies. *)
CrashResume ==
  /\ resume # Resumed
  /\ resume' = Resumed
  /\ UNCHANGED vars

ResumeInit == Init /\ resume = Resumed

Restore(t) == BlockTask(t) \/ QueueTask(t)

(* A single process finishes resuming before it does anything else. *)
ResumeNext ==
  \/ /\ SharedDb \/ resume = Resumed
     /\ Next
     /\ UNCHANGED resume
  \/ ListSessionTasks
  \/ \E t \in Task : Restore(t)
  \/ CrashResume

ResumeSpec == ResumeInit /\ [][ResumeNext]_resumeVars

(* A session is resumed again and again, and not every time cut short; so   *)
(* are the recovery passes of the server.                                   *)
ResumeFairness ==
  /\ Fairness
  /\ SF_resumeVars(ListSessionTasks)
  /\ \A t \in Task : SF_resumeVars(Restore(t))

FairResumeSpec == ResumeSpec /\ ResumeFairness
-----------------------------------------------------------------------------
(* Types of what a resume remembers, and of the tables. *)
ResumeTypeOK ==
  /\ TypeOK
  /\ resume \in [tasks : SUBSET Task, between : SUBSET Task]
  /\ resume.between \subseteq resume.tasks
  /\ Cardinality(resume.between) <= 1

(* A task that a resume found in the hands of a worker does not get stuck   *)
(* on its way back to the board.                                            *)
ResumedIsQueued ==
  \A t \in Task : t \in resume.between ~> status[t] # "blocked"
=============================================================================
