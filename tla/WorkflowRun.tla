---------------------------- MODULE WorkflowRun ----------------------------
(***************************************************************************)
(* One run of a workflow: WorkflowEngine, the executors it starts on the   *)
(* run, and the reconciler after a restart.                                *)
(*                                                                         *)
(* The run is a row of workflow_runs that everybody reads and saves whole. *)
(* An executor works on a copy of its own, which it never reads again: it  *)
(* walks through the levels of the DAG, dispatches the nodes of a level    *)
(* and waits for all of them.  Only there, in Promise.all, can anything    *)
(* else of the process run.                                                *)
(*                                                                         *)
(* Nodes are gates, which wait for a human, or work: a dispatch with its   *)
(* retries, its timeout and its budget settles once, if it settles at all. *)
(***************************************************************************)
EXTENDS Naturals, FiniteSets

CONSTANTS
  Node,         \* the tasks of the workflow
  Upstream,     \* Upstream[n]: the dependsOn of n that are nodes
  Gate,         \* nodes of kind "approve"
  Conditional,  \* nodes with a condition, which may turn out false
  Timed,        \* nodes whose dispatch has a timeout: kind "task", not
                \* "parallel" and "foreach"
  Executor      \* bounds the executors on the run at one time

ASSUME WorkflowAssumption ==
  /\ IsFiniteSet(Node)
  /\ Upstream \in [Node -> SUBSET Node]
  /\ Gate \subseteq Node
  /\ Conditional \subseteq Node \ Gate
  /\ Timed \subseteq Node \ Gate

VARIABLES
  row,      \* the row of the run
  exec,     \* exec[e]: where executor e is, with its copy of the run
  approved  \* the gates a human has approved, ever

vars == <<row, exec, approved>>
-----------------------------------------------------------------------------
(* DAGEngine: wave i has the nodes whose dependencies are in waves before.  *)
InWaves[i \in 0..Cardinality(Node)] ==
  IF i = 0 THEN {} ELSE {n \in Node : Upstream[n] \subseteq InWaves[i - 1]}

Level(i) == {n \in Node : n \in InWaves[i] \ InWaves[i - 1]}

(* With a cycle there would be no levels; the registry refuses cycles.      *)
LevelCount ==
  IF InWaves[Cardinality(Node)] = Node
    THEN Cardinality({i \in 1..Cardinality(Node) : Level(i) # {}})
    ELSE 0

(* Every node is in a wave: the registry refuses workflows with cycles.     *)
ASSUME AcyclicAssumption == InWaves[Cardinality(Node)] = Node

RunStatus == {"QUEUED", "RUNNING", "PAUSED", "WAITING_APPROVAL",
              "COMPLETED", "FAILED", "CANCELLED"}

Terminal == {"COMPLETED", "FAILED", "CANCELLED"}

NodeStatus == {"PENDING", "RUNNING", "WAITING_APPROVAL", "COMPLETED", "FAILED",
               "SKIPPED", "TIMED_OUT", "CANCELLED"}

(* step: currentStepIndex, here from 1; running: runningTasks; gate: the    *)
(* node of approvalGate, as a set.                                          *)
Run == [status : RunStatus, step : Nat, node : [Node -> NodeStatus],
        running : SUBSET Node, gate : SUBSET Gate]

NoRun == [status |-> "NONE"]

NewRun == [status |-> "QUEUED", step |-> 1, node |-> [n \in Node |-> "PENDING"],
           running |-> {}, gate |-> {}]

Idle == [at |-> "idle"]

(* at: before the run is marked RUNNING, between levels, or inside one;     *)
(* todo: the nodes of the level not looked at yet; busy: those dispatched   *)
(* whose promise is pending.                                                *)
Working == [at : {"start", "level", "wave"}, run : Run, level : Nat,
            todo : SUBSET Node, busy : SUBSET Node]

(* execute(run, workflow), up to its first await. *)
Execute(e, at, run) ==
  /\ exec[e] = Idle
  /\ exec' = [exec EXCEPT ![e] = [at |-> at, run |-> run, level |-> run.step,
                                  todo |-> {}, busy |-> {}]]

(* An executor that waits for no dispatch goes on before anything else does.*)
Awaits(e) == exec[e].at = "wave" /\ exec[e].todo = {} /\ exec[e].busy # {}

LoopIsFree == \A e \in Executor : exec[e] = Idle \/ Awaits(e)

NodesIn(run, S) == {n \in Node : run.node[n] \in S}

Done(run) == NodesIn(run, {"COMPLETED", "SKIPPED"})

Failed(run) == NodesIn(run, {"FAILED", "TIMED_OUT"})
-----------------------------------------------------------------------------
(* Starting a run: created as QUEUED, then marked RUNNING.                  *)
StartWorkflow(e) ==
  /\ row = NoRun
  /\ row' = NewRun
  /\ Execute(e, "start", NewRun)
  /\ UNCHANGED approved

MarkRunning(e) ==
  /\ exec[e].at = "start"
  /\ LET run == [exec[e].run EXCEPT !.status = "RUNNING"] IN
       /\ row' = run
       /\ exec' = [exec EXCEPT ![e].run = run, ![e].at = "level"]
  /\ UNCHANGED approved

(* The in-memory status that is tested for CANCELLED here never is, as      *)
(* cancelWorkflow changes the row.                                          *)
BeginLevel(e) ==
  /\ exec[e].at = "level"
  /\ exec[e].level <= LevelCount
  /\ exec' = [exec EXCEPT ![e].at = "wave",
                          ![e].run.step = exec[e].level,
                          ![e].todo = Level(exec[e].level)]
  /\ UNCHANGED <<row, approved>>

CompleteRun(e) ==
  /\ exec[e].at = "level"
  /\ exec[e].level > LevelCount
  /\ row' = [exec[e].run EXCEPT !.status = "COMPLETED"]
  /\ exec' = [exec EXCEPT ![e] = Idle]
  /\ UNCHANGED approved

(* The executor looks at node n of its level. *)
Visits(e, n) == exec[e].at = "wave" /\ n \in exec[e].todo

Visited(e, n, run, busy) ==
  exec' = [exec EXCEPT ![e].todo = @ \ {n}, ![e].run = run, ![e].busy = busy]

Blocked(run, n) == Upstream[n] \cap Failed(run) # {}

Ready(run, n) ==
  /\ n \notin Done(run)
  /\ ~Blocked(run, n)
  /\ Upstream[n] \subseteq Done(run)

PassOver(e, n) ==
  /\ Visits(e, n)
  /\ LET run == exec[e].run IN
       /\ ~Ready(run, n)
       /\ n \in Done(run) \/ ~Blocked(run, n)
       /\ Visited(e, n, run, exec[e].busy)
  /\ UNCHANGED <<row, approved>>

FailBlocked(e, n) ==
  /\ Visits(e, n)
  /\ LET run == exec[e].run IN
       /\ n \notin Done(run)
       /\ Blocked(run, n)
       /\ Visited(e, n, [run EXCEPT !.node[n] = "FAILED"], exec[e].busy)
  /\ UNCHANGED <<row, approved>>

(* The condition of n is false. *)
Skip(e, n) ==
  /\ Visits(e, n)
  /\ n \in Conditional
  /\ Ready(exec[e].run, n)
  /\ LET run == [exec[e].run EXCEPT !.node[n] = "SKIPPED"] IN
       row' = run /\ Visited(e, n, run, exec[e].busy)
  /\ UNCHANGED approved

(* Faulty: the node is not put among the running tasks. *)
Started_Unlisted(run, n) == [run EXCEPT !.node[n] = "RUNNING"]

Started(run, n) == [run EXCEPT !.node[n] = "RUNNING", !.running = @ \cup {n}]

Dispatch(e, n) ==
  /\ Visits(e, n)
  /\ n \notin Gate
  /\ Ready(exec[e].run, n)
  /\ LET run == Started(exec[e].run, n) IN
       row' = run /\ Visited(e, n, run, exec[e].busy \cup {n})
  /\ UNCHANGED approved

(* A gate makes the run wait at once, and stays among the running tasks;    *)
(* the rest of the level is started all the same.                           *)
RequestApproval(e, n) ==
  /\ Visits(e, n)
  /\ n \in Gate
  /\ Ready(exec[e].run, n)
  /\ LET run == [Started(exec[e].run, n) EXCEPT
                   !.status = "WAITING_APPROVAL",
                   !.node[n] = "WAITING_APPROVAL",
                   !.gate = {n}] IN
       row' = run /\ Visited(e, n, run, exec[e].busy)
  /\ UNCHANGED approved

(* A dispatch ends; that is saved with the level only. *)
Settle(e, n, status) ==
  /\ exec[e] # Idle /\ n \in exec[e].busy
  /\ LoopIsFree
  /\ exec' = [exec EXCEPT ![e].busy = @ \ {n},
                          ![e].run.node[n] = status,
                          ![e].run.running = @ \ {n}]
  /\ UNCHANGED <<row, approved>>

LevelIsOver(e) ==
  exec[e].at = "wave" /\ exec[e].todo = {} /\ exec[e].busy = {}

WaitForApproval(e) ==
  /\ LevelIsOver(e)
  /\ exec[e].run.status = "WAITING_APPROVAL"
  /\ row' = exec[e].run
  /\ exec' = [exec EXCEPT ![e] = Idle]
  /\ UNCHANGED approved

FailRun(e) ==
  /\ LevelIsOver(e)
  /\ exec[e].run.status # "WAITING_APPROVAL"
  /\ Level(exec[e].level) \cap Failed(exec[e].run) # {}
  /\ row' = [exec[e].run EXCEPT !.status = "FAILED"]
  /\ exec' = [exec EXCEPT ![e] = Idle]
  /\ UNCHANGED approved

(* Faulty: the step counter stays, so the level is gone through again. *)
NextLevel_Same(e) ==
  /\ LevelIsOver(e)
  /\ exec[e].run.status # "WAITING_APPROVAL"
  /\ Level(exec[e].level) \cap Failed(exec[e].run) = {}
  /\ row' = exec[e].run
  /\ exec' = [exec EXCEPT ![e].at = "level"]
  /\ UNCHANGED approved

(* Faulty: the nodes of the level are not looked at. *)
NextLevel_Always(e) ==
  /\ LevelIsOver(e)
  /\ exec[e].run.status # "WAITING_APPROVAL"
  /\ row' = exec[e].run
  /\ exec' = [exec EXCEPT ![e].at = "level", ![e].level = @ + 1]
  /\ UNCHANGED approved

NextLevel(e) ==
  /\ LevelIsOver(e)
  /\ exec[e].run.status # "WAITING_APPROVAL"
  /\ Level(exec[e].level) \cap Failed(exec[e].run) = {}
  /\ row' = exec[e].run
  /\ exec' = [exec EXCEPT ![e].at = "level", ![e].level = @ + 1]
  /\ UNCHANGED approved
-----------------------------------------------------------------------------
(* What a user asks for: each call reads the row, and saves it. *)

Pause ==
  /\ LoopIsFree
  /\ row.status \in {"RUNNING", "QUEUED"}
  /\ row' = [row EXCEPT !.status = "PAUSED"]
  /\ UNCHANGED <<exec, approved>>

(* Whether an executor works on the run already is not asked. *)
Resume(e) ==
  /\ LoopIsFree
  /\ row.status \in {"PAUSED", "WAITING_APPROVAL"}
  /\ row' = [row EXCEPT !.status = "RUNNING"]
  /\ Execute(e, "level", row')
  /\ UNCHANGED approved

Cancel ==
  /\ LoopIsFree
  /\ row.status \in RunStatus \ Terminal
  /\ row' = [row EXCEPT
               !.status = "CANCELLED",
               !.node = [n \in Node |-> IF n \in row.running THEN "CANCELLED"
                                        ELSE @[n]],
               !.running = {}]
  /\ UNCHANGED <<exec, approved>>

(* The gate stays among the running tasks. *)
ApproveGate(e, g) ==
  /\ LoopIsFree
  /\ row.status = "WAITING_APPROVAL"
  /\ row.gate = {g}
  /\ row' = [row EXCEPT !.status = "RUNNING", !.node[g] = "COMPLETED"]
  /\ approved' = approved \cup {g}
  /\ Execute(e, "level", row')

RejectGate(g) ==
  /\ LoopIsFree
  /\ row.status = "WAITING_APPROVAL"
  /\ row.gate = {g}
  /\ row' = [row EXCEPT !.status = "FAILED", !.node[g] = "FAILED"]
  /\ UNCHANGED <<exec, approved>>
-----------------------------------------------------------------------------
(* The process dies, and with it every executor. *)
Die == exec' = [e \in Executor |-> Idle]

ProcessDies ==
  /\ \E e \in Executor : exec[e] # Idle
  /\ Die
  /\ UNCHANGED <<row, approved>>

(* Between two saves that are one step above: a gate is saved as RUNNING    *)
(* before it waits, and the outcome of a level before that of the run.      *)
DiesBetweenSaves(e) ==
  /\ \/ \E n \in Gate : /\ Visits(e, n)
                       /\ Ready(exec[e].run, n)
                       /\ row' = Started(exec[e].run, n)
     \/ LevelIsOver(e) /\ row' = exec[e].run
  /\ Die
  /\ UNCHANGED approved

(* Faulty: an interrupted gate counts as passed. *)
ReconcileSingleRun_Passed ==
  /\ \A e \in Executor : exec[e] = Idle
  /\ row.status = "RUNNING"
  /\ row' = [row EXCEPT
               !.status = "PAUSED",
               !.node = [n \in Node |-> IF n \in row.running THEN "COMPLETED"
                                        ELSE @[n]],
               !.running = {}]
  /\ UNCHANGED <<exec, approved>>

(* WorkflowRecoveryReconciler, for the start of a process, which it is left *)
(* to its caller to run; no start of the program does.  Runs that wait for  *)
(* approval or are queued are left as they are.                             *)
ReconcileSingleRun ==
  /\ \A e \in Executor : exec[e] = Idle
  /\ row.status = "RUNNING"
  /\ row' = [row EXCEPT
               !.status = "PAUSED",
               !.node = [n \in Node |-> IF n \in row.running THEN "FAILED"
                                        ELSE @[n]],
               !.running = {}]
  /\ UNCHANGED <<exec, approved>>
-----------------------------------------------------------------------------
Init ==
  /\ row = NoRun
  /\ exec = [e \in Executor |-> Idle]
  /\ approved = {}

Visit(e, n) ==
  \/ PassOver(e, n)
  \/ FailBlocked(e, n)
  \/ Skip(e, n)
  \/ Dispatch(e, n)
  \/ RequestApproval(e, n)

(* What an executor does without waiting. *)
Goes(e) ==
  \/ MarkRunning(e)
  \/ BeginLevel(e)
  \/ CompleteRun(e)
  \/ \E n \in Node : Visit(e, n)
  \/ WaitForApproval(e)
  \/ FailRun(e)
  \/ NextLevel(e)

Settles(e) ==
  \E n \in Node, status \in {"COMPLETED", "FAILED", "TIMED_OUT"} :
    Settle(e, n, status)

User(e) == StartWorkflow(e) \/ Resume(e) \/ \E g \in Gate : ApproveGate(e, g)

Next ==
  \/ \E e \in Executor : Goes(e) \/ Settles(e) \/ User(e) \/ DiesBetweenSaves(e)
  \/ Pause
  \/ Cancel
  \/ \E g \in Gate : RejectGate(g)
  \/ ProcessDies
  \/ ReconcileSingleRun

Spec == Init /\ [][Next]_vars

(* An executor that waits for nothing goes on (there is one at a time), and *)
(* the timer of a dispatch that has a timeout ends it: other executors make *)
(* the loop busy in between, but not for ever.                              *)
Fairness ==
  /\ WF_vars(\E e \in Executor : Goes(e))
  /\ \A e \in Executor :
       SF_vars(\E n \in Timed, status \in {"COMPLETED", "FAILED", "TIMED_OUT"} :
                 Settle(e, n, status))

FairSpec == Spec /\ Fairness

(* A deployment that runs the reconciler after each death, which nothing    *)
(* but the tests does.                                                      *)
ReconciledSpec == FairSpec /\ WF_vars(ReconcileSingleRun)
-----------------------------------------------------------------------------
(* Types of the row and of the executors' copies; what an executor waits    *)
(* for is among the running tasks of its copy.                              *)
WorkflowTypeOK ==
  /\ row \in Run \cup {NoRun}
  /\ exec \in [Executor -> Working \cup {Idle}]
  /\ approved \subseteq Gate
  /\ \A e \in Executor : exec[e] # Idle => exec[e].busy \subseteq exec[e].run.running

(* The row and every copy of it. *)
Copies ==
  {exec[e].run : e \in {x \in Executor : exec[x] # Idle}} \cup ({row} \ {NoRun})

(* Work below a gate is started only once a human has approved that gate,   *)
(* however runs are resumed, cut short and reconciled.                      *)
NoWorkBeforeApproval ==
  \A run \in Copies : \A n \in Node : \A g \in Gate \cap Upstream[n] :
    run.node[n] \in {"RUNNING", "WAITING_APPROVAL", "COMPLETED", "TIMED_OUT"}
      => g \in approved

(* A run that is completed left nothing undone: each node completed or was  *)
(* skipped.  Only what was decided while it counted as running may be found *)
(* FAILED, by a reconciler that overrode the decision: a gate that was      *)
(* approved, or a node that a second executor skipped on its condition.     *)
CompletedRunIsDone ==
  row.status = "COMPLETED" => Node \ Done(row) \subseteq approved \cup Conditional

(* An executor comes to the end of its run: it halts at a gate, fails the   *)
(* run or completes it, whatever other executors and users do to the row    *)
(* meanwhile.  Only a dispatch without a timeout can hold it up for ever.   *)
RunEnds ==
  \A e \in Executor :
    exec[e] # Idle ~> exec[e] = Idle \/ exec[e].busy \ Timed # {}

(* A run is not left RUNNING for ever, with or without somebody who runs it.*)
(* After a death it is, as nothing runs the reconciler: this takes          *)
(* ReconciledSpec, and a timeout for every dispatch.                        *)
RunIsNotStranded == row.status = "RUNNING" ~> row.status # "RUNNING"

(* The gate a human approved stays passed until the run is over. *)
ApprovalSurvivesRestart ==
  \A g \in approved :
    row.status \notin Terminal => row.node[g] = "COMPLETED"

(* A run that is cancelled stays cancelled, whoever still works on it.      *)
CancelledIsFinal == [][row.status = "CANCELLED" => row'.status = "CANCELLED"]_vars
=============================================================================
