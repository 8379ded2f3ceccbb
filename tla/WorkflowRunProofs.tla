------------------------- MODULE WorkflowRunProofs -------------------------
(* Proofs about WorkflowRun: its types, that work waits until a human has   *)
(* approved the gates above it, and that a completed run is done.           *)
EXTENDS WorkflowRun, TLAPS, FiniteSetTheorems

(* The statuses that say a node was started. *)
Begun == {"RUNNING", "WAITING_APPROVAL", "COMPLETED", "TIMED_OUT"}

(* What every copy of the run keeps to, given the gates approved so far: a  *)
(* gate is passed only by approval, a begun node is below approved gates.   *)
Clean(node, S) ==
  /\ \A h \in Gate : node[h] # "SKIPPED" /\ (node[h] = "COMPLETED" => h \in S)
  /\ \A n \in Node : node[n] \in Begun => Gate \cap Upstream[n] \subseteq S

(* The node that waits for approval is below approved gates too.            *)
Safe(run, S) ==
  /\ Clean(run.node, S)
  /\ \A h \in run.gate : Gate \cap Upstream[h] \subseteq S

(* What an executor keeps to: its copy is clean, and so are the nodes it    *)
(* waits for, whose outcome it will write into that copy.                   *)
Orderly(w, S) ==
  /\ w.busy \subseteq w.run.running
  /\ Safe(w.run, S)
  /\ \A n \in w.busy : n \notin Gate /\ Gate \cap Upstream[n] \subseteq S

Types ==
  /\ row \in Run \cup {NoRun}
  /\ exec \in [Executor -> Working \cup {Idle}]
  /\ approved \subseteq Gate

WorkflowInv ==
  /\ Types
  /\ row # NoRun => Safe(row, approved)
  /\ \A e \in Executor : exec[e] # Idle => Orderly(exec[e], approved)
-----------------------------------------------------------------------------
(* Records, sets and statuses. *)

(* What is known of an executor that works. *)
LEMMA Busy ==
  ASSUME WorkflowInv, NEW e \in Executor, exec[e] # Idle
  PROVE  /\ exec[e] \in Working
         /\ exec[e].run \in Run
         /\ exec[e].run.node \in [Node -> NodeStatus]
         /\ exec[e].run.running \subseteq Node
         /\ exec[e].level \in Nat
         /\ exec[e].todo \subseteq Node
         /\ exec[e].busy \subseteq Node
         /\ Orderly(exec[e], approved)
  BY DEF WorkflowInv, Types, Working, Run

LEMMA NotIdle ==
  ASSUME NEW e \in Executor, exec[e].at \in {"start", "level", "wave"}
  PROVE  exec[e] # Idle
  BY DEF Idle

(* What is known of the row of a run. *)
LEMMA Exists ==
  ASSUME WorkflowInv, row.status \in RunStatus
  PROVE  /\ row \in Run
         /\ row.node \in [Node -> NodeStatus]
         /\ row.running \subseteq Node
         /\ Safe(row, approved)
  BY DEF WorkflowInv, Types, NoRun, RunStatus, Run

LEMMA RunIsSome == ASSUME NEW run \in Run  PROVE run # NoRun
  BY DEF Run, NoRun, RunStatus

(* Levels hold nodes. *)
LEMMA LevelOfNodes == ASSUME NEW i  PROVE Level(i) \subseteq Node
  BY DEF Level

(* Setting the status of one node keeps a copy clean, unless it begins a    *)
(* node under a gate or passes one.                                         *)
LEMMA CleanUpdate ==
  ASSUME NEW S, NEW node \in [Node -> NodeStatus], Clean(node, S),
         NEW n \in Node, NEW v \in NodeStatus,
         n \in Gate => v # "SKIPPED" /\ (v = "COMPLETED" => n \in S),
         v \in Begun => Gate \cap Upstream[n] \subseteq S
  PROVE  /\ [node EXCEPT ![n] = v] \in [Node -> NodeStatus]
         /\ Clean([node EXCEPT ![n] = v], S)
  BY WorkflowAssumption DEF Clean

(* Giving up some nodes keeps a copy clean. *)
GivenUp(node, R, v) == [n \in Node |-> IF n \in R THEN v ELSE node[n]]

LEMMA CleanGivenUp ==
  ASSUME NEW S, NEW node \in [Node -> NodeStatus], Clean(node, S),
         NEW R, NEW v \in {"FAILED", "CANCELLED"}
  PROVE  /\ GivenUp(node, R, v) \in [Node -> NodeStatus]
         /\ Clean(GivenUp(node, R, v), S)
  BY WorkflowAssumption DEF Clean, Begun, NodeStatus, GivenUp

(* More approvals keep a copy clean. *)
LEMMA CleanGrows ==
  ASSUME NEW S, NEW T, S \subseteq T, NEW node, Clean(node, S)
  PROVE  Clean(node, T)
  BY DEF Clean

(* A ready node is below approved gates only. *)
LEMMA ReadyIsCleared ==
  ASSUME NEW S, NEW run \in Run, Safe(run, S), NEW n \in Node, Ready(run, n)
  PROVE  Gate \cap Upstream[n] \subseteq S
<1> SUFFICES ASSUME NEW h \in Gate, h \in Upstream[n]  PROVE h \in S
  OBVIOUS
<1>1. h \in Done(run)
  BY DEF Ready
<1>2. run.node[h] \in {"COMPLETED", "SKIPPED"}
  BY <1>1 DEF Done, NodesIn
<1> QED BY <1>2 DEF Clean, Safe

(* A step that changes the row and one executor at most. *)
LEMMA Step ==
  ASSUME WorkflowInv,
         row' \in Run \cup {NoRun},
         row' # NoRun => Safe(row', approved'),
         approved \subseteq approved', approved' \subseteq Gate,
         NEW e \in Executor, NEW w \in Working \cup {Idle},
         exec' = [exec EXCEPT ![e] = w],
         w # Idle => Orderly(w, approved')
  PROVE  WorkflowInv'
<1>1. Types'
  BY DEF WorkflowInv, Types
<1>2. ASSUME NEW x \in Executor, exec'[x] # Idle
      PROVE  Orderly(exec'[x], approved')
  <2>1. CASE x = e
    BY <1>2, <2>1 DEF WorkflowInv, Types
  <2>2. CASE x # e
    <3>1. exec'[x] = exec[x]
      BY <2>2 DEF WorkflowInv, Types
    <3>2. Orderly(exec[x], approved)
      BY <1>2, <3>1 DEF WorkflowInv
    <3> QED BY <3>1, <3>2, CleanGrows DEF Orderly, Safe
  <2> QED BY <2>1, <2>2
<1> QED BY <1>1, <1>2 DEF WorkflowInv

(* A step that changes the row only. *)
LEMMA RowStep ==
  ASSUME WorkflowInv, row' \in Run, Safe(row', approved),
         UNCHANGED <<exec, approved>>
  PROVE  WorkflowInv'
  BY DEF WorkflowInv, Types
-----------------------------------------------------------------------------
(* One lemma for each step. *)

LEMMA InitInv == Init => WorkflowInv
  BY DEF Init, WorkflowInv, Types

LEMMA NewRunIsClean == NewRun \in Run /\ Safe(NewRun, approved)
  BY WorkflowAssumption DEF NewRun, Run, RunStatus, NodeStatus, Safe, Clean, Begun

LEMMA StartWorkflowInv ==
  ASSUME WorkflowInv, NEW e \in Executor, StartWorkflow(e)  PROVE WorkflowInv'
<1> DEFINE w == [at |-> "start", run |-> NewRun, level |-> NewRun.step,
                 todo |-> {}, busy |-> {}]
<1>1. w \in Working
  BY NewRunIsClean DEF Working, NewRun
<1>2. Orderly(w, approved)
  BY NewRunIsClean DEF Orderly, Safe
<1>3. row' = NewRun /\ approved' = approved /\ exec' = [exec EXCEPT ![e] = w]
  BY DEF StartWorkflow, Execute
<1>4. approved \subseteq Gate
  BY DEF WorkflowInv, Types
<1> HIDE DEF w
<1> QED BY <1>1, <1>2, <1>3, <1>4, NewRunIsClean, Step

LEMMA MarkRunningInv ==
  ASSUME WorkflowInv, NEW e \in Executor, MarkRunning(e)  PROVE WorkflowInv'
<1> DEFINE run == [exec[e].run EXCEPT !.status = "RUNNING"]
           w == [exec[e] EXCEPT !.run = run, !.at = "level"]
<1>1. /\ exec[e] \in Working /\ exec[e].run \in Run
      /\ Orderly(exec[e], approved)
  BY Busy, NotIdle DEF MarkRunning
<1>2. run \in Run /\ run.node = exec[e].run.node /\ run.gate = exec[e].run.gate /\ run.running = exec[e].run.running
  BY <1>1 DEF Run, RunStatus
<1>3. w \in Working /\ w.run = run /\ w.busy = exec[e].busy
  BY <1>1, <1>2 DEF Working
<1>4. row' = run /\ approved' = approved /\ exec' = [exec EXCEPT ![e] = w]
  BY <1>1 DEF MarkRunning, Working
<1>5. approved \subseteq Gate
  BY DEF WorkflowInv, Types
<1> HIDE DEF w, run
<1>6. Safe(run, approved) /\ Orderly(w, approved)
  BY <1>1, <1>2, <1>3 DEF Orderly, Safe
<1> QED BY <1>2, <1>3, <1>4, <1>5, <1>6, Step

LEMMA BeginLevelInv ==
  ASSUME WorkflowInv, NEW e \in Executor, BeginLevel(e)  PROVE WorkflowInv'
<1> DEFINE run == [exec[e].run EXCEPT !.step = exec[e].level]
           w == [exec[e] EXCEPT !.at = "wave", !.run = run, !.todo = Level(exec[e].level)]
<1>1. /\ exec[e] \in Working /\ exec[e].run \in Run /\ exec[e].level \in Nat
      /\ Orderly(exec[e], approved)
  BY Busy, NotIdle DEF BeginLevel
<1>2. run \in Run /\ run.node = exec[e].run.node /\ run.gate = exec[e].run.gate /\ run.running = exec[e].run.running
  BY <1>1 DEF Run
<1>3. w \in Working /\ w.run = run /\ w.busy = exec[e].busy
  BY <1>1, <1>2, LevelOfNodes DEF Working
<1>4. UNCHANGED <<row, approved>> /\ exec' = [exec EXCEPT ![e] = w]
  BY <1>1 DEF BeginLevel, Working
<1> HIDE DEF w, run
<1>5. Orderly(w, approved)
  BY <1>1, <1>2, <1>3 DEF Orderly, Safe
<1> QED BY <1>3, <1>4, <1>5, Step DEF WorkflowInv, Types

(* An executor ends, with a last status saved. *)
LEMMA EndInv ==
  ASSUME WorkflowInv, NEW e \in Executor, exec[e] # Idle,
         NEW status \in RunStatus,
         row' = [exec[e].run EXCEPT !.status = status],
         exec' = [exec EXCEPT ![e] = Idle],
         approved' = approved
  PROVE  WorkflowInv'
<1>1. exec[e].run \in Run /\ Orderly(exec[e], approved)
  BY Busy
<1>2. row' \in Run /\ row'.node = exec[e].run.node /\ row'.gate = exec[e].run.gate
  BY <1>1 DEF Run
<1>3. Safe(row', approved)
  BY <1>1, <1>2 DEF Orderly, Safe
<1> QED BY <1>2, <1>3, Step DEF WorkflowInv, Types

LEMMA CompleteRunInv ==
  ASSUME WorkflowInv, NEW e \in Executor, CompleteRun(e)  PROVE WorkflowInv'
<1>1. exec[e] # Idle
  BY NotIdle DEF CompleteRun
<1> QED BY <1>1, EndInv DEF CompleteRun, RunStatus

LEMMA FailRunInv ==
  ASSUME WorkflowInv, NEW e \in Executor, FailRun(e)  PROVE WorkflowInv'
<1>1. exec[e] # Idle
  BY NotIdle DEF FailRun, LevelIsOver
<1> QED BY <1>1, EndInv DEF FailRun, RunStatus

LEMMA WaitForApprovalInv ==
  ASSUME WorkflowInv, NEW e \in Executor, WaitForApproval(e)  PROVE WorkflowInv'
<1>1. exec[e] # Idle
  BY NotIdle DEF WaitForApproval, LevelIsOver
<1>2. exec[e].run \in Run
  BY <1>1, Busy
<1>3. exec[e].run = [exec[e].run EXCEPT !.status = exec[e].run.status]
  BY <1>2 DEF Run
<1>4. exec[e].run.status \in RunStatus
  BY <1>2 DEF Run
<1> QED BY <1>1, <1>3, <1>4, EndInv DEF WaitForApproval

LEMMA NextLevelInv ==
  ASSUME WorkflowInv, NEW e \in Executor, NextLevel(e)  PROVE WorkflowInv'
<1> DEFINE next == exec[e].level + 1
           w == [exec[e] EXCEPT !.at = "level", !.level = next]
<1>1. /\ exec[e] \in Working /\ exec[e].run \in Run /\ exec[e].level \in Nat
      /\ Orderly(exec[e], approved)
  BY Busy, NotIdle DEF NextLevel, LevelIsOver
<1>2. w \in Working /\ w.run = exec[e].run /\ w.busy = exec[e].busy
  <2>1. next \in Nat
    BY <1>1
  <2> HIDE DEF next
  <2> QED BY <1>1, <2>1 DEF Working
<1>3. row' = exec[e].run /\ approved' = approved /\ exec' = [exec EXCEPT ![e] = w]
  BY <1>1 DEF NextLevel, Working
<1> HIDE DEF w
<1>4. Orderly(w, approved) /\ Safe(exec[e].run, approved)
  BY <1>1, <1>2 DEF Orderly, Safe
<1> QED BY <1>1, <1>2, <1>3, <1>4, Step DEF WorkflowInv, Types

(* An executor has looked at node n. *)
LEMMA VisitedInv ==
  ASSUME WorkflowInv, NEW e \in Executor, NEW n \in Node, Visits(e, n),
         NEW run \in Run, Safe(run, approved),
         NEW busy \in SUBSET Node, busy \subseteq run.running,
         \A m \in busy : m \notin Gate /\ Gate \cap Upstream[m] \subseteq approved,
         Visited(e, n, run, busy),
         row' \in {row, run}, approved' = approved
  PROVE  WorkflowInv'
<1> DEFINE w == [exec[e] EXCEPT !.todo = @ \ {n}, !.run = run, !.busy = busy]
<1>1. exec[e] \in Working
  BY Busy, NotIdle DEF Visits
<1>2. w \in Working /\ w.run = run /\ w.busy = busy
  BY <1>1 DEF Working
<1>3. exec' = [exec EXCEPT ![e] = w]
  BY <1>1 DEF Visited, Working
<1> HIDE DEF w
<1>4. Orderly(w, approved)
  BY <1>2 DEF Orderly, Safe
<1> QED BY <1>2, <1>3, <1>4, Step DEF WorkflowInv, Types

(* What a node that is visited is visited with. *)
LEMMA Visitor ==
  ASSUME WorkflowInv, NEW e \in Executor, NEW n \in Node, Visits(e, n)
  PROVE  /\ exec[e] \in Working /\ exec[e].run \in Run
         /\ exec[e].run.node \in [Node -> NodeStatus]
         /\ exec[e].run.running \subseteq Node
         /\ exec[e].busy \subseteq Node
         /\ exec[e].busy \subseteq exec[e].run.running
         /\ Safe(exec[e].run, approved)
         /\ \A m \in exec[e].busy : m \notin Gate /\ Gate \cap Upstream[m] \subseteq approved
  BY Busy, NotIdle DEF Visits, Orderly

LEMMA PassOverInv ==
  ASSUME WorkflowInv, NEW e \in Executor, NEW n \in Node, PassOver(e, n)
  PROVE  WorkflowInv'
<1>1. Visits(e, n) /\ UNCHANGED <<row, approved>>
  BY DEF PassOver
<1>2. Visited(e, n, exec[e].run, exec[e].busy)
  BY DEF PassOver
<1> QED BY <1>1, <1>2, Visitor, VisitedInv

(* A node of a copy gets a new status, and the running tasks are now R.     *)
With(run, n, v, R) == [run EXCEPT !.node[n] = v, !.running = R]

LEMMA RunUpdate ==
  ASSUME NEW run \in Run, Safe(run, approved),
         NEW n \in Node, NEW v \in NodeStatus,
         n \in Gate => v # "SKIPPED" /\ (v = "COMPLETED" => n \in approved),
         v \in Begun => Gate \cap Upstream[n] \subseteq approved,
         NEW R \in SUBSET Node
  PROVE  /\ With(run, n, v, R) \in Run
         /\ With(run, n, v, R).running = R
         /\ Safe(With(run, n, v, R), approved)
<1> DEFINE node == [run.node EXCEPT ![n] = v]
           r == With(run, n, v, R)
<1>1. node \in [Node -> NodeStatus] /\ Clean(node, approved)
  BY CleanUpdate DEF Run, Safe
<1>2. r = [run EXCEPT !.node = node, !.running = R]
  BY DEF Run, With
<1> HIDE DEF node, r
<1>3. r \in Run /\ r.node = node /\ r.gate = run.gate /\ r.running = R
  BY <1>1, <1>2 DEF Run
<1> QED BY <1>1, <1>3 DEF r, Safe

LEMMA FailBlockedInv ==
  ASSUME WorkflowInv, NEW e \in Executor, NEW n \in Node, FailBlocked(e, n)
  PROVE  WorkflowInv'
<1> DEFINE run == [exec[e].run EXCEPT !.node[n] = "FAILED"]
           full == With(exec[e].run, n, "FAILED", exec[e].run.running)
<1>1. Visits(e, n) /\ UNCHANGED <<row, approved>> /\ Visited(e, n, run, exec[e].busy)
  BY DEF FailBlocked
<1>2. run = full
  BY <1>1, Visitor DEF Run, With
<1> HIDE DEF run
<1>3. run \in Run /\ run.running = exec[e].run.running /\ Safe(run, approved)
  BY <1>1, <1>2, Visitor, RunUpdate DEF NodeStatus, Begun
<1> QED BY <1>1, <1>3, Visitor, VisitedInv

LEMMA SkipInv ==
  ASSUME WorkflowInv, NEW e \in Executor, NEW n \in Node, Skip(e, n)
  PROVE  WorkflowInv'
<1> DEFINE run == [exec[e].run EXCEPT !.node[n] = "SKIPPED"]
           full == With(exec[e].run, n, "SKIPPED", exec[e].run.running)
<1>1. /\ Visits(e, n) /\ row' = run /\ approved' = approved
      /\ Visited(e, n, run, exec[e].busy)
  BY DEF Skip
<1>2. n \notin Gate
  BY WorkflowAssumption DEF Skip
<1>3. run = full
  BY <1>1, Visitor DEF Run, With
<1> HIDE DEF run
<1>4. run \in Run /\ run.running = exec[e].run.running /\ Safe(run, approved)
  BY <1>1, <1>2, <1>3, Visitor, RunUpdate DEF NodeStatus, Begun
<1> QED BY <1>1, <1>4, Visitor, VisitedInv

LEMMA DispatchInv ==
  ASSUME WorkflowInv, NEW e \in Executor, NEW n \in Node, Dispatch(e, n)
  PROVE  WorkflowInv'
<1> DEFINE run == Started(exec[e].run, n)
           R == exec[e].run.running \cup {n}
<1>1. /\ Visits(e, n) /\ row' = run /\ approved' = approved
      /\ Visited(e, n, run, exec[e].busy \cup {n})
  BY DEF Dispatch
<1>2. n \notin Gate /\ Gate \cap Upstream[n] \subseteq approved
  BY <1>1, Visitor, ReadyIsCleared DEF Dispatch
<1>3. run = With(exec[e].run, n, "RUNNING", R)
  BY <1>1, Visitor DEF Started, With
<1>4. run \in Run /\ run.running = R /\ Safe(run, approved)
  <2>1. R \in SUBSET Node
    BY <1>1, Visitor
  <2> HIDE DEF R, run
  <2> QED BY <1>1, <1>2, <1>3, <2>1, Visitor, RunUpdate DEF NodeStatus
<1> HIDE DEF run
<1> QED BY <1>1, <1>2, <1>4, Visitor, VisitedInv

LEMMA RequestApprovalInv ==
  ASSUME WorkflowInv, NEW e \in Executor, NEW n \in Node, RequestApproval(e, n)
  PROVE  WorkflowInv'
<1> DEFINE run == [Started(exec[e].run, n) EXCEPT
                     !.status = "WAITING_APPROVAL",
                     !.node[n] = "WAITING_APPROVAL",
                     !.gate = {n}]
           R == exec[e].run.running \cup {n}
           waits == With(exec[e].run, n, "WAITING_APPROVAL", R)
<1>1. /\ Visits(e, n) /\ row' = run /\ approved' = approved
      /\ Visited(e, n, run, exec[e].busy)
  BY DEF RequestApproval
<1>2. n \in Gate /\ Gate \cap Upstream[n] \subseteq approved
  BY <1>1, Visitor, ReadyIsCleared DEF RequestApproval
<1>3. waits \in Run /\ waits.running = R /\ Safe(waits, approved)
  <2>1. R \in SUBSET Node
    BY <1>1, Visitor
  <2> HIDE DEF R
  <2> QED BY <1>1, <1>2, <2>1, Visitor, RunUpdate DEF NodeStatus
<1>4. run = [waits EXCEPT !.status = "WAITING_APPROVAL", !.gate = {n}]
  BY <1>1, Visitor DEF Started, Run, With
<1> HIDE DEF waits, run
<1>5. run \in Run /\ run.node = waits.node /\ run.gate = {n} /\ run.running = R
  BY <1>2, <1>3, <1>4 DEF Run, RunStatus
<1>6. Safe(run, approved)
  BY <1>2, <1>3, <1>5 DEF Safe
<1> QED BY <1>1, <1>3, <1>5, <1>6, Visitor, VisitedInv

LEMMA SettleInv ==
  ASSUME WorkflowInv, NEW e \in Executor, NEW n \in Node,
         NEW status \in {"COMPLETED", "FAILED", "TIMED_OUT"}, Settle(e, n, status)
  PROVE  WorkflowInv'
<1> DEFINE busy == exec[e].busy \ {n}
           R == exec[e].run.running \ {n}
           run == With(exec[e].run, n, status, R)
           w == [exec[e] EXCEPT !.busy = busy, !.run = run]
<1>1. /\ exec[e] \in Working /\ exec[e].run \in Run
      /\ exec[e].busy \subseteq Node /\ exec[e].run.running \subseteq Node
      /\ Orderly(exec[e], approved)
  BY Busy DEF Settle
<1>2. n \notin Gate /\ Gate \cap Upstream[n] \subseteq approved
  BY <1>1 DEF Settle, Orderly
<1>3. run \in Run /\ run.running = R /\ Safe(run, approved)
  <2>1. R \in SUBSET Node
    BY <1>1
  <2> HIDE DEF R
  <2> QED BY <1>1, <1>2, <2>1, RunUpdate DEF NodeStatus, Orderly
<1>4. UNCHANGED <<row, approved>> /\ exec' = [exec EXCEPT ![e] = w]
  BY <1>1 DEF Settle, Working, Run, With
<1> HIDE DEF run
<1>5. w \in Working /\ w.run = run /\ w.busy = busy
  BY <1>1, <1>3 DEF Working
<1> HIDE DEF w
<1>6. Orderly(w, approved)
  BY <1>1, <1>3, <1>5 DEF Orderly, Safe
<1> QED BY <1>4, <1>5, <1>6, Step DEF WorkflowInv, Types

LEMMA PauseInv == ASSUME WorkflowInv, Pause  PROVE WorkflowInv'
<1>1. row \in Run /\ Safe(row, approved)
  BY Exists DEF Pause, RunStatus
<1>2. row' = [row EXCEPT !.status = "PAUSED"] /\ UNCHANGED <<exec, approved>>
  BY DEF Pause
<1>3. row' \in Run /\ row'.node = row.node /\ row'.gate = row.gate
  BY <1>1, <1>2 DEF Run, RunStatus
<1>4. Safe(row', approved)
  BY <1>1, <1>3 DEF Safe
<1> QED BY <1>2, <1>3, <1>4, RowStep

(* A new executor sets out on the row it was given. *)
LEMMA SetOut ==
  ASSUME WorkflowInv, row' \in Run, Safe(row', approved'),
         approved \subseteq approved', approved' \subseteq Gate,
         NEW e \in Executor, Execute(e, "level", row')
  PROVE  WorkflowInv'
<1> DEFINE w == [at |-> "level", run |-> row', level |-> row'.step, todo |-> {}, busy |-> {}]
<1>1. w \in Working
  BY DEF Working, Run
<1>2. Orderly(w, approved')
  BY DEF Orderly, Safe
<1>3. exec' = [exec EXCEPT ![e] = w]
  BY DEF Execute
<1> HIDE DEF w
<1> QED BY <1>1, <1>2, <1>3, Step

LEMMA ResumeInv ==
  ASSUME WorkflowInv, NEW e \in Executor, Resume(e)  PROVE WorkflowInv'
<1>1. row \in Run /\ Safe(row, approved)
  BY Exists DEF Resume, RunStatus
<1>2. /\ row' = [row EXCEPT !.status = "RUNNING"] /\ approved' = approved
      /\ Execute(e, "level", row')
  BY DEF Resume
<1>3. row' \in Run /\ row'.node = row.node /\ row'.gate = row.gate
  BY <1>1, <1>2 DEF Run, RunStatus
<1>4. Safe(row', approved)
  BY <1>1, <1>3 DEF Safe
<1> QED BY <1>2, <1>3, <1>4, SetOut DEF WorkflowInv, Types

LEMMA CancelInv == ASSUME WorkflowInv, Cancel  PROVE WorkflowInv'
<1> DEFINE node == GivenUp(row.node, row.running, "CANCELLED")
<1>1. row \in Run /\ row.node \in [Node -> NodeStatus] /\ Safe(row, approved)
  BY Exists DEF Cancel
<1>2. node \in [Node -> NodeStatus] /\ Clean(node, approved)
  BY <1>1, CleanGivenUp DEF Safe
<1>3. /\ row' = [row EXCEPT !.status = "CANCELLED", !.node = node, !.running = {}]
      /\ UNCHANGED <<exec, approved>>
  BY <1>1 DEF Cancel, Run, GivenUp
<1> HIDE DEF node
<1>4. row' \in Run /\ row'.node = node /\ row'.gate = row.gate
  BY <1>1, <1>2, <1>3 DEF Run, RunStatus
<1> QED BY <1>1, <1>2, <1>3, <1>4, RowStep DEF Safe

LEMMA ReconcileInv == ASSUME WorkflowInv, ReconcileSingleRun  PROVE WorkflowInv'
<1> DEFINE node == GivenUp(row.node, row.running, "FAILED")
<1>1. row \in Run /\ row.node \in [Node -> NodeStatus] /\ Safe(row, approved)
  BY Exists DEF ReconcileSingleRun, RunStatus
<1>2. node \in [Node -> NodeStatus] /\ Clean(node, approved)
  BY <1>1, CleanGivenUp DEF Safe
<1>3. /\ row' = [row EXCEPT !.status = "PAUSED", !.node = node, !.running = {}]
      /\ UNCHANGED <<exec, approved>>
  BY <1>1 DEF ReconcileSingleRun, Run, GivenUp
<1> HIDE DEF node
<1>4. row' \in Run /\ row'.node = node /\ row'.gate = row.gate
  BY <1>1, <1>2, <1>3 DEF Run, RunStatus
<1> QED BY <1>1, <1>2, <1>3, <1>4, RowStep DEF Safe

(* The row when a gate gets its status from a human. *)
Decided(run, status, h, v) == [run EXCEPT !.status = status, !.node[h] = v]

LEMMA GateUpdate ==
  ASSUME NEW run \in Run, NEW S, Safe(run, S), NEW h \in Gate,
         NEW status \in RunStatus, NEW v \in {"COMPLETED", "FAILED"},
         v = "COMPLETED" => h \in S /\ Gate \cap Upstream[h] \subseteq S
  PROVE  Decided(run, status, h, v) \in Run /\ Safe(Decided(run, status, h, v), S)
<1> DEFINE node == [run.node EXCEPT ![h] = v]
           r == Decided(run, status, h, v)
<1>1. node \in [Node -> NodeStatus] /\ Clean(node, S)
  BY CleanUpdate, WorkflowAssumption DEF Run, NodeStatus, Begun, Safe
<1>2. r = [run EXCEPT !.status = status, !.node = node]
  BY DEF Run, Decided
<1> HIDE DEF node, r
<1>3. r \in Run /\ r.node = node /\ r.gate = run.gate
  BY <1>1, <1>2 DEF Run
<1> QED BY <1>1, <1>3 DEF Safe, r

LEMMA RejectGateInv ==
  ASSUME WorkflowInv, NEW h \in Gate, RejectGate(h)  PROVE WorkflowInv'
<1>1. row \in Run /\ Safe(row, approved)
  BY Exists DEF RejectGate, RunStatus
<1>2. row' = Decided(row, "FAILED", h, "FAILED") /\ UNCHANGED <<exec, approved>>
  BY DEF RejectGate, Decided
<1>3. row' \in Run /\ Safe(row', approved)
  BY <1>1, <1>2, GateUpdate DEF RunStatus
<1> QED BY <1>2, <1>3, RowStep

LEMMA ProcessDiesInv == ASSUME WorkflowInv, ProcessDies  PROVE WorkflowInv'
  BY DEF ProcessDies, Die, WorkflowInv, Types

(* A death leaves a row that was saved, and no executor. *)
LEMMA DieInv ==
  ASSUME WorkflowInv, row' \in Run, Safe(row', approved), Die, approved' = approved
  PROVE  WorkflowInv'
  BY DEF WorkflowInv, Types, Die

LEMMA DiesBetweenSavesInv ==
  ASSUME WorkflowInv, NEW e \in Executor, DiesBetweenSaves(e)  PROVE WorkflowInv'
<1>1. ASSUME NEW n \in Gate, Visits(e, n), Ready(exec[e].run, n),
             row' = Started(exec[e].run, n)
      PROVE  WorkflowInv'
  <2> DEFINE R == exec[e].run.running \cup {n}
  <2>1. n \in Node /\ Gate \cap Upstream[n] \subseteq approved
    BY <1>1, Visitor, ReadyIsCleared, WorkflowAssumption
  <2>2. R \in SUBSET Node
    BY <1>1, <2>1, Visitor
  <2>3. row' = With(exec[e].run, n, "RUNNING", R)
    BY <1>1, <2>1, Visitor DEF Started, With
  <2> HIDE DEF R
  <2>4. row' \in Run /\ Safe(row', approved)
    BY <1>1, <2>1, <2>2, <2>3, Visitor, RunUpdate DEF NodeStatus
  <2> QED BY <2>4, DieInv DEF DiesBetweenSaves
<1>2. ASSUME LevelIsOver(e), row' = exec[e].run  PROVE WorkflowInv'
  <2>1. exec[e].run \in Run /\ Safe(exec[e].run, approved)
    BY <1>2, Busy, NotIdle DEF LevelIsOver, Orderly
  <2> QED BY <1>2, <2>1, DieInv DEF DiesBetweenSaves
<1> QED BY <1>1, <1>2 DEF DiesBetweenSaves

LEMMA ApproveGateInv ==
  ASSUME WorkflowInv, NEW e \in Executor, NEW h \in Gate, ApproveGate(e, h)
  PROVE  WorkflowInv'
<1>1. row \in Run /\ Safe(row, approved)
  BY Exists DEF ApproveGate, RunStatus
<1>2. /\ row' = Decided(row, "RUNNING", h, "COMPLETED")
      /\ approved' = approved \cup {h}
      /\ row.gate = {h}
      /\ Execute(e, "level", row')
  BY DEF ApproveGate, Decided
<1>3. Safe(row, approved') /\ Gate \cap Upstream[h] \subseteq approved' /\ h \in approved'
  BY <1>1, <1>2, CleanGrows DEF Safe
<1>4. row' \in Run /\ Safe(row', approved')
  BY <1>1, <1>2, <1>3, GateUpdate DEF RunStatus
<1>5. approved \subseteq approved' /\ approved' \subseteq Gate
  BY <1>2 DEF WorkflowInv, Types
<1> QED BY <1>2, <1>4, <1>5, SetOut
-----------------------------------------------------------------------------
(* Every step of the specification keeps the invariant. *)
LEMMA NextInv == ASSUME WorkflowInv, [Next]_vars  PROVE WorkflowInv'
<1>1. ASSUME NEW e \in Executor, Goes(e)  PROVE WorkflowInv'
  BY <1>1, MarkRunningInv, BeginLevelInv, CompleteRunInv, PassOverInv, FailBlockedInv,
     SkipInv, DispatchInv, RequestApprovalInv, WaitForApprovalInv, FailRunInv, NextLevelInv
     DEF Goes, Visit
<1>2. ASSUME NEW e \in Executor, Settles(e)  PROVE WorkflowInv'
  BY <1>2, SettleInv DEF Settles
<1>3. ASSUME NEW e \in Executor, User(e)  PROVE WorkflowInv'
  BY <1>3, StartWorkflowInv, ResumeInv, ApproveGateInv DEF User
<1>4. ASSUME NEW h \in Gate, RejectGate(h)  PROVE WorkflowInv'
  BY <1>4, RejectGateInv
<1>5. CASE UNCHANGED vars
  BY <1>5 DEF vars, WorkflowInv, Types
<1>6. ASSUME NEW e \in Executor, DiesBetweenSaves(e)  PROVE WorkflowInv'
  BY <1>6, DiesBetweenSavesInv
<1> QED BY <1>1, <1>2, <1>3, <1>4, <1>5, <1>6, PauseInv, CancelInv, ProcessDiesInv, ReconcileInv
        DEF Next

LEMMA Invariance == Spec => []WorkflowInv
  BY InitInv, NextInv, PTL DEF Spec

(* Types of the row and of the executors' copies, for any DAG and any       *)
(* number of executors; an executor waits for running tasks only.           *)
THEOREM WorkflowTypes == Spec => []WorkflowTypeOK
<1>1. WorkflowInv => WorkflowTypeOK
  BY DEF WorkflowInv, Types, Orderly, WorkflowTypeOK
<1> QED BY <1>1, Invariance, PTL

(* Work below a gate is started only after a human approved that gate, for  *)
(* any DAG, however executors, resumes, crashes and the reconciler          *)
(* interleave on the row (workflow-executor.ts, workflow-engine.ts).        *)
THEOREM GatesHold == Spec => []NoWorkBeforeApproval
<1>1. WorkflowInv => NoWorkBeforeApproval
  BY DEF WorkflowInv, Orderly, Safe, Clean, Begun, Copies, NoWorkBeforeApproval
<1> QED BY <1>1, Invariance, PTL

-----------------------------------------------------------------------------
(* That a completed run left nothing undone (CompletedRunIsDone), for any   *)
(* DAG: first what the waves of DAGEngine are, then what every copy of the  *)
(* run has behind it.                                                       *)

-----------------------------------------------------------------------------
(* Induction: a set of numbers has a least one.  The sets 0..k are ordered  *)
(* as their ends are, and finite sets are well-founded.                     *)
LEMMA Least ==
  ASSUME NEW T, T \subseteq Nat, T # {}
  PROVE  \E k \in T : \A j \in T : k <= j
<1> DEFINE R == StrictSubsetOrdering(Nat)
           F == FiniteSubsetsOf(Nat)
           U == {0..k : k \in T}
<1>1. U \subseteq F /\ U # {}
  <2>1. ASSUME NEW k \in T  PROVE 0..k \in FiniteSubsetsOf(Nat)
    <3>1. k \in Int /\ 0 \in Int
      OBVIOUS
    <3>2. IsFiniteSet(0..k)
      BY <3>1, FS_Interval
    <3> QED BY <3>2 DEF FiniteSubsetsOf
  <2> QED BY <2>1
<1>2. IsWellFoundedOn(R, F)
  BY FS_StrictSubsetOrderingWellFounded
<1> HIDE DEF R, F
<1>3. \E x \in U : \A y \in U : ~ (<<y, x>> \in R)
  BY <1>1, <1>2, WFMin
<1>4. PICK k \in T : \A y \in U : ~ (<<y, 0..k>> \in R)
  BY <1>3
<1>5. ASSUME NEW j \in T, ~ (k <= j)  PROVE FALSE
  <2>1. j \in Nat /\ k \in Nat /\ j < k
    BY <1>5
  <2>2. 0..j \subseteq 0..k /\ 0..j # 0..k
    <3>1. k \in 0..k /\ k \notin 0..j
      BY <2>1
    <3> QED BY <2>1, <3>1
  <2>3. <<0..j, 0..k>> \in R
    BY <2>1, <2>2 DEF R, StrictSubsetOrdering
  <2> QED BY <1>4, <2>3
<1> QED BY <1>4, <1>5

(* The waves up to k, as a function on 0..k. *)
Builds(f, k) ==
  f = [i \in 0..k |-> IF i = 0 THEN {}
                      ELSE {n \in Node : Upstream[n] \subseteq f[i - 1]}]

LEMMA WavesExist == ASSUME NEW k \in Nat  PROVE \E f : Builds(f, k)
<1> DEFINE T == {j \in Nat : ~ \E f : Builds(f, j)}
<1>1. SUFFICES ASSUME T # {}  PROVE FALSE
  OBVIOUS
<1>2. PICK j \in T : \A x \in T : j <= x
  BY <1>1, Least
<1>3. CASE j = 0
  <2>1. Builds([i \in 0..0 |-> {}], 0)
    BY DEF Builds
  <2> QED BY <1>3, <2>1
<1>4. CASE j # 0
  <2>1. j - 1 \in Nat /\ j - 1 \notin T
    BY <1>2, <1>4
  <2>2. PICK f : Builds(f, j - 1)
    BY <2>1
  <2> DEFINE next == {n \in Node : Upstream[n] \subseteq f[j - 1]}
             g == [i \in 0..j |-> IF i = j THEN next ELSE f[i]]
  <2>3. Builds(g, j)
    <3>1. ASSUME NEW i \in 0..j
          PROVE  g[i] = IF i = 0 THEN {} ELSE {n \in Node : Upstream[n] \subseteq g[i - 1]}
      <4>1. CASE i = j
        <5>1. j - 1 \in 0..j /\ j - 1 # j
          BY <2>1, <1>4
        <5> QED BY <1>4, <4>1, <5>1
      <4>2. CASE i # j
        <5>1. i \in 0..(j - 1)
          BY <2>1, <4>2
        <5>2. f[i] = IF i = 0 THEN {} ELSE {n \in Node : Upstream[n] \subseteq f[i - 1]}
          BY <2>2, <5>1 DEF Builds
        <5>3. i # 0 => i - 1 \in 0..j /\ i - 1 # j
          BY <5>1, <2>1
        <5> QED BY <4>2, <5>2, <5>3
      <4> QED BY <4>1, <4>2
    <3>2. g = [i \in 0..j |-> g[i]]
      OBVIOUS
    <3> HIDE DEF g
    <3> QED BY <3>1, <3>2 DEF Builds
  <2> QED BY <2>3
<1> QED BY <1>3, <1>4

LEMMA WaveCount == Cardinality(Node) \in Nat
  BY FS_CardinalityType, WorkflowAssumption

(* Each wave builds on the one before. *)
LEMMA Waves ==
  /\ InWaves[0] = {}
  /\ \A i \in 1..Cardinality(Node) :
       InWaves[i] = {n \in Node : Upstream[n] \subseteq InWaves[i - 1]}
<1> DEFINE N == Cardinality(Node)
<1>1. N \in Nat
  BY WaveCount
<1>2. \E f : Builds(f, N)
  BY <1>1, WavesExist
<1>3. InWaves = CHOOSE f : Builds(f, N)
  BY DEF InWaves, Builds
<1>4. Builds(InWaves, N)
  BY <1>2, <1>3
<1> HIDE DEF N
<1>5. InWaves[0] = {}
  <2>1. 0 \in 0..N
    BY <1>1
  <2> QED BY <1>4, <2>1 DEF Builds
<1>6. ASSUME NEW i \in 1..N
      PROVE  InWaves[i] = {n \in Node : Upstream[n] \subseteq InWaves[i - 1]}
  <2>1. i \in 0..N /\ i # 0
    BY <1>1
  <2> QED BY <1>4, <2>1 DEF Builds
<1> QED BY <1>5, <1>6 DEF N

LEMMA WavesGrow ==
  ASSUME NEW i \in 1..Cardinality(Node)  PROVE InWaves[i - 1] \subseteq InWaves[i]
<1> DEFINE N == Cardinality(Node)
           T == {j \in 1..N : ~ (InWaves[j - 1] \subseteq InWaves[j])}
<1>1. SUFFICES ASSUME T # {}  PROVE FALSE
  OBVIOUS
<1>2. N \in Nat
  BY WaveCount
<1>3. PICK j \in T : \A x \in T : j <= x
  <2>1. T \subseteq Nat
    BY <1>2
  <2> HIDE DEF T
  <2> QED BY <1>1, <2>1, Least
<1>4. InWaves[j] = {n \in Node : Upstream[n] \subseteq InWaves[j - 1]}
  BY Waves
<1>5. CASE j = 1
  BY <1>3, <1>5, Waves
<1>6. CASE j # 1
  <2>1. j - 1 \in 1..N /\ j - 1 \notin T
    BY <1>2, <1>3, <1>6
  <2>2. InWaves[j - 1] = {n \in Node : Upstream[n] \subseteq InWaves[(j - 1) - 1]}
    BY <2>1, Waves
  <2> QED BY <1>4, <2>1, <2>2
<1> QED BY <1>5, <1>6

(* A level without nodes is the end: no wave after it adds any. *)
LEMMA WavesStop ==
  ASSUME NEW s \in 1..Cardinality(Node), Level(s) = {},
         NEW i \in s..Cardinality(Node)
  PROVE  InWaves[i] = InWaves[s - 1]
<1> DEFINE N == Cardinality(Node)
           T == {j \in s..N : InWaves[j] # InWaves[s - 1]}
<1>1. SUFFICES ASSUME T # {}  PROVE FALSE
  OBVIOUS
<1>2. N \in Nat /\ s \in Nat
  BY WaveCount
<1>3. PICK j \in T : \A x \in T : j <= x
  <2>1. T \subseteq Nat
    BY <1>2
  <2> HIDE DEF T
  <2> QED BY <1>1, <2>1, Least
<1>4. InWaves[s] = InWaves[s - 1]
  <2>1. InWaves[s] \subseteq Node
    BY Waves
  <2> QED BY <2>1, WavesGrow DEF Level
<1>5. CASE j = s
  BY <1>3, <1>4, <1>5
<1>6. CASE j # s
  <2>1. j - 1 \in s..N /\ j - 1 \notin T /\ j \in 1..N
    BY <1>2, <1>3, <1>6
  <2>2. InWaves[j - 1] = InWaves[s - 1]
    BY <2>1
  <2>3. InWaves[j] = InWaves[s]
    BY <2>1, <2>2, Waves
  <2> QED BY <1>3, <1>4, <2>3
<1> QED BY <1>5, <1>6

(* The levels are the waves up to the last one that adds nodes.             *)
LEMMA Levels ==
  /\ LevelCount \in 0..Cardinality(Node)
  /\ InWaves[LevelCount] = Node
<1> DEFINE N == Cardinality(Node)
           I == {i \in 1..N : Level(i) # {}}
           S == {i \in 1..N : Level(i) = {}}
<1>1. N \in Nat
  BY WaveCount
<1>2. LevelCount = Cardinality(I) /\ InWaves[N] = Node
  BY AcyclicAssumption DEF LevelCount
<1>3. CASE S = {}
  <2>1. I = 1..N
    BY <1>3
  <2>2. Cardinality(1..N) = N
    <3>1. 1 \in Int /\ N \in Int /\ (1 > N => N = 0)
      BY <1>1
    <3>2. Cardinality(1..N) = IF 1 > N THEN 0 ELSE N - 1 + 1
      BY <3>1, FS_Interval
    <3> HIDE DEF N
    <3> QED BY <1>1, <3>1, <3>2
  <2>3. LevelCount = N
    BY <1>2, <2>1, <2>2
  <2> QED BY <1>1, <1>2, <2>3
<1>4. CASE S # {}
  <2>1. PICK s \in S : \A x \in S : s <= x
    <3>1. S \subseteq Nat
      BY <1>1
    <3> HIDE DEF S
    <3> QED BY <1>4, <3>1, Least
  <2>2. s \in 1..N /\ Level(s) = {}
    BY <2>1
  <2>3. \A i \in s..N : InWaves[i] = InWaves[s - 1]
    BY <2>2, WavesStop
  <2>4. I = 1..(s - 1)
    <3>1. ASSUME NEW i \in 1..(s - 1)  PROVE i \in I
      BY <1>1, <2>1
    <3>2. ASSUME NEW i \in I  PROVE i \in 1..(s - 1)
      <4>1. SUFFICES ASSUME i \in s..N  PROVE FALSE
        BY <1>1, <2>2
      <4>2. InWaves[i] = InWaves[s - 1] /\ InWaves[i - 1] = InWaves[s - 1]
        BY <1>1, <2>2, <2>3, <4>1
      <4> QED BY <4>2, <3>2 DEF Level
    <3> QED BY <3>1, <3>2
  <2>5. Cardinality(1..(s - 1)) = s - 1
    <3>1. 1 \in Int /\ s - 1 \in Int /\ (1 > s - 1 => s - 1 = 0)
      BY <2>2, <1>1
    <3>2. Cardinality(1..(s - 1)) = IF 1 > s - 1 THEN 0 ELSE (s - 1) - 1 + 1
      BY <3>1, FS_Interval
    <3> QED BY <3>1, <3>2
  <2>6. LevelCount = s - 1
    BY <1>2, <2>4, <2>5
  <2>7. InWaves[s - 1] = Node
    BY <1>1, <1>2, <2>2, <2>3
  <2> QED BY <1>1, <2>2, <2>6, <2>7
<1> QED BY <1>3, <1>4

-----------------------------------------------------------------------------
(* What every copy of the run has behind it. *)

Over == {"COMPLETED", "SKIPPED", "FAILED", "TIMED_OUT"}

(* The nodes of the first k waves are done, or were decided and then marked *)
(* FAILED by a reconciler.                                                  *)
Past(node, k, S) ==
  \A n \in InWaves[k] :
    \/ node[n] \in {"COMPLETED", "SKIPPED"}
    \/ node[n] = "FAILED" /\ n \in S \cup Conditional

(* What is done and still among the running tasks was decided.              *)
Left(node, R, S) ==
  \A n \in R : node[n] \in {"COMPLETED", "SKIPPED"} => n \in S \cup Conditional

RowPast(run, S) ==
  /\ run.step \in 1..(LevelCount + 1)
  /\ Left(run.node, run.running, S)
  /\ run.status \notin {"FAILED", "CANCELLED"} =>
       Past(run.node, IF run.status = "COMPLETED" THEN LevelCount ELSE run.step - 1, S)

(* An executor inside a level has each node of it before it, in progress or *)
(* behind it, unless the level ends by waiting for an approval.             *)
WavePast(w) ==
  /\ w.run.step = w.level
  /\ w.level <= LevelCount
  /\ w.todo \cup w.busy \subseteq Level(w.level)
  /\ w.run.status # "WAITING_APPROVAL" =>
       \A n \in Level(w.level) : n \in w.todo \cup w.busy \/ w.run.node[n] \in Over

WorkPast(w, S) ==
  /\ w.level \in 1..(LevelCount + 1)
  /\ w.run.step \in 1..(LevelCount + 1)
  /\ w.run.status \in {"QUEUED", "RUNNING", "WAITING_APPROVAL"}
  /\ Left(w.run.node, w.run.running, S)
  /\ Past(w.run.node, w.level - 1, S)
  /\ w.at = "start" => w.run.step = w.level
  /\ w.at # "wave" => w.busy = {}
  /\ w.at = "wave" => WavePast(w)

PastInv ==
  /\ row # NoRun => RowPast(row, approved)
  /\ \A e \in Executor : exec[e] # Idle => WorkPast(exec[e], approved)

LEMMA LevelCountType == LevelCount \in Nat
  BY Levels, WaveCount

(* The nodes of a level come after those of the waves before, and depend on *)
(* those only.                                                              *)
LEMMA LevelIsNext ==
  ASSUME NEW i \in 1..LevelCount
  PROVE  /\ InWaves[i] \subseteq InWaves[i - 1] \cup Level(i)
         /\ Level(i) \cap InWaves[i - 1] = {}
         /\ \A n \in Level(i) : Upstream[n] \subseteq InWaves[i - 1]
<1>1. i \in 1..Cardinality(Node)
  BY Levels, WaveCount
<1> QED BY <1>1, Waves DEF Level

LEMMA WavesOfNodes == ASSUME NEW k \in 0..LevelCount  PROVE InWaves[k] \subseteq Node
<1>1. k = 0 \/ k \in 1..Cardinality(Node)
  BY Levels, WaveCount
<1> QED BY <1>1, Waves

LEMMA PastGrows ==
  ASSUME NEW S, NEW T, S \subseteq T, NEW node, NEW k, NEW R
  PROVE  /\ Past(node, k, S) => Past(node, k, T)
         /\ Left(node, R, S) => Left(node, R, T)
  BY DEF Past, Left

LEMMA WorkGrows ==
  ASSUME NEW S, NEW T, S \subseteq T, NEW w, WorkPast(w, S)
  PROVE  WorkPast(w, T)
  BY PastGrows DEF WorkPast

(* The new status of a node of the next level leaves the past as it is.     *)
LEMMA PastUpdate ==
  ASSUME NEW i \in 1..LevelCount, NEW n \in Level(i), NEW v, NEW S,
         NEW node \in [Node -> NodeStatus], Past(node, i - 1, S)
  PROVE  Past([node EXCEPT ![n] = v], i - 1, S)
<1>1. n \notin InWaves[i - 1]
  BY LevelIsNext
<1> QED BY <1>1 DEF Past

LEMMA LeftUpdate ==
  ASSUME NEW node \in [Node -> NodeStatus], NEW n \in Node, NEW v, NEW S,
         NEW R, Left(node, R, S), NEW Q, Q \subseteq R \cup {n},
         n \in Q /\ v \in {"COMPLETED", "SKIPPED"} => n \in S \cup Conditional
  PROVE  Left([node EXCEPT ![n] = v], Q, S)
  BY DEF Left

(* Giving up the running tasks leaves the past as far as it is decided.     *)
LEMMA PastGivenUp ==
  ASSUME NEW node \in [Node -> NodeStatus], NEW R, NEW S, NEW k,
         InWaves[k] \subseteq Node, Left(node, R, S), Past(node, k, S)
  PROVE  Past(GivenUp(node, R, "FAILED"), k, S)
  BY DEF Past, Left, GivenUp

(* A step that changes the row and one executor at most. *)
LEMMA PastStep ==
  ASSUME WorkflowInv, PastInv,
         row' # NoRun => RowPast(row', approved'),
         approved \subseteq approved',
         NEW e \in Executor, NEW w, exec' = [exec EXCEPT ![e] = w],
         w # Idle => WorkPast(w, approved')
  PROVE  PastInv'
<1>1. ASSUME NEW x \in Executor, exec'[x] # Idle
      PROVE  WorkPast(exec'[x], approved')
  <2>1. CASE x = e
    BY <1>1, <2>1 DEF WorkflowInv, Types
  <2>2. CASE x # e
    <3>1. exec'[x] = exec[x]
      BY <2>2 DEF WorkflowInv, Types
    <3>2. WorkPast(exec[x], approved)
      BY <1>1, <3>1 DEF PastInv
    <3> QED BY <3>1, <3>2, WorkGrows
  <2> QED BY <2>1, <2>2
<1> QED BY <1>1 DEF PastInv

(* A step that changes the row only. *)
LEMMA RowPastStep ==
  ASSUME PastInv, RowPast(row', approved), UNCHANGED <<exec, approved>>
  PROVE  PastInv'
  BY DEF PastInv

-----------------------------------------------------------------------------
(* One lemma for each step. *)

LEMMA InitPast == Init => PastInv
  BY DEF Init, PastInv

LEMMA StartWorkflowPast ==
  ASSUME WorkflowInv, PastInv, NEW e \in Executor, StartWorkflow(e)  PROVE PastInv'
<1> DEFINE w == [at |-> "start", run |-> NewRun, level |-> NewRun.step,
                 todo |-> {}, busy |-> {}]
<1>1. 1 \in 1..(LevelCount + 1) /\ 1 - 1 = 0
  BY LevelCountType
<1>2. /\ NewRun.step = 1 /\ NewRun.status = "QUEUED" /\ NewRun.running = {}
      /\ Left(NewRun.node, {}, approved) /\ Past(NewRun.node, 0, approved)
  BY Waves DEF NewRun, Left, Past
<1>3. RowPast(NewRun, approved)
  BY <1>1, <1>2 DEF RowPast
<1>4. WorkPast(w, approved)
  BY <1>1, <1>2 DEF WorkPast
<1>5. row' = NewRun /\ approved' = approved /\ exec' = [exec EXCEPT ![e] = w]
  BY DEF StartWorkflow, Execute
<1> HIDE DEF w
<1> QED BY <1>3, <1>4, <1>5, PastStep

LEMMA MarkRunningPast ==
  ASSUME WorkflowInv, PastInv, NEW e \in Executor, MarkRunning(e)  PROVE PastInv'
<1> DEFINE run == [exec[e].run EXCEPT !.status = "RUNNING"]
           w == [exec[e] EXCEPT !.run = run, !.at = "level"]
<1>1. /\ exec[e] # Idle /\ exec[e] \in Working /\ exec[e].run \in Run
      /\ exec[e].at = "start" /\ WorkPast(exec[e], approved)
  BY Busy, NotIdle DEF MarkRunning, PastInv
<1>2. /\ run.node = exec[e].run.node /\ run.running = exec[e].run.running
      /\ run.step = exec[e].run.step /\ run.status = "RUNNING"
  BY <1>1 DEF Run
<1>3. /\ w.run = run /\ w.busy = exec[e].busy /\ w.level = exec[e].level
      /\ w.at = "level"
  BY <1>1 DEF Working
<1>4. row' = run /\ approved' = approved /\ exec' = [exec EXCEPT ![e] = w]
  BY <1>1 DEF MarkRunning, Working
<1> HIDE DEF w, run
<1>5. RowPast(run, approved) /\ WorkPast(w, approved)
  BY <1>1, <1>2, <1>3 DEF RowPast, WorkPast
<1> QED BY <1>4, <1>5, PastStep

LEMMA BeginLevelPast ==
  ASSUME WorkflowInv, PastInv, NEW e \in Executor, BeginLevel(e)  PROVE PastInv'
<1> DEFINE run == [exec[e].run EXCEPT !.step = exec[e].level]
           w == [exec[e] EXCEPT !.at = "wave", !.run = run, !.todo = Level(exec[e].level)]
<1>1. /\ exec[e] # Idle /\ exec[e] \in Working /\ exec[e].run \in Run
      /\ exec[e].at = "level" /\ exec[e].level <= LevelCount
      /\ WorkPast(exec[e], approved)
  BY Busy, NotIdle DEF BeginLevel, PastInv
<1>2. /\ run.node = exec[e].run.node /\ run.running = exec[e].run.running
      /\ run.step = exec[e].level /\ run.status = exec[e].run.status
  BY <1>1 DEF Run
<1>3. /\ w.run = run /\ w.busy = exec[e].busy /\ w.level = exec[e].level
      /\ w.at = "wave" /\ w.todo = Level(exec[e].level)
  BY <1>1 DEF Working
<1>4. UNCHANGED <<row, approved>> /\ exec' = [exec EXCEPT ![e] = w]
  BY <1>1 DEF BeginLevel, Working
<1> HIDE DEF w, run
<1>5. WavePast(w)
  BY <1>1, <1>2, <1>3 DEF WavePast, WorkPast
<1>6. WorkPast(w, approved)
  BY <1>1, <1>2, <1>3, <1>5 DEF WorkPast
<1> QED BY <1>4, <1>6, PastStep DEF PastInv

LEMMA CompleteRunPast ==
  ASSUME WorkflowInv, PastInv, NEW e \in Executor, CompleteRun(e)  PROVE PastInv'
<1> DEFINE run == [exec[e].run EXCEPT !.status = "COMPLETED"]
<1>1. /\ exec[e] # Idle /\ exec[e].run \in Run /\ exec[e].level \in Nat
      /\ exec[e].level > LevelCount /\ WorkPast(exec[e], approved)
  BY Busy, NotIdle DEF CompleteRun, PastInv
<1>2. /\ run.node = exec[e].run.node /\ run.running = exec[e].run.running
      /\ run.step = exec[e].run.step /\ run.status = "COMPLETED"
  BY <1>1 DEF Run
<1>3. exec[e].level - 1 = LevelCount
  BY <1>1, LevelCountType DEF WorkPast
<1>4. row' = run /\ approved' = approved /\ exec' = [exec EXCEPT ![e] = Idle]
  BY DEF CompleteRun
<1> HIDE DEF run
<1>5. RowPast(run, approved)
  BY <1>1, <1>2, <1>3 DEF RowPast, WorkPast
<1> QED BY <1>4, <1>5, PastStep

(* An executor inside a level ends there. *)
LEMMA LeaveLevel ==
  ASSUME WorkflowInv, PastInv, NEW e \in Executor, exec[e].at = "wave",
         NEW run \in Run, run.node = exec[e].run.node,
         run.running = exec[e].run.running, run.step = exec[e].run.step,
         run.status # "COMPLETED",
         row' = run, approved' = approved, exec' = [exec EXCEPT ![e] = Idle]
  PROVE  PastInv'
<1>1. exec[e] # Idle /\ WorkPast(exec[e], approved)
  BY NotIdle DEF PastInv
<1>2. run.step = exec[e].level
  BY <1>1 DEF WorkPast, WavePast
<1>3. RowPast(run, approved)
  BY <1>1, <1>2 DEF RowPast, WorkPast
<1> QED BY <1>3, PastStep

LEMMA WaitForApprovalPast ==
  ASSUME WorkflowInv, PastInv, NEW e \in Executor, WaitForApproval(e)
  PROVE  PastInv'
<1>1. exec[e].at = "wave" /\ exec[e].run \in Run
  BY Busy, NotIdle DEF WaitForApproval, LevelIsOver
<1> QED BY <1>1, LeaveLevel DEF WaitForApproval

LEMMA FailRunPast ==
  ASSUME WorkflowInv, PastInv, NEW e \in Executor, FailRun(e)  PROVE PastInv'
<1> DEFINE run == [exec[e].run EXCEPT !.status = "FAILED"]
<1>1. exec[e].at = "wave" /\ exec[e].run \in Run
  BY Busy, NotIdle DEF FailRun, LevelIsOver
<1>2. /\ run \in Run /\ run.node = exec[e].run.node
      /\ run.running = exec[e].run.running /\ run.step = exec[e].run.step
      /\ run.status = "FAILED"
  BY <1>1 DEF Run, RunStatus
<1>3. row' = run /\ approved' = approved /\ exec' = [exec EXCEPT ![e] = Idle]
  BY DEF FailRun
<1> HIDE DEF run
<1> QED BY <1>1, <1>2, <1>3, LeaveLevel

(* A level whose nodes are over, none of them failed, is behind the run.    *)
LEMMA NextLevelPast ==
  ASSUME WorkflowInv, PastInv, NEW e \in Executor, NextLevel(e)  PROVE PastInv'
<1> DEFINE next == exec[e].level + 1
           w == [exec[e] EXCEPT !.at = "level", !.level = next]
<1>1. /\ exec[e] # Idle /\ exec[e] \in Working /\ exec[e].run \in Run
      /\ exec[e].at = "wave" /\ exec[e].todo = {} /\ exec[e].busy = {}
      /\ exec[e].run.status # "WAITING_APPROVAL"
      /\ Level(exec[e].level) \cap Failed(exec[e].run) = {}
      /\ WorkPast(exec[e], approved)
  BY Busy, NotIdle DEF NextLevel, LevelIsOver, PastInv
<1>2. /\ exec[e].level \in 1..LevelCount /\ exec[e].run.step = exec[e].level
      /\ \A n \in Level(exec[e].level) : exec[e].run.node[n] \in Over
  BY <1>1, LevelCountType DEF WorkPast, WavePast
<1>3. \A n \in Level(exec[e].level) : exec[e].run.node[n] \in {"COMPLETED", "SKIPPED"}
  BY <1>1, <1>2, LevelOfNodes DEF Over, Failed, NodesIn
<1>4. Past(exec[e].run.node, exec[e].level, approved)
  BY <1>1, <1>2, <1>3, LevelIsNext DEF Past, WorkPast
<1>5. next \in 1..(LevelCount + 1) /\ next - 1 = exec[e].level
  BY <1>2, LevelCountType
<1>6. row' = exec[e].run /\ approved' = approved /\ exec' = [exec EXCEPT ![e] = w]
  BY <1>1 DEF NextLevel, Working
<1> HIDE DEF next
<1>7. /\ w.run = exec[e].run /\ w.busy = {} /\ w.level = next /\ w.at = "level"
  BY <1>1 DEF Working
<1> HIDE DEF w
<1>8. WorkPast(w, approved)
  BY <1>1, <1>4, <1>5, <1>7 DEF WorkPast
<1>9. RowPast(exec[e].run, approved)
  BY <1>1, <1>2 DEF RowPast, WorkPast
<1> QED BY <1>6, <1>8, <1>9, PastStep

(* An executor has looked at node n of its level, which is now in progress  *)
(* or over, or a gate.                                                      *)
LEMMA VisitedPast ==
  ASSUME WorkflowInv, PastInv, NEW e \in Executor, NEW n \in Node, Visits(e, n),
         NEW v, NEW run,
         run.node = [exec[e].run.node EXCEPT ![n] = v],
         run.running \subseteq exec[e].run.running \cup {n},
         run.step = exec[e].run.step,
         run.status \in {exec[e].run.status, "WAITING_APPROVAL"},
         n \in run.running /\ v \in {"COMPLETED", "SKIPPED"}
           => n \in approved \cup Conditional,
         NEW busy \in {exec[e].busy, exec[e].busy \cup {n}},
         run.status = "WAITING_APPROVAL" \/ n \in busy \/ v \in Over,
         Visited(e, n, run, busy),
         row' \in {row, run}, approved' = approved
  PROVE  PastInv'
<1> DEFINE w == [exec[e] EXCEPT !.todo = @ \ {n}, !.run = run, !.busy = busy]
<1>1. /\ exec[e] # Idle /\ exec[e] \in Working
      /\ exec[e].run.node \in [Node -> NodeStatus]
      /\ exec[e].at = "wave" /\ n \in exec[e].todo /\ WorkPast(exec[e], approved)
  BY Busy, NotIdle DEF Visits, PastInv
<1>2. /\ w.run = run /\ w.busy = busy /\ w.level = exec[e].level /\ w.at = "wave"
      /\ w.todo = exec[e].todo \ {n}
  BY <1>1 DEF Working
<1>3. exec' = [exec EXCEPT ![e] = w]
  BY <1>1 DEF Visited, Working
<1> HIDE DEF w
<1>4. exec[e].level \in 1..LevelCount /\ n \in Level(exec[e].level) /\ run.step = exec[e].level
  BY <1>1, LevelCountType DEF WorkPast, WavePast
<1>5. Past(run.node, exec[e].level - 1, approved)
  <2>1. Past(exec[e].run.node, exec[e].level - 1, approved)
    BY <1>1 DEF WorkPast
  <2>2. Past([exec[e].run.node EXCEPT ![n] = v], exec[e].level - 1, approved)
    BY <1>1, <1>4, <2>1, PastUpdate
  <2> QED BY <2>2
<1>6. Left(run.node, run.running, approved)
  <2> DEFINE Q == run.running
             R == exec[e].run.running
  <2>1. Left(exec[e].run.node, R, approved) /\ Q \subseteq R \cup {n}
    BY <1>1 DEF WorkPast
  <2>2. n \in Q /\ v \in {"COMPLETED", "SKIPPED"} => n \in approved \cup Conditional
    OBVIOUS
  <2> HIDE DEF Q, R
  <2>3. Left([exec[e].run.node EXCEPT ![n] = v], Q, approved)
    BY <1>1, <2>1, <2>2, LeftUpdate
  <2> QED BY <2>3 DEF Q
<1>7. WavePast(w)
  <2>1. w.todo \cup w.busy \subseteq Level(w.level)
    BY <1>1, <1>2, <1>4 DEF WorkPast, WavePast
  <2>2. ASSUME w.run.status # "WAITING_APPROVAL", NEW m \in Level(w.level)
        PROVE  m \in w.todo \cup w.busy \/ w.run.node[m] \in Over
    <3>1. m \in exec[e].todo \cup exec[e].busy \/ exec[e].run.node[m] \in Over
      BY <1>1, <1>2, <2>2 DEF WorkPast, WavePast
    <3>2. CASE m = n
      BY <1>1, <1>2, <2>2, <3>2
    <3>3. CASE m # n
      <4>1. m \in Node
        BY <2>2, LevelOfNodes
      <4>2. run.node[m] = exec[e].run.node[m]
        BY <1>1, <3>3, <4>1
      <4> QED BY <1>2, <3>1, <3>3, <4>2
    <3> QED BY <3>2, <3>3
  <2> QED BY <1>2, <1>4, <2>1, <2>2, LevelCountType DEF WavePast
<1>8. WorkPast(w, approved)
  BY <1>1, <1>2, <1>4, <1>5, <1>6, <1>7, LevelCountType DEF WorkPast
<1>9. RowPast(run, approved)
  BY <1>1, <1>4, <1>5, <1>6, LevelCountType DEF RowPast, WorkPast
<1> QED BY <1>3, <1>8, <1>9, PastStep DEF PastInv

(* A node that is passed over is done: while one above it is not, that one  *)
(* is behind the run as FAILED, and the node is blocked.                    *)
LEMMA PassOverPast ==
  ASSUME WorkflowInv, PastInv, NEW e \in Executor, NEW n \in Node, PassOver(e, n)
  PROVE  PastInv'
<1>1. /\ exec[e] # Idle /\ exec[e].run \in Run
      /\ exec[e].run.node \in [Node -> NodeStatus]
      /\ exec[e].at = "wave" /\ n \in exec[e].todo /\ WorkPast(exec[e], approved)
      /\ Visits(e, n) /\ UNCHANGED <<row, approved>>
  BY Busy, NotIdle DEF PassOver, Visits, PastInv
<1>2. exec[e].level \in 1..LevelCount /\ n \in Level(exec[e].level)
  BY <1>1, LevelCountType DEF WorkPast, WavePast
<1>3. n \in Done(exec[e].run)
  <2>1. SUFFICES ASSUME n \notin Done(exec[e].run)  PROVE FALSE
    OBVIOUS
  <2>2. ~ Blocked(exec[e].run, n) /\ ~ (Upstream[n] \subseteq Done(exec[e].run))
    BY <2>1 DEF PassOver, Ready
  <2>3. PICK m \in Upstream[n] : m \notin Done(exec[e].run)
    BY <2>2
  <2>4. m \in Node /\ m \in InWaves[exec[e].level - 1]
    BY <1>2, <2>3, LevelIsNext, WorkflowAssumption
  <2>5. exec[e].run.node[m] = "FAILED"
    BY <1>1, <2>3, <2>4 DEF WorkPast, Past, Done, NodesIn
  <2>6. m \in Failed(exec[e].run)
    BY <2>4, <2>5 DEF Failed, NodesIn
  <2> QED BY <2>2, <2>3, <2>6 DEF Blocked
<1>4. exec[e].run.node[n] \in {"COMPLETED", "SKIPPED"}
  BY <1>3 DEF Done, NodesIn
<1>5. exec[e].run.node = [exec[e].run.node EXCEPT ![n] = exec[e].run.node[n]]
  BY <1>1
<1>6. n \in exec[e].run.running => n \in approved \cup Conditional
  BY <1>1, <1>4 DEF WorkPast, Left
<1>7. Visited(e, n, exec[e].run, exec[e].busy)
  BY DEF PassOver
<1> QED BY <1>1, <1>4, <1>5, <1>6, <1>7, VisitedPast DEF Over

(* The fields of a copy whose node got a new status.                        *)
LEMMA WithFields ==
  ASSUME NEW run \in Run, NEW n \in Node, NEW v, NEW R
  PROVE  /\ With(run, n, v, R).node = [run.node EXCEPT ![n] = v]
         /\ With(run, n, v, R).running = R
         /\ With(run, n, v, R).step = run.step
         /\ With(run, n, v, R).status = run.status
  BY DEF With, Run

LEMMA FailBlockedPast ==
  ASSUME WorkflowInv, PastInv, NEW e \in Executor, NEW n \in Node, FailBlocked(e, n)
  PROVE  PastInv'
<1> DEFINE run == [exec[e].run EXCEPT !.node[n] = "FAILED"]
           full == With(exec[e].run, n, "FAILED", exec[e].run.running)
<1>1. Visits(e, n) /\ UNCHANGED <<row, approved>> /\ Visited(e, n, run, exec[e].busy)
  BY DEF FailBlocked
<1>2. run = full
  BY <1>1, Visitor DEF Run, With
<1> HIDE DEF run
<1>3. /\ run.node = [exec[e].run.node EXCEPT ![n] = "FAILED"]
      /\ run.running = exec[e].run.running /\ run.step = exec[e].run.step
      /\ run.status = exec[e].run.status
  BY <1>1, <1>2, Visitor, WithFields
<1> QED BY <1>1, <1>3, VisitedPast DEF Over

LEMMA SkipPast ==
  ASSUME WorkflowInv, PastInv, NEW e \in Executor, NEW n \in Node, Skip(e, n)
  PROVE  PastInv'
<1> DEFINE run == [exec[e].run EXCEPT !.node[n] = "SKIPPED"]
           full == With(exec[e].run, n, "SKIPPED", exec[e].run.running)
<1>1. /\ Visits(e, n) /\ row' = run /\ approved' = approved /\ n \in Conditional
      /\ Visited(e, n, run, exec[e].busy)
  BY DEF Skip
<1>2. run = full
  BY <1>1, Visitor DEF Run, With
<1> HIDE DEF run
<1>3. /\ run.node = [exec[e].run.node EXCEPT ![n] = "SKIPPED"]
      /\ run.running = exec[e].run.running /\ run.step = exec[e].run.step
      /\ run.status = exec[e].run.status
  BY <1>1, <1>2, Visitor, WithFields
<1> QED BY <1>1, <1>3, VisitedPast DEF Over

LEMMA DispatchPast ==
  ASSUME WorkflowInv, PastInv, NEW e \in Executor, NEW n \in Node, Dispatch(e, n)
  PROVE  PastInv'
<1> DEFINE run == Started(exec[e].run, n)
           busy == exec[e].busy \cup {n}
           R == exec[e].run.running \cup {n}
<1>1. /\ Visits(e, n) /\ row' = run /\ approved' = approved
      /\ Visited(e, n, run, busy)
  BY DEF Dispatch
<1>2. run = With(exec[e].run, n, "RUNNING", R)
  BY <1>1, Visitor DEF Started, With
<1> HIDE DEF run
<1>3. /\ run.node = [exec[e].run.node EXCEPT ![n] = "RUNNING"]
      /\ run.running = R /\ run.step = exec[e].run.step
      /\ run.status = exec[e].run.status
  BY <1>1, <1>2, Visitor, WithFields
<1>4. n \in busy
  OBVIOUS
<1> QED BY <1>1, <1>3, <1>4, VisitedPast

LEMMA RequestApprovalPast ==
  ASSUME WorkflowInv, PastInv, NEW e \in Executor, NEW n \in Node, RequestApproval(e, n)
  PROVE  PastInv'
<1> DEFINE run == [Started(exec[e].run, n) EXCEPT
                     !.status = "WAITING_APPROVAL",
                     !.node[n] = "WAITING_APPROVAL",
                     !.gate = {n}]
           R == exec[e].run.running \cup {n}
           waits == With(exec[e].run, n, "WAITING_APPROVAL", R)
<1>1. /\ Visits(e, n) /\ row' = run /\ approved' = approved
      /\ Visited(e, n, run, exec[e].busy)
  BY DEF RequestApproval
<1>2. waits \in Run
  <2>1. n \in Gate /\ Gate \cap Upstream[n] \subseteq approved
    BY <1>1, Visitor, ReadyIsCleared DEF RequestApproval
  <2>2. R \in SUBSET Node
    BY <1>1, Visitor
  <2> HIDE DEF R
  <2> QED BY <1>1, <2>1, <2>2, Visitor, RunUpdate DEF NodeStatus
<1>3. /\ waits.node = [exec[e].run.node EXCEPT ![n] = "WAITING_APPROVAL"]
      /\ waits.running = R /\ waits.step = exec[e].run.step
  BY <1>1, Visitor, WithFields
<1>4. run = [waits EXCEPT !.status = "WAITING_APPROVAL", !.gate = {n}]
  BY <1>1, Visitor DEF Started, Run, With
<1> HIDE DEF waits, run
<1>5. /\ run.node = waits.node /\ run.running = waits.running
      /\ run.step = waits.step /\ run.status = "WAITING_APPROVAL"
  BY <1>2, <1>4 DEF Run
<1> QED BY <1>1, <1>3, <1>5, VisitedPast

LEMMA SettlePast ==
  ASSUME WorkflowInv, PastInv, NEW e \in Executor, NEW n \in Node,
         NEW status \in {"COMPLETED", "FAILED", "TIMED_OUT"}, Settle(e, n, status)
  PROVE  PastInv'
<1> DEFINE busy == exec[e].busy \ {n}
           R == exec[e].run.running \ {n}
           run == With(exec[e].run, n, status, R)
           w == [exec[e] EXCEPT !.busy = busy, !.run = run]
<1>1. /\ exec[e] # Idle /\ exec[e] \in Working /\ exec[e].run \in Run
      /\ exec[e].run.node \in [Node -> NodeStatus]
      /\ n \in exec[e].busy /\ WorkPast(exec[e], approved)
  BY Busy DEF Settle, PastInv
<1>2. /\ run.node = [exec[e].run.node EXCEPT ![n] = status] /\ run.running = R
      /\ run.step = exec[e].run.step /\ run.status = exec[e].run.status
  BY <1>1, WithFields
<1>3. UNCHANGED <<row, approved>> /\ exec' = [exec EXCEPT ![e] = w]
  BY <1>1 DEF Settle, Working, Run, With
<1> HIDE DEF run
<1>4. /\ w.run = run /\ w.busy = busy /\ w.level = exec[e].level
      /\ w.todo = exec[e].todo /\ w.at = exec[e].at
  BY <1>1 DEF Working
<1> HIDE DEF w
<1>5. /\ exec[e].at = "wave" /\ exec[e].level \in 1..LevelCount
      /\ n \in Level(exec[e].level)
  BY <1>1, LevelCountType DEF WorkPast, WavePast
<1>6. Past(run.node, exec[e].level - 1, approved)
  <2>1. Past(exec[e].run.node, exec[e].level - 1, approved)
    BY <1>1 DEF WorkPast
  <2>2. Past([exec[e].run.node EXCEPT ![n] = status], exec[e].level - 1, approved)
    BY <1>1, <1>5, <2>1, PastUpdate
  <2> QED BY <1>2, <2>2
<1>7. Left(run.node, run.running, approved)
  <2>1. Left(exec[e].run.node, exec[e].run.running, approved)
    BY <1>1 DEF WorkPast
  <2>2. R \subseteq exec[e].run.running \cup {n} /\ n \notin R
    OBVIOUS
  <2> HIDE DEF R
  <2>3. Left([exec[e].run.node EXCEPT ![n] = status], R, approved)
    BY <1>1, <2>1, <2>2, LeftUpdate
  <2> QED BY <1>2, <2>3
<1>8. WavePast(w)
  <2>1. ASSUME w.run.status # "WAITING_APPROVAL", NEW m \in Level(w.level)
        PROVE  m \in w.todo \cup w.busy \/ w.run.node[m] \in Over
    <3>1. m \in exec[e].todo \cup exec[e].busy \/ exec[e].run.node[m] \in Over
      BY <1>1, <1>2, <1>4, <1>5, <2>1 DEF WorkPast, WavePast
    <3>2. CASE m = n
      BY <1>1, <1>2, <1>4, <3>2 DEF Over
    <3>3. CASE m # n
      <4>1. m \in Node
        BY <2>1, LevelOfNodes
      <4>2. run.node[m] = exec[e].run.node[m]
        BY <1>1, <1>2, <3>3, <4>1
      <4> QED BY <1>4, <3>1, <3>3, <4>2
    <3> QED BY <3>2, <3>3
  <2>2. w.todo \cup w.busy \subseteq Level(w.level)
    BY <1>1, <1>4, <1>5 DEF WorkPast, WavePast
  <2>3. w.run.step = w.level /\ w.level <= LevelCount
    BY <1>1, <1>2, <1>4, <1>5 DEF WorkPast, WavePast
  <2> QED BY <2>1, <2>2, <2>3 DEF WavePast
<1>9. WorkPast(w, approved)
  BY <1>1, <1>2, <1>4, <1>5, <1>6, <1>7, <1>8 DEF WorkPast
<1> QED BY <1>3, <1>9, PastStep DEF PastInv

(* A row that is there has its part of the invariant. *)
LEMMA RowIsPast ==
  ASSUME WorkflowInv, PastInv, row.status \in RunStatus
  PROVE  row \in Run /\ RowPast(row, approved)
  BY Exists, RunIsSome DEF PastInv

LEMMA PausePast == ASSUME WorkflowInv, PastInv, Pause  PROVE PastInv'
<1>1. row \in Run /\ RowPast(row, approved) /\ row.status \in {"RUNNING", "QUEUED"}
  BY RowIsPast DEF Pause, RunStatus
<1>2. row' = [row EXCEPT !.status = "PAUSED"] /\ UNCHANGED <<exec, approved>>
  BY DEF Pause
<1>3. /\ row'.node = row.node /\ row'.running = row.running
      /\ row'.step = row.step /\ row'.status = "PAUSED"
  BY <1>1, <1>2 DEF Run
<1>4. RowPast(row', approved)
  BY <1>1, <1>3 DEF RowPast
<1> QED BY <1>2, <1>4, RowPastStep

(* A new executor sets out on the row it was given. *)
LEMMA SetOutPast ==
  ASSUME WorkflowInv, PastInv, row'.status = "RUNNING", RowPast(row', approved'),
         approved \subseteq approved',
         NEW e \in Executor, Execute(e, "level", row')
  PROVE  PastInv'
<1> DEFINE w == [at |-> "level", run |-> row', level |-> row'.step, todo |-> {}, busy |-> {}]
<1>1. WorkPast(w, approved')
  BY DEF WorkPast, RowPast
<1>2. exec' = [exec EXCEPT ![e] = w]
  BY DEF Execute
<1> HIDE DEF w
<1> QED BY <1>1, <1>2, PastStep

LEMMA ResumePast ==
  ASSUME WorkflowInv, PastInv, NEW e \in Executor, Resume(e)  PROVE PastInv'
<1>1. /\ row \in Run /\ RowPast(row, approved)
      /\ row.status \in {"PAUSED", "WAITING_APPROVAL"}
  BY RowIsPast DEF Resume, RunStatus
<1>2. /\ row' = [row EXCEPT !.status = "RUNNING"] /\ approved' = approved
      /\ Execute(e, "level", row')
  BY DEF Resume
<1>3. /\ row'.node = row.node /\ row'.running = row.running
      /\ row'.step = row.step /\ row'.status = "RUNNING"
  BY <1>1, <1>2 DEF Run
<1>4. RowPast(row', approved')
  BY <1>1, <1>2, <1>3 DEF RowPast
<1> QED BY <1>2, <1>3, <1>4, SetOutPast

LEMMA CancelPast == ASSUME WorkflowInv, PastInv, Cancel  PROVE PastInv'
<1> DEFINE node == GivenUp(row.node, row.running, "CANCELLED")
<1>1. row \in Run /\ RowPast(row, approved)
  BY RowIsPast DEF Cancel
<1>2. /\ row' = [row EXCEPT !.status = "CANCELLED", !.node = node, !.running = {}]
      /\ UNCHANGED <<exec, approved>>
  BY <1>1 DEF Cancel, Run, GivenUp
<1> HIDE DEF node
<1>3. row'.running = {} /\ row'.step = row.step /\ row'.status = "CANCELLED"
  BY <1>1, <1>2 DEF Run
<1>4. RowPast(row', approved)
  BY <1>1, <1>3 DEF RowPast, Left
<1> QED BY <1>2, <1>4, RowPastStep

LEMMA ReconcilePast ==
  ASSUME WorkflowInv, PastInv, ReconcileSingleRun  PROVE PastInv'
<1> DEFINE node == GivenUp(row.node, row.running, "FAILED")
<1>1. /\ row \in Run /\ row.node \in [Node -> NodeStatus]
      /\ RowPast(row, approved) /\ row.status = "RUNNING"
  BY RowIsPast DEF ReconcileSingleRun, RunStatus, Run
<1>2. /\ row' = [row EXCEPT !.status = "PAUSED", !.node = node, !.running = {}]
      /\ UNCHANGED <<exec, approved>>
  BY <1>1 DEF ReconcileSingleRun, Run, GivenUp
<1>3. Past(node, row.step - 1, approved)
  <2>1. row.step - 1 \in 0..LevelCount
    BY <1>1, LevelCountType DEF RowPast
  <2>2. Past(row.node, row.step - 1, approved) /\ Left(row.node, row.running, approved)
    BY <1>1 DEF RowPast
  <2> QED BY <1>1, <2>1, <2>2, WavesOfNodes, PastGivenUp
<1> HIDE DEF node
<1>4. /\ row'.node = node /\ row'.running = {} /\ row'.step = row.step
      /\ row'.status = "PAUSED"
  BY <1>1, <1>2 DEF Run
<1>5. RowPast(row', approved)
  BY <1>1, <1>3, <1>4 DEF RowPast, Left
<1> QED BY <1>2, <1>5, RowPastStep

LEMMA ProcessDiesPast == ASSUME PastInv, ProcessDies  PROVE PastInv'
  BY DEF ProcessDies, Die, PastInv

LEMMA DiesBetweenSavesPast ==
  ASSUME WorkflowInv, PastInv, NEW e \in Executor, DiesBetweenSaves(e)
  PROVE  PastInv'
<1>1. SUFFICES RowPast(row', approved)
  BY DEF DiesBetweenSaves, Die, PastInv
<1>2. exec[e].at = "wave" /\ exec[e] # Idle
  BY NotIdle DEF DiesBetweenSaves, Visits, LevelIsOver
<1>3. /\ exec[e].run \in Run /\ exec[e].run.node \in [Node -> NodeStatus]
      /\ WorkPast(exec[e], approved) /\ WavePast(exec[e])
      /\ exec[e].level \in 1..LevelCount
  <2>1. WorkPast(exec[e], approved) /\ WavePast(exec[e])
    BY <1>2 DEF PastInv, WorkPast
  <2> QED BY <1>2, <2>1, Busy, LevelCountType DEF WorkPast, WavePast
<1>4. ASSUME NEW n \in Gate, Visits(e, n), row' = Started(exec[e].run, n)
      PROVE  RowPast(row', approved)
  <2> DEFINE node == [exec[e].run.node EXCEPT ![n] = "RUNNING"]
             R == exec[e].run.running \cup {n}
  <2>1. n \in Level(exec[e].level) /\ n \in Node
    BY <1>3, <1>4, WorkflowAssumption DEF Visits, WavePast
  <2>2. Past(node, exec[e].level - 1, approved)
    BY <1>3, <2>1, PastUpdate DEF WorkPast
  <2>3. Left(node, R, approved)
    BY <1>3, <2>1, LeftUpdate DEF WorkPast
  <2>4. /\ row'.node = node /\ row'.running = R
        /\ row'.step = exec[e].level /\ row'.status = exec[e].run.status
    BY <1>3, <1>4 DEF Started, Run, WavePast
  <2> HIDE DEF node, R
  <2> QED BY <1>3, <2>2, <2>3, <2>4 DEF RowPast, WorkPast
<1>5. ASSUME row' = exec[e].run  PROVE RowPast(row', approved)
  BY <1>3, <1>5 DEF RowPast, WorkPast, WavePast
<1> QED BY <1>4, <1>5 DEF DiesBetweenSaves

LEMMA RejectGatePast ==
  ASSUME WorkflowInv, PastInv, NEW h \in Gate, RejectGate(h)  PROVE PastInv'
<1> DEFINE node == [row.node EXCEPT ![h] = "FAILED"]
<1>1. /\ row \in Run /\ row.node \in [Node -> NodeStatus] /\ row.running \subseteq Node
      /\ RowPast(row, approved)
  BY RowIsPast DEF RejectGate, RunStatus, Run
<1>2. row' = [row EXCEPT !.status = "FAILED", !.node = node] /\ UNCHANGED <<exec, approved>>
  BY <1>1 DEF RejectGate, Run
<1>3. Left(node, row.running, approved)
  BY <1>1 DEF RowPast, Left
<1> HIDE DEF node
<1>4. /\ row'.node = node /\ row'.running = row.running /\ row'.step = row.step
      /\ row'.status = "FAILED"
  BY <1>1, <1>2 DEF Run
<1>5. RowPast(row', approved)
  BY <1>1, <1>3, <1>4 DEF RowPast
<1> QED BY <1>2, <1>5, RowPastStep

LEMMA ApproveGatePast ==
  ASSUME WorkflowInv, PastInv, NEW e \in Executor, NEW h \in Gate, ApproveGate(e, h)
  PROVE  PastInv'
<1> DEFINE node == [row.node EXCEPT ![h] = "COMPLETED"]
<1>1. /\ row \in Run /\ row.node \in [Node -> NodeStatus] /\ row.running \subseteq Node
      /\ RowPast(row, approved) /\ row.status = "WAITING_APPROVAL"
  BY RowIsPast DEF ApproveGate, RunStatus, Run
<1>2. /\ row' = [row EXCEPT !.status = "RUNNING", !.node = node]
      /\ approved' = approved \cup {h} /\ Execute(e, "level", row')
  BY <1>1 DEF ApproveGate, Run
<1>3. Left(node, row.running, approved')
  BY <1>1, <1>2, WorkflowAssumption DEF RowPast, Left
<1>4. Past(node, row.step - 1, approved')
  <2>1. Past(row.node, row.step - 1, approved)
    BY <1>1 DEF RowPast
  <2>2. row.step - 1 \in 0..LevelCount
    BY <1>1, LevelCountType DEF RowPast
  <2>3. InWaves[row.step - 1] \subseteq Node
    BY <2>2, WavesOfNodes
  <2> QED BY <1>1, <1>2, <2>1, <2>3 DEF Past
<1> HIDE DEF node
<1>5. /\ row'.node = node /\ row'.running = row.running /\ row'.step = row.step
      /\ row'.status = "RUNNING"
  BY <1>1, <1>2 DEF Run
<1>6. RowPast(row', approved')
  BY <1>1, <1>3, <1>4, <1>5 DEF RowPast
<1> QED BY <1>2, <1>5, <1>6, SetOutPast
-----------------------------------------------------------------------------
(* Every step of the specification keeps the invariant. *)
LEMMA NextPast == ASSUME WorkflowInv, PastInv, [Next]_vars  PROVE PastInv'
<1>1. ASSUME NEW e \in Executor, Goes(e)  PROVE PastInv'
  BY <1>1, MarkRunningPast, BeginLevelPast, CompleteRunPast, PassOverPast,
     FailBlockedPast, SkipPast, DispatchPast, RequestApprovalPast,
     WaitForApprovalPast, FailRunPast, NextLevelPast DEF Goes, Visit
<1>2. ASSUME NEW e \in Executor, Settles(e)  PROVE PastInv'
  BY <1>2, SettlePast DEF Settles
<1>3. ASSUME NEW e \in Executor, User(e)  PROVE PastInv'
  BY <1>3, StartWorkflowPast, ResumePast, ApproveGatePast DEF User
<1>4. ASSUME NEW h \in Gate, RejectGate(h)  PROVE PastInv'
  BY <1>4, RejectGatePast
<1>5. CASE UNCHANGED vars
  BY <1>5 DEF vars, PastInv
<1>6. ASSUME NEW e \in Executor, DiesBetweenSaves(e)  PROVE PastInv'
  BY <1>6, DiesBetweenSavesPast
<1> QED BY <1>1, <1>2, <1>3, <1>4, <1>5, <1>6, PausePast, CancelPast, ProcessDiesPast,
           ReconcilePast DEF Next

(* A completed run left nothing undone, for any DAG without cycles and any  *)
(* number of executors, however resumes, deaths and the reconciler          *)
(* interleave with them: each node is done, or was decided and then marked  *)
(* FAILED (workflow-executor.ts, workflow-engine.ts, dag-engine.ts).        *)
THEOREM CompletedRunsAreDone == Spec => []CompletedRunIsDone
<1>1. WorkflowInv /\ PastInv => CompletedRunIsDone
  <2>1. SUFFICES ASSUME WorkflowInv, PastInv, row.status = "COMPLETED",
                        NEW n \in Node, n \notin Done(row)
                 PROVE  n \in approved \cup Conditional
    BY DEF CompletedRunIsDone
  <2>2. RowPast(row, approved)
    BY <2>1, RowIsPast DEF RunStatus
  <2>3. Past(row.node, LevelCount, approved)
    BY <2>1, <2>2 DEF RowPast
  <2>4. n \in InWaves[LevelCount]
    BY Levels
  <2> QED BY <2>1, <2>3, <2>4 DEF Past, Done, NodesIn
<1>2. Init => WorkflowInv /\ PastInv
  BY InitInv, InitPast
<1>3. WorkflowInv /\ PastInv /\ [Next]_vars => (WorkflowInv /\ PastInv)'
  BY NextInv, NextPast
<1> QED BY <1>1, <1>2, <1>3, PTL DEF Spec
=============================================================================
