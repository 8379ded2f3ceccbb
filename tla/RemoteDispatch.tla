--------------------------- MODULE RemoteDispatch ---------------------------
(***************************************************************************)
(* Tasks given to remote worker nodes: RemoteDispatchManager, the          *)
(* RemoteRecoveryReconciler and the NodeRegistry, on top of the claims and *)
(* leases of TaskLease, which they share with the local workers.           *)
(*                                                                         *)
(* A call reads rows, outside any transaction, and acts on what it read:   *)
(* each read and each transaction is a step, and call[c] is what call c    *)
(* has read and has still to do.  No method awaits: when one process has   *)
(* the database open a call runs to its end, or the process dies in it;    *)
(* when several do (SharedDb) calls of two processes interleave.           *)
(*                                                                         *)
(* The network may delay, lose, repeat and reorder what a node sends: a    *)
(* heartbeat or a result of a dispatch arrives at any time after the       *)
(* dispatch was saved, any number of times.  A node echoes the lease id    *)
(* and generation it was sent (RemoteNodeClient), so the comparison of a   *)
(* result with the row of its own dispatch always succeeds, and fencing    *)
(* is up to the claim manager.  (Where a caller chose the id of an earlier *)
(* dispatch the row keeps that one's lease, and what the new node sends is *)
(* refused: nothing changes.)                                              *)
(***************************************************************************)
EXTENDS TaskLease

CONSTANTS
  Node,        \* ids of worker nodes
  Fits,        \* <<n, t>>: scope, profile and capabilities of n suit task t
  Targets,     \* the nodes callers name in targetNodeId
  DispatchId,  \* the ids of dispatches: randomUUID() yields an unused one
  Chosen,      \* the ids callers choose themselves, and may choose again
  Key,         \* idempotency keys
  Caller       \* calls that may be under way at the same time

ASSUME RemoteAssumption ==
  /\ Fits \subseteq Node \X Task
  /\ Targets \subseteq Node
  /\ Chosen \subseteq DispatchId

VARIABLES
  node,      \* node[n]: remote_nodes.status, NONE without a row
  dispatch,  \* dispatch[d]: the row of remote_dispatches with id d
  call       \* call[c]: what call c has read and has still to do

remoteVars == <<node, dispatch, call>>
allVars == <<vars, remoteVars>>

NodeStatus == {"REGISTERED", "ONLINE", "BUSY", "DRAINING", "OFFLINE", "QUARANTINED"}

ActiveStatus == {"DISPATCHED"}

DispatchStatus == ActiveStatus \cup {"COMPLETED", "FAILED", "CANCELLED", "RECLAIMED"}

DispatchRow == [status : DispatchStatus, task : Task, lease : LeaseId,
                node : Node, key : Key]

NoDispatch == [status |-> "NONE"]

Outcome == {"SUCCESS", "FAILURE"}

IdleCall == [stage |-> "idle"]

CallState ==
  {IdleCall}
  \cup [stage : {"claim"}, task : Task, node : Node, key : Key]
  \cup [stage : {"save"}, task : Task, node : Node, key : Key, lease : LeaseId]
  \cup [stage : {"commit"}, dispatch : DispatchId, outcome : Outcome]
  \cup [stage : {"cancel", "release"}, dispatch : DispatchId]
  \cup [stage : {"beat"}, node : Node, status : NodeStatus]
  \cup [stage : {"stalled"}, nodes : SUBSET Node]
  \cup [stage : {"reconcile"}, left : SUBSET DispatchId]
  \cup [stage : {"reclaim"}, left : SUBSET DispatchId, dispatch : DispatchId]

Saved(d) == dispatch[d].status # "NONE"

LeaseOf(d) == dispatch[d].lease

(* The claim manager refuses the lease of d and changes nothing. *)
NotOwner(d) == ~VerifyOwnership(LeaseOf(d)) /\ UNCHANGED vars

SetCall(c, s) == call' = [call EXCEPT ![c] = s]

SetDispatch(d, s) == dispatch' = [dispatch EXCEPT ![d].status = s]

Registered(n) == node[n] # "NONE"

AllIdle == \A c \in Caller : call[c].stage = "idle"

(* A call is made: by a process that is doing nothing else. *)
Enter(c) ==
  /\ Undisturbed
  /\ IF SharedDb THEN call[c].stage = "idle" ELSE AllIdle

(* The call ends without a further write: it returns early or throws, or    *)
(* its process dies.                                                        *)
Leave(c) ==
  /\ call[c].stage # "idle"
  /\ SetCall(c, IdleCall)
  /\ UNCHANGED <<vars, node, dispatch>>
-----------------------------------------------------------------------------
(* NodeRegistry *)

RegisterNode(n) ==
  /\ Undisturbed /\ (SharedDb \/ AllIdle)
  /\ node' = [node EXCEPT ![n] = "ONLINE"]
  /\ UNCHANGED <<vars, dispatch, call>>

(* drainNode and quarantineNode save the row they read with its new status. *)
MarkNode(n, s) ==
  /\ Undisturbed /\ (SharedDb \/ AllIdle)
  /\ Registered(n)
  /\ s \in {"DRAINING", "QUARANTINED"}
  /\ node' = [node EXCEPT ![n] = s]
  /\ UNCHANGED <<vars, dispatch, call>>

(* Faulty: the status the registry had for a node that came back. *)
HeartbeatStatus_Unregistered(n) == IF node[n] = "OFFLINE" THEN "NONE" ELSE node[n]

(* The status a heartbeat without one of its own leaves the node in. *)
HeartbeatStatus(n) == IF node[n] = "OFFLINE" THEN "ONLINE" ELSE node[n]

(* heartbeat reads the row and throws when the node is quarantined.  The    *)
(* status a node reports is taken as it is, whichever of the six it is.     *)
ReadForHeartbeat(c, n, s) ==
  /\ Registered(n) /\ node[n] # "QUARANTINED"
  /\ SetCall(c, [stage |-> "beat", node |-> n, status |-> s])

NodeHeartbeat(c, n) ==
  /\ Enter(c)
  /\ \/ ReadForHeartbeat(c, n, HeartbeatStatus(n))
     \/ \E s \in NodeStatus : ReadForHeartbeat(c, n, s)
  /\ UNCHANGED <<vars, node, dispatch>>

UpdateHeartbeat(c) ==
  /\ call[c].stage = "beat"
  /\ node' = [node EXCEPT ![call[c].node] = call[c].status]
  /\ SetCall(c, IdleCall)
  /\ UNCHANGED <<vars, dispatch>>

Online == {n \in Node : node[n] \in {"ONLINE", "BUSY"}}

(* detectStalledNodes lists the nodes whose last heartbeat is long ago ...  *)
ListStalledNodes(c) ==
  /\ Enter(c)
  /\ \E silent \in SUBSET Online \ {{}} :
       SetCall(c, [stage |-> "stalled", nodes |-> silent])
  /\ UNCHANGED <<vars, node, dispatch>>

(* ... and saves each of the rows it listed. *)
SaveOffline(c, n) ==
  /\ call[c].stage = "stalled" /\ n \in call[c].nodes
  /\ node' = [node EXCEPT ![n] = "OFFLINE"]
  /\ SetCall(c, IF call[c].nodes = {n} THEN IdleCall
                ELSE [call[c] EXCEPT !.nodes = @ \ {n}])
  /\ UNCHANGED <<vars, dispatch>>
-----------------------------------------------------------------------------
(* RemoteDispatchManager.dispatchTask *)

UsesKey(d, k) == Saved(d) /\ dispatch[d].key = k

KeyUsed(k) == \E d \in DispatchId : UsesKey(d, k)

(* The node named by targetNodeId is taken as it is; without one            *)
(* findEligibleNode looks for a node that is online and fits.               *)
MayDispatchTo(n, t) ==
  \/ (n \in Targets /\ Registered(n))
  \/ (n \in Online /\ <<n, t>> \in Fits)

(* A key that was used before gets the dispatch it had, whatever became of  *)
(* it, and nothing changes.                                                 *)
DispatchTask(c, t, n, k) ==
  /\ Enter(c)
  /\ ~KeyUsed(k)
  /\ MayDispatchTo(n, t)
  /\ SetCall(c, [stage |-> "claim", task |-> t, node |-> n, key |-> k])
  /\ UNCHANGED <<vars, node, dispatch>>

ClaimForDispatch(c, l) ==
  /\ call[c].stage = "claim"
  /\ ClaimTask(call[c].task, l)
  /\ SetCall(c, [stage |-> "save", task |-> call[c].task, node |-> call[c].node,
                 key |-> call[c].key, lease |-> l])
  /\ UNCHANGED <<node, dispatch>>

NewDispatch(c) ==
  [status |-> "DISPATCHED", task |-> call[c].task, lease |-> call[c].lease,
   node |-> call[c].node, key |-> call[c].key]

(* saveDispatch throws when another call has used the key meanwhile: the    *)
(* column is UNIQUE, and the claim stands (Leave).  Of a row that has the   *)
(* id already the status alone is written.                                  *)
SaveDispatch(c, d) ==
  /\ call[c].stage = "save"
  /\ \A e \in DispatchId \ {d} : ~UsesKey(e, call[c].key)
  /\ \/ ~Saved(d) /\ dispatch' = [dispatch EXCEPT ![d] = NewDispatch(c)]
     \/ Saved(d) /\ d \in Chosen /\ SetDispatch(d, "DISPATCHED")
  /\ SetCall(c, IdleCall)
  /\ UNCHANGED <<vars, node>>
-----------------------------------------------------------------------------
(* What the nodes send. *)

(* handleRemoteHeartbeat: first the lease, then the node.  The dispatch may *)
(* long be settled.  A quarantined node's call throws after the renewal.    *)
RemoteHeartbeat(c, d) ==
  LET n == dispatch[d].node IN
  /\ Saved(d) /\ Enter(c)
  /\ \/ /\ Renew(LeaseOf(d))
        /\ \/ ReadForHeartbeat(c, n, HeartbeatStatus(n))
           \/ (node[n] = "QUARANTINED" /\ UNCHANGED call)
     \/ (LateHeartbeat(LeaseOf(d)) /\ UNCHANGED call)
  /\ UNCHANGED <<node, dispatch>>

(* acceptRemoteResult up to its transaction: the dispatch and the task are  *)
(* read.                                                                    *)
AcceptRemoteResult(c, d, o) ==
  /\ Enter(c)
  /\ Saved(d) /\ dispatch[d].status # "COMPLETED"
  /\ status[dispatch[d].task] # "cancelled"
  /\ SetCall(c, [stage |-> "commit", dispatch |-> d, outcome |-> o])
  /\ UNCHANGED <<vars, node, dispatch>>

(* Faulty: the dispatch is completed although completeTask returned false. *)
CommitSuccess_Unchecked(d) ==
  /\ CompleteTask(LeaseOf(d)) \/ NotOwner(d)
  /\ SetDispatch(d, "COMPLETED")

CommitSuccess(d) ==
  /\ CompleteTask(LeaseOf(d))
  /\ SetDispatch(d, "COMPLETED")

(* Faulty: the dispatch fails, the task is left to its lease. *)
CommitFailure_TaskKept(d) == SetDispatch(d, "FAILED") /\ UNCHANGED vars

(* The dispatch is failed also when failTask refused, as the lease is gone. *)
CommitFailure(d) ==
  /\ FailTask(LeaseOf(d)) \/ NotOwner(d)
  /\ SetDispatch(d, "FAILED")

(* The transaction of acceptRemoteResult. *)
CommitResult(c) ==
  /\ call[c].stage = "commit"
  /\ IF call[c].outcome = "SUCCESS" THEN CommitSuccess(call[c].dispatch)
     ELSE CommitFailure(call[c].dispatch)
  /\ SetCall(c, IdleCall)
  /\ UNCHANGED node
-----------------------------------------------------------------------------
(* cancelDispatch: the row is read, saved as cancelled, the task released.  *)
CancelDispatch(c, d) ==
  /\ Enter(c)
  /\ Saved(d) /\ dispatch[d].status \notin {"COMPLETED", "CANCELLED"}
  /\ SetCall(c, [stage |-> "cancel", dispatch |-> d])
  /\ UNCHANGED <<vars, node, dispatch>>

SaveCancelled(c) ==
  /\ call[c].stage = "cancel"
  /\ SetDispatch(call[c].dispatch, "CANCELLED")
  /\ SetCall(c, [call[c] EXCEPT !.stage = "release"])
  /\ UNCHANGED <<vars, node>>

(* releaseTask returns false, or throws from a status the task cannot be    *)
(* queued from, and then the task stays as it is (Leave).                   *)
ReleaseCancelled(c) ==
  /\ call[c].stage = "release"
  /\ ReleaseTask(LeaseOf(call[c].dispatch))
  /\ SetCall(c, IdleCall)
  /\ UNCHANGED <<node, dispatch>>

(* RemoteRecoveryReconciler.reconcileActiveDispatches *)
ListActiveDispatches(c) ==
  LET active == {d \in DispatchId : dispatch[d].status \in ActiveStatus} IN
  /\ Enter(c)
  /\ active # {}
  /\ SetCall(c, [stage |-> "reconcile", left |-> active])
  /\ UNCHANGED <<vars, node, dispatch>>

(* releaseTask, and what it returns is not looked at.  When it throws the   *)
(* exception leaves the loop, with the dispatches still to come (Leave).    *)
ReclaimLease(c, d) ==
  /\ call[c].stage = "reconcile" /\ d \in call[c].left
  /\ ReleaseTask(LeaseOf(d)) \/ NotOwner(d)
  /\ SetCall(c, [stage |-> "reclaim", left |-> call[c].left \ {d}, dispatch |-> d])
  /\ UNCHANGED <<node, dispatch>>

(* The row as it was listed, with a new status. *)
SaveReclaimed(c) ==
  /\ call[c].stage = "reclaim"
  /\ SetDispatch(call[c].dispatch, "RECLAIMED")
  /\ SetCall(c, IF call[c].left = {} THEN IdleCall
                ELSE [stage |-> "reconcile", left |-> call[c].left])
  /\ UNCHANGED <<vars, node>>
-----------------------------------------------------------------------------
RemoteInit ==
  /\ Init
  /\ node = [n \in Node |-> "NONE"]
  /\ dispatch = [d \in DispatchId |-> NoDispatch]
  /\ call = [c \in Caller |-> IdleCall]

(* The leases that remote workers present. *)
RemoteLeases ==
  {LeaseOf(d) : d \in {e \in DispatchId : Saved(e)}}
  \cup {call[c].lease : c \in {b \in Caller : call[b].stage = "save"}}

(* What the local workers and the recovery passes do. *)
LocalStep ==
  /\ \/ /\ SharedDb \/ AllIdle
        /\ \/ \E l \in LeaseId \ RemoteLeases : Worker(l)
           \/ \E t \in Task, s \in Moves : UpdateStatus(t, s)
           \/ \E p \in Pass : StalledRecovery(p) \/ CrashRecovery(p) \/ Crash(p)
     \/ Tick
  /\ UNCHANGED remoteVars

NodeStep(c) ==
  \/ \E n \in Node : NodeHeartbeat(c, n) \/ SaveOffline(c, n)
  \/ UpdateHeartbeat(c)
  \/ ListStalledNodes(c)

DispatchStep(c) ==
  \/ \E t \in Task, n \in Node, k \in Key : DispatchTask(c, t, n, k)
  \/ \E l \in LeaseId : ClaimForDispatch(c, l)
  \/ \E d \in DispatchId : SaveDispatch(c, d)

MessageStep(c) ==
  \/ \E d \in DispatchId : RemoteHeartbeat(c, d)
  \/ \E d \in DispatchId, o \in Outcome : AcceptRemoteResult(c, d, o)
  \/ CommitResult(c)

ControlStep(c) ==
  \/ \E d \in DispatchId : CancelDispatch(c, d)
  \/ SaveCancelled(c)
  \/ ReleaseCancelled(c)
  \/ ListActiveDispatches(c)
  \/ \E d \in DispatchId : ReclaimLease(c, d)
  \/ SaveReclaimed(c)

RemoteNext ==
  \/ LocalStep
  \/ \E n \in Node : RegisterNode(n) \/ \E s \in NodeStatus : MarkNode(n, s)
  \/ \E c \in Caller : \/ NodeStep(c) \/ DispatchStep(c) \/ MessageStep(c)
                       \/ ControlStep(c) \/ Leave(c)

RemoteSpec == RemoteInit /\ [][RemoteNext]_allVars
-----------------------------------------------------------------------------
(* Types of the two tables and of the calls under way. *)
RemoteTypeOK ==
  /\ TypeOK
  /\ node \in [Node -> NodeStatus \cup {"NONE"}]
  /\ dispatch \in [DispatchId -> DispatchRow \cup {NoDispatch}]
  /\ call \in [Caller -> CallState]

Dispatched == {d \in DispatchId : Saved(d)}

(* A dispatch is reported completed only if its own worker's result is the  *)
(* one the task was completed with: acceptRemoteResult writes both or none. *)
CompletedIsBacked ==
  \A d \in Dispatched : dispatch[d].status = "COMPLETED" =>
    /\ <<"TASK_COMPLETED", LeaseOf(d)>> \in audit
    /\ lease[LeaseOf(d)].task = dispatch[d].task

(* A dispatch that is settled has let its task go: no lease that could      *)
(* still be renewed or written under is left behind a dispatch that was     *)
(* completed, failed or reclaimed, whatever overtook the call that settled  *)
(* it.                                                                      *)
SettledHasLetGo ==
  \A d \in Dispatched :
    dispatch[d].status \in {"COMPLETED", "FAILED", "RECLAIMED"} => ~Live(LeaseOf(d))

(* Split brain: once the task has been given to another worker, a late      *)
(* result of the first one no longer completes its dispatch or moves the    *)
(* task.                                                                    *)
StaleResultIsFenced ==
  [][\A c \in Caller :
       call[c].stage = "commit" /\ call'[c].stage = "idle" =>
         LET d == call[c].dispatch IN
         Superseded(LeaseOf(d)) =>
           /\ status' = status /\ lease' = lease
           /\ dispatch'[d].status = "COMPLETED" => dispatch[d].status = "COMPLETED"]_allVars

(* The task of a dispatch that was completed by its worker is not reported  *)
(* as lost or cancelled afterwards (one process; with two a reconciler that *)
(* listed the dispatch before overwrites it).                               *)
CompletionIsKnown ==
  \A d \in Dispatched : <<"TASK_COMPLETED", LeaseOf(d)>> \in audit =>
    dispatch[d].status = "COMPLETED"

(* A node that has been superseded is rejected: its result does not settle  *)
(* its dispatch.                                                            *)
StaleResultIsRejected ==
  [][\A d \in Dispatched :
       /\ Superseded(LeaseOf(d))
       /\ dispatch[d].status # dispatch'[d].status
       => dispatch'[d].status \notin {"COMPLETED", "FAILED"}]_allVars

(* No new dispatch is sent to a node that is being drained. *)
DrainingGetsNoWork ==
  [][\A d \in DispatchId : ~Saved(d) /\ dispatch'[d].status = "DISPATCHED" =>
       node[dispatch'[d].node] \notin {"DRAINING", "QUARANTINED"}]_allVars
=============================================================================
