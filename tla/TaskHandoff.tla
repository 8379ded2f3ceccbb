---------------------------- MODULE TaskHandoff ----------------------------
(***************************************************************************)
(* Handing a task over: AgentHandoffManager, on the same tasks and leases  *)
(* that TaskLease has.  The owner of a task prepares a handoff under its   *)
(* lease; whoever it names accepts it, at any later time, and is given a   *)
(* lease of its own, or rejects it.                                        *)
(*                                                                         *)
(* The team rules (membership, topology) only refuse a call, which changes *)
(* nothing; they are left out.  prepareHandoff verifies the ownership and  *)
(* saves the handoff in two statements; what another process does between  *)
(* them it may as well do after both, as accepting looks at the handoff    *)
(* only, so they are one step.                                             *)
(***************************************************************************)
EXTENDS TaskLease

CONSTANT HandoffId  \* bounds the handoffs prepared

VARIABLES
  handoff,    \* handoff[h]: the row of agent_handoffs with id h
  rejecting,  \* the handoffs rejectHandoff has read as PREPARED
  origin      \* origin[l]: the handoffId in the metadata of lease l, as a set

handoffVars == <<handoff, rejecting, origin>>

HandoffStatus == {"PREPARED", "ACCEPTED", "REJECTED"}

(* The generation of a handoff is that of the lease it names. *)
HandoffRow == [status : HandoffStatus, lease : LeaseId]

NoHandoff == [status |-> "NONE"]

PrepareHandoff(h, l) ==
  /\ Undisturbed
  /\ handoff[h] = NoHandoff
  /\ VerifyOwnership(l)
  /\ handoff' = [handoff EXCEPT ![h] = [status |-> "PREPARED", lease |-> l]]
  /\ UNCHANGED <<vars, rejecting, origin>>

(* The lease of the new owner: its generation follows the one the handoff   *)
(* was prepared with, whatever happened to the task since.                  *)
LeaseAfter(source) ==
  [status |-> "ACTIVE", task |-> lease[source].task,
   generation |-> lease[source].generation + 1, left |-> Ttl, renewals |-> 0]

(* Faulty: the lease that is handed over stays in force. *)
Transfer_KeepsSource(source, l) == [lease EXCEPT ![l] = LeaseAfter(source)]

Transfer(source, l) ==
  [lease EXCEPT ![source].status = IF @ = "ACTIVE" THEN "RELEASED" ELSE @,
                ![l] = LeaseAfter(source)]

HandedTask(h) == lease[handoff[h].lease].task

(* The writes of acceptHandoff.  The event follows the commit and may be    *)
(* lost.                                                                    *)
AcceptUnder(h, l) ==
  /\ Undisturbed
  /\ handoff[h] # NoHandoff
  /\ ~Issued(l)
  /\ lease' = Transfer(handoff[h].lease, l)
  /\ status' = [status EXCEPT ![HandedTask(h)] = "claimed"]
  /\ handoff' = [handoff EXCEPT ![h].status = "ACCEPTED"]
  /\ origin' = [origin EXCEPT ![l] = {h}]
  /\ RecordSome({"TASK_LEASE_ACQUIRED"}, l)
  /\ UNCHANGED <<attempts, pass, rejecting>>

(* Faulty: the status of the handoff is not looked at. *)
AcceptHandoff_Again(h, l) ==
  AcceptUnder(h, l) /\ CanMove(HandedTask(h), "claimed")

(* Faulty: the task is claimed by a plain UPDATE. *)
AcceptHandoff_Unchecked(h, l) ==
  AcceptUnder(h, l) /\ handoff[h].status = "PREPARED"

(* When the task cannot become claimed the transaction is rolled back; that *)
(* nobody took the task over since the handoff was prepared is not checked. *)
AcceptHandoff(h, l) ==
  /\ AcceptUnder(h, l)
  /\ handoff[h].status = "PREPARED"
  /\ CanMove(HandedTask(h), "claimed")

(* rejectHandoff reads the handoff and then saves it whole, in two          *)
(* transactions.                                                            *)
ReadToReject(h) ==
  /\ Undisturbed
  /\ h \notin rejecting
  /\ handoff[h].status = "PREPARED"
  /\ rejecting' = rejecting \cup {h}
  /\ UNCHANGED <<vars, handoff, origin>>

SaveRejected(h) ==
  /\ h \in rejecting
  /\ handoff' = [handoff EXCEPT ![h].status = "REJECTED"]
  /\ rejecting' = rejecting \ {h}
  /\ UNCHANGED <<vars, origin>>

HandoffInit ==
  /\ Init
  /\ handoff = [h \in HandoffId |-> NoHandoff]
  /\ rejecting = {}
  /\ origin = [l \in LeaseId |-> {}]

Handoff(h) ==
  \/ \E l \in LeaseId : PrepareHandoff(h, l) \/ AcceptHandoff(h, l)
  \/ ReadToReject(h)

(* A single process finishes rejecting before it does anything else. *)
HandoffNext ==
  \/ /\ SharedDb \/ rejecting = {}
     /\ \/ Next /\ UNCHANGED handoffVars
        \/ \E h \in HandoffId : Handoff(h)
  \/ \E h \in HandoffId : SaveRejected(h)

HandoffSpec == HandoffInit /\ [][HandoffNext]_<<vars, handoffVars>>
-----------------------------------------------------------------------------
(* Types of the handoffs, and of the tables as TaskLease has them. *)
HandoffTypeOK ==
  /\ TypeOK
  /\ handoff \in [HandoffId -> HandoffRow \cup {NoHandoff}]
  /\ rejecting \subseteq HandoffId
  /\ origin \in [LeaseId -> SUBSET HandoffId]

(* A handoff transfers the task once, and only if it ends up accepted: one  *)
(* that was rejected has given no lease away.                               *)
TransferIsAccepted ==
  \A h \in HandoffId :
    LET given == {l \in LeaseId : h \in origin[l]} IN
    IF handoff[h].status = "ACCEPTED" THEN Cardinality(given) = 1
    ELSE given = {}

(* Whoever handed its task over is fenced out from then on: it can neither  *)
(* renew the lease it gave away nor complete, fail or release the task.     *)
SourceIsFenced ==
  [][\A h \in HandoffId : handoff[h].status = "ACCEPTED" =>
       \A e \in {"TASK_HEARTBEAT", "TASK_COMPLETED", "TASK_RELEASED"} :
         <<e, handoff[h].lease>> \in audit' =>
           <<e, handoff[h].lease>> \in audit]_<<vars, handoffVars>>

(* Only a prepared handoff is rejected: once accepted it stays accepted.    *)
RejectedWasPrepared ==
  [][\A h \in HandoffId : handoff'[h].status = "REJECTED" =>
       handoff[h].status \in {"PREPARED", "REJECTED"}]_<<vars, handoffVars>>
=============================================================================
