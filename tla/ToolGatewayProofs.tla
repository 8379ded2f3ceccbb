-------------------------- MODULE ToolGatewayProofs --------------------------
(***************************************************************************)
(* Proofs about ToolGateway, for every set of calls, operations, approvals *)
(* and rules, any limits of retries and any number of restarts.            *)
(***************************************************************************)
EXTENDS ToolGateway, TLAPS

CallRecord == [state: CallState, op: Op \cup {None},
               approval: Approval \cup {None},
               ran: BOOLEAN, life: 0..MaxLives,
               retry: {"none", "allowed", "used"}]

ApprovalRecord == [status: ApprovalStatus, op: Op \cup {None}, version: Version]

Keys == {KeyOf(o) : o \in {x \in Op : Keyed(x)}}

-----------------------------------------------------------------------------
(* Types.                                                                  *)

LEMMA CalledType ==
  ASSUME call \in [Call -> CallRecord], life \in 1..MaxLives,
         NEW c \in Call, NEW o \in Op \cup {None}, NEW a \in Approval \cup {None},
         NEW f \in Call \cup {None}, NEW s \in CallState
  PROVE  Called(c, o, a, f, s) \in [Call -> CallRecord]
<1> DEFINE new == [state |-> s, op |-> o, approval |-> a,
                   ran |-> s = "running", life |-> life, retry |-> "none"]
<1>1. MaxLives \in Nat BY ConstantsAssumption
<1>2. new \in CallRecord BY <1>1 DEF CallRecord
<1>3. \A x \in Call : [call[x] EXCEPT !.retry = "used"] \in CallRecord
  BY DEF CallRecord
<1> HIDE DEF new
<1>4. Called(c, o, a, f, s) =
        [x \in Call |-> IF x = c THEN new
                        ELSE IF x = f THEN [call[x] EXCEPT !.retry = "used"]
                        ELSE call[x]]
  BY DEF Called, new
<1> QED BY <1>2, <1>3, <1>4

LEMMA InitType == Init => GatewayTypeOK
<1> SUFFICES ASSUME Init PROVE GatewayTypeOK OBVIOUS
<1>1. MaxLives \in Nat /\ 1 \in 1..MaxLives /\ MaxOperationRetries \in Nat
  BY ConstantsAssumption
<1>2. NoCall \in CallRecord BY <1>1 DEF NoCall, CallRecord, CallState
<1>3. NoApproval \in ApprovalRecord
  BY ConstantsAssumption DEF NoApproval, ApprovalRecord, ApprovalStatus
<1> QED BY <1>1, <1>2, <1>3 DEF Init, GatewayTypeOK, CallRecord, ApprovalRecord, Keys

(* A step grants nothing, and leaves what was asked and what was used up.  *)
ApprovalsKept ==
  /\ \A b \in Approval :
       /\ approval'[b].status = "approved" => approval[b].status = "approved"
       /\ approval[b].op # None => approval'[b].op = approval[b].op
       /\ approval[b].op # None /\ approval[b].status = "consumed"
            => approval'[b].status = "consumed"
       /\ logged'[b] = "granted" => logged[b] = "granted"
  /\ granted' = granted

(* What invoke does, whichever way it answers. *)
InvokeEffect(c, o, a, f, s) ==
  /\ call[c].state = "idle" /\ (f # None => call[f].retry = "allowed")
  /\ s \in {"running", "busy", "approval_required"} => o \in Op
  /\ call' = Called(c, o, a, f, s)
  /\ executing' = (IF s = "running" THEN executing \cup {c} ELSE executing)
  /\ approval' \in [Approval -> ApprovalRecord]
  /\ locks \subseteq locks' /\ locks' \subseteq Keys
  /\ s = "running" => InvokeRuns(c, o, a, f)
  /\ ApprovalsKept
  /\ logged' \in [Approval -> {"none", "requested", "granted", "rejected"}]
  /\ UNCHANGED Elsewhere

LEMMA ApprovalMoves ==
  ASSUME approval \in [Approval -> ApprovalRecord], NEW b \in Approval,
         NEW s \in ApprovalStatus
  PROVE  [approval EXCEPT ![b].status = s] \in [Approval -> ApprovalRecord]
<1> DEFINE row == [approval[b] EXCEPT !.status = s]
<1>1. row \in ApprovalRecord BY DEF ApprovalRecord
<1>2. [approval EXCEPT ![b].status = s] = [approval EXCEPT ![b] = row]
  OBVIOUS
<1> HIDE DEF row
<1> QED BY <1>1, <1>2

LEMMA LookedType ==
  ASSUME approval \in [Approval -> ApprovalRecord], NEW b \in Approval
  PROVE  /\ Looked(b) \in [Approval -> ApprovalRecord]
         /\ \A x \in Approval : /\ Looked(b)[x].op = approval[x].op
                               /\ \/ Looked(b)[x].status = approval[x].status
                                  \/ /\ approval[x].status = "pending"
                                     /\ Looked(b)[x].status = "expired"
<1>1. "expired" \in ApprovalStatus BY DEF ApprovalStatus
<1>2. CASE ~Overdue(b) BY <1>2 DEF Looked
<1>3. CASE Overdue(b)
  <2>1. Looked(b) = [approval EXCEPT ![b].status = "expired"] BY <1>3 DEF Looked
  <2>2. approval[b].status = "pending" BY <1>3 DEF Overdue
  <2>3. Looked(b) \in [Approval -> ApprovalRecord] BY <1>1, <2>1, ApprovalMoves
  <2> QED BY <2>1, <2>2, <2>3 DEF ApprovalRecord
<1> QED BY <1>2, <1>3

LEMMA SpentType ==
  ASSUME approval \in [Approval -> ApprovalRecord], NEW o \in Op,
         NEW a \in Approval \cup {None}, Passes(o, a)
  PROVE  /\ Spent(o, a) \in [Approval -> ApprovalRecord]
         /\ \A x \in Approval : /\ Spent(o, a)[x].op = approval[x].op
                               /\ \/ Spent(o, a)[x].status = approval[x].status
                                  \/ Spent(o, a)[x].status = "consumed"
         /\ Asks(o) => Spent(o, a)[a].status = "consumed"
<1>1. "consumed" \in ApprovalStatus BY DEF ApprovalStatus
<1>2. CASE ~Asks(o) BY <1>2 DEF Spent
<1>3. CASE Asks(o)
  <2>1. a \in Approval BY <1>3 DEF Passes
  <2>2. Spent(o, a) = [approval EXCEPT ![a].status = "consumed"] BY <1>3 DEF Spent
  <2>3. Spent(o, a) \in [Approval -> ApprovalRecord] BY <1>1, <2>1, <2>2, ApprovalMoves
  <2> QED BY <2>1, <2>2, <2>3 DEF ApprovalRecord
<1> QED BY <1>2, <1>3

LEMMA InvokeHasEffect ==
  ASSUME GatewayTypeOK, NEW c \in Call, Invoke(c)
  PROVE  \E o \in Op \cup {None}, a \in Approval \cup {None},
            f \in Call \cup {None}, s \in CallState \ {"idle", "timeout"} :
            InvokeEffect(c, o, a, f, s)
<1> USE DEF Elsewhere
<1>0. /\ approval \in [Approval -> ApprovalRecord]
      /\ logged \in [Approval -> {"none", "requested", "granted", "rejected"}]
      /\ locks \subseteq Keys
      /\ \A o \in Op : Acquired(o) \subseteq Keys
  BY DEF GatewayTypeOK, ApprovalRecord, Keys, Acquired
<1>1. ASSUME NEW o \in Op, NEW f \in Call \cup {None},
             InvokeInvalid(c, o, f) \/ InvokeDenied(c, o, f)
      PROVE  \E s \in CallState \ {"idle", "timeout"} : InvokeEffect(c, None, None, f, s)
  BY <1>0, <1>1 DEF InvokeInvalid, InvokeDenied, InvokeEffect, Refused, Begins,
     ApprovalsKept, CallState
<1>6. ASSUME NEW o \in Op, NEW a \in Approval \cup {None}, NEW f \in Call \cup {None},
             InvokeRepeated(c, o, a, f)
      PROVE  \/ InvokeEffect(c, None, None, f, "cached")
             \/ InvokeEffect(c, o, a, f, "busy")
  BY <1>0, <1>6 DEF InvokeRepeated, InvokeEffect, Refused, Begins, ApprovalsKept
<1>2. ASSUME NEW o \in Op, NEW a \in Approval \cup {None},
             NEW f \in Call \cup {None}, InvokeUnapproved(c, o, a, f)
      PROVE  InvokeEffect(c, None, None, f, "denied")
  <2>0. a \in Approval /\ approval' = Looked(a) BY <1>2 DEF InvokeUnapproved
  <2>1. /\ approval' \in [Approval -> ApprovalRecord]
        /\ \A x \in Approval :
             /\ approval'[x].op = approval[x].op
             /\ \/ approval'[x].status = approval[x].status
                \/ approval[x].status = "pending" /\ approval'[x].status = "expired"
    BY <1>0, <2>0, LookedType
  <2>2. ApprovalsKept BY <1>2, <2>1 DEF ApprovalsKept, InvokeUnapproved
  <2> QED BY <1>0, <1>2, <2>1, <2>2 DEF InvokeUnapproved, InvokeEffect, Refused, Begins
<1>3. ASSUME NEW o \in Op, NEW a \in Approval \cup {None},
             NEW f \in Call \cup {None}, InvokeDiverged(c, o, a, f)
      PROVE  InvokeEffect(c, None, None, f, "failure")
  <2>0. Passes(o, a) /\ approval' = Spent(o, a) BY <1>3 DEF InvokeDiverged
  <2>1. /\ approval' \in [Approval -> ApprovalRecord]
        /\ \A x \in Approval :
             /\ approval'[x].op = approval[x].op
             /\ \/ approval'[x].status = approval[x].status
                \/ approval'[x].status = "consumed"
    BY <1>0, <2>0, SpentType
  <2>2. ApprovalsKept BY <1>3, <2>1 DEF ApprovalsKept, InvokeDiverged
  <2> QED BY <1>0, <1>3, <2>1, <2>2 DEF InvokeDiverged, InvokeEffect, Refused, Begins
<1>4. ASSUME NEW o \in Op, NEW a \in Approval \cup {None},
             NEW f \in Call \cup {None}, InvokeRuns(c, o, a, f)
      PROVE  InvokeEffect(c, o, a, f, "running")
  <2>0. Passes(o, a) /\ approval' = Spent(o, a) BY <1>4 DEF InvokeRuns
  <2>1. /\ approval' \in [Approval -> ApprovalRecord]
        /\ \A x \in Approval :
             /\ approval'[x].op = approval[x].op
             /\ \/ approval'[x].status = approval[x].status
                \/ approval'[x].status = "consumed"
    BY <1>0, <2>0, SpentType
  <2>2. ApprovalsKept BY <1>4, <2>1 DEF ApprovalsKept, InvokeRuns
  <2> QED BY <1>0, <1>4, <2>1, <2>2 DEF InvokeRuns, InvokeEffect, Acquired, Begins
<1>5. ASSUME NEW o \in Op, NEW f \in Call \cup {None}, InvokeAsks(c, o, f)
      PROVE  \E s \in CallState \ {"idle", "timeout"} : InvokeEffect(c, o, None, f, s)
  <2>1. PICK b \in Approval, written \in BOOLEAN :
          /\ approval[b].op = None
          /\ approval' = [approval EXCEPT ![b] =
               [status |-> "pending", op |-> o, version |-> DefaultVersion]]
          /\ IF written
             THEN /\ call' = Called(c, o, None, f, "approval_required")
                  /\ logged' = [logged EXCEPT ![b] = "requested"]
                  /\ locks' = locks
             ELSE /\ call' = Called(c, o, None, f, "thrown")
                  /\ logged' = logged
                  /\ locks' = Acquired(o)
    BY <1>5 DEF InvokeAsks
  <2>2. [status |-> "pending", op |-> o, version |-> DefaultVersion] \in ApprovalRecord
    BY ConstantsAssumption DEF ApprovalRecord, ApprovalStatus
  <2>3. approval' \in [Approval -> ApprovalRecord] BY <1>0, <2>1, <2>2
  <2>4. logged' \in [Approval -> {"none", "requested", "granted", "rejected"}]
    BY <1>0, <2>1
  <2>7. ApprovalsKept
    <3>1. approval[b].op = None BY <2>1
    <3>2. \A x \in Approval \ {b} : approval'[x] = approval[x] BY <1>0, <2>1
    <3>3. approval'[b].status = "pending" BY <1>0, <2>1
    <3>4. \A x \in Approval : logged'[x] = "granted" => logged[x] = "granted"
      BY <1>0, <2>1
    <3> QED BY <1>5, <3>1, <3>2, <3>3, <3>4 DEF ApprovalsKept, InvokeAsks
  <2>8. executing' = executing /\ UNCHANGED Elsewhere
        /\ call[c].state = "idle" /\ (f # None => call[f].retry = "allowed")
    BY <1>5 DEF InvokeAsks, Begins
  <2>9. locks \subseteq locks' /\ locks' \subseteq Keys
    BY <1>0, <2>1 DEF Acquired
  <2> HIDE DEF Elsewhere
  <2>5. CASE written
    <3>1. InvokeEffect(c, o, None, f, "approval_required")
      BY <2>1, <2>3, <2>4, <2>5, <2>7, <2>8, <2>9, <1>0 DEF InvokeEffect
    <3> QED BY <3>1 DEF CallState
  <2>6. CASE ~written
    <3>1. InvokeEffect(c, o, None, f, "thrown")
      BY <2>1, <2>3, <2>4, <2>6, <2>7, <2>8, <2>9 DEF InvokeEffect
    <3> QED BY <3>1 DEF CallState
  <2> QED BY <2>5, <2>6
<1> QED
  <2> {"denied", "failure", "running", "cached", "busy"}
        \subseteq CallState \ {"idle", "timeout"}
    BY DEF CallState
  <2> HIDE DEF Elsewhere
  <2> QED BY <1>1, <1>2, <1>3, <1>4, <1>5, <1>6 DEF Invoke

(* A call not yet made is blank; one that was answered without a handler   *)
(* never ran; a call that waits is of this life; the outcome of a call of  *)
(* this life that timed out is recorded as unknown.                        *)
CallsInOrder ==
  \A c \in Call :
    /\ call[c].state = "idle" => ~call[c].ran /\ call[c].retry = "none"
    /\ call[c].state \in {"busy", "approval_required"} => ~call[c].ran
    /\ call[c].ran \/ call[c].state \in {"busy", "approval_required"} =>
         call[c].op \in Op
    /\ call[c].life <= life
    /\ Running(c) => call[c].life = life /\ call[c].ran
    /\ call[c].state = "timeout" /\ call[c].life = life =>
         "unknown" \in journal[c]

LEMMA InvokeType ==
  ASSUME GatewayTypeOK, CallsInOrder, NEW c \in Call, Invoke(c)
  PROVE  GatewayTypeOK'
<1>1. PICK o \in Op \cup {None}, a \in Approval \cup {None},
           f \in Call \cup {None}, s \in CallState \ {"idle", "timeout"} :
           InvokeEffect(c, o, a, f, s)
  BY InvokeHasEffect
<1>2. call' \in [Call -> CallRecord]
  BY <1>1, CalledType DEF InvokeEffect, GatewayTypeOK, CallRecord
<1>3. \A x \in Call : call[x].ran => call'[x].ran /\ call'[x].life = call[x].life
  BY <1>1 DEF InvokeEffect, Called, CallsInOrder, GatewayTypeOK, CallRecord
<1>4. s = "running" => call'[c].ran /\ call'[c].life = life
  BY <1>1 DEF InvokeEffect, Called
<1>5. locks' \subseteq Keys
  BY <1>1 DEF InvokeEffect
<1> QED
  BY <1>1, <1>2, <1>3, <1>4, <1>5 DEF InvokeEffect, GatewayTypeOK, CallRecord,
     ApprovalRecord, Keys, Elsewhere

(* A step that changes the state of one call only. *)
LEMMA RowType ==
  ASSUME call \in [Call -> CallRecord], NEW c \in Call, NEW s \in CallState
  PROVE  [call EXCEPT ![c].state = s] \in [Call -> CallRecord]
<1> DEFINE row == [call[c] EXCEPT !.state = s]
<1>1. row \in CallRecord BY DEF CallRecord
<1>2. [call EXCEPT ![c].state = s] = [call EXCEPT ![c] = row] OBVIOUS
<1> HIDE DEF row
<1> QED BY <1>1, <1>2

(* What the end of a call does: its state is s, its lock may be gone.      *)
SettleEffect(c, s) ==
  /\ call' = [call EXCEPT ![c].state = s]
  /\ executing' \subseteq executing
  /\ locks' = Released(call[c].op)
  /\ cache' \subseteq cache \cup {KeyOf(x) : x \in {call[c].op} \cap {y \in Op : Keyed(y)}}
  /\ journal' \in [Call -> SUBSET Certainty]
  /\ \A x \in Call : journal[x] \subseteq journal'[x]
  /\ s = "timeout" => "unknown" \in journal'[c]
  /\ UNCHANGED Uncalled

LEMMA JournalGrows ==
  ASSUME journal \in [Call -> SUBSET Certainty], NEW c \in Call,
         NEW S \in SUBSET Certainty, journal' = [journal EXCEPT ![c] = @ \cup S]
  PROVE  /\ journal' \in [Call -> SUBSET Certainty]
         /\ \A x \in Call : journal[x] \subseteq journal'[x]
         /\ S \subseteq journal'[c]
  OBVIOUS

LEMMA SettleHasEffect ==
  ASSUME GatewayTypeOK, CallsInOrder, NEW c \in Call,
         HandlerReturns(c) \/ HandlerThrows(c) \/ CallTimesOut(c)
  PROVE  /\ Running(c)
         /\ \E s \in {"success", "failure", "timeout", "thrown"} : SettleEffect(c, s)
<1>0. journal \in [Call -> SUBSET Certainty] BY DEF GatewayTypeOK
<1>1. Running(c) BY DEF HandlerReturns, HandlerThrows, CallTimesOut
<1>2. call[c].op \in Op BY <1>1 DEF CallsInOrder, Running
<1>3. Released(call[c].op) \subseteq locks BY DEF Released
<1>4. CASE HandlerReturns(c)
  <2>1. CASE /\ call' = [call EXCEPT ![c].state = "success"]
             /\ locks' = Released(call[c].op)
             /\ journal' = [journal EXCEPT ![c] = @ \cup {"known_succeeded"}]
    <3>1. /\ journal' \in [Call -> SUBSET Certainty]
          /\ \A x \in Call : journal[x] \subseteq journal'[x]
      BY <1>0, <2>1, JournalGrows DEF Certainty
    <3> QED BY <1>2, <1>3, <1>4, <2>1, <3>1, <1>1 DEF HandlerReturns, SettleEffect
  <2>2. CASE /\ Caught(c, "failure")
             /\ journal' = [journal EXCEPT
                         ![c] = @ \cup {"known_succeeded", CertaintyOf("failure")}]
    <3>1. /\ journal' \in [Call -> SUBSET Certainty]
          /\ \A x \in Call : journal[x] \subseteq journal'[x]
      BY <1>0, <2>2, JournalGrows DEF Certainty, CertaintyOf
    <3>2. PICK s \in {"failure", "thrown"} : call' = [call EXCEPT ![c].state = s]
      BY <2>2 DEF Caught
    <3> QED BY <1>2, <1>3, <1>4, <2>2, <3>1, <3>2, <1>1 DEF HandlerReturns, SettleEffect, Caught
  <2> QED BY <1>4, <2>1, <2>2 DEF HandlerReturns
<1>5. ASSUME NEW s \in {"failure", "timeout"}, Caught(c, s),
             journal' = [journal EXCEPT ![c] = @ \cup {CertaintyOf(s)}],
             executing' \subseteq executing, UNCHANGED <<Uncalled, cache>>
      PROVE  \E t \in {"success", "failure", "timeout", "thrown"} : SettleEffect(c, t)
  <2>1. /\ journal' \in [Call -> SUBSET Certainty]
        /\ \A x \in Call : journal[x] \subseteq journal'[x]
        /\ s = "timeout" => "unknown" \in journal'[c]
    BY <1>0, <1>5, JournalGrows DEF Certainty, CertaintyOf
  <2>2. PICK t \in {s, "thrown"} : call' = [call EXCEPT ![c].state = t]
    BY <1>5 DEF Caught
  <2>3. t = "timeout" => s = "timeout" BY <2>2
  <2>4. SettleEffect(c, t)
    BY <1>3, <1>5, <2>1, <2>2, <2>3 DEF SettleEffect, Caught
  <2> QED BY <2>2, <2>4
<1>6. CASE HandlerThrows(c) BY <1>5, <1>6 DEF HandlerThrows
<1>7. CASE CallTimesOut(c) BY <1>5, <1>7 DEF CallTimesOut
<1> QED BY <1>1, <1>4, <1>6, <1>7

LEMMA SettleType ==
  ASSUME GatewayTypeOK, CallsInOrder, NEW c \in Call, Settle(c)
  PROVE  GatewayTypeOK'
<1>2. CASE HandlerEndsUnheard(c)
  BY <1>2 DEF HandlerEndsUnheard, Uncalled, GatewayTypeOK
<1>3. CASE HandlerReturns(c) \/ HandlerThrows(c) \/ CallTimesOut(c)
  <2>1. PICK s \in {"success", "failure", "timeout", "thrown"} : SettleEffect(c, s)
    BY <1>3, SettleHasEffect
  <2>2. s \in CallState BY DEF CallState
  <2>3. call' \in [Call -> CallRecord]
    BY <2>1, <2>2, RowType DEF SettleEffect, GatewayTypeOK, CallRecord
  <2>4. \A x \in Call : call'[x].ran = call[x].ran /\ call'[x].life = call[x].life
    BY <2>1 DEF SettleEffect, GatewayTypeOK, CallRecord
  <2>5. cache' \cup locks' \subseteq Keys
    BY <2>1 DEF SettleEffect, Released, GatewayTypeOK, Keys
  <2> QED BY <2>1, <2>3, <2>4, <2>5 DEF SettleEffect, Uncalled, GatewayTypeOK,
         CallRecord, Keys
<1> QED BY <1>2, <1>3 DEF Settle

LEMMA RetryType ==
  ASSUME GatewayTypeOK, CallsInOrder, NEW c \in Call, Retry(c)
  PROVE  GatewayTypeOK'
<1> DEFINE row == [call[c] EXCEPT !.retry = "allowed"]
<1>1. call[c].state \in {"busy", "approval_required"} \/ call[c].ran
  BY DEF Retry, AllowsRetry, Retryable, CallsInOrder
<1>2. call[c].op \in Op BY <1>1 DEF CallsInOrder
<1>3. retries' \in [Op -> 0..MaxOperationRetries]
  <2>1. retries \in [Op -> 0..MaxOperationRetries] /\ MaxOperationRetries \in Nat
    BY ConstantsAssumption DEF GatewayTypeOK
  <2>2. retries[call[c].op] < MaxOperationRetries BY DEF Retry, AllowsRetry
  <2>3. retries' = [retries EXCEPT ![call[c].op] = retries[call[c].op] + 1]
    BY DEF Retry
  <2>4. retries[call[c].op] + 1 \in 0..MaxOperationRetries BY <1>2, <2>1, <2>2
  <2> QED BY <1>2, <2>1, <2>3, <2>4
<1>4. row \in CallRecord BY DEF CallRecord, GatewayTypeOK
<1>5. call' = [call EXCEPT ![c] = row] BY DEF Retry
<1>6. row.ran = call[c].ran /\ row.life = call[c].life
  BY DEF GatewayTypeOK
<1> HIDE DEF row
<1>7. call' \in [Call -> CallRecord]
  BY <1>4, <1>5 DEF GatewayTypeOK, CallRecord
<1>8. \A x \in Call : call'[x].ran = call[x].ran /\ call'[x].life = call[x].life
  BY <1>5, <1>6 DEF GatewayTypeOK
<1> QED BY <1>3, <1>7, <1>8 DEF Retry, GatewayTypeOK, CallRecord

LEMMA DecideType ==
  ASSUME GatewayTypeOK, NEW b \in Approval, Decide(b)
  PROVE  GatewayTypeOK'
<1>0. approval \in [Approval -> ApprovalRecord]
      /\ logged \in [Approval -> {"none", "requested", "granted", "rejected"}]
  BY DEF GatewayTypeOK, ApprovalRecord
<1>1. approval' \in [Approval -> ApprovalRecord]
  <2>1. \A s \in {"approved", "rejected", "cancelled"} :
          [approval EXCEPT ![b].status = s] \in [Approval -> ApprovalRecord]
    BY <1>0, ApprovalMoves DEF ApprovalStatus
  <2>2. \/ approval' \in {approval, Looked(b)}
        \/ \E s \in {"approved", "rejected", "cancelled"} :
             approval' = [approval EXCEPT ![b].status = s]
    BY DEF Decide, GrantApproval, RejectApproval, CancelApproval, ExpireApproval,
       TimePasses
  <2> QED BY <1>0, <2>1, <2>2, LookedType
<1>2. logged' \in [Approval -> {"none", "requested", "granted", "rejected"}]
  <2>1. \A s \in {"granted", "rejected"} :
          [logged EXCEPT ![b] = s] \in [Approval -> {"none", "requested", "granted", "rejected"}]
    BY <1>0
  <2>2. logged' = logged \/ \E s \in {"granted", "rejected"} : logged' = [logged EXCEPT ![b] = s]
    BY DEF Decide, GrantApproval, RejectApproval, CancelApproval, ExpireApproval,
       TimePasses
  <2> QED BY <1>0, <2>1, <2>2
<1>3. /\ elapsed' \subseteq Approval /\ granted' \subseteq Approval
      /\ UNCHANGED Aside
  BY DEF Decide, GrantApproval, RejectApproval, CancelApproval, ExpireApproval,
     TimePasses, GatewayTypeOK
<1> QED BY <1>1, <1>2, <1>3 DEF Aside, GatewayTypeOK, ApprovalRecord

LEMMA RestartType ==
  ASSUME GatewayTypeOK, Restart
  PROVE  GatewayTypeOK'
<1> DEFINE back(x) == [call[x] EXCEPT
                         !.state = IF @ = "running" THEN "lost" ELSE @,
                         !.retry = IF @ = "allowed" THEN "none" ELSE @]
           again(b) == [approval[b] EXCEPT !.status = Restored(b)]
<1>0. call \in [Call -> CallRecord] /\ life \in 1..MaxLives /\ MaxLives \in Nat
  BY ConstantsAssumption DEF GatewayTypeOK, CallRecord
<1>1. ASSUME NEW x \in Call PROVE back(x) \in CallRecord
  <2>1. call[x] \in CallRecord BY <1>0
  <2>2. (IF call[x].state = "running" THEN "lost" ELSE call[x].state) \in CallState
    BY <2>1 DEF CallRecord, CallState
  <2> QED BY <2>1, <2>2 DEF CallRecord
<1>2. \A b \in Approval : Restored(b) \in ApprovalStatus
  BY DEF Restored, ApprovalStatus, GatewayTypeOK
<1>3. \A b \in Approval : again(b) \in ApprovalRecord
  BY <1>2 DEF GatewayTypeOK, ApprovalRecord
<1>4. \A x \in Call : back(x).ran = call[x].ran
  BY DEF GatewayTypeOK
<1>5. call' = [x \in Call |-> back(x)] /\ approval' = [b \in Approval |-> again(b)]
  BY DEF Restart
<1> HIDE DEF back, again
<1>6. /\ call' \in [Call -> CallRecord]
      /\ approval' \in [Approval -> ApprovalRecord]
      /\ \A x \in Call : call'[x].ran = call[x].ran
  BY <1>1, <1>3, <1>4, <1>5
<1>7. life' \in 1..MaxLives
  <2>1. life < MaxLives /\ life' = life + 1 BY DEF Restart
  <2> QED BY <1>0, <2>1
<1>8. retries' \in [Op -> 0..MaxOperationRetries]
      /\ journal' \in [Call -> SUBSET Certainty]
  <2>1. retries' = [o \in Op |-> 0] /\ journal' = [x \in Call |-> {}] BY DEF Restart
  <2>2. MaxOperationRetries \in Nat BY ConstantsAssumption
  <2> QED BY <2>1, <2>2
<1>9. /\ executing' = {} /\ cache' = {} /\ locks' = {} /\ version' \in Version
      /\ UNCHANGED <<elapsed, logged, granted, owner>>
  BY DEF Restart
<1> QED BY <1>6, <1>7, <1>8, <1>9 DEF GatewayTypeOK, CallRecord, ApprovalRecord

-----------------------------------------------------------------------------
(* The order of a call.                                                    *)

LEMMA InvokeOrder ==
  ASSUME GatewayTypeOK, CallsInOrder, NEW c \in Call, Invoke(c)
  PROVE  CallsInOrder'
<1>1. PICK o \in Op \cup {None}, a \in Approval \cup {None},
           f \in Call \cup {None}, s \in CallState \ {"idle", "timeout"} :
           InvokeEffect(c, o, a, f, s)
  BY InvokeHasEffect
<1>2. call'[c] = [state |-> s, op |-> o, approval |-> a, ran |-> s = "running", life |-> life, retry |-> "none"]
  BY <1>1 DEF InvokeEffect, Called
<1>3. ASSUME NEW x \in Call, x # c
      PROVE  call'[x] = (IF x = f THEN [call[x] EXCEPT !.retry = "used"] ELSE call[x])
  BY <1>1, <1>3 DEF InvokeEffect, Called
<1>4. ASSUME NEW x \in Call, x # c
      PROVE  /\ call'[x].state = call[x].state /\ call'[x].op = call[x].op
             /\ call'[x].ran = call[x].ran /\ call'[x].life = call[x].life
             /\ call'[x].retry # call[x].retry => call[x].retry = "allowed"
  <2>1. f # None => call[f].retry = "allowed" BY <1>1 DEF InvokeEffect
  <2>2. None \notin Call BY ConstantsAssumption
  <2>3. call[x] \in CallRecord BY DEF GatewayTypeOK, CallRecord
  <2> QED BY <1>3, <1>4, <2>1, <2>2, <2>3 DEF CallRecord
<1>5. life' = life /\ journal' = journal BY <1>1 DEF InvokeEffect, Elsewhere
<1>6. life <= life BY ConstantsAssumption DEF GatewayTypeOK
<1> SUFFICES ASSUME NEW x \in Call
             PROVE  /\ call'[x].state = "idle" => ~call'[x].ran /\ call'[x].retry = "none"
                    /\ call'[x].state \in {"busy", "approval_required"} => ~call'[x].ran
                    /\ \/ call'[x].ran
                       \/ call'[x].state \in {"busy", "approval_required"}
                       => call'[x].op \in Op
                    /\ call'[x].life <= life'
                    /\ call'[x].state = "running" => call'[x].life = life' /\ call'[x].ran
                    /\ call'[x].state = "timeout" /\ call'[x].life = life' =>
                         "unknown" \in journal'[x]
  BY DEF CallsInOrder, Running
<1>7. CASE x = c
  <2>1. /\ call'[c].state = s /\ call'[c].op = o /\ call'[c].life = life
        /\ call'[c].retry = "none" /\ call'[c].ran = (s = "running")
    BY <1>2
  <2>2. s # "idle" /\ s # "timeout" OBVIOUS
  <2>3. s \in {"running", "busy", "approval_required"} => o \in Op
    BY <1>1 DEF InvokeEffect
  <2> QED BY <2>1, <2>2, <2>3, <1>5, <1>6, <1>7
<1>8. CASE x # c
  BY <1>4, <1>5, <1>8 DEF CallsInOrder, Running
<1> QED BY <1>7, <1>8

LEMMA SettleOrder ==
  ASSUME GatewayTypeOK, CallsInOrder, NEW c \in Call, Settle(c)
  PROVE  CallsInOrder'
<1>1. CASE HandlerEndsUnheard(c)
  BY <1>1 DEF HandlerEndsUnheard, Uncalled, CallsInOrder, Running
<1>2. CASE HandlerReturns(c) \/ HandlerThrows(c) \/ CallTimesOut(c)
  <2>1. PICK s \in {"success", "failure", "timeout", "thrown"} : SettleEffect(c, s)
    BY <1>2, SettleHasEffect
  <2>2. Running(c) BY <1>2, SettleHasEffect
  <2>3. \A x \in Call : /\ x # c => call'[x] = call[x]
                        /\ call'[x].ran = call[x].ran
                        /\ call'[x].life = call[x].life
                        /\ call'[x].op = call[x].op
                        /\ call'[x].retry = call[x].retry
    BY <2>1 DEF SettleEffect, GatewayTypeOK, CallRecord
  <2>4. call'[c].state = s BY <2>1 DEF SettleEffect, GatewayTypeOK
  <2> QED BY <2>1, <2>2, <2>3, <2>4 DEF SettleEffect, Uncalled, CallsInOrder, Running
<1> QED BY <1>1, <1>2 DEF Settle

LEMMA RetryOrder ==
  ASSUME GatewayTypeOK, CallsInOrder, NEW c \in Call, Retry(c)
  PROVE  CallsInOrder'
<1>1. call[c].state # "idle"
  BY DEF Retry, AllowsRetry, Retryable
<1>2. \A x \in Call : /\ call'[x].state = call[x].state
                      /\ call'[x].ran = call[x].ran
                      /\ call'[x].life = call[x].life
                      /\ call'[x].op = call[x].op
                      /\ x # c => call'[x].retry = call[x].retry
  BY DEF Retry, GatewayTypeOK
<1> QED BY <1>1, <1>2 DEF Retry, CallsInOrder, Running

LEMMA RestartOrder ==
  ASSUME GatewayTypeOK, CallsInOrder, Restart
  PROVE  CallsInOrder'
<1>0. call' = [x \in Call |-> [call[x] EXCEPT
                !.state = IF call[x].state = "running" THEN "lost" ELSE call[x].state,
                !.retry = IF call[x].retry = "allowed" THEN "none" ELSE call[x].retry]]
  BY DEF Restart
<1>1. \A x \in Call :
        /\ call'[x].ran = call[x].ran
        /\ call'[x].life = call[x].life
        /\ call'[x].op = call[x].op
        /\ call'[x].state = (IF Running(x) THEN "lost" ELSE call[x].state)
        /\ call'[x].retry = (IF call[x].retry = "allowed" THEN "none" ELSE call[x].retry)
  <2> TAKE x \in Call
  <2>1. call[x] \in CallRecord BY DEF GatewayTypeOK, CallRecord
  <2>2. call'[x] = [call[x] EXCEPT
                !.state = IF call[x].state = "running" THEN "lost" ELSE call[x].state,
                !.retry = IF call[x].retry = "allowed" THEN "none" ELSE call[x].retry]
    BY <1>0
  <2> QED BY <2>1, <2>2 DEF CallRecord, Running
<1>2. life' = life + 1 /\ life \in Nat
  <2>1. life' = life + 1 BY DEF Restart
  <2>2. life \in 1..MaxLives /\ MaxLives \in Nat
    BY ConstantsAssumption DEF GatewayTypeOK
  <2> QED BY <2>1, <2>2
<1>3. \A x \in Call : call[x].life \in Nat BY DEF GatewayTypeOK
<1> QED BY <1>1, <1>2, <1>3 DEF CallsInOrder, Running

-----------------------------------------------------------------------------
(* One handler for each idempotency key.                                   *)

LEMMA InvokeKeepsKeys ==
  ASSUME GatewayTypeOK, CallsInOrder, OneRunPerKey, NEW c \in Call, Invoke(c)
  PROVE  OneRunPerKey'
<1>1. PICK o \in Op \cup {None}, a \in Approval \cup {None},
           f \in Call \cup {None}, s \in CallState \ {"idle", "timeout"} :
           InvokeEffect(c, o, a, f, s)
  BY InvokeHasEffect
<1>2. \A x \in Call \ {c} : call'[x].state = call[x].state /\ call'[x].op = call[x].op
  <2>1. ASSUME NEW x \in Call, x # c
        PROVE  call'[x] = (IF x = f THEN [call[x] EXCEPT !.retry = "used"] ELSE call[x])
    BY <1>1, <2>1 DEF InvokeEffect, Called
  <2> SUFFICES ASSUME NEW x \in Call \ {c}
               PROVE  call'[x].state = call[x].state /\ call'[x].op = call[x].op
    OBVIOUS
  <2>2. call[x] \in CallRecord BY DEF GatewayTypeOK, CallRecord
  <2> QED BY <2>1, <2>2 DEF CallRecord
<1>3. call'[c].state = s /\ call'[c].op = o
  BY <1>1 DEF InvokeEffect, Called
<1>4. cache' = cache /\ locks \subseteq locks'
  BY <1>1 DEF InvokeEffect, Elsewhere
<1>5. s = "running" /\ Keyed(o) =>
        /\ KeyOf(o) \notin cache \cup locks
        /\ KeyOf(o) \in locks'
  BY <1>1 DEF InvokeEffect, InvokeRuns, Passes, Admitted, Acquired
<1>6. ASSUME NEW d \in Call, Running(d), Keyed(call[d].op), s = "running", Keyed(o)
      PROVE  KeyOf(call[d].op) # KeyOf(o)
  BY <1>5, <1>6 DEF OneRunPerKey
<1> QED BY <1>2, <1>3, <1>4, <1>5, <1>6 DEF OneRunPerKey, Running

LEMMA SettleKeepsKeys ==
  ASSUME GatewayTypeOK, CallsInOrder, OneRunPerKey, NEW c \in Call, Settle(c)
  PROVE  OneRunPerKey'
<1>1. CASE HandlerEndsUnheard(c)
  BY <1>1 DEF HandlerEndsUnheard, Uncalled, OneRunPerKey, Running
<1>2. CASE HandlerReturns(c) \/ HandlerThrows(c) \/ CallTimesOut(c)
  <2>1. PICK s \in {"success", "failure", "timeout", "thrown"} : SettleEffect(c, s)
    BY <1>2, SettleHasEffect
  <2>2. Running(c) /\ call'[c].state = s
    <3>1. Running(c) BY <1>2, SettleHasEffect
    <3> QED BY <2>1, <3>1 DEF SettleEffect, GatewayTypeOK
  <2>3. \A x \in Call : /\ call'[x].op = call[x].op
                        /\ x # c => call'[x].state = call[x].state
    BY <2>1 DEF SettleEffect, GatewayTypeOK
  <2>4. ASSUME NEW d \in Call, d # c, Running(d), Keyed(call[d].op)
        PROVE  KeyOf(call[d].op) \in locks' \ cache'
    <3>1. KeyOf(call[d].op) \in locks \ cache BY <2>4 DEF OneRunPerKey
    <3>2. Keyed(call[c].op) => KeyOf(call[c].op) # KeyOf(call[d].op)
      BY <2>2, <2>4 DEF OneRunPerKey
    <3> QED BY <2>1, <3>1, <3>2 DEF SettleEffect, Released
  <2> QED BY <2>2, <2>3, <2>4 DEF OneRunPerKey, Running
<1> QED BY <1>1, <1>2 DEF Settle

-----------------------------------------------------------------------------
(* What may be repeated never ran.                                         *)

LEMMA RetryKeepsRepeated ==
  ASSUME GatewayTypeOK, CallsInOrder, RepeatedNeverRan, NEW c \in Call, Retry(c)
  PROVE  RepeatedNeverRan'
<1>1. ~call[c].ran
  <2>1. call[c].life = life /\ Retryable(c) /\ "unknown" \notin journal[c]
    BY DEF Retry, AllowsRetry
  <2>2. call[c].state # "timeout" BY <2>1 DEF CallsInOrder
  <2> QED BY <2>1, <2>2 DEF Retryable, CallsInOrder
<1>2. \A x \in Call : /\ call'[x].ran = call[x].ran
                      /\ x # c => call'[x].retry = call[x].retry
  BY DEF Retry, GatewayTypeOK
<1> QED BY <1>1, <1>2 DEF RepeatedNeverRan

LEMMA InvokeKeepsRepeated ==
  ASSUME GatewayTypeOK, CallsInOrder, RepeatedNeverRan, NEW c \in Call, Invoke(c)
  PROVE  RepeatedNeverRan'
<1>1. PICK o \in Op \cup {None}, a \in Approval \cup {None},
           f \in Call \cup {None}, s \in CallState \ {"idle", "timeout"} :
           InvokeEffect(c, o, a, f, s)
  BY InvokeHasEffect
<1>2. call'[c].retry = "none" BY <1>1 DEF InvokeEffect, Called
<1>3. ASSUME NEW x \in Call, x # c, call'[x].retry # "none" PROVE ~call'[x].ran
  <2>1. call'[x] = (IF x = f THEN [call[x] EXCEPT !.retry = "used"] ELSE call[x])
    BY <1>1, <1>3 DEF InvokeEffect, Called
  <2>2. x = f => call[x].retry = "allowed"
    BY <1>1, ConstantsAssumption DEF InvokeEffect
  <2>3. call[x].retry # "none" BY <1>3, <2>1, <2>2
  <2> QED BY <2>1, <2>3 DEF RepeatedNeverRan, GatewayTypeOK
<1> QED BY <1>2, <1>3 DEF RepeatedNeverRan

LEMMA SettleKeepsRows ==
  ASSUME GatewayTypeOK, CallsInOrder, NEW c \in Call, Settle(c)
  PROVE  /\ \A x \in Call : /\ call'[x].ran = call[x].ran
                            /\ call'[x].retry = call[x].retry
                            /\ call'[x].op = call[x].op
                            /\ call'[x].approval = call[x].approval
                            /\ call'[x].life = call[x].life
         /\ UNCHANGED <<approval, granted, logged, life>>
<1>1. CASE HandlerEndsUnheard(c)
  BY <1>1 DEF HandlerEndsUnheard, Uncalled
<1>2. CASE HandlerReturns(c) \/ HandlerThrows(c) \/ CallTimesOut(c)
  <2>1. PICK s \in {"success", "failure", "timeout", "thrown"} : SettleEffect(c, s)
    BY <1>2, SettleHasEffect
  <2> QED BY <2>1 DEF SettleEffect, Uncalled, GatewayTypeOK
<1> QED BY <1>1, <1>2 DEF Settle

LEMMA RestartKeepsRows ==
  ASSUME GatewayTypeOK, Restart
  PROVE  \A x \in Call :
           /\ call'[x].ran = call[x].ran
           /\ call'[x].op = call[x].op
           /\ call'[x].approval = call[x].approval
           /\ call'[x].life = call[x].life
           /\ call'[x].state # "running"
           /\ call'[x].retry # "none" => call[x].retry # "none"
<1> TAKE x \in Call
<1>1. call[x] \in CallRecord BY DEF GatewayTypeOK, CallRecord
<1>2. call'[x] = [call[x] EXCEPT
              !.state = IF call[x].state = "running" THEN "lost" ELSE call[x].state,
              !.retry = IF call[x].retry = "allowed" THEN "none" ELSE call[x].retry]
  BY DEF Restart
<1> QED BY <1>1, <1>2 DEF CallRecord

-----------------------------------------------------------------------------
(* Approvals.  A grant in memory or in the log is one a human made; one    *)
(* that started a handler in this life is used up.                         *)
ApprovalsInOrder ==
  /\ \A b \in Approval :
       approval[b].status = "approved" \/ logged[b] = "granted" => b \in granted
  /\ \A c \in Call :
       call[c].ran /\ NeedsHuman(call[c].op) /\ call[c].life = life
         => approval[call[c].approval].status = "consumed"

(* RunsAreApproved without its last conjunct, call by call. *)
Approved(c) ==
  /\ ~Forbidden(Context[call[c].op])
  /\ NeedsHuman(call[c].op) =>
       /\ call[c].approval \in granted
       /\ approval[call[c].approval].op = call[c].op

OneEach ==
  \A c, d \in Call :
    /\ c # d /\ call[c].ran /\ call[d].ran
    /\ NeedsHuman(call[c].op) /\ NeedsHuman(call[d].op)
    /\ call[d].life = call[c].life
    => call[d].approval # call[c].approval

LEMMA RunsSplit ==
  RunsAreApproved <=> (\A c \in Call : call[c].ran => Approved(c)) /\ OneEach
BY DEF RunsAreApproved, Approved, OneEach

LEMMA PolicyHolds ==
  ASSUME NEW o \in Op, NEW a \in Approval \cup {None}, Passes(o, a)
  PROVE  /\ ~Forbidden(Context[o])
         /\ NeedsHuman(o) => /\ Asks(o)
                             /\ a \in Approval
                             /\ Valid(o, a)
<1>1. Decision(o) # "deny" BY DEF Passes
<1>2. ~Forbidden(Context[o]) BY <1>1 DEF Decision, Evaluate
<1>3. NeedsHuman(o) => Asks(o)
  BY <1>2 DEF NeedsHuman, Asks, Decision, Evaluate, NeedsApproval
<1> QED BY <1>2, <1>3 DEF Passes

(* Steps that start no handler and keep the approvals. *)
LEMMA KeptApprovals ==
  ASSUME GatewayTypeOK, CallsInOrder, RunsAreApproved, ApprovalsInOrder,
         ApprovalsKept, life' = life,
         \A x \in Call : call'[x].ran =>
           /\ call[x].ran
           /\ call'[x].op = call[x].op
           /\ call'[x].approval = call[x].approval
           /\ call'[x].life = call[x].life
  PROVE  RunsAreApproved' /\ ApprovalsInOrder'
<1>0. None \notin Op /\ granted \subseteq Approval
      /\ \A x \in Call : call[x].ran => call[x].op \in Op
  BY ConstantsAssumption DEF CallsInOrder, GatewayTypeOK
<1>1. ASSUME NEW x \in Call, call'[x].ran
      PROVE  /\ Approved(x)'
             /\ NeedsHuman(call'[x].op) /\ call'[x].life = life' =>
                  approval'[call'[x].approval].status = "consumed"
  <2>1. /\ call[x].ran /\ call'[x].op = call[x].op
        /\ call'[x].approval = call[x].approval /\ call'[x].life = call[x].life
    BY <1>1
  <2>2. Approved(x) BY <2>1, RunsSplit
  <2>3. CASE ~NeedsHuman(call[x].op)
    BY <2>1, <2>2, <2>3 DEF Approved, Forbidden, NeedsHuman, Matching, MatchesRule
  <2>4. CASE NeedsHuman(call[x].op)
    <3>1. call[x].approval \in Approval /\ approval[call[x].approval].op # None
      BY <1>0, <2>1, <2>2, <2>4 DEF Approved
    <3>2. approval'[call[x].approval].op = approval[call[x].approval].op
      BY <3>1 DEF ApprovalsKept
    <3>3. granted' = granted BY DEF ApprovalsKept
    <3>4. approval[call[x].approval].status = "consumed"
            => approval'[call[x].approval].status = "consumed"
      BY <3>1 DEF ApprovalsKept
    <3> QED BY <2>1, <2>2, <2>4, <3>2, <3>3, <3>4 DEF Approved, ApprovalsInOrder
  <2> QED BY <2>3, <2>4
<1>2. OneEach'
  <2>1. OneEach BY RunsSplit
  <2> QED BY <2>1 DEF OneEach
<1>3. RunsAreApproved'
  BY <1>1, <1>2 DEF RunsAreApproved, Approved, OneEach
<1>4. ApprovalsInOrder'
  BY <1>1 DEF ApprovalsInOrder, ApprovalsKept
<1> QED BY <1>3, <1>4

LEMMA InvokeKeepsApprovals ==
  ASSUME GatewayTypeOK, CallsInOrder, RunsAreApproved, ApprovalsInOrder,
         NEW c \in Call, Invoke(c)
  PROVE  RunsAreApproved' /\ ApprovalsInOrder'
<1>1. PICK o \in Op \cup {None}, a \in Approval \cup {None},
           f \in Call \cup {None}, s \in CallState \ {"idle", "timeout"} :
           InvokeEffect(c, o, a, f, s)
  BY InvokeHasEffect
<1>2. life' = life /\ ApprovalsKept
  BY <1>1 DEF InvokeEffect, Elsewhere
<1>3. ASSUME NEW x \in Call, x # c
      PROVE  /\ call'[x].ran = call[x].ran /\ call'[x].op = call[x].op
             /\ call'[x].approval = call[x].approval /\ call'[x].life = call[x].life
  <2>1. call'[x] = (IF x = f THEN [call[x] EXCEPT !.retry = "used"] ELSE call[x])
    BY <1>1, <1>3 DEF InvokeEffect, Called
  <2>2. call[x] \in CallRecord BY DEF GatewayTypeOK, CallRecord
  <2> QED BY <2>1, <2>2 DEF CallRecord
<1>4. /\ call'[c].ran = (s = "running") /\ call'[c].op = o
      /\ call'[c].approval = a /\ call'[c].life = life
  BY <1>1 DEF InvokeEffect, Called
<1>5. CASE s # "running"
  BY <1>2, <1>3, <1>4, <1>5, KeptApprovals
<1>6. CASE s = "running"
  <2>1. o \in Op /\ Passes(o, a) /\ approval' = Spent(o, a)
    BY <1>1, <1>6 DEF InvokeEffect, InvokeRuns
  <2>2. approval \in [Approval -> ApprovalRecord] BY DEF GatewayTypeOK, ApprovalRecord
  <2>3. NeedsHuman(o) =>
          /\ a \in Approval /\ a \in granted
          /\ approval[a].op = o /\ approval[a].status = "approved"
          /\ approval'[a].op = o /\ approval'[a].status = "consumed"
    BY <2>1, <2>2, PolicyHolds, SpentType DEF Valid, ApprovalsInOrder
  <2>4. ~Forbidden(Context[o]) BY <2>1, PolicyHolds
  <2>5. ASSUME NEW x \in Call, x # c, call[x].ran, NeedsHuman(call[x].op)
        PROVE  /\ call[x].approval \in granted
               /\ approval'[call[x].approval].op = call[x].op
               /\ call[x].life = life => approval'[call[x].approval].status = "consumed"
               /\ NeedsHuman(o) /\ call[x].life = life => call[x].approval # a
    <3>1. Approved(x) BY <2>5, RunsSplit
    <3>2. call[x].op # None
      BY <2>5, ConstantsAssumption DEF CallsInOrder, GatewayTypeOK
    <3>3. /\ call[x].approval \in Approval /\ approval[call[x].approval].op # None
          /\ call[x].approval \in granted
          /\ approval[call[x].approval].op = call[x].op
      BY <2>5, <3>1, <3>2 DEF Approved, GatewayTypeOK
    <3>4. call[x].life = life => approval[call[x].approval].status = "consumed"
      BY <2>5 DEF ApprovalsInOrder
    <3> QED BY <1>2, <2>3, <3>3, <3>4 DEF ApprovalsKept
  <2>6. \A x \in Call \ {c} : call[x].ran => ~Forbidden(Context[call[x].op])
    BY DEF RunsAreApproved
  <2>7. granted' = granted BY <1>2 DEF ApprovalsKept
  <2>8. \A x \in Call : call'[x].ran => Approved(x)'
    <3>1. Approved(c)' BY <1>4, <2>3, <2>4, <2>7 DEF Approved
    <3>2. ASSUME NEW x \in Call, x # c, call'[x].ran PROVE Approved(x)'
      BY <1>3, <3>2, <2>5, <2>6, <2>7 DEF Approved
    <3> QED BY <3>1, <3>2
  <2>9. OneEach'
    <3>1. OneEach BY RunsSplit
    <3> QED BY <1>3, <1>4, <2>5, <3>1 DEF OneEach
  <2>10. RunsAreApproved'
    BY <2>8, <2>9 DEF RunsAreApproved, Approved, OneEach
  <2>11. ApprovalsInOrder'
    BY <1>2, <1>3, <1>4, <2>3, <2>5 DEF ApprovalsInOrder, ApprovalsKept
  <2> QED BY <2>10, <2>11
<1> QED BY <1>5, <1>6

LEMMA DecideKeepsApprovals ==
  ASSUME GatewayTypeOK, CallsInOrder, RunsAreApproved, ApprovalsInOrder,
         NEW b \in Approval, Decide(b)
  PROVE  RunsAreApproved' /\ ApprovalsInOrder'
<1>0. /\ approval \in [Approval -> ApprovalRecord]
      /\ logged \in [Approval -> {"none", "requested", "granted", "rejected"}]
  BY DEF GatewayTypeOK, ApprovalRecord
<1>1. UNCHANGED <<call, life>> BY DEF Decide, GrantApproval, RejectApproval,
     CancelApproval, ExpireApproval, TimePasses, Aside
<1>2. CASE GrantApproval(b)
  <2>1. /\ approval[b].status = "pending"
        /\ approval' = [approval EXCEPT ![b].status = "approved"]
        /\ granted' = granted \cup {b}
        /\ logged' \in {logged, [logged EXCEPT ![b] = "granted"]}
    BY <1>2 DEF GrantApproval
  <2>2. \A x \in Approval : /\ approval'[x].op = approval[x].op
                            /\ x # b => approval'[x].status = approval[x].status
    BY <1>0, <2>1 DEF ApprovalRecord
  <2>3. \A x \in Approval : logged'[x] = "granted" => x \in granted'
    BY <1>0, <2>1 DEF ApprovalsInOrder
  <2>4. ASSUME NEW x \in Call, call[x].ran, NeedsHuman(call[x].op)
        PROVE  /\ call[x].approval \in Approval /\ call[x].approval \in granted
               /\ call[x].life = life => approval[call[x].approval].status = "consumed"
    BY <2>4, RunsSplit DEF Approved, ApprovalsInOrder, GatewayTypeOK
  <2>5. \A x \in Call : call[x].ran => Approved(x)'
    BY <1>1, <2>1, <2>2, <2>4, RunsSplit DEF Approved
  <2>6. OneEach' BY <1>1, RunsSplit DEF OneEach
  <2>7. RunsAreApproved'
    BY <1>1, <2>5, <2>6 DEF RunsAreApproved, Approved, OneEach
  <2>8. ApprovalsInOrder'
    BY <1>1, <2>1, <2>2, <2>3, <2>4 DEF ApprovalsInOrder
  <2> QED BY <2>7, <2>8
<1>3. CASE ~GrantApproval(b)
  <2>1. ApprovalsKept
    <3>1. CASE RejectApproval(b)
      <4>1. /\ approval[b].status = "pending" /\ granted' = granted
            /\ approval' = [approval EXCEPT ![b].status = "rejected"]
            /\ logged' \in {logged, [logged EXCEPT ![b] = "rejected"]}
        BY <3>1 DEF RejectApproval
      <4> QED BY <1>0, <4>1 DEF ApprovalsKept, ApprovalRecord
    <3>2. CASE CancelApproval(b)
      <4>1. /\ approval[b].status = "pending" /\ granted' = granted /\ logged' = logged
            /\ approval' = [approval EXCEPT ![b].status = "cancelled"]
        BY <3>2 DEF CancelApproval
      <4> QED BY <1>0, <4>1 DEF ApprovalsKept, ApprovalRecord
    <3>3. CASE ExpireApproval(b)
      <4>1. approval' = Looked(b) /\ granted' = granted /\ logged' = logged
        BY <3>3 DEF ExpireApproval
      <4> QED BY <1>0, <4>1, LookedType DEF ApprovalsKept
    <3>4. CASE TimePasses(b) BY <3>4 DEF TimePasses, ApprovalsKept
    <3> QED BY <1>3, <3>1, <3>2, <3>3, <3>4 DEF Decide
  <2> QED BY <1>1, <2>1, KeptApprovals
<1> QED BY <1>2, <1>3

LEMMA RestartKeepsApprovals ==
  ASSUME GatewayTypeOK, CallsInOrder, RunsAreApproved, ApprovalsInOrder, Restart
  PROVE  RunsAreApproved' /\ ApprovalsInOrder'
<1>1. life' = life + 1 /\ granted' = granted /\ logged' = logged
  BY DEF Restart
<1>2. life \in Nat /\ \A x \in Call : call[x].life \in Nat /\ call[x].life <= life
  BY ConstantsAssumption DEF GatewayTypeOK, CallsInOrder
<1>3. \A x \in Call : /\ call'[x].ran = call[x].ran /\ call'[x].op = call[x].op
                      /\ call'[x].approval = call[x].approval
                      /\ call'[x].life = call[x].life /\ call'[x].life # life'
  BY <1>1, <1>2, RestartKeepsRows
<1>4. \A b \in Approval : approval'[b].op = approval[b].op
  BY DEF Restart, GatewayTypeOK
<1>5. \A b \in Approval : approval'[b].status = "approved" => logged[b] = "granted"
  <2>1. \A b \in Approval : approval'[b].status = Restored(b)
    BY DEF Restart, GatewayTypeOK
  <2> QED BY <2>1 DEF Restored, GatewayTypeOK
<1>6. \A x \in Call : call'[x].ran => Approved(x)'
  BY <1>1, <1>3, <1>4, RunsSplit DEF Approved, GatewayTypeOK
<1>7. OneEach' BY <1>3, RunsSplit DEF OneEach
<1>8. RunsAreApproved' BY <1>6, <1>7 DEF RunsAreApproved, Approved, OneEach
<1>9. ApprovalsInOrder' BY <1>1, <1>3, <1>5 DEF ApprovalsInOrder
<1> QED BY <1>8, <1>9

-----------------------------------------------------------------------------
(* The invariant of the gateway: what the runs check, the order of a call  *)
(* and of an approval, which make it inductive.                            *)
GatewayInv ==
  /\ GatewayTypeOK /\ CallsInOrder
  /\ OneRunPerKey /\ RepeatedNeverRan
  /\ RunsAreApproved /\ ApprovalsInOrder

(* The invariant holds in every reachable state. *)
THEOREM GatewayInvariance == Spec => []GatewayInv
<1>1. Init => GatewayInv
  <2> SUFFICES ASSUME Init PROVE GatewayInv OBVIOUS
  <2>1. GatewayTypeOK BY InitType
  <2>2. /\ call = [c \in Call |-> NoCall] /\ life = 1
        /\ approval = [b \in Approval |-> NoApproval]
        /\ logged = [b \in Approval |-> "none"]
    BY DEF Init
  <2>3. \A c \in Call : /\ call[c].state = "idle" /\ call[c].life = 0
                        /\ ~call[c].ran /\ call[c].retry = "none"
    BY <2>2 DEF NoCall
  <2>4. CallsInOrder BY <2>2, <2>3 DEF CallsInOrder, Running
  <2>5. OneRunPerKey BY <2>3 DEF OneRunPerKey, Running
  <2>6. RepeatedNeverRan BY <2>3 DEF RepeatedNeverRan
  <2>7. RunsAreApproved BY <2>3 DEF RunsAreApproved
  <2>8. ApprovalsInOrder BY <2>2, <2>3 DEF ApprovalsInOrder, NoApproval
  <2> QED BY <2>1, <2>4, <2>5, <2>6, <2>7, <2>8 DEF GatewayInv
<1>2. GatewayInv /\ [Next]_vars => GatewayInv'
  <2> SUFFICES ASSUME GatewayInv, [Next]_vars PROVE GatewayInv' OBVIOUS
  <2> USE DEF GatewayInv
  <2>1. ASSUME NEW c \in Call, Invoke(c) PROVE GatewayInv'
    BY <2>1, InvokeType, InvokeOrder, InvokeKeepsKeys, InvokeKeepsRepeated,
       InvokeKeepsApprovals
  <2>2. ASSUME NEW c \in Call, Settle(c) PROVE GatewayInv'
    <3>1. /\ \A x \in Call : /\ call'[x].ran = call[x].ran
                             /\ call'[x].retry = call[x].retry
                             /\ call'[x].op = call[x].op
                             /\ call'[x].approval = call[x].approval
                             /\ call'[x].life = call[x].life
          /\ UNCHANGED <<approval, granted, logged, life>>
      BY <2>2, SettleKeepsRows
    <3>2. RepeatedNeverRan' BY <3>1 DEF RepeatedNeverRan
    <3>3. ApprovalsKept BY <3>1 DEF ApprovalsKept
    <3>4. RunsAreApproved' /\ ApprovalsInOrder' BY <3>1, <3>3, KeptApprovals
    <3> QED BY <2>2, <3>2, <3>4, SettleType, SettleOrder, SettleKeepsKeys
  <2>3. ASSUME NEW c \in Call, Retry(c) PROVE GatewayInv'
    <3>1. /\ UNCHANGED <<executing, approval, elapsed, logged, granted,
                         cache, locks, journal, version, owner, life>>
          /\ \A x \in Call : /\ call'[x].state = call[x].state
                             /\ call'[x].ran = call[x].ran
                             /\ call'[x].op = call[x].op
                             /\ call'[x].approval = call[x].approval
                             /\ call'[x].life = call[x].life
      BY <2>3 DEF Retry, GatewayTypeOK
    <3>2. OneRunPerKey' BY <3>1 DEF OneRunPerKey, Running
    <3>3. ApprovalsKept BY <3>1 DEF ApprovalsKept
    <3>4. RunsAreApproved' /\ ApprovalsInOrder' BY <3>1, <3>3, KeptApprovals
    <3> QED BY <2>3, <3>2, <3>4, RetryType, RetryOrder, RetryKeepsRepeated
  <2>4. ASSUME NEW b \in Approval, Decide(b) PROVE GatewayInv'
    <3>1. UNCHANGED Aside BY <2>4 DEF Decide, GrantApproval, RejectApproval,
       CancelApproval, ExpireApproval, TimePasses, Aside
    <3>2. CallsInOrder' /\ OneRunPerKey' /\ RepeatedNeverRan'
      BY <3>1 DEF Aside, CallsInOrder, OneRunPerKey, RepeatedNeverRan, Running
    <3> QED BY <2>4, <3>2, DecideType, DecideKeepsApprovals
  <2>5. CASE LeaseIsLost
    BY <2>5 DEF LeaseIsLost, GatewayTypeOK, CallsInOrder, OneRunPerKey, Running,
       RepeatedNeverRan, RunsAreApproved, ApprovalsInOrder
  <2>6. CASE Restart
    <3>1. OneRunPerKey' /\ RepeatedNeverRan'
      BY <2>6, RestartKeepsRows DEF OneRunPerKey, Running, RepeatedNeverRan
    <3> QED BY <2>6, <3>1, RestartType, RestartOrder, RestartKeepsApprovals
  <2>7. CASE UNCHANGED vars
    BY <2>7 DEF vars, GatewayTypeOK, CallsInOrder, OneRunPerKey, Running,
       RepeatedNeverRan, RunsAreApproved, ApprovalsInOrder
  <2> QED BY <2>1, <2>2, <2>3, <2>4, <2>5, <2>6, <2>7 DEF Next
<1> QED BY <1>1, <1>2, PTL DEF Spec

(* Every reachable state of the gateway is well formed, and the retries    *)
(* RetryDecisionEngine allows stay within their limit for each operation.  *)
THEOREM GatewayTypes == Spec => []GatewayTypeOK
BY GatewayInvariance, PTL DEF GatewayInv

(* No handler runs for what the system forbids.  Where there is an         *)
(* approval manager, one that needs a human runs under a grant for that    *)
(* operation, and one grant starts one handler in a life of the process.   *)
THEOREM ApprovalsHold == Spec => []RunsAreApproved
BY GatewayInvariance, PTL DEF GatewayInv

(* At most one call waits for a handler under one idempotency key, and it  *)
(* holds the lock of the key.                                              *)
THEOREM KeysExclude == Spec => []OneRunPerKey
BY GatewayInvariance, PTL DEF GatewayInv

(* A call whose repetition was allowed never reached its handler.          *)
THEOREM RetriesAreSafe == Spec => []RepeatedNeverRan
BY GatewayInvariance, PTL DEF GatewayInv
=============================================================================
