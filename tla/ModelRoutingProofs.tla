------------------------- MODULE ModelRoutingProofs -------------------------
(***************************************************************************)
(* Proofs about ModelRouting, for any requests, candidates, keys, limits   *)
(* and preferences.  There may be infinitely many requests and keys.       *)
(***************************************************************************)
EXTENDS ModelRouting, FiniteSetTheorems, TLAPS

Health == [status : {"healthy", "degraded", "unavailable"}, failures : Nat]

(* A call that has begun counts its attempts from one, and knows its key   *)
(* as long as it uses one.                                                 *)
CallsInOrder ==
  \A r \in Request :
    /\ run[r].stage = "new" => run[r].attempt = 0
    /\ run[r].stage \in {"try", "secret", "sent"} => run[r].attempt >= 1
    /\ run[r].stage \in {"secret", "sent"} => run[r].key \in Credential

(* A lease is of an attempt that was made: of an earlier one while the     *)
(* call looks for a key.                                                   *)
LeasesInOrder ==
  \A lease \in active :
    /\ lease[2] <= run[lease[1]].attempt
    /\ run[lease[1]].stage = "try" => lease[2] < run[lease[1]].attempt
    /\ run[lease[1]].stage # "new"

(* What is not registered has no lease. *)
UnregisteredIsFree ==
  \A k \in Credential :
    cred[k].status = "none" => LeasesOn(k) = {} /\ cred[k].count = 0

(* A key that keeps its count gives out no more leases than it may. *)
CountsBounded ==
  \A k \in Credential \ Rotated : cred[k].count <= MaxConcurrent[k]

(* A call that is not slow has the lease of the key it uses. *)
UsersHold ==
  \A r \in Request \ Slow :
    run[r].stage \in {"secret", "sent"} => LeaseOf(r) \in active

RoutingInv ==
  /\ RoutingTypeOK
  /\ IsFiniteSet(active)
  /\ CallsInOrder
  /\ LeasesInOrder
  /\ UnregisteredIsFree
  /\ CountsLeases
  /\ CountsBounded
  /\ UsersHold

-----------------------------------------------------------------------------
(* Types.                                                                  *)

(* The ranked candidates are not more than there are candidates, and the   *)
(* attempts not more than the ranked ones.                                 *)
LEMMA AttemptsBounded ==
  ASSUME NEW r \in Request, run[r] \in RunState
  PROVE  MaxAttempts(r) \in 0..RequestedAttempts
<1>1. Cardinality(Candidate) \in Nat BY RoutingAssumption, FS_CardinalityType
<1>2. PICK n \in 0..Cardinality(Candidate) : run[r].ranked \in [1..n -> Candidate]
  BY DEF RunState, RankedLists
<1>3. n \in Nat BY <1>1, <1>2
<1>4. Cardinality(1..n) = n BY <1>3, FS_Interval
<1>5. DOMAIN run[r].ranked = 1..n BY <1>2
<1>6. MaxAttempts(r) = Least(RequestedAttempts, n) BY <1>4, <1>5 DEF MaxAttempts
<1> QED BY <1>3, <1>6, RoutingAssumption DEF Least

LEMMA RankedType ==
  ASSUME NEW r \in Request, NEW s \in RankedCandidates(r)
  PROVE  s \in RankedLists
<1>1. Eligible(r) \in SUBSET Candidate BY RoutingAssumption DEF Eligible
<1>2. /\ Cardinality(Eligible(r)) \in Nat
      /\ Cardinality(Candidate) \in Nat
      /\ Cardinality(Eligible(r)) <= Cardinality(Candidate)
  BY <1>1, RoutingAssumption, FS_Subset, FS_CardinalityType
<1>3. s \in [1..Cardinality(Eligible(r)) -> Candidate]
  BY <1>1 DEF RankedCandidates
<1> QED BY <1>2, <1>3 DEF RankedLists

LEMMA NextAttemptType ==
  ASSUME NEW r \in Request, run[r] \in RunState,
         NEW e \in ModelError \cup {"none"}
  PROVE  NextAttempt(r, e) \in RunState
<1>1. MaxAttempts(r) \in 0..RequestedAttempts /\ RequestedAttempts \in Nat
  BY AttemptsBounded, RoutingAssumption
<1>2. run[r].attempt \in 0..RequestedAttempts BY DEF RunState
<1>3. run[r].attempt < MaxAttempts(r) => run[r].attempt + 1 \in 0..RequestedAttempts
  BY <1>1, <1>2
<1> QED BY <1>3 DEF NextAttempt, RunState, Stage

LEMMA RunMoves ==
  ASSUME run \in [Request -> RunState], NEW r \in Request, NEW f \in RunState,
         SetRun(r, f)
  PROVE  run' \in [Request -> RunState]
BY DEF SetRun

LEMMA NewRunType == NewRun \in RunState
<1>1. Cardinality(Candidate) \in Nat BY RoutingAssumption, FS_CardinalityType
<1>2. << >> \in [1..0 -> Candidate] OBVIOUS
<1>3. << >> \in RankedLists
  BY <1>1, <1>2 DEF RankedLists
<1> QED BY <1>3, RoutingAssumption DEF NewRun, RunState, Stage

LEMMA InitType == Init => RoutingTypeOK
BY NewRunType DEF Init, RoutingTypeOK, NewCredential, CredentialState

LEMMA ReleaseType ==
  ASSUME cred \in [Credential -> CredentialState], NEW k \in Credential, NEW e
  PROVE  AfterRelease(k, e) \in CredentialState
<1>1. cred[k] \in CredentialState OBVIOUS
<1>2. Decremented(cred[k].count) \in Nat
  BY <1>1 DEF CredentialState, Decremented
<1> QED BY <1>1, <1>2 DEF AfterRelease, CredentialState

(* What a release does to the shared objects. *)
LEMMA ReleaseKeepsType ==
  ASSUME RoutingTypeOK, NEW lease, NEW e, ReleaseKey(lease, e)
  PROVE  /\ cred' \in [Credential -> CredentialState]
         /\ active' \subseteq Request \X (1..RequestedAttempts) \X Credential
<1>1. CASE lease \in active
  <2>1. lease[3] \in Credential BY <1>1 DEF RoutingTypeOK
  <2>2. AfterRelease(lease[3], e) \in CredentialState
    BY <2>1, ReleaseType DEF RoutingTypeOK
  <2> QED BY <1>1, <2>1, <2>2 DEF ReleaseKey, RoutingTypeOK
<1>2. CASE lease \notin active BY <1>2 DEF ReleaseKey, RoutingTypeOK
<1> QED BY <1>1, <1>2

LEMMA HealthType ==
  ASSUME RoutingTypeOK, NEW p, NEW e, RecordSuccess(p) \/ RecordFailure(p, e)
  PROVE  health' \in [Provider -> Health]
<1>1. CASE RecordSuccess(p) BY <1>1 DEF RecordSuccess, RoutingTypeOK, Health
<1>2. CASE RecordFailure(p, e)
  <2> DEFINE row == [status |-> StatusAfterFailure(p, e),
                     failures |-> health[p].failures + 1]
  <2>1. p \in Provider => row \in Health
    BY DEF RoutingTypeOK, StatusAfterFailure, Health
  <2>2. health' = [health EXCEPT ![p] = row] BY <1>2 DEF RecordFailure
  <2> HIDE DEF row
  <2> QED BY <2>1, <2>2 DEF RoutingTypeOK, Health
<1> QED BY <1>1, <1>2

LEMMA NextType ==
  ASSUME RoutingTypeOK, CallsInOrder, [Next]_vars
  PROVE  RoutingTypeOK'
<1> USE DEF RoutingTypeOK
<1>1. ASSUME NEW r \in Request, Advance(r) PROVE RoutingTypeOK'
  <2>0. run[r] \in RunState OBVIOUS
  <2>1. CASE Execute(r)
    <3>1. [NewRun EXCEPT !.stage = "failed"] \in RunState
      BY NewRunType DEF RunState, Stage
    <3>2. ASSUME NEW s \in RankedCandidates(r)
          PROVE  [NewRun EXCEPT !.stage = "try", !.attempt = 1, !.ranked = s] \in RunState
      <4>1. s \in RankedLists
        BY RankedType
      <4>2. 1 \in 0..RequestedAttempts BY RoutingAssumption
      <4> QED BY <4>1, <4>2, NewRunType DEF RunState, Stage
    <3> QED BY <2>1, <3>1, <3>2, RunMoves DEF Execute
  <2>2. CASE AcquireKey(r)
    <3>1. ASSUME NEW k \in LeastBusy(ProviderOf[CandidateOf(r)]),
                 cred' = [cred EXCEPT ![k].count = @ + 1],
                 active' = active \cup {<<r, run[r].attempt, k>>},
                 SetRun(r, [run[r] EXCEPT !.stage = "secret", !.key = k])
          PROVE  RoutingTypeOK'
      <4>1. k \in Credential BY DEF LeastBusy, EligibleKeys
      <4>2. cred' \in [Credential -> CredentialState]
        <5> DEFINE row == [cred[k] EXCEPT !.count = @ + 1]
        <5>1. row \in CredentialState BY <4>1 DEF CredentialState
        <5>2. cred' = [cred EXCEPT ![k] = row] BY <3>1
        <5> HIDE DEF row
        <5> QED BY <5>1, <5>2
      <4>3. run[r].attempt \in 1..RequestedAttempts
        <5>1. run[r].attempt \in 0..RequestedAttempts BY <2>0 DEF RunState
        <5>2. run[r].attempt >= 1 BY <2>2 DEF AcquireKey, CallsInOrder
        <5> QED BY <5>1, <5>2, RoutingAssumption
      <4>4. active' \subseteq Request \X (1..RequestedAttempts) \X Credential
        BY <3>1, <4>1, <4>3
      <4>5. [run[r] EXCEPT !.stage = "secret", !.key = k] \in RunState
        BY <2>0, <4>1 DEF RunState, Stage
      <4> QED BY <2>2, <3>1, <4>2, <4>4, <4>5, RunMoves DEF AcquireKey
    <3>2. CASE /\ SetRun(r, NextAttempt(r, run[r].lastError))
               /\ UNCHANGED <<cred, active>>
      BY <2>0, <2>2, <3>2, NextAttemptType, RunMoves DEF AcquireKey, RunState
    <3> QED BY <2>2, <3>1, <3>2 DEF AcquireKey
  <2>3. CASE SendRequest(r) \/ SecretFails(r)
    <3>1. /\ [run[r] EXCEPT !.stage = "sent"] \in RunState
          /\ [run[r] EXCEPT !.stage = "failed"] \in RunState
      BY <2>0 DEF RunState, Stage
    <3> QED BY <2>3, <3>1, RunMoves DEF SendRequest, SecretFails
  <2>4. CASE ModelAnswers(r)
    <3>1. [run[r] EXCEPT !.stage = "done", !.key = "none"] \in RunState
      BY <2>0 DEF RunState, Stage
    <3> QED BY <2>4, <3>1, RunMoves, ReleaseKeepsType, HealthType DEF ModelAnswers, Health
  <2>5. ASSUME NEW e \in Errors, ModelFails(r, e) PROVE RoutingTypeOK'
    <3>1. e \in ModelError BY ErrorsAssumption
    <3>2. /\ [run[r] EXCEPT !.stage = "failed", !.key = "none", !.lastError = e] \in RunState
          /\ NextAttempt(r, e) \in RunState
      BY <2>0, <3>1, NextAttemptType DEF RunState, Stage
    <3> QED BY <2>5, <3>2, RunMoves, ReleaseKeepsType, HealthType DEF ModelFails, Health
  <2> QED BY <1>1, <2>1, <2>2, <2>3, <2>4, <2>5 DEF Advance
<1>2. ASSUME NEW k \in Credential, NEW s \in {"available", "disabled"}, AddCredential(k, s)
      PROVE  RoutingTypeOK'
  BY <1>2 DEF AddCredential, NewCredential, CredentialState
<1>3. ASSUME NEW lease \in active, ReclaimStaleLease(lease) PROVE RoutingTypeOK'
  BY <1>3, ReleaseKeepsType DEF ReclaimStaleLease
<1>4. ASSUME NEW k \in Credential, CooldownEnds(k) PROVE RoutingTypeOK'
  BY <1>4 DEF CooldownEnds, CredentialState
<1>5. CASE UNCHANGED vars BY <1>5 DEF vars
<1> QED BY <1>1, <1>2, <1>3, <1>4, <1>5 DEF Next

-----------------------------------------------------------------------------
(* Calls and their leases.                                                 *)

(* What a step of call r makes of its own record. *)
Moved(r) ==
  \/ run'[r].stage \in {"failed", "done"} /\ run'[r].attempt >= run[r].attempt
  \/ /\ run'[r].stage = "try"
     /\ run'[r].attempt > run[r].attempt
  \/ /\ run[r].stage = "try"
     /\ run'[r].stage = "secret"
     /\ run'[r].attempt = run[r].attempt
     /\ run'[r].key \in Credential
  \/ /\ run[r].stage = "secret"
     /\ run'[r].stage = "sent"
     /\ run'[r].attempt = run[r].attempt
     /\ run'[r].key = run[r].key

LEMMA NextAttemptMoves ==
  ASSUME run \in [Request -> RunState], NEW r \in Request, NEW e,
         SetRun(r, NextAttempt(r, e))
  PROVE  Moved(r)
<1>1. run[r].attempt \in Nat /\ run[r] \in RunState BY RoutingAssumption DEF RunState
<1>2. \/ run'[r] = [run[r] EXCEPT !.stage = "try", !.attempt = @ + 1, !.key = "none",
                                  !.lastError = e]
      \/ run'[r] = [run[r] EXCEPT !.stage = "failed", !.key = "none", !.lastError = e]
  BY DEF SetRun, NextAttempt
<1>3. CASE run'[r] = [run[r] EXCEPT !.stage = "try", !.attempt = @ + 1, !.key = "none",
                                    !.lastError = e]
  <2>1. run'[r].stage = "try" BY <1>1, <1>3 DEF RunState
  <2>2. run'[r].attempt = run[r].attempt + 1 BY <1>1, <1>3 DEF RunState
  <2> QED BY <1>1, <2>1, <2>2 DEF Moved
<1>4. CASE run'[r] = [run[r] EXCEPT !.stage = "failed", !.key = "none", !.lastError = e]
  <2>1. run'[r].stage = "failed" BY <1>1, <1>4 DEF RunState
  <2>2. run'[r].attempt = run[r].attempt BY <1>1, <1>4 DEF RunState
  <2> QED BY <1>1, <2>1, <2>2 DEF Moved
<1> QED BY <1>2, <1>3, <1>4

LEMMA AdvanceMoves ==
  ASSUME RoutingTypeOK, CallsInOrder, NEW r \in Request, Advance(r)
  PROVE  /\ Moved(r)
         /\ \A q \in Request \ {r} : run'[q] = run[q]
         /\ run'[r].stage # "new"
<1>0. run \in [Request -> RunState] /\ run[r] \in RunState BY DEF RoutingTypeOK
<1>1. run[r].attempt \in Nat BY <1>0, RoutingAssumption DEF RunState
<1>2. ASSUME Execute(r) PROVE Moved(r)
  <2>1. \/ run'[r] = [NewRun EXCEPT !.stage = "failed"] /\ run[r].attempt = 0
        \/ run'[r].stage = "try" /\ run'[r].attempt = 1 /\ run[r].attempt = 0
    <3>1. run[r].attempt = 0 BY <1>2 DEF Execute, CallsInOrder
    <3>2. \/ run'[r] = [NewRun EXCEPT !.stage = "failed"]
          \/ \E s \in RankedCandidates(r) :
               run'[r] = [NewRun EXCEPT !.stage = "try", !.attempt = 1, !.ranked = s]
      BY <1>0, <1>2 DEF Execute, SetRun
    <3> QED BY <3>1, <3>2 DEF NewRun
  <2> QED BY <2>1 DEF Moved, NewRun
<1>3. ASSUME AcquireKey(r) PROVE Moved(r)
  <2>1. CASE SetRun(r, NextAttempt(r, run[r].lastError))
    BY <1>0, <2>1, NextAttemptMoves
  <2>2. ASSUME NEW k \in LeastBusy(ProviderOf[CandidateOf(r)]),
               SetRun(r, [run[r] EXCEPT !.stage = "secret", !.key = k])
        PROVE  Moved(r)
    <3>1. k \in Credential BY DEF LeastBusy, EligibleKeys
    <3>2. run'[r] = [run[r] EXCEPT !.stage = "secret", !.key = k]
      BY <1>0, <2>2 DEF SetRun
    <3>3. run[r].stage = "try" BY <1>3 DEF AcquireKey
    <3> QED BY <1>0, <3>1, <3>2, <3>3 DEF Moved, RunState
  <2> QED BY <1>3, <2>1, <2>2 DEF AcquireKey
<1>4. ASSUME SendRequest(r) \/ SecretFails(r) PROVE Moved(r)
  <2>1. /\ run[r].stage = "secret"
        /\ \/ run'[r] = [run[r] EXCEPT !.stage = "sent"]
           \/ run'[r] = [run[r] EXCEPT !.stage = "failed"]
    BY <1>0, <1>4 DEF SendRequest, SecretFails, SetRun
  <2> QED BY <1>0, <1>1, <2>1 DEF Moved, RunState
<1>5. ASSUME ModelAnswers(r) PROVE Moved(r)
  <2>1. run'[r] = [run[r] EXCEPT !.stage = "done", !.key = "none"]
    BY <1>0, <1>5 DEF ModelAnswers, SetRun
  <2> QED BY <1>0, <1>1, <2>1 DEF Moved, RunState
<1>6. ASSUME NEW e \in Errors, ModelFails(r, e) PROVE Moved(r)
  <2>1. CASE e \in PermanentError
    <3>1. run'[r] = [run[r] EXCEPT !.stage = "failed", !.key = "none", !.lastError = e]
      BY <1>0, <1>6, <2>1 DEF ModelFails, SetRun
    <3> QED BY <1>0, <1>1, <3>1 DEF Moved, RunState
  <2>2. CASE e \notin PermanentError
    BY <1>0, <1>6, <2>2, NextAttemptMoves DEF ModelFails
  <2> QED BY <2>1, <2>2
<1>7. Moved(r) BY <1>2, <1>3, <1>4, <1>5, <1>6 DEF Advance
<1>8. \A q \in Request \ {r} : run'[q] = run[q]
  BY <1>0 DEF Advance, Execute, AcquireKey, SendRequest, SecretFails, ModelAnswers,
              ModelFails, SetRun
<1> QED BY <1>7, <1>8 DEF Moved

LEMMA NextCalls ==
  ASSUME RoutingTypeOK, CallsInOrder, [Next]_vars
  PROVE  CallsInOrder'
<1>1. ASSUME NEW r \in Request, Advance(r) PROVE CallsInOrder'
  <2>1. run[r].attempt \in Nat /\ run'[r].attempt \in Nat
    BY NextType, RoutingAssumption DEF RoutingTypeOK, RunState
  <2>2. Moved(r) /\ \A q \in Request \ {r} : run'[q] = run[q]
    BY <1>1, AdvanceMoves
  <2>3. /\ run'[r].stage \in {"try", "secret", "sent"} => run'[r].attempt >= 1
        /\ run'[r].stage \in {"secret", "sent"} => run'[r].key \in Credential
    BY <2>1, <2>2 DEF Moved, CallsInOrder
  <2>4. run'[r].stage # "new" BY <2>2 DEF Moved
  <2>5. ASSUME NEW q \in Request
        PROVE  /\ run'[q].stage = "new" => run'[q].attempt = 0
               /\ run'[q].stage \in {"try", "secret", "sent"} => run'[q].attempt >= 1
               /\ run'[q].stage \in {"secret", "sent"} => run'[q].key \in Credential
    <3>1. CASE q = r BY <2>3, <2>4, <3>1
    <3>2. CASE q # r
      <4>1. run'[q] = run[q] BY <2>2, <3>2
      <4> QED BY <4>1 DEF CallsInOrder
    <3> QED BY <3>1, <3>2
  <2> QED BY <2>5 DEF CallsInOrder
<1>2. CASE UNCHANGED run BY <1>2 DEF CallsInOrder
<1> QED BY <1>1, <1>2 DEF Next, vars, AddCredential, ReclaimStaleLease, CooldownEnds

-----------------------------------------------------------------------------
(* What a step does to the keys and the leases.                            *)

Acquires(r, k) ==
  /\ k \in Credential
  /\ cred[k].status # "none"
  /\ HasRoom(k)
  /\ run[r].stage = "try"
  /\ run'[r].key = k
  /\ cred' = [cred EXCEPT ![k].count = @ + 1]
  /\ active' = active \cup {<<r, run[r].attempt, k>>}

(* Call r takes a key, goes on without one, or gives its own back. *)
LeaseMoves(r) ==
  \/ \E k \in Credential : Acquires(r, k) /\ run'[r].stage = "secret"
  \/ /\ run'[r].stage = "secret" => run[r].stage = "secret"
     /\ UNCHANGED <<cred, active>>
  \/ /\ run'[r].stage \notin {"secret", "sent"}
     /\ \E e : ReleaseKey(LeaseOf(r), e)

LEMMA AdvanceLeases ==
  ASSUME RoutingTypeOK, CallsInOrder, NEW r \in Request, Advance(r)
  PROVE  LeaseMoves(r)
<1>0. run \in [Request -> RunState] /\ run[r] \in RunState BY DEF RoutingTypeOK
<1>1. ASSUME NEW e, SetRun(r, NextAttempt(r, e))
      PROVE  run'[r].stage \in {"try", "failed"}
  <2>1. \/ run'[r] = [run[r] EXCEPT !.stage = "try", !.attempt = @ + 1, !.key = "none",
                                    !.lastError = e]
        \/ run'[r] = [run[r] EXCEPT !.stage = "failed", !.key = "none", !.lastError = e]
    BY <1>0, <1>1 DEF SetRun, NextAttempt
  <2> QED BY <1>0, <2>1 DEF RunState
<1>2. ASSUME Execute(r) PROVE LeaseMoves(r)
  <2>1. \/ run'[r] = [NewRun EXCEPT !.stage = "failed"]
        \/ \E s \in RankedCandidates(r) :
             run'[r] = [NewRun EXCEPT !.stage = "try", !.attempt = 1, !.ranked = s]
    BY <1>0, <1>2 DEF Execute, SetRun
  <2>2. run'[r].stage # "secret" BY <2>1 DEF NewRun
  <2> QED BY <1>2, <2>2 DEF Execute, LeaseMoves
<1>3. ASSUME AcquireKey(r) PROVE LeaseMoves(r)
  <2>1. CASE SetRun(r, NextAttempt(r, run[r].lastError)) /\ UNCHANGED <<cred, active>>
    BY <1>1, <2>1 DEF LeaseMoves
  <2>2. ASSUME NEW k \in LeastBusy(ProviderOf[CandidateOf(r)]),
               cred' = [cred EXCEPT ![k].count = @ + 1],
               active' = active \cup {<<r, run[r].attempt, k>>},
               SetRun(r, [run[r] EXCEPT !.stage = "secret", !.key = k])
        PROVE  LeaseMoves(r)
    <3>1. k \in Credential /\ cred[k].status # "none" /\ HasRoom(k)
      BY DEF LeastBusy, EligibleKeys
    <3>2. run'[r] = [run[r] EXCEPT !.stage = "secret", !.key = k]
      BY <1>0, <2>2 DEF SetRun
    <3>3. run'[r].stage = "secret" /\ run'[r].key = k BY <1>0, <3>2 DEF RunState
    <3> QED BY <1>3, <2>2, <3>1, <3>3 DEF AcquireKey, Acquires, LeaseMoves
  <2> QED BY <1>3, <2>1, <2>2 DEF AcquireKey
<1>4. ASSUME SendRequest(r) \/ SecretFails(r) PROVE LeaseMoves(r)
  BY <1>4 DEF SendRequest, SecretFails, LeaseMoves
<1>5. ASSUME ModelAnswers(r) PROVE LeaseMoves(r)
  <2>1. run'[r] = [run[r] EXCEPT !.stage = "done", !.key = "none"]
    BY <1>0, <1>5 DEF ModelAnswers, SetRun
  <2>2. run'[r].stage = "done" BY <1>0, <2>1 DEF RunState
  <2> QED BY <1>5, <2>2 DEF ModelAnswers, LeaseMoves
<1>6. ASSUME NEW e \in Errors, ModelFails(r, e) PROVE LeaseMoves(r)
  <2>1. CASE e \in PermanentError
    <3>1. run'[r] = [run[r] EXCEPT !.stage = "failed", !.key = "none", !.lastError = e]
      BY <1>0, <1>6, <2>1 DEF ModelFails, SetRun
    <3>2. run'[r].stage = "failed" BY <1>0, <3>1 DEF RunState
    <3> QED BY <1>6, <3>2 DEF ModelFails, LeaseMoves
  <2>2. CASE e \notin PermanentError
    <3>1. run'[r].stage \in {"try", "failed"} BY <1>1, <1>6, <2>2 DEF ModelFails
    <3> QED BY <1>6, <3>1 DEF ModelFails, LeaseMoves
  <2> QED BY <2>1, <2>2
<1> QED BY <1>2, <1>3, <1>4, <1>5, <1>6 DEF Advance

LEMMA ReleaseMoves ==
  ASSUME RoutingTypeOK, NEW lease \in active, NEW e, ReleaseKey(lease, e)
  PROVE  /\ active' = active \ {lease}
         /\ lease[3] \in Credential
         /\ cred' = [cred EXCEPT ![lease[3]] = AfterRelease(lease[3], e)]
         /\ cred'[lease[3]].count = Decremented(cred[lease[3]].count)
         /\ cred'[lease[3]].status = "none" => cred[lease[3]].status = "none"
<1>1. lease[3] \in Credential BY DEF RoutingTypeOK
<1>2. /\ active' = active \ {lease}
      /\ cred' = [cred EXCEPT ![lease[3]] = AfterRelease(lease[3], e)]
  BY DEF ReleaseKey
<1>3. cred'[lease[3]] = AfterRelease(lease[3], e)
  BY <1>1, <1>2 DEF RoutingTypeOK
<1>4. cred[lease[3]] \in CredentialState BY <1>1 DEF RoutingTypeOK
<1>5. /\ AfterRelease(lease[3], e).count = Decremented(cred[lease[3]].count)
      /\ AfterRelease(lease[3], e).status = "none" => cred[lease[3]].status = "none"
  BY <1>4 DEF AfterRelease, CredentialState
<1> QED BY <1>1, <1>2, <1>3, <1>5

(* The leases of one key are a finite set. *)
LEMMA LeasesFinite ==
  ASSUME IsFiniteSet(active), NEW k
  PROVE  IsFiniteSet(LeasesOn(k)) /\ Cardinality(LeasesOn(k)) \in Nat
<1>1. LeasesOn(k) \in SUBSET active BY DEF LeasesOn
<1>2. IsFiniteSet(LeasesOn(k)) BY <1>1, FS_Subset
<1> QED BY <1>2, FS_CardinalityType

(* What is invariant of one key. *)
KeyInOrder(k) ==
  /\ cred[k].status = "none" => LeasesOn(k) = {} /\ cred[k].count = 0
  /\ cred[k].count <= Cardinality(LeasesOn(k))
  /\ k \notin Rotated =>
       /\ cred[k].count = Cardinality(LeasesOn(k))
       /\ cred[k].count <= MaxConcurrent[k]

KeysInOrder == \A k \in Credential : KeyInOrder(k)

LEMMA KeysAreKeys == KeysInOrder <=> UnregisteredIsFree /\ CountsLeases /\ CountsBounded
BY DEF KeysInOrder, KeyInOrder, UnregisteredIsFree, CountsLeases, CountsBounded

LEMMA KeyKept ==
  ASSUME NEW k \in Credential, KeyInOrder(k), cred'[k] = cred[k], LeasesOn(k)' = LeasesOn(k)
  PROVE  KeyInOrder(k)'
BY DEF KeyInOrder

(* A release takes one lease and counts it off. *)
LEMMA ReleaseKeepsKeys ==
  ASSUME RoutingTypeOK, IsFiniteSet(active), KeysInOrder,
         NEW lease \in active, NEW e, ReleaseKey(lease, e)
  PROVE  KeysInOrder'
<1> DEFINE k == lease[3]
<1>1. /\ active' = active \ {lease}
      /\ k \in Credential
      /\ cred' = [cred EXCEPT ![k] = AfterRelease(k, e)]
      /\ cred'[k].count = Decremented(cred[k].count)
      /\ cred'[k].status = "none" => cred[k].status = "none"
  BY ReleaseMoves
<1>2. lease \in LeasesOn(k) BY DEF LeasesOn
<1>3. LeasesOn(k)' = LeasesOn(k) \ {lease} BY <1>1 DEF LeasesOn
<1>4. /\ Cardinality(LeasesOn(k)) \in Nat
      /\ Cardinality(LeasesOn(k) \ {lease}) \in Nat
      /\ Cardinality(LeasesOn(k) \ {lease}) = Cardinality(LeasesOn(k)) - 1
  BY <1>2, LeasesFinite, FS_RemoveElement, FS_CardinalityType
<1>5. cred[k].count \in Nat BY <1>1 DEF RoutingTypeOK, CredentialState
<1>6. MaxConcurrent[k] \in Nat BY <1>1, RoutingAssumption
<1>7. KeyInOrder(k) BY <1>1 DEF KeysInOrder
<1>8. KeyInOrder(k)'
  <2>1. cred'[k].status # "none" BY <1>1, <1>2, <1>7 DEF KeyInOrder
  <2>2. cred'[k].count = IF cred[k].count = 0 THEN 0 ELSE cred[k].count - 1
    BY <1>1 DEF Decremented
  <2> QED BY <1>3, <1>4, <1>5, <1>6, <1>7, <2>1, <2>2 DEF KeyInOrder
<1>9. ASSUME NEW j \in Credential, j # k PROVE KeyInOrder(j)'
  <2>1. cred'[j] = cred[j] BY <1>1, <1>9 DEF RoutingTypeOK
  <2>2. LeasesOn(j)' = LeasesOn(j) BY <1>1, <1>9 DEF LeasesOn
  <2> QED BY <2>1, <2>2, KeyKept DEF KeysInOrder
<1> QED BY <1>8, <1>9 DEF KeysInOrder

(* A key is taken within its limit, under a lease that was not there. *)
LEMMA AcquireKeepsKeys ==
  ASSUME RoutingTypeOK, IsFiniteSet(active), KeysInOrder, LeasesInOrder,
         NEW r \in Request, NEW k \in Credential, Acquires(r, k)
  PROVE  KeysInOrder'
<1> DEFINE lease == <<r, run[r].attempt, k>>
<1>1. /\ active' = active \cup {lease}
      /\ cred' = [cred EXCEPT ![k].count = @ + 1]
      /\ cred[k].status # "none"
      /\ cred[k].count < MaxConcurrent[k]
      /\ run[r].stage = "try"
  BY DEF Acquires, HasRoom
<1>2. cred[k] \in CredentialState BY DEF RoutingTypeOK
<1>3. cred[k].count \in Nat BY <1>2 DEF CredentialState
<1>4. MaxConcurrent[k] \in Nat BY RoutingAssumption
<1>5. lease \notin active
  <2>1. run[r].attempt \in Nat BY RoutingAssumption DEF RoutingTypeOK, RunState
  <2>2. ASSUME lease \in active PROVE FALSE
    <3>1. lease[1] = r /\ lease[2] = run[r].attempt OBVIOUS
    <3>2. lease[2] < run[r].attempt BY <1>1, <2>2, <3>1 DEF LeasesInOrder
    <3> QED BY <2>1, <3>1, <3>2
  <2> QED BY <2>2
<1>6. lease[3] = k OBVIOUS
<1> HIDE DEF lease
<1>7. LeasesOn(k)' = LeasesOn(k) \cup {lease} /\ lease \notin LeasesOn(k)
  BY <1>1, <1>5, <1>6 DEF LeasesOn
<1>8. /\ Cardinality(LeasesOn(k)) \in Nat
      /\ Cardinality(LeasesOn(k) \cup {lease}) = Cardinality(LeasesOn(k)) + 1
  BY <1>7, LeasesFinite, FS_AddElement
<1>9. KeyInOrder(k)'
  <2> DEFINE row == [cred[k] EXCEPT !.count = @ + 1]
  <2>1. row.status = cred[k].status /\ row.count = cred[k].count + 1
    BY <1>2 DEF CredentialState
  <2>2. cred'[k] = row BY <1>1 DEF RoutingTypeOK
  <2> HIDE DEF row
  <2>3. KeyInOrder(k) BY DEF KeysInOrder
  <2> QED BY <1>1, <1>3, <1>4, <1>7, <1>8, <2>1, <2>2, <2>3 DEF KeyInOrder
<1>10. ASSUME NEW j \in Credential, j # k PROVE KeyInOrder(j)'
  <2>1. cred'[j] = cred[j] BY <1>1, <1>10 DEF RoutingTypeOK
  <2>2. LeasesOn(j)' = LeasesOn(j) BY <1>1, <1>6, <1>10 DEF LeasesOn
  <2> QED BY <2>1, <2>2, KeyKept DEF KeysInOrder
<1> QED BY <1>9, <1>10 DEF KeysInOrder

-----------------------------------------------------------------------------
(* The invariant.                                                          *)

LEMMA ReleaseIsOf ==
  ASSUME NEW lease, NEW e, ReleaseKey(lease, e)
  PROVE  active' = active \ {lease}
BY DEF ReleaseKey

(* A step of one call. *)
LEMMA AdvanceKeepsLeases ==
  ASSUME RoutingInv, NEW r \in Request, Advance(r)
  PROVE  IsFiniteSet(active') /\ KeysInOrder' /\ LeasesInOrder' /\ UsersHold'
<1> USE DEF RoutingInv
<1>0. /\ Moved(r) /\ run'[r].stage # "new"
      /\ \A q \in Request \ {r} : run'[q] = run[q]
      /\ LeaseMoves(r)
      /\ KeysInOrder
  BY AdvanceMoves, AdvanceLeases, KeysAreKeys
<1>1. RoutingTypeOK' BY NextType DEF Next
<1>2. \A q \in Request : run[q].attempt \in Nat /\ run'[q].attempt \in Nat
  BY <1>1, RoutingAssumption DEF RoutingTypeOK, RunState
<1>3. \A lease \in active : lease[1] \in Request /\ lease[2] \in Nat /\ lease[3] \in Credential
  BY RoutingAssumption DEF RoutingTypeOK
<1>4. run'[r].attempt >= run[r].attempt BY <1>0, <1>2 DEF Moved
<1>5. ASSUME NEW lease \in active
      PROVE  /\ lease[2] <= run'[lease[1]].attempt
             /\ run'[lease[1]].stage = "try" => lease[2] < run'[lease[1]].attempt
             /\ run'[lease[1]].stage # "new"
  <2>1. /\ lease[2] <= run[lease[1]].attempt
        /\ run[lease[1]].stage = "try" => lease[2] < run[lease[1]].attempt
        /\ run[lease[1]].stage # "new"
    BY DEF LeasesInOrder
  <2>2. CASE lease[1] = r
    <3>1. run'[r].stage = "try" => run'[r].attempt > run[r].attempt
      BY <1>0 DEF Moved
    <3> QED BY <1>0, <1>2, <1>3, <1>4, <2>1, <2>2, <3>1
  <2>3. CASE lease[1] # r
    <3>1. run'[lease[1]] = run[lease[1]] BY <1>0, <1>3, <2>3
    <3> QED BY <2>1, <3>1
  <2> QED BY <2>2, <2>3
<1>6. ASSUME NEW q \in Request \ Slow, q # r, LeaseOf(q) \in active => LeaseOf(q) \in active'
      PROVE  run'[q].stage \in {"secret", "sent"} => LeaseOf(q)' \in active'
  <2>1. run'[q] = run[q] BY <1>0, <1>6
  <2>2. LeaseOf(q)' = LeaseOf(q) BY <2>1 DEF LeaseOf
  <2> QED BY <1>6, <2>1, <2>2 DEF UsersHold
<1>7. ASSUME NEW k \in Credential, Acquires(r, k), run'[r].stage = "secret"
      PROVE  IsFiniteSet(active') /\ KeysInOrder' /\ LeasesInOrder' /\ UsersHold'
  <2>1. active' = active \cup {<<r, run[r].attempt, k>>} BY <1>7 DEF Acquires
  <2>2. run'[r].attempt = run[r].attempt /\ run'[r].key = k
    BY <1>0, <1>7 DEF Moved, Acquires
  <2>3. LeaseOf(r)' = <<r, run[r].attempt, k>> BY <2>2 DEF LeaseOf
  <2>4. IsFiniteSet(active') BY <2>1, FS_AddElement
  <2>5. LeasesInOrder'
    <3>1. ASSUME NEW lease \in active'
          PROVE  /\ lease[2] <= run'[lease[1]].attempt
                 /\ run'[lease[1]].stage = "try" => lease[2] < run'[lease[1]].attempt
                 /\ run'[lease[1]].stage # "new"
      <4>1. CASE lease \in active BY <1>5, <4>1
      <4>2. CASE lease = <<r, run[r].attempt, k>>
        <5>1. lease[1] = r /\ lease[2] = run[r].attempt BY <4>2
        <5> QED BY <1>2, <1>7, <2>2, <5>1
      <4> QED BY <2>1, <4>1, <4>2
    <3> QED BY <3>1 DEF LeasesInOrder
  <2>6. UsersHold' BY <1>6, <2>1, <2>3 DEF UsersHold
  <2> QED BY <1>0, <1>7, <2>4, <2>5, <2>6, AcquireKeepsKeys
<1>8. CASE /\ run'[r].stage = "secret" => run[r].stage = "secret"
           /\ UNCHANGED <<cred, active>>
  <2>1. LeasesInOrder' BY <1>5, <1>8 DEF LeasesInOrder
  <2>2. UsersHold'
    <3>1. run'[r].stage # "secret"
      BY <1>0, <1>8 DEF Moved
    <3>2. ASSUME run'[r].stage = "sent", r \notin Slow PROVE LeaseOf(r)' \in active'
      <4>1. /\ run[r].stage = "secret"
            /\ run'[r].attempt = run[r].attempt /\ run'[r].key = run[r].key
        BY <1>0, <3>2 DEF Moved
      <4>2. LeaseOf(r)' = LeaseOf(r) BY <4>1 DEF LeaseOf
      <4> QED BY <1>8, <3>2, <4>1, <4>2 DEF UsersHold
    <3> QED BY <1>6, <1>8, <3>1, <3>2 DEF UsersHold
  <2>3. KeysInOrder'
    <3>1. \A k \in Credential : LeasesOn(k)' = LeasesOn(k) BY <1>8 DEF LeasesOn
    <3> QED BY <1>0, <1>8, <3>1, KeyKept DEF KeysInOrder
  <2> QED BY <1>8, <2>1, <2>2, <2>3
<1>9. ASSUME run'[r].stage \notin {"secret", "sent"}, NEW e, ReleaseKey(LeaseOf(r), e)
      PROVE  IsFiniteSet(active') /\ KeysInOrder' /\ LeasesInOrder' /\ UsersHold'
  <2>1. active' = active \ {LeaseOf(r)} BY <1>9, ReleaseIsOf
  <2>2. IsFiniteSet(active') BY <2>1, FS_RemoveElement
  <2>3. LeasesInOrder' BY <1>5, <2>1 DEF LeasesInOrder
  <2>4. UsersHold'
    <3>1. ASSUME NEW q \in Request \ Slow, q # r PROVE LeaseOf(q) # LeaseOf(r)
      BY <3>1 DEF LeaseOf
    <3> QED BY <1>6, <1>9, <2>1, <3>1 DEF UsersHold
  <2>5. KeysInOrder'
    <3>1. CASE LeaseOf(r) \in active BY <1>0, <1>9, <3>1, ReleaseKeepsKeys
    <3>2. CASE LeaseOf(r) \notin active
      <4>1. UNCHANGED <<cred, active>> BY <1>9, <3>2 DEF ReleaseKey
      <4>2. \A k \in Credential : LeasesOn(k)' = LeasesOn(k) BY <4>1 DEF LeasesOn
      <4> QED BY <1>0, <4>1, <4>2, KeyKept DEF KeysInOrder
    <3> QED BY <3>1, <3>2
  <2> QED BY <2>2, <2>3, <2>4, <2>5
<1> QED BY <1>0, <1>7, <1>8, <1>9 DEF LeaseMoves

LEMMA AddKeepsKeys ==
  ASSUME RoutingTypeOK, IsFiniteSet(active), KeysInOrder, NEW k \in Credential,
         NEW s \in {"available", "disabled"}, AddCredential(k, s)
  PROVE  KeysInOrder'
<1>1. \A j \in Credential : LeasesOn(j)' = LeasesOn(j) BY DEF AddCredential, LeasesOn
<1>2. cred'[k].status # "none" /\ cred'[k].count = 0
  BY DEF AddCredential, NewCredential, RoutingTypeOK
<1>3. Cardinality(LeasesOn(k)) \in Nat BY LeasesFinite
<1>4. k \notin Rotated => Cardinality(LeasesOn(k)) = 0
  BY FS_EmptySet DEF AddCredential, KeysInOrder, KeyInOrder
<1>5. MaxConcurrent[k] \in Nat BY RoutingAssumption
<1>6. KeyInOrder(k)' BY <1>1, <1>2, <1>3, <1>4, <1>5 DEF KeyInOrder
<1>7. ASSUME NEW j \in Credential, j # k PROVE KeyInOrder(j)'
  <2>1. cred'[j] = cred[j] BY <1>7 DEF AddCredential, RoutingTypeOK
  <2> QED BY <1>1, <2>1, KeyKept DEF KeysInOrder
<1> QED BY <1>6, <1>7 DEF KeysInOrder

(* A lease is taken back from a call that is slow or does not use it. *)
LEMMA ReclaimKeepsLeases ==
  ASSUME RoutingInv, NEW lease \in active, ReclaimStaleLease(lease)
  PROVE  IsFiniteSet(active') /\ KeysInOrder' /\ LeasesInOrder' /\ UsersHold'
<1> USE DEF RoutingInv
<1>1. /\ ReleaseKey(lease, "reclaimed") /\ run' = run
      /\ lease[1] \in Slow \/ ~InUse(lease)
      /\ KeysInOrder
  BY KeysAreKeys DEF ReclaimStaleLease
<1>2. active' = active \ {lease} BY <1>1, ReleaseIsOf
<1>3. IsFiniteSet(active') BY <1>2, FS_RemoveElement
<1>4. LeasesInOrder' BY <1>1, <1>2 DEF LeasesInOrder
<1>5. UsersHold'
  <2>1. ASSUME NEW r \in Request \ Slow, run[r].stage \in {"secret", "sent"}
        PROVE  LeaseOf(r) # lease
    <3>1. LeaseOf(r)[1] = r BY DEF LeaseOf
    <3> QED BY <1>1, <2>1, <3>1 DEF InUse
  <2>2. \A r \in Request : LeaseOf(r)' = LeaseOf(r) BY <1>1 DEF LeaseOf
  <2> QED BY <1>1, <1>2, <2>1, <2>2 DEF UsersHold
<1>6. KeysInOrder' BY <1>1, ReleaseKeepsKeys
<1> QED BY <1>3, <1>4, <1>5, <1>6

(* RoutingInv is inductive. *)
THEOREM RoutingInvariance == Spec => []RoutingInv
<1>1. Init => RoutingInv
  <2> SUFFICES ASSUME Init PROVE RoutingInv OBVIOUS
  <2>1. RoutingTypeOK BY InitType
  <2>2. active = {} /\ IsFiniteSet(active) /\ Cardinality({}) = 0
    BY FS_EmptySet DEF Init
  <2>3. \A k \in Credential : LeasesOn(k) = {} BY <2>2 DEF LeasesOn
  <2>4. \A k \in Credential : cred[k].count = 0 BY DEF Init, NewCredential
  <2>5. \A k \in Credential : MaxConcurrent[k] \in Nat BY RoutingAssumption
  <2>6. KeysInOrder
    <3>1. ASSUME NEW k \in Credential PROVE KeyInOrder(k)
      <4>1. LeasesOn(k) = {} /\ Cardinality(LeasesOn(k)) = 0
        BY <2>2, <2>3
      <4>2. cred[k].count = 0 /\ 0 <= MaxConcurrent[k]
        BY <2>4, <2>5
      <4> QED BY <4>1, <4>2 DEF KeyInOrder
    <3> QED BY <3>1 DEF KeysInOrder
  <2>7. CallsInOrder /\ UsersHold
    BY DEF Init, NewRun, CallsInOrder, UsersHold
  <2> QED BY <2>1, <2>2, <2>6, <2>7, KeysAreKeys DEF RoutingInv, LeasesInOrder
<1>2. RoutingInv /\ [Next]_vars => RoutingInv'
  <2> SUFFICES ASSUME RoutingInv, [Next]_vars PROVE RoutingInv' OBVIOUS
  <2>1. RoutingTypeOK' /\ CallsInOrder' BY NextType, NextCalls DEF RoutingInv
  <2>2. KeysInOrder BY KeysAreKeys DEF RoutingInv
  <2>3. KeysInOrder' <=> UnregisteredIsFree' /\ CountsLeases' /\ CountsBounded'
    BY DEF KeysInOrder, KeyInOrder, UnregisteredIsFree, CountsLeases, CountsBounded
  <2>4. ASSUME NEW r \in Request, Advance(r) PROVE RoutingInv'
    BY <2>1, <2>3, <2>4, AdvanceKeepsLeases DEF RoutingInv
  <2>5. ASSUME NEW k \in Credential, NEW s \in {"available", "disabled"}, AddCredential(k, s)
        PROVE  RoutingInv'
    <3>1. active' = active /\ run' = run BY <2>5 DEF AddCredential
    <3>2. LeasesInOrder' /\ UsersHold'
      BY <3>1 DEF RoutingInv, LeasesInOrder, UsersHold, LeaseOf
    <3>3. KeysInOrder' BY <2>2, <2>5, AddKeepsKeys DEF RoutingInv
    <3> QED BY <2>1, <2>3, <3>1, <3>2, <3>3 DEF RoutingInv
  <2>6. ASSUME NEW lease \in active, ReclaimStaleLease(lease) PROVE RoutingInv'
    BY <2>1, <2>3, <2>6, ReclaimKeepsLeases DEF RoutingInv
  <2>7. ASSUME NEW k \in Credential, CooldownEnds(k) PROVE RoutingInv'
    <3>1. active' = active /\ run' = run BY <2>7 DEF CooldownEnds
    <3>2. LeasesInOrder' /\ UsersHold'
      BY <3>1 DEF RoutingInv, LeasesInOrder, UsersHold, LeaseOf
    <3>3. ASSUME NEW j \in Credential
          PROVE  cred'[j].status = cred[j].status /\ cred'[j].count = cred[j].count
      BY <2>7 DEF CooldownEnds, RoutingInv, RoutingTypeOK, CredentialState
    <3>4. \A j \in Credential : LeasesOn(j)' = LeasesOn(j) BY <3>1 DEF LeasesOn
    <3>5. KeysInOrder' BY <2>2, <3>3, <3>4 DEF KeysInOrder, KeyInOrder
    <3> QED BY <2>1, <2>3, <3>1, <3>2, <3>5 DEF RoutingInv
  <2>8. CASE UNCHANGED vars
    BY <2>8 DEF vars, RoutingInv, RoutingTypeOK, CallsInOrder, LeasesInOrder,
       UnregisteredIsFree, CountsLeases, CountsBounded, UsersHold, LeasesOn, LeaseOf
  <2> QED BY <2>4, <2>5, <2>6, <2>7, <2>8 DEF Next
<1> QED BY <1>1, <1>2, PTL DEF Spec

(* Calls, keys, leases and health are well formed in every reachable state. *)
THEOREM RoutingTypes == Spec => []RoutingTypeOK
BY RoutingInvariance, PTL DEF RoutingInv

(* The count of a key that is not registered anew is the number of its     *)
(* leases, whichever way calls end, and never more than it for any key.    *)
THEOREM KeysAreCounted == Spec => []CountsLeases
BY RoutingInvariance, PTL DEF RoutingInv

(* The calls that use a key, each under its own lease, are not more than   *)
(* the leases counted on the key, hence not more than its maxConcurrent.   *)
THEOREM KeysAreLimited == Spec => []WithinLimit
<1>1. RoutingInv => WithinLimit
  <2> SUFFICES ASSUME RoutingInv, NEW k \in Credential \ Rotated
               PROVE  Cardinality(UsersOf(k) \ Slow) <= MaxConcurrent[k]
    BY DEF WithinLimit
  <2> DEFINE users == UsersOf(k) \ Slow
             f == [r \in users |-> LeaseOf(r)]
  <2>1. \A r \in users : LeaseOf(r) \in LeasesOn(k)
    <3> SUFFICES ASSUME NEW r \in users PROVE LeaseOf(r) \in LeasesOn(k) OBVIOUS
    <3>1. r \in Request \ Slow /\ run[r].stage \in {"secret", "sent"} /\ run[r].key = k
      BY DEF UsersOf
    <3>2. LeaseOf(r) \in active BY <3>1 DEF RoutingInv, UsersHold
    <3>3. LeaseOf(r)[3] = k BY <3>1 DEF LeaseOf
    <3> QED BY <3>2, <3>3 DEF LeasesOn
  <2>2. \A r, q \in users : LeaseOf(r) = LeaseOf(q) => r = q BY DEF LeaseOf
  <2>3. f \in Injection(users, LeasesOn(k)) BY <2>1, <2>2 DEF Injection, IsInjective
  <2>4. IsFiniteSet(LeasesOn(k)) /\ Cardinality(LeasesOn(k)) \in Nat
    BY LeasesFinite DEF RoutingInv
  <2> HIDE DEF users, f
  <2>5. IsFiniteSet(users) /\ Cardinality(users) <= Cardinality(LeasesOn(k))
    BY <2>3, <2>4, FS_Injection
  <2>6. Cardinality(users) \in Nat BY <2>5, FS_CardinalityType
  <2>7. /\ cred[k].count = Cardinality(LeasesOn(k))
        /\ cred[k].count <= MaxConcurrent[k]
    BY DEF RoutingInv, CountsLeases, CountsBounded
  <2>8. MaxConcurrent[k] \in Nat BY RoutingAssumption
  <2> QED BY <2>4, <2>5, <2>6, <2>7, <2>8 DEF users
<1> QED BY <1>1, RoutingInvariance, PTL
=============================================================================
