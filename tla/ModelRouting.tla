---------------------------- MODULE ModelRouting ----------------------------
(***************************************************************************)
(* Calls of models: ModelRouter.execute, the KeyPoolManager it leases keys *)
(* from and the ProviderHealthTracker it ranks candidates by.              *)
(*                                                                         *)
(* One process runs many calls of execute.  A call gives way to the others *)
(* where it awaits the secret of its key and where it awaits the answer of *)
(* the provider, and what it does between two awaits is one step.  The     *)
(* ranking is made once, when the call begins; credentials, leases and     *)
(* health are objects that all calls share.                                *)
(*                                                                         *)
(* registerPool is left out, no code calls it: the candidates of acquireKey *)
(* are the registered credentials of the provider.  The health of single   *)
(* models is recorded but not read when calls are routed, and is left out. *)
(***************************************************************************)
EXTENDS Integers, FiniteSets

CONSTANTS
  Request,        \* calls of execute
  Provider,
  Candidate,      \* registered candidates, a model of a provider each
  Credential,     \* keys
  ProviderOf,     \* the provider of a candidate or of a key
  Suits,          \* Suits[r]: candidates whose sensitivity and capabilities
                  \*   meet request r
  Preference,     \* Preference[r][c]: how well c meets the preferred model
                  \*   and provider of r
  Order,          \* Order[c]: place of c by priority, then by name
  RequestedAttempts, \* maxAttempts of a request
  MaxConcurrent,  \* MaxConcurrent[k]
  FailureThreshold,
  Rotated,        \* the keys that may be registered anew while in use
  Slow,           \* the requests that may outlast the maximal age of a lease
  Errors          \* the errors that send throws

ASSUME RoutingAssumption ==
  /\ IsFiniteSet(Candidate)
  /\ ProviderOf \in [Candidate \cup Credential -> Provider]
  /\ Suits \in [Request -> SUBSET Candidate]
  /\ Preference \in [Request -> [Candidate -> Nat]]
  /\ Order \in [Candidate -> Nat]
  /\ \A c, d \in Candidate : Order[c] = Order[d] => c = d
  /\ RequestedAttempts \in Nat \ {0}
  /\ MaxConcurrent \in [Credential -> Nat \ {0}]
  /\ FailureThreshold \in Nat \ {0}
  /\ Rotated \subseteq Credential
  /\ Slow \subseteq Request

VARIABLES
  cred,    \* cred[k]: the credential, with its concurrencyCount
  active,  \* activeLeases, as <<request, attempt, key>>
  health,  \* health[p]: status and consecutiveFailures of provider p
  run      \* run[r]: where call r of execute is

vars == <<cred, active, health, run>>

TransientError == {"RateLimitError", "ProviderUnavailableError", "ModelTimeoutError"}

PermanentError == {"ContentFilterError", "InvalidToolCallError"}

ModelError == TransientError \cup PermanentError \cup {"OtherError"}

ASSUME ErrorsAssumption == Errors \subseteq ModelError

Stage == {"new", "try", "secret", "sent", "done", "failed"}

(* cooling: cooldownUntil is still to come *)
NewCredential(s) == [status |-> s, count |-> 0, cooling |-> FALSE]

Least(a, b) == IF a < b THEN a ELSE b
-----------------------------------------------------------------------------
(* ModelRouter.route *)

Eligible(r) ==
  {c \in Suits[r] : health[ProviderOf[c]].status # "unavailable"}

StatusOf(c) == health[ProviderOf[c]].status

(* The comparison that eligible candidates are sorted by. *)
RanksBefore(r, a, b) ==
  LET pa == Preference[r][a]
      pb == Preference[r][b] IN
  \/ pa > pb
  \/ /\ pa = pb
     /\ \/ StatusOf(a) = "healthy" /\ StatusOf(b) = "degraded"
        \/ StatusOf(a) = StatusOf(b) /\ Order[a] < Order[b]

(* The sorted lists of the eligible candidates.  There is one, as the       *)
(* comparison is a strict total order.                                      *)
RankedCandidates(r) ==
  {s \in [1..Cardinality(Eligible(r)) -> Eligible(r)] :
     \A i, j \in DOMAIN s : i < j => RanksBefore(r, s[i], s[j])}

NewRun == [stage |-> "new", ranked |-> << >>, attempt |-> 0, key |-> "none",
           lastError |-> "none"]

SetRun(r, f) == run' = [run EXCEPT ![r] = f]

MaxAttempts(r) == Least(RequestedAttempts, Cardinality(DOMAIN run[r].ranked))

(* execute begins: NoCompatibleModelCandidateError, or the first attempt. *)
Execute(r) ==
  /\ run[r].stage = "new"
  /\ \/ Eligible(r) = {} /\ SetRun(r, [NewRun EXCEPT !.stage = "failed"])
     \/ /\ Eligible(r) # {}
        /\ \E s \in RankedCandidates(r) :
             SetRun(r, [NewRun EXCEPT !.stage = "try", !.attempt = 1, !.ranked = s])
  /\ UNCHANGED <<cred, active, health>>

(* Faulty: the same candidate is tried again. *)
NextAttempt_SameCandidate(r, error) ==
  [run[r] EXCEPT !.stage = "try", !.key = "none", !.lastError = error]

(* The loop goes on with the next candidate, or all of them are exhausted. *)
NextAttempt(r, error) ==
  IF run[r].attempt < MaxAttempts(r)
  THEN [run[r] EXCEPT !.stage = "try", !.attempt = @ + 1, !.key = "none",
                      !.lastError = error]
  ELSE [run[r] EXCEPT !.stage = "failed", !.key = "none", !.lastError = error]

CandidateOf(r) == run[r].ranked[run[r].attempt]

LeaseOf(r) == <<r, run[r].attempt, run[r].key>>
-----------------------------------------------------------------------------
(* KeyPoolManager *)

(* addCredential, for a new key or for one that is already there: the       *)
(* object is replaced, and with it the count of the calls that use the key. *)
(* It is added with the count its schema gives by default, as every caller  *)
(* does; the statuses that acquireKey passes over are one, "disabled".      *)
AddCredential(k, s) ==
  /\ s \in {"available", "disabled"}
  /\ cred[k].status = "none" \/ k \in Rotated
  /\ cred' = [cred EXCEPT ![k] = NewCredential(s)]
  /\ UNCHANGED <<active, health, run>>

(* Faulty: one lease too many. *)
HasRoom_OneMore(k) == cred[k].count <= MaxConcurrent[k]

HasRoom(k) == cred[k].count < MaxConcurrent[k]

(* The status is looked at for what the operator disabled; cooldown counts  *)
(* as long as cooldownUntil says.                                           *)
EligibleKeys(p) ==
  {k \in Credential : /\ ProviderOf[k] = p
                      /\ cred[k].status \notin {"none", "disabled"}
                      /\ ~cred[k].cooling
                      /\ HasRoom(k)}

(* The least busy; which of several depends on the order of registration.   *)
LeastBusy(p) ==
  {k \in EligibleKeys(p) : \A j \in EligibleKeys(p) : cred[k].count <= cred[j].count}

(* acquireKey up to its await, in execute *)
AcquireKey(r) ==
  /\ run[r].stage = "try"
  /\ \/ \E k \in LeastBusy(ProviderOf[CandidateOf(r)]) :
          /\ cred' = [cred EXCEPT ![k].count = @ + 1]
          /\ active' = active \cup {<<r, run[r].attempt, k>>}
          /\ SetRun(r, [run[r] EXCEPT !.stage = "secret", !.key = k])
     \/ /\ EligibleKeys(ProviderOf[CandidateOf(r)]) = {}
        /\ SetRun(r, NextAttempt(r, run[r].lastError))
        /\ UNCHANGED <<cred, active>>
  /\ UNCHANGED health

(* The secret arrives and the request is sent. *)
SendRequest(r) ==
  /\ run[r].stage = "secret"
  /\ SetRun(r, [run[r] EXCEPT !.stage = "sent"])
  /\ UNCHANGED <<cred, active, health>>

(* The secret store fails.  acquireKey is called outside the try block: the *)
(* exception leaves execute, and the lease stays.                           *)
SecretFails(r) ==
  /\ run[r].stage = "secret"
  /\ SetRun(r, [run[r] EXCEPT !.stage = "failed"])
  /\ UNCHANGED <<cred, active, health>>

(* Faulty: the count goes below zero for a key that was registered anew. *)
Decremented_NoFloor(n) == n - 1

Decremented(n) == IF n = 0 THEN 0 ELSE n - 1

AfterRelease(k, error) ==
  IF error = "none"
  THEN [status |-> "available", count |-> Decremented(cred[k].count), cooling |-> FALSE]
  ELSE IF error = "RateLimitError"
  THEN [status |-> "cooldown", count |-> Decremented(cred[k].count), cooling |-> TRUE]
  ELSE [cred[k] EXCEPT !.count = Decremented(@)]

(* Faulty: a lease that was reclaimed is released once more. *)
ReleaseKey_Twice(lease, error) ==
  /\ active' = active \ {lease}
  /\ cred' = [cred EXCEPT ![lease[3]] = AfterRelease(lease[3], error)]

(* releaseKey: a second release of the same lease is ignored. *)
ReleaseKey(lease, error) ==
  IF lease \in active
  THEN /\ active' = active \ {lease}
       /\ cred' = [cred EXCEPT ![lease[3]] = AfterRelease(lease[3], error)]
  ELSE UNCHANGED <<active, cred>>

InUse(lease) == run[lease[1]].stage \in {"secret", "sent"} /\ LeaseOf(lease[1]) = lease

(* reclaimStaleLeases: a lease that has grown too old, as that of a call    *)
(* that failed without giving it back, or of one that is slow.              *)
ReclaimStaleLease(lease) ==
  /\ lease \in active
  /\ lease[1] \in Slow \/ ~InUse(lease)
  /\ ReleaseKey(lease, "reclaimed")
  /\ UNCHANGED <<health, run>>

CooldownEnds(k) ==
  /\ cred[k].cooling
  /\ cred' = [cred EXCEPT ![k].cooling = FALSE]
  /\ UNCHANGED <<active, health, run>>
-----------------------------------------------------------------------------
(* ProviderHealthTracker *)

RecordSuccess(p) ==
  health' = [health EXCEPT ![p] = [status |-> "healthy", failures |-> 0]]

StatusAfterFailure(p, error) ==
  LET failures == health[p].failures + 1 IN
  IF error = "ProviderUnavailableError" \/ failures >= FailureThreshold
  THEN IF failures >= 2 * FailureThreshold THEN "unavailable" ELSE "degraded"
  ELSE health[p].status

RecordFailure(p, error) ==
  health' = [health EXCEPT ![p] =
    [status |-> StatusAfterFailure(p, error), failures |-> health[p].failures + 1]]

(* The provider answers. *)
ModelAnswers(r) ==
  /\ run[r].stage = "sent"
  /\ ReleaseKey(LeaseOf(r), "none")
  /\ RecordSuccess(ProviderOf[CandidateOf(r)])
  /\ SetRun(r, [run[r] EXCEPT !.stage = "done", !.key = "none"])

(* send throws.  Permanent errors leave execute at once, every other error  *)
(* goes on to the next candidate if there is one.                           *)
ModelFails(r, error) ==
  /\ run[r].stage = "sent"
  /\ ReleaseKey(LeaseOf(r), error)
  /\ RecordFailure(ProviderOf[CandidateOf(r)], error)
  /\ SetRun(r, IF error \in PermanentError
               THEN [run[r] EXCEPT !.stage = "failed", !.key = "none",
                                   !.lastError = error]
               ELSE NextAttempt(r, error))
-----------------------------------------------------------------------------
Init ==
  /\ cred = [k \in Credential |-> NewCredential("none")]
  /\ active = {}
  /\ health = [p \in Provider |-> [status |-> "healthy", failures |-> 0]]
  /\ run = [r \in Request |-> NewRun]

Advance(r) ==
  \/ Execute(r)
  \/ AcquireKey(r)
  \/ SendRequest(r)
  \/ SecretFails(r)
  \/ ModelAnswers(r)
  \/ \E e \in Errors : ModelFails(r, e)

Next ==
  \/ \E r \in Request : Advance(r)
  \/ \E k \in Credential, s \in {"available", "disabled"} : AddCredential(k, s)
  \/ \E lease \in active : ReclaimStaleLease(lease)
  \/ \E k \in Credential : CooldownEnds(k)

Spec == Init /\ [][Next]_vars

(* A call that was made goes on: the secret store and the adapter settle    *)
(* their promises, at the latest when the HTTP client gives up.             *)
FairSpec == Spec /\ \A r \in Request : WF_vars(Advance(r))
-----------------------------------------------------------------------------
CredentialState ==
  [status : {"none", "available", "cooldown", "disabled"}, count : Nat,
   cooling : BOOLEAN]

RankedLists == UNION {[1..n -> Candidate] : n \in 0..Cardinality(Candidate)}

RunState ==
  [stage : Stage, ranked : RankedLists,
   attempt : 0..RequestedAttempts, key : Credential \cup {"none"},
   lastError : ModelError \cup {"none"}]

(* Types of the shared objects and of the calls. *)
RoutingTypeOK ==
  /\ cred \in [Credential -> CredentialState]
  /\ active \subseteq Request \X (1..RequestedAttempts) \X Credential
  /\ health \in [Provider -> [status : {"healthy", "degraded", "unavailable"},
                              failures : Nat]]
  /\ run \in [Request -> RunState]

LeasesOn(k) == {lease \in active : lease[3] = k}

(* The count of a key is the number of its leases, however calls, late      *)
(* releases and reclaims mix, so a key is never blocked by calls that are   *)
(* gone.  For a key that was registered anew it is at most that.            *)
CountsLeases ==
  \A k \in Credential :
    /\ cred[k].count <= Cardinality(LeasesOn(k))
    /\ k \notin Rotated => cred[k].count = Cardinality(LeasesOn(k))

UsersOf(k) == {r \in Request : run[r].stage \in {"secret", "sent"} /\ run[r].key = k}

(* No more calls use a key at a time than its maxConcurrent: a call that    *)
(* lost its lease to reclaimStaleLeases is slow, and a key that is          *)
(* registered anew forgets who uses it; all others are counted.             *)
WithinLimit ==
  \A k \in Credential \ Rotated :
    Cardinality(UsersOf(k) \ Slow) <= MaxConcurrent[k]

(* Failover is bounded: a call ends in an answer or an error, whatever keys *)
(* and providers do meanwhile.                                              *)
FailoverEnds ==
  \A r \in Request : run[r].stage = "try" ~> run[r].stage \in {"done", "failed"}

(* Only a transient error makes execute go on with another candidate. *)
OnlyTransientIsRetried ==
  \A r \in Request : run[r].stage \in {"secret", "sent"} =>
    run[r].lastError \in TransientError \cup {"none"}

(* A key that was disabled is not given out until it is registered anew. *)
DisabledStaysOut ==
  [][\A k \in Credential :
       cred[k].status = "disabled" /\ cred'[k].status # "disabled" =>
         cred'[k] = NewCredential("available")]_vars
=============================================================================
