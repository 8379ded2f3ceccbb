----------------------------- MODULE ToolGateway -----------------------------
(***************************************************************************)
(* A tool call, from the request to the observation: ToolGateway.invoke    *)
(* with the components it asks, which are PolicyEngine, ApprovalManager,   *)
(* IdempotencyStore and SideEffectJournal, and RetryDecisionEngine, which  *)
(* the caller asks before it calls again.                                  *)
(*                                                                         *)
(* Everything invoke does before it starts the handler runs without an     *)
(* await, so a call that is answered at once is one step, and so is the    *)
(* start of a handler.  Then the handler races a timer.  The loser goes    *)
(* on: a handler whose call timed out still runs and may still have its    *)
(* effect, and nobody listens to how it ends.                              *)
(*                                                                         *)
(* Approvals, cache, locks, journal and retry counts live in memory; only  *)
(* events are durable.  A restart rebuilds the approvals from the events.  *)
(* Any append of an event may fail (the database is busy or full).         *)
(*                                                                         *)
(* An operation stands for everything computeArgumentsDigest hashes:       *)
(* actor, project, tool, arguments.  Two operations are equal when the     *)
(* digests are.                                                            *)
(*                                                                         *)
(* Of the components a gateway may be built without, the policy engine,    *)
(* the idempotency store, the claim manager, the journal, the event store  *)
(* and the divergence detector are there; the approval manager is there    *)
(* when Managed is TRUE.                                                   *)
(***************************************************************************)
EXTENDS Integers, FiniteSets, Sequences, Functions

CONSTANTS
  Call,                 \* calls of invoke; bounds how many are made
  Approval,             \* ids of approval requests
  Op,                   \* operations
  None,
  Context,              \* Context[o]: what policy and registry say of o
  Rules,                \* PolicyEngine.rules, highest priority first
  ApprovalOnHighRisk,   \* defaultApprovalOnHighRisk
  Managed,              \* the gateway has an ApprovalManager
  Version,              \* policy versions an engine may be configured with
  DefaultVersion,       \* "1.0.0"
  MaxOperationRetries,
  MaxTaskRetries,
  MaxLives              \* starts of the process; bounds the restarts

Actors == {"user", "system", "agent", "mcp"}
Direct == {"user", "system"}
Effects == {"allow", "deny", "require_approval"}
Categories == {"read_only", "idempotent_write", "reversible_write",
               "non_idempotent_write", "unknown"}

(* foreign: targetProjectId is another project.  secret: the tool's name or *)
(* the data is secret.  named: the tool is one of KNOWN_READ_ONLY_TOOLS.    *)
ContextType ==
  [actor: Actors, tool: STRING, foreign: BOOLEAN, secret: BOOLEAN,
   sensitive: BOOLEAN, risk: {"low", "medium", "high", "critical"},
   idempotent: BOOLEAN, key: STRING \cup {None},
   category: Categories]

ASSUME ConstantsAssumption ==
  /\ None \notin Call \cup Approval \cup Op
  /\ Context \in [Op -> ContextType]
  /\ \A i \in DOMAIN Rules : Rules[i].effect \in Effects
  /\ ApprovalOnHighRisk \in BOOLEAN /\ Managed \in BOOLEAN
  /\ DefaultVersion \in Version
  /\ MaxOperationRetries \in Nat /\ MaxTaskRetries \in Nat
  /\ MaxLives \in Nat \ {0}

VARIABLES
  call,       \* call[c]: what was asked and how it was answered
  executing,  \* calls whose handler runs
  approval,   \* ApprovalManager.approvals
  elapsed,    \* approvals whose expiresAt has passed
  logged,     \* logged[b]: the last event of b in the event log
  granted,    \* approvals a human has granted
  cache,      \* keys of IdempotencyStore.store
  locks,      \* keys of IdempotencyStore.inFlightLocks
  journal,    \* journal[c]: the certainties recorded for c
  retries,    \* operationRetryCounts; taskRetryCounts is their sum
  version,    \* PolicyEngine.policyVersion
  owner,      \* verifyOwnership of the caller's lease
  life        \* the process started for the life-th time

vars == <<call, executing, approval, elapsed, logged, granted,
          cache, locks, journal, retries, version, owner, life>>

CallState == {"idle", "running", "success", "failure", "timeout", "denied",
              "approval_required", "cached", "busy", "thrown", "lost"}
ApprovalStatus == {"none", "pending", "approved", "rejected", "cancelled",
                   "expired", "consumed"}
Certainty == {"known_succeeded", "known_failed", "unknown"}

(* The initial records: a call not yet made, an approval not yet requested. *)
NoCall == [state |-> "idle", op |-> None, approval |-> None, ran |-> FALSE,
           life |-> 0, retry |-> "none"]
NoApproval == [status |-> "none", op |-> None, version |-> DefaultVersion]

Init ==
  /\ call = [c \in Call |-> NoCall]
  /\ executing = {}
  /\ approval = [b \in Approval |-> NoApproval]
  /\ elapsed = {} /\ granted = {}
  /\ logged = [b \in Approval |-> "none"]
  /\ cache = {} /\ locks = {}
  /\ journal = [c \in Call |-> {}]
  /\ retries = [o \in Op |-> 0]
  /\ version \in Version
  /\ owner = TRUE
  /\ life = 1

-----------------------------------------------------------------------------
(* Policy: PolicyEngine.evaluate.                                          *)

(* What no rule can allow. *)
Forbidden(ctx) ==
  \/ ctx.foreign
  \/ ctx.secret /\ ctx.actor \notin Direct
  \/ ctx.sensitive /\ ctx.actor = "mcp"

(* A rule's scope gives values to some of the fields of a context. *)
MatchesRule(rule, ctx) ==
  \A f \in DOMAIN rule.scope : rule.scope[f] = ctx[f]

Matching(ctx) == {i \in DOMAIN Rules : MatchesRule(Rules[i], ctx)}

NeedsApproval(ctx) ==
  \/ ctx.risk = "critical"
  \/ ctx.risk = "high" /\ ctx.actor \notin Direct /\ ApprovalOnHighRisk

(* Faulty: rules are asked before the invariants of the system. *)
Evaluate_RulesFirst(ctx) ==
  IF Matching(ctx) # {}
  THEN Rules[CHOOSE i \in Matching(ctx) : \A j \in Matching(ctx) : i <= j].effect
  ELSE IF Forbidden(ctx) THEN "deny"
  ELSE IF NeedsApproval(ctx) THEN "require_approval" ELSE "allow"

Evaluate(ctx) ==
  IF Forbidden(ctx) THEN "deny"
  ELSE IF Matching(ctx) # {}
  THEN Rules[CHOOSE i \in Matching(ctx) : \A j \in Matching(ctx) : i <= j].effect
  ELSE IF NeedsApproval(ctx) THEN "require_approval" ELSE "allow"

Decision(o) == Evaluate(Context[o])

(* Both branches of step 5 that stop a call for an approval ask whether     *)
(* there is an approval manager; without one the call goes on.              *)
Asks(o) == Managed /\ Decision(o) = "require_approval"

-----------------------------------------------------------------------------
(* Idempotency keys.  Calls without a key, and calls of tools that are not *)
(* idempotent, pass unrecorded.                                            *)

(* makeKey: a key is one of a tool; there is one project here. *)
KeyOf(o) == <<Context[o].tool, Context[o].key>>
Keyed(o) == Context[o].idempotent /\ Context[o].key # None

(* acquireLock and releaseLock of a call of operation o. *)
Acquired(o) == IF Keyed(o) THEN locks \cup {KeyOf(o)} ELSE locks
Released(o) == IF Keyed(o) THEN locks \ {KeyOf(o)} ELSE locks

(* Faulty: the lock of a key is not looked at. *)
Admitted_Unlocked(o) == Keyed(o) => KeyOf(o) \notin cache

(* The key has no observation yet and nobody holds it: invoke goes on. *)
Admitted(o) == Keyed(o) => KeyOf(o) \notin cache \cup locks

-----------------------------------------------------------------------------
(* Calls.  invoke(c, o, a, f): call c asks for operation o under approval  *)
(* id a (or None); f is the call it repeats when RetryDecisionEngine       *)
(* allowed that, and None when the caller decided by itself.  What was      *)
(* asked is remembered of a call that stands for more than its answer: that *)
(* reaches its handler, waits for an approval or may be repeated.           *)

Begins(c, o, f) ==
  /\ call[c].state = "idle"
  /\ f # None => call[f].retry = "allowed" /\ call[f].op = o

Called(c, o, a, f, s) ==
  [x \in Call |->
     IF x = c
     THEN [state |-> s, op |-> o, approval |-> a, ran |-> s = "running",
           life |-> life, retry |-> "none"]
     ELSE IF x = f THEN [call[x] EXCEPT !.retry = "used"] ELSE call[x]]

Refused(c, f, s) == Called(c, None, None, f, s)

Elsewhere == <<elapsed, granted, cache, journal, retries, version,
               owner, life>>

(* Steps 1 to 3: the request, the tool or the arguments are not valid.     *)
(* Whether the event of that is written changes nothing here.              *)
InvokeInvalid(c, o, f) ==
  /\ Begins(c, o, f)
  /\ call' = Refused(c, f, "failure")
  /\ UNCHANGED <<Elsewhere, executing, approval, logged, locks>>

(* Step 4: the key has an observation, or a call that holds it. *)
InvokeRepeated(c, o, a, f) ==
  /\ Begins(c, o, f) /\ Keyed(o)
  /\ \/ KeyOf(o) \in cache /\ call' = Refused(c, f, "cached")
     \/ /\ KeyOf(o) \in locks \ cache
        /\ call' = Called(c, o, a, f, "busy")
  /\ UNCHANGED <<Elsewhere, executing, approval, logged, locks>>

(* Steps 4.5 and 5: the lease is lost, or policy denies.  The lock is      *)
(* released before the event of a denial is written, which may fail.       *)
InvokeDenied(c, o, f) ==
  /\ Begins(c, o, f) /\ Admitted(o)
  /\ ~owner \/ Decision(o) = "deny"
  /\ call' = Refused(c, f, "denied")
  /\ UNCHANGED <<Elsewhere, executing, approval, logged, locks>>

(* Step 5, createApprovalRequest: the record is in memory before the event *)
(* is written.  When that fails the call throws and keeps its lock.  The   *)
(* request is always made under the default version.                       *)
InvokeAsks(c, o, f) ==
  /\ Begins(c, o, f) /\ Admitted(o) /\ owner
  /\ Asks(o)
  /\ \E b \in Approval, written \in BOOLEAN :
       /\ approval[b].op = None
       /\ approval' = [approval EXCEPT ![b] =
            [status |-> "pending", op |-> o, version |-> DefaultVersion]]
       /\ IF written
          THEN /\ call' = Called(c, o, None, f, "approval_required")
               /\ logged' = [logged EXCEPT ![b] = "requested"]
               /\ locks' = locks
          ELSE /\ call' = Called(c, o, None, f, "thrown")
               /\ logged' = logged
               /\ locks' = Acquired(o)
  /\ UNCHANGED <<Elsewhere, executing>>

(* getApproval: a pending approval past its time becomes expired. *)
Overdue(b) == approval[b].status = "pending" /\ b \in elapsed
Looked(b) == IF Overdue(b) THEN [approval EXCEPT ![b].status = "expired"]
             ELSE approval

(* Faulty: the digest of the arguments is not compared. *)
Valid_AnyArguments(o, a) ==
  /\ approval[a].status = "approved" /\ a \notin elapsed
  /\ approval[a].version = version

Valid(o, a) ==
  /\ approval[a].status = "approved" /\ a \notin elapsed
  /\ approval[a].version = version
  /\ approval[a].op = o

InvokeUnapproved(c, o, a, f) ==
  /\ Begins(c, o, f) /\ Admitted(o) /\ owner
  /\ Asks(o) /\ a # None /\ ~Valid(o, a)
  /\ approval' = Looked(a)
  /\ call' = Refused(c, f, "denied")
  /\ UNCHANGED <<Elsewhere, executing, logged, locks>>

(* What steps 4 to 5 let through, and what that does to the approval. *)
Passes(o, a) ==
  /\ Admitted(o) /\ owner
  /\ Decision(o) # "deny"
  /\ Asks(o) => a # None /\ Valid(o, a)

(* Faulty: the approval is not used up. *)
Spent_Never(o, a) == approval

Spent(o, a) == IF Asks(o) THEN [approval EXCEPT ![a].status = "consumed"]
               ELSE approval

(* Step 6: the file is not the one the caller read.  The approval is gone. *)
InvokeDiverged(c, o, a, f) ==
  /\ Begins(c, o, f) /\ Passes(o, a)
  /\ approval' = Spent(o, a)
  /\ call' = Refused(c, f, "failure")
  /\ UNCHANGED <<Elsewhere, executing, logged, locks>>

(* Step 7: the handler is called. *)
InvokeRuns(c, o, a, f) ==
  /\ Begins(c, o, f) /\ Passes(o, a)
  /\ approval' = Spent(o, a)
  /\ call' = Called(c, o, a, f, "running")
  /\ executing' = executing \cup {c}
  /\ locks' = Acquired(o)
  /\ UNCHANGED <<Elsewhere, logged>>

-----------------------------------------------------------------------------
(* The handler and the timer.                                              *)

Running(c) == call[c].state = "running"

(* The catch clause: release the lock if the call still holds it, record   *)
(* the certainty, append the event of the failure, which may fail.         *)
Caught(c, s) ==
  /\ \E written \in BOOLEAN :
       call' = [call EXCEPT ![c].state = IF written THEN s ELSE "thrown"]
  /\ locks' = Released(call[c].op)

(* Faulty: every error is recorded as a failure, a timeout too. *)
CertaintyOf_Failed(s) == "known_failed"

CertaintyOf(s) == IF s = "timeout" THEN "unknown" ELSE "known_failed"

Uncalled == <<approval, elapsed, logged, granted, retries, version, owner,
              life>>

(* The handler answers in time: the lock is released and the observation   *)
(* cached; then the journal and the completion event are written, inside   *)
(* the same try, so a failure there is taken for one of the handler.       *)
HandlerReturns(c) ==
  /\ Running(c) /\ c \in executing
  /\ executing' = executing \ {c}
  /\ cache' = IF Keyed(call[c].op) THEN cache \cup {KeyOf(call[c].op)} ELSE cache
  /\ \/ /\ call' = [call EXCEPT ![c].state = "success"]
        /\ locks' = Released(call[c].op)
        /\ journal' = [journal EXCEPT ![c] = @ \cup {"known_succeeded"}]
     \/ /\ Caught(c, "failure")
        /\ journal' = [journal EXCEPT
                         ![c] = @ \cup {"known_succeeded", CertaintyOf("failure")}]
  /\ UNCHANGED Uncalled

(* The handler throws, with or without its effect.  An error whose message *)
(* says "timed out" counts as a timeout.                                   *)
HandlerThrows(c) ==
  /\ Running(c) /\ c \in executing
  /\ executing' = executing \ {c}
  /\ \E s \in {"failure", "timeout"} :
       /\ Caught(c, s)
       /\ journal' = [journal EXCEPT ![c] = @ \cup {CertaintyOf(s)}]
  /\ UNCHANGED <<Uncalled, cache>>

(* The timer wins: the handler runs on. *)
CallTimesOut(c) ==
  /\ Running(c)
  /\ Caught(c, "timeout")
  /\ journal' = [journal EXCEPT ![c] = @ \cup {CertaintyOf("timeout")}]
  /\ UNCHANGED <<Uncalled, executing, cache>>

(* The end of a handler whose call has timed out. *)
HandlerEndsUnheard(c) ==
  /\ c \in executing /\ ~Running(c)
  /\ executing' = executing \ {c}
  /\ UNCHANGED <<Uncalled, call, cache, locks, journal>>

-----------------------------------------------------------------------------
(* Retries: RetryDecisionEngine.evaluate with the error of the observation *)
(* and the certainty in the journal, for a call of this life.              *)

Classify(o) ==
  IF Context[o].idempotent /\ Context[o].category # "read_only"
  THEN "idempotent_write" ELSE Context[o].category

SafeToRetry(o) == Classify(o) \in {"read_only", "idempotent_write"}

(* The flag retryable of the observations invoke returns. *)
Retryable(c) ==
  \/ call[c].state \in {"busy", "approval_required"}
  \/ call[c].state = "timeout" /\ Context[call[c].op].idempotent

TaskRetries == SumFunction(retries)

(* Faulty: an unknown outcome is no obstacle. *)
AllowsRetry_Unknown(c) ==
  LET o == call[c].op a == call[c].approval IN
  /\ ~(a # None /\ a \in elapsed)
  /\ Retryable(c)
  /\ SafeToRetry(o)
  /\ TaskRetries < MaxTaskRetries /\ retries[o] < MaxOperationRetries

(* Faulty: one attempt too many. *)
AllowsRetry_OneMore(c) ==
  LET o == call[c].op a == call[c].approval IN
  /\ ~(a # None /\ a \in elapsed)
  /\ Retryable(c)
  /\ "unknown" \notin journal[c]
  /\ SafeToRetry(o)
  /\ TaskRetries <= MaxTaskRetries /\ retries[o] <= MaxOperationRetries

AllowsRetry(c) ==
  LET o == call[c].op a == call[c].approval IN
  /\ ~(a # None /\ a \in elapsed)
  /\ Retryable(c)
  /\ "unknown" \notin journal[c]
  /\ SafeToRetry(o)
  /\ TaskRetries < MaxTaskRetries /\ retries[o] < MaxOperationRetries

Retry(c) ==
  /\ call[c].retry = "none" /\ call[c].life = life /\ AllowsRetry(c)
  /\ call' = [call EXCEPT ![c].retry = "allowed"]
  /\ retries' = [retries EXCEPT ![call[c].op] = @ + 1]
  /\ UNCHANGED <<executing, approval, elapsed, logged, granted,
                 cache, locks, journal, version, owner, life>>

-----------------------------------------------------------------------------
(* Approvals: what a human does with them, and time.                       *)

Aside == <<call, executing, cache, locks, journal, retries, version,
           owner, life>>

(* grantApproval and rejectApproval: memory first, then the event. *)
GrantApproval(b) ==
  /\ approval[b].status = "pending" /\ b \notin elapsed
  /\ approval' = [approval EXCEPT ![b].status = "approved"]
  /\ granted' = granted \cup {b}
  /\ \E written \in BOOLEAN :
       logged' = IF written THEN [logged EXCEPT ![b] = "granted"] ELSE logged
  /\ UNCHANGED <<Aside, elapsed>>

RejectApproval(b) ==
  /\ approval[b].status = "pending" /\ b \notin elapsed
  /\ approval' = [approval EXCEPT ![b].status = "rejected"]
  /\ \E written \in BOOLEAN :
       logged' = IF written THEN [logged EXCEPT ![b] = "rejected"] ELSE logged
  /\ UNCHANGED <<Aside, elapsed, granted>>

(* No event records a cancellation. *)
CancelApproval(b) ==
  /\ approval[b].status = "pending" /\ b \notin elapsed
  /\ approval' = [approval EXCEPT ![b].status = "cancelled"]
  /\ UNCHANGED <<Aside, elapsed, granted, logged>>

(* getApproval, called by any of these, finds the approval overdue. *)
ExpireApproval(b) ==
  /\ Overdue(b)
  /\ approval' = Looked(b)
  /\ UNCHANGED <<Aside, elapsed, granted, logged>>

TimePasses(b) ==
  /\ approval[b].op # None /\ b \notin elapsed
  /\ elapsed' = elapsed \cup {b}
  /\ UNCHANGED <<Aside, approval, granted, logged>>

(* The worker that calls loses its task lease to another. *)
LeaseIsLost ==
  /\ owner /\ owner' = FALSE
  /\ UNCHANGED <<call, executing, approval, elapsed, logged, granted,
                 cache, locks, journal, retries, version, life>>

-----------------------------------------------------------------------------
(* Restart.  restoreFromEvents knows requests, grants and rejections; what *)
(* was consumed, cancelled or expired comes back as it was before that.    *)

Restored(b) == CASE logged[b] = "none" -> "none"
                 [] logged[b] = "requested" -> "pending"
                 [] logged[b] = "granted" -> "approved"
                 [] logged[b] = "rejected" -> "rejected"

Restart ==
  /\ life < MaxLives /\ life' = life + 1
  /\ approval' = [b \in Approval |-> [approval[b] EXCEPT !.status = Restored(b)]]
  /\ call' = [c \in Call |-> [call[c] EXCEPT
                !.state = IF @ = "running" THEN "lost" ELSE @,
                !.retry = IF @ = "allowed" THEN "none" ELSE @]]
  /\ executing' = {} /\ cache' = {} /\ locks' = {}
  /\ journal' = [c \in Call |-> {}]
  /\ retries' = [o \in Op |-> 0]
  /\ version' \in Version
  /\ UNCHANGED <<elapsed, logged, granted, owner>>

-----------------------------------------------------------------------------
Invoke(c) ==
  \E o \in Op, f \in Call \cup {None} :
    \/ \E a \in Approval \cup {None} :
         \/ InvokeRepeated(c, o, a, f)
         \/ InvokeUnapproved(c, o, a, f)
         \/ InvokeDiverged(c, o, a, f)
         \/ InvokeRuns(c, o, a, f)
    \/ InvokeInvalid(c, o, f) \/ InvokeDenied(c, o, f) \/ InvokeAsks(c, o, f)

Settle(c) ==
  \/ HandlerReturns(c) \/ HandlerThrows(c)
  \/ CallTimesOut(c) \/ HandlerEndsUnheard(c)

Decide(b) ==
  \/ GrantApproval(b) \/ RejectApproval(b) \/ CancelApproval(b)
  \/ ExpireApproval(b) \/ TimePasses(b)

Next ==
  \/ \E c \in Call : Invoke(c) \/ Settle(c) \/ Retry(c)
  \/ \E b \in Approval : Decide(b)
  \/ LeaseIsLost \/ Restart

Spec == Init /\ [][Next]_vars

-----------------------------------------------------------------------------
(* Type invariant: states and records are those the code writes, and a     *)
(* handler runs for a call that reached its handler in this life.          *)
GatewayTypeOK ==
  /\ call \in [Call -> [state: CallState, op: Op \cup {None},
                        approval: Approval \cup {None},
                        ran: BOOLEAN, life: 0..MaxLives,
                        retry: {"none", "allowed", "used"}]]
  /\ executing \subseteq {c \in Call : call[c].ran /\ call[c].life = life}
  /\ approval \in [Approval -> [status: ApprovalStatus, op: Op \cup {None},
                                version: Version]]
  /\ elapsed \subseteq Approval /\ granted \subseteq Approval
  /\ logged \in [Approval -> {"none", "requested", "granted", "rejected"}]
  /\ cache \cup locks \subseteq {KeyOf(o) : o \in {x \in Op : Keyed(x)}}
  /\ journal \in [Call -> SUBSET Certainty]
  /\ retries \in [Op -> 0..MaxOperationRetries]
  /\ version \in Version /\ owner \in BOOLEAN /\ life \in 1..MaxLives

(* Where there is an approval manager: an agent's operation that is         *)
(* critical, or of high risk where approvals are asked for those, and that  *)
(* no rule speaks of.                                                       *)
NeedsHuman(o) ==
  /\ Managed
  /\ Context[o].actor \notin Direct /\ Matching(Context[o]) = {}
  /\ \/ Context[o].risk = "critical"
     \/ Context[o].risk = "high" /\ ApprovalOnHighRisk

(* No handler runs for an operation the system forbids, whatever the rules *)
(* allow.  A handler that needs a human's consent runs only for the        *)
(* operation that a human has granted, and in one life of the process one  *)
(* grant starts one handler: an id that was granted for other arguments,   *)
(* was never granted, or was used before starts nothing, however requests, *)
(* timeouts, restarts and retries interleave.                              *)
RunsAreApproved ==
  /\ \A c \in Call : call[c].ran => ~Forbidden(Context[call[c].op])
  /\ \A c \in Call : call[c].ran /\ NeedsHuman(call[c].op) =>
    /\ call[c].approval \in granted
    /\ approval[call[c].approval].op = call[c].op
    /\ \A d \in Call \ {c} :
         call[d].ran /\ NeedsHuman(call[d].op) /\ call[d].life = call[c].life
           => call[d].approval # call[c].approval

(* The calls that wait for a handler under one key. *)
Holders(k) == {c \in Call : /\ Running(c) /\ Keyed(call[c].op)
                            /\ KeyOf(call[c].op) = k}

(* Under one idempotency key at most one call waits for a handler, it      *)
(* holds the lock of the key as long, and nobody waits once the key has an *)
(* observation.                                                            *)
OneRunPerKey ==
  \A c, d \in Call :
    Running(c) /\ Keyed(call[c].op) =>
      /\ KeyOf(call[c].op) \in locks \ cache
      /\ Running(d) /\ Keyed(call[d].op) /\ KeyOf(call[d].op) = KeyOf(call[c].op)
           => d = c

(* A call that RetryDecisionEngine lets the caller repeat never reached    *)
(* its handler: neither an unknown outcome nor a failure that may have had *)
(* its effect is repeated automatically.                                   *)
RepeatedNeverRan ==
  \A c \in Call : call[c].retry # "none" => ~call[c].ran

(* One grant starts one handler, in all lives of the process.  It does     *)
(* not: consumption has no event, so a restart brings the approval back.   *)
GrantIsUsedOnce ==
  \A c, d \in {x \in Call : call[x].ran /\ NeedsHuman(call[x].op)} :
    call[c].approval = call[d].approval => c = d

(* No handler runs for what policy wants approved by a human and no human  *)
(* has.  It does where the gateway was built without an approval manager:  *)
(* the decision is then passed over.                                       *)
PolicyIsObeyed ==
  \A c \in Call : call[c].ran /\ Decision(call[c].op) = "require_approval" =>
    call[c].approval \in granted

(* A lock is held by a call that waits for its handler.  It is not: a call *)
(* whose approval request could not be written throws with its lock, and   *)
(* the key is busy until the process restarts.                             *)
LockIsHeldByCall ==
  \A k \in locks : Holders(k) # {}

(* In the first life of the process, an approval granted and not yet past  *)
(* its time can be used for its operation.  It cannot under any policy     *)
(* version but the default one: the gateway asks under the default version *)
(* and the approval is then refused for version drift, as the next one is. *)
GrantIsUsable ==
  \A b \in Approval :
    life = 1 /\ approval[b].status = "approved" /\ b \notin elapsed
      => Valid(approval[b].op, b)
==============================================================================
