------------------------------ MODULE EventLog ------------------------------
(***************************************************************************)
(* The event log and what is derived from it: EventStore, the projections  *)
(* ProjectionManager keeps in memory, and the keyframes and deltas that    *)
(* DeltaSnapshotManager writes and reads a past state from.                *)
(*                                                                         *)
(* Several processes may append to one log.  An event gets its timestamp   *)
(* when it is made and its place in the table when it is committed, and    *)
(* every reader sorts by timestamp, so what is committed later may be read *)
(* earlier.  Subscribers hear of the commits of their own process only:    *)
(* the projections modelled are those of one process, Here.                *)
(*                                                                         *)
(* captureSnapshot reads events and earlier snapshots, waits once, and     *)
(* inserts: two steps.  reconstructStateAt and rollbackTo read everything  *)
(* before they wait, and what they do is one step.                         *)
(*                                                                         *)
(* Rows keep their place in the log.  A row that retention deletes leaves  *)
(* a gap there, which no reader sees.                                      *)
(***************************************************************************)
EXTENDS Integers, FiniteSets, Sequences, SequencesExt

CONSTANTS
  Proc,              \* processes that have the database open
  Here,              \* the process whose projections are modelled
  Session,
  Task,              \* the tasks of each session
  Capture,           \* calls of captureSnapshot that may be under way
  Kind,              \* event types used; a subset of the tables below
  None,
  KeyframeInterval,  \* keyframeInterval
  MaxEvents,         \* bounds the log
  MaxSnapshots,      \* bounds the snapshots inserted
  MaxTime            \* bounds the clock

(* What the reducers do with the type of an event.  The other types change *)
(* no status; session.rolled_back is one of them.                          *)
SessionMove ==
  [session_created |-> "active", session_forked |-> "active",
   session_resumed |-> "active", session_paused |-> "paused",
   session_completed |-> "completed", session_deleted |-> "deleted"]

TaskMove ==
  [task_created |-> "queued", task_started |-> "running",
   task_paused |-> "paused", task_resumed |-> "running",
   task_completed |-> "completed", task_failed |-> "failed",
   task_cancelled |-> "cancelled"]

ASSUME ConstantsAssumption ==
  /\ Kind \subseteq DOMAIN SessionMove \cup DOMAIN TaskMove
  /\ "deleted" \notin Kind
  /\ Here \in Proc /\ None \notin Task
  /\ Task \cap {"status", "active", "updatedAt"} = {}
  /\ KeyframeInterval \in Nat \ {0}
  /\ MaxEvents \in Nat /\ MaxSnapshots \in Nat /\ MaxTime \in Nat \ {0}

VARIABLES
  log,         \* the rows of the events table, in the order of commits
  now,         \* the clock
  stamp,       \* stamp[p]: timestamp of the event p is about to commit, or 0
  projection,  \* projection[s]: what the projections hold of s
  complete,    \* sessions of which all events were heard or rebuilt
  snapshots,   \* the rows of projection_snapshots, in the order of inserts
  capture,     \* capture[k]: what capture k is about to insert
  late,        \* sessions with an event committed after one of a later time
  overlapped   \* sessions with a snapshot inserted over one it had not read

vars == <<log, now, stamp, projection, complete, snapshots, capture, late,
          overlapped>>

-----------------------------------------------------------------------------
(* Reading the log: ORDER BY timestamp; events of one time in row order.   *)

Gap(s) == [session |-> s, at |-> 1, kind |-> "deleted", task |-> None]

RowsOf(s) == {i \in DOMAIN log : log[i].session = s /\ log[i].kind # "deleted"}

(* The sessions retention has deleted events of. *)
Purged ==
  {s \in Session : \E i \in DOMAIN log : log[i].session = s /\ log[i].kind = "deleted"}

ReadBefore(i, j) ==
  log[i].at < log[j].at \/ (log[i].at = log[j].at /\ i < j)

(* The number of row i among the events of s. *)
Number(s, i) == Cardinality({j \in RowsOf(s) : ReadBefore(j, i)}) + 1

EventsOf(s) ==
  [n \in 1..Cardinality(RowsOf(s)) |-> log[CHOOSE i \in RowsOf(s) : Number(s, i) = n]]

(* SessionSummaryProjection and TaskBoardProjection: one event at a time. *)
Blank == [status |-> "unknown", events |-> 0, completed |-> 0,
          board |-> [t \in Task |-> "none"]]

Board(b, e) ==
  IF e.task = None THEN b
  ELSE [b EXCEPT ![e.task] = TaskMove[e.kind]]

Project(view, e) ==
  [status |-> IF e.kind \in DOMAIN SessionMove THEN SessionMove[e.kind]
              ELSE view.status,
   events |-> view.events + 1,
   completed |-> view.completed + (IF e.kind = "task_completed" THEN 1 ELSE 0),
   board |-> Board(view.board, e)]

Rebuilt(s) == FoldLeft(Project, Blank, EventsOf(s))

(* reconstructSessionState and reconstructTaskState over a list of events: *)
(* the fields of the session, and one field for each task.  A task that no *)
(* event names is absent; events without a task count for all of them.     *)
Field == {"status", "active", "updatedAt"} \cup Task
Absent == [status |-> "none", updatedAt |-> 0]

FieldAfter(old, e, f) ==
  CASE f = "status" -> IF e.kind \in DOMAIN SessionMove
                       THEN SessionMove[e.kind] ELSE old
    [] f = "active" -> IF e.kind = "task_started" THEN e.task
                       ELSE IF e.kind \in {"task_completed", "task_failed"}
                               /\ old = e.task THEN None ELSE old
    [] f = "updatedAt" -> e.at
    [] f \in Task ->
         IF e.task = f
         THEN [status |-> TaskMove[e.kind], updatedAt |-> e.at]
         ELSE IF e.task = None /\ old # Absent
         THEN [old EXCEPT !.updatedAt = e.at] ELSE old

Reduce(state, e) == [f \in Field |-> FieldAfter(state[f], e, f)]

Start == [f \in Field |-> CASE f = "status" -> "unknown"
                            [] f = "active" -> None
                            [] f = "updatedAt" -> 0
                            [] f \in Task -> Absent]

StateAfter(events) == FoldLeft(Reduce, Start, events)

-----------------------------------------------------------------------------
(* Snapshots.  seq is eventSequenceNumber, the number of events the state  *)
(* was reduced from; diff gives the fields of a delta their new values and *)
(* is empty for a keyframe; intact means that the checksum matches.        *)

SnapshotsOf(s) == {i \in DOMAIN snapshots : snapshots[i].session = s}

(* listSnapshots: ORDER BY event_sequence_number; those of one event in     *)
(* the order of their inserts.                                             *)
ListedBefore(i, j) ==
  \/ snapshots[i].seq < snapshots[j].seq
  \/ snapshots[i].seq = snapshots[j].seq /\ i < j

LastListed(I) == CHOOSE i \in I : \A j \in I \ {i} : ListedBefore(j, i)

(* The snapshot a delta is computed against is the last one listed. *)
Base(s) == LastListed(SnapshotsOf(s))

Changes(before, after) ==
  [f \in {g \in Field : before[g] # after[g]} |-> after[f]]

NoChange == [f \in {} |-> None]

(* eventSequenceNumber. *)
Sequence(s) == Len(EventsOf(s))

(* The row captureSnapshot makes of the session's events and the snapshots *)
(* listed, a keyframe when forced, the first, or one in KeyframeInterval.  *)
Snapshot(s, forced) ==
  LET state == StateAfter(EventsOf(s))
      keyframe == forced \/ Cardinality(SnapshotsOf(s)) % KeyframeInterval = 0
  IN [session |-> s, seq |-> Sequence(s), keyframe |-> keyframe,
      state |-> state, intact |-> TRUE,
      diff |-> IF keyframe THEN NoChange
               ELSE Changes(snapshots[Base(s)].state, state)]

(* reconstructStateAt, for a target that is already an event number n: the *)
(* nearest intact keyframe up to n, the deltas after it up to n, and, when *)
(* events are left after the last of those, all first n events again.      *)
Keyframes(s, n) ==
  {i \in SnapshotsOf(s) :
     snapshots[i].keyframe /\ snapshots[i].seq <= n /\ snapshots[i].intact}

(* The latest of them; of two for one event, the one inserted first. *)
Nearest(s, n) ==
  CHOOSE i \in Keyframes(s, n) :
    \A j \in Keyframes(s, n) \ {i} :
      \/ snapshots[j].seq < snapshots[i].seq
      \/ snapshots[j].seq = snapshots[i].seq /\ i < j

(* Faulty: the deltas after the event asked for are applied too. *)
Deltas_ToEnd(s, from, n) ==
  {i \in SnapshotsOf(s) : ~snapshots[i].keyframe /\ snapshots[i].seq > from}

Deltas(s, from, n) ==
  {i \in SnapshotsOf(s) :
     ~snapshots[i].keyframe /\ snapshots[i].seq > from /\ snapshots[i].seq <= n}

(* Deltas are applied as they are listed: of those in D that change a      *)
(* field the last one counts.                                              *)
Patched(state, D) ==
  [f \in Field |->
     LET changing == {i \in D : f \in DOMAIN snapshots[i].diff}
     IN IF changing = {} THEN state[f]
        ELSE snapshots[LastListed(changing)].diff[f]]

StateAt(s, n) == StateAfter(SubSeq(EventsOf(s), 1, n))

Reconstructed(s, n) ==
  IF Keyframes(s, n) = {} THEN StateAt(s, n)
  ELSE LET base == snapshots[Nearest(s, n)]
           deltas == Deltas(s, base.seq, n)
           state == Patched(base.state, deltas)
           replay == StateAt(s, n)
       IN IF base.seq = n \/ \E i \in deltas : snapshots[i].seq = n THEN state
          ELSE [f \in Field |-> IF f \in Task /\ replay[f] = Absent
                                 THEN state[f] ELSE replay[f]]

(* What reconstructStateAt answers for s is what its events say. *)
IsFold(s) ==
  \A n \in 1..Len(EventsOf(s)) : Reconstructed(s, n) = StateAt(s, n)

-----------------------------------------------------------------------------
NoEvents == {s \in Session : RowsOf(s) = {}}

Init ==
  /\ log = <<>> /\ now = 1
  /\ stamp = [p \in Proc |-> 0]
  /\ projection = [s \in Session |-> Blank]
  /\ complete = Session
  /\ snapshots = <<>>
  /\ capture = [k \in Capture |-> None]
  /\ late = {} /\ overlapped = {}

(* Process p makes an event: its timestamp is now. *)
Stamp(p) ==
  /\ stamp[p] = 0 /\ Len(log) < MaxEvents
  /\ stamp' = [stamp EXCEPT ![p] = now]
  /\ UNCHANGED <<log, now, projection, complete, snapshots, capture, late,
                 overlapped>>

Tick ==
  /\ now < MaxTime /\ now' = now + 1
  /\ UNCHANGED <<log, stamp, projection, complete, snapshots, capture, late,
                 overlapped>>

(* Event e is in the table.  heard: the subscribers of Here are notified.  *)
Committed(e, heard) ==
  /\ log' = Append(log, e)
  /\ late' = IF \E i \in RowsOf(e.session) : log[i].at > e.at
             THEN late \cup {e.session} ELSE late
  /\ projection' = IF heard THEN [projection EXCEPT ![e.session] = Project(@, e)]
                   ELSE projection
  /\ complete' = IF heard /\ e.session \notin late' THEN complete
                 ELSE complete \ {e.session}

(* append notifies after its transaction.  appendWithinTransaction leaves  *)
(* that to its caller, who calls notifyCommitted, or does not when the     *)
(* operation ends in an error although it committed.                       *)
Commit(p) ==
  /\ stamp[p] # 0 /\ Len(log) < MaxEvents
  /\ \E s \in Session, kind \in Kind, heard \in BOOLEAN :
       /\ heard => p = Here
       /\ \E t \in IF kind \in DOMAIN TaskMove THEN Task ELSE {None} :
            Committed([session |-> s, at |-> stamp[p], kind |-> kind,
                       task |-> t], heard)
  /\ stamp' = [stamp EXCEPT ![p] = 0]
  /\ UNCHANGED <<now, snapshots, capture, overlapped>>

(* append inside a transaction of its caller: subscribers are told before  *)
(* the caller's COMMIT, and it rolls back.  This happens any number of     *)
(* times; TLC's instances do not look at the projections it leaves behind. *)
HeardInVain(s) ==
  /\ stamp[Here] # 0
  /\ \E kind \in Kind : \E t \in IF kind \in DOMAIN TaskMove THEN Task ELSE {None} :
       projection' = [projection EXCEPT ![s] =
         Project(@, [session |-> s, at |-> stamp[Here], kind |-> kind, task |-> t])]
  /\ complete' = complete \ {s}
  /\ stamp' = [stamp EXCEPT ![Here] = 0]
  /\ UNCHANGED <<log, now, snapshots, capture, late, overlapped>>

(* DataRetentionManager deletes all events of an old session, and nothing  *)
(* that was derived from them.  The event that says so has no session.     *)
PurgeSession(s) ==
  /\ RowsOf(s) # {}
  /\ log' = [i \in DOMAIN log |-> IF i \in RowsOf(s) THEN Gap(s) ELSE log[i]]
  /\ complete' = complete \ {s}
  /\ UNCHANGED <<now, stamp, projection, snapshots, capture, late, overlapped>>

(* Faulty: the events are replayed over what is there. *)
RebuildAll_NoReset ==
  /\ projection' = [s \in Session |->
                      FoldLeft(Project, projection[s], EventsOf(s))]
  /\ complete' = Session
  /\ UNCHANGED <<log, now, stamp, snapshots, capture, late, overlapped>>

(* rebuildAll: every projection is reset and every event replayed. *)
RebuildAll ==
  /\ projection' = [s \in Session |-> Rebuilt(s)]
  /\ complete' = Session
  /\ UNCHANGED <<log, now, stamp, snapshots, capture, late, overlapped>>

(* rebuildSession: every projection is reset and the events of one session *)
(* replayed.  What was held of the other sessions is gone.                 *)
RebuildSession(s) ==
  /\ projection' = [x \in Session |-> IF x = s THEN Rebuilt(s) ELSE Blank]
  /\ complete' = NoEvents \cup {s}
  /\ UNCHANGED <<log, now, stamp, snapshots, capture, late, overlapped>>

(* Here dies and starts again with empty projections. *)
Restart ==
  /\ projection' = [s \in Session |-> Blank]
  /\ complete' = NoEvents
  /\ stamp' = [stamp EXCEPT ![Here] = 0]
  /\ UNCHANGED <<log, now, snapshots, capture, late, overlapped>>

(* captureSnapshot up to its await, and after it.  A failed INSERT is      *)
(* ignored.                                                                *)
CaptureReads(k, s) ==
  /\ capture[k] = None /\ RowsOf(s) # {} /\ Len(snapshots) < MaxSnapshots
  /\ \E forced \in BOOLEAN :
       capture' = [capture EXCEPT ![k] =
                     [row |-> Snapshot(s, forced), read |-> SnapshotsOf(s)]]
  /\ UNCHANGED <<log, now, stamp, projection, complete, snapshots, late,
                 overlapped>>

CaptureInserts(k) ==
  /\ capture[k] # None /\ Len(snapshots) < MaxSnapshots
  /\ snapshots' = Append(snapshots, capture[k].row)
  /\ overlapped' = IF SnapshotsOf(capture[k].row.session) = capture[k].read
                   THEN overlapped
                   ELSE overlapped \cup {capture[k].row.session}
  /\ capture' = [capture EXCEPT ![k] = None]
  /\ UNCHANGED <<log, now, stamp, projection, complete, late>>

CaptureFails(k) ==
  /\ capture[k] # None
  /\ capture' = [capture EXCEPT ![k] = None]
  /\ UNCHANGED <<log, now, stamp, projection, complete, snapshots, late,
                 overlapped>>

(* A keyframe is damaged on disk; its checksum tells. *)
Damage(i) ==
  /\ snapshots[i].keyframe /\ snapshots[i].intact
  /\ snapshots' = [snapshots EXCEPT ![i].intact = FALSE]
  /\ UNCHANGED <<log, now, stamp, projection, complete, capture, late,
                 overlapped>>

(* rollbackTo, in Here: reconstruct, rebuild all projections, append an    *)
(* event that no reducer knows.  The log keeps what is said to be rolled   *)
(* back, and so do the projections.                                        *)
RollbackTo(s) ==
  /\ RowsOf(s) # {} /\ Len(log) < MaxEvents /\ stamp[Here] = 0
  /\ LET e == [session |-> s, at |-> now, kind |-> "session_rolled_back",
               task |-> None]
     IN /\ log' = Append(log, e)
        /\ projection' = [x \in Session |->
             IF x = s THEN Project(Rebuilt(s), e) ELSE Rebuilt(x)]
  /\ complete' = Session
  /\ UNCHANGED <<now, stamp, snapshots, capture, late, overlapped>>

Next ==
  \/ Tick
  \/ \E p \in Proc : Stamp(p) \/ Commit(p)
  \/ RebuildAll \/ Restart
  \/ \E s \in Session : \/ RebuildSession(s) \/ RollbackTo(s)
                        \/ HeardInVain(s) \/ PurgeSession(s)
  \/ \E k \in Capture : \/ \E s \in Session : CaptureReads(k, s)
                        \/ CaptureInserts(k) \/ CaptureFails(k)
  \/ \E i \in DOMAIN snapshots : Damage(i)

Spec == Init /\ [][Next]_vars

-----------------------------------------------------------------------------
EventType == [session : Session, at : 1..MaxTime,
              kind : Kind \cup {"session_rolled_back", "deleted"}, task : Task \cup {None}]

(* Type invariant. *)
LogTypeOK ==
  /\ log \in Seq(EventType)
  /\ now \in 1..MaxTime /\ stamp \in [Proc -> 0..MaxTime]
  /\ complete \subseteq Session
  /\ \A i \in DOMAIN snapshots :
       /\ snapshots[i].session \notin Purged =>
            snapshots[i].seq \in 1..Len(EventsOf(snapshots[i].session))
       /\ snapshots[i].keyframe => snapshots[i].diff = NoChange
  /\ late \subseteq Session /\ overlapped \subseteq Session

(* What the projections hold of a session is what a rebuild would give, as *)
(* long as the process has heard, or rebuilt since, every event of the     *)
(* session, each after those of an earlier time: no event is counted twice *)
(* or lost by notifications, rebuilds, rollbacks and restarts.             *)
ProjectionIsFold ==
  \A s \in complete : projection[s] = Rebuilt(s)

(* No delta was taken after a keyframe that is damaged now. *)
DeltasHaveBase(s) ==
  \A i, j \in SnapshotsOf(s) :
    ListedBefore(i, j) /\ ~snapshots[i].intact => snapshots[j].keyframe

(* The state reconstructed at any event number, from whatever keyframes    *)
(* and deltas are there, is the one the events up to it give, unless in    *)
(* this session an event came late, two captures overlapped, events were   *)
(* deleted, or a keyframe that later deltas build on is damaged.           *)
ReconstructionIsFold ==
  \A s \in Session \ (late \cup overlapped \cup Purged) : DeltasHaveBase(s) => IsFold(s)

(* A damaged keyframe is made up for by an earlier one or by the events.   *)
(* It is not: its own change has no delta, so the deltas after it are      *)
(* applied to a state that lacks that change.                              *)
DamageIsMadeUpFor ==
  \A s \in Session \ (late \cup overlapped \cup Purged) : IsFold(s)

(* Two captures that overlap leave snapshots that tell the same history.   *)
(* They do not: the second delta lacks a field that changed for the first  *)
(* one and changed back.                                                   *)
OverlapIsHarmless ==
  \A s \in Session \ (late \cup Purged) : DeltasHaveBase(s) => IsFold(s)

(* An event that comes late leaves the snapshots right.  It does not: it   *)
(* moves the numbers of the events after it.                               *)
LateEventIsHarmless ==
  \A s \in Session \ (overlapped \cup Purged) : DeltasHaveBase(s) => IsFold(s)

(* What is deleted is gone from the snapshots too.  It is not: a session   *)
(* that goes on after a purge is numbered anew, below its old snapshots.    *)
PurgeIsHarmless ==
  \A s \in Session \ (late \cup overlapped) : DeltasHaveBase(s) => IsFold(s)

(* Rebuilding one session leaves what is held of the others.  It does not: *)
(* the projections are reset as a whole.                                   *)
ViewsAreKept ==
  [][\A s \in Session : projection'[s] = Blank => projection[s] = Blank \/ Restart]_vars
==============================================================================
