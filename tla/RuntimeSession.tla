--------------------------- MODULE RuntimeSession ---------------------------
(***************************************************************************)
(* The durable runtime log of one session: RuntimeSession                  *)
(* (harness/src/runtime-session.ts) with its recovery and snapshot policy, *)
(* over SqliteRuntimeStore (runtime-store/src/sqlite-runtime-store.ts).    *)
(*                                                                         *)
(* append() and record() join one FIFO chain of operations; each writes    *)
(* its event to the store, and only then touches memory.  Snapshots are    *)
(* taken on the way.  The process may crash between any two steps; the     *)
(* next process recovers from the latest snapshot and the events after it. *)
(*                                                                         *)
(* The callers are the agent loop, which writes one event at a time, and   *)
(* any number of external operations, each of which records that it        *)
(* started and that it ended.  Other sessions write to the same store, so  *)
(* the offsets of this one have gaps.  Time is abstracted: the snapshot    *)
(* policy's age test and the end of a retry back-off may go either way.    *)
(***************************************************************************)
EXTENDS Integers, Sequences, FiniteSets, FiniteSetsExt

CONSTANTS
  Runs, NoRun,
  Operations, NoOperation,   \* external operations (model steps, compactions)
  maxEvents,                 \* snapshotPolicy.maxEvents
  MaxLog,                    \* bound: events in the store
  MaxOther,                  \* bound: events of other sessions
  MaxFaults,                 \* bound: store calls that fail
  MaxCrashes                 \* bound: crashes of the process

ASSUME SessionAssumption ==
  /\ NoRun \notin Runs /\ NoOperation \notin Operations
  /\ maxEvents \in Nat \ {0}
  /\ MaxLog \in Nat /\ MaxOther \in Nat /\ MaxFaults \in Nat /\ MaxCrashes \in Nat

VARIABLES
  log, snapshot,             \* the store: events by offset, the latest snapshot
  phase,                     \* how far initialize() is
  projection, lastEventOffset, previousSnapshotOffset,
  unsnapshottedEventCount, consecutiveFailures,
  memoryStore,               \* events of each run in the in-memory store
  operationQueue, stage,     \* the FIFO chain and the await its head is at
  loop,                      \* the agent loop, the caller of append()
  usedRuns, operation,       \* run ids in use; the callers of record()
  acknowledged,              \* events whose call has resolved
  faults, crashes

store    == <<log, snapshot>>
counters == <<previousSnapshotOffset, unsnapshottedEventCount, consecutiveFailures>>
hot      == <<projection, lastEventOffset, counters, memoryStore>>
callers  == <<loop, usedRuns, operation>>
bounds   == <<faults, crashes>>
vars     == <<store, phase, hot, operationQueue, stage, callers, acknowledged, bounds>>

-----------------------------------------------------------------------------
(* Events and the projection.                                               *)

\* "broken" is a turn or run event that ends a turn over a running step: the
\* store takes it, projectAgentRun does not.
ExecutionKinds == {"run.started", "event", "broken", "run.ended"}
ContextKinds   == {"context.started", "context.ended"}
Kinds == ExecutionKinds \cup ContextKinds \cup {"runtime.session_opened", "other.session"}

ExecutionEvent(kind, run, sequence) ==
  [kind |-> kind, run |-> run, sequence |-> sequence, operation |-> NoOperation]
ContextEvent(kind, op) ==
  [kind |-> kind, run |-> NoRun, sequence |-> 0, operation |-> op]
SystemEvent(kind) == ContextEvent(kind, NoOperation)

Events == [kind : Kinds, run : Runs \cup {NoRun}, sequence : Nat,
           operation : Operations \cup {NoOperation}]

Absent == [events |-> 0, lastEventOffset |-> 0, broken |-> FALSE]

\* createRuntimeSessionProjection
EmptyProjection ==
  [openRuns |-> [r \in Runs |-> Absent], pendingContexts |-> [o \in Operations |-> 0]]

\* reduceRuntimeSessionProjection
reduce(state, event, offset) ==
  IF event.kind = "run.ended"
  THEN [state EXCEPT !.openRuns[event.run] = Absent]
  ELSE IF event.kind \in ExecutionKinds
  THEN [state EXCEPT !.openRuns[event.run] =
          [events |-> @.events + 1, lastEventOffset |-> offset,
           broken |-> @.broken \/ event.kind = "broken"]]
  ELSE IF event.kind \in ContextKinds
  THEN [state EXCEPT !.pendingContexts[event.operation] =
          IF event.kind = "context.started" THEN offset ELSE 0]
  ELSE state

\* The offsets, up to n, of this session's events.
OwnOffsets(n) == {k \in 1..n : log[k].kind # "other.session"}

\* The reducer run over this session's events at offsets from+1 .. to.
ReplayFrom(state, from, to) ==
  LET replay[n \in from..to] ==
        IF n = from THEN state
        ELSE IF log[n].kind = "other.session" THEN replay[n - 1]
        ELSE reduce(replay[n - 1], log[n], n)
  IN  replay[to]

-----------------------------------------------------------------------------
(* initialize()                                                             *)

NoSnapshot == [eventOffset |-> 0, state |-> EmptyProjection]

\* Mutant of RecoverFrom: listAfter includes the snapshot's own event again.
RecoverFromInclusive == IF snapshot.eventOffset = 0 THEN 0 ELSE snapshot.eventOffset - 1

\* recoverRuntime replays the events after the latest snapshot.
RecoverFrom == snapshot.eventOffset

\* The state of this session when its process is not running.
Reset ==
  /\ projection' = EmptyProjection /\ lastEventOffset' = 0
  /\ previousSnapshotOffset' = 0 /\ unsnapshottedEventCount' = 0
  /\ consecutiveFailures' = 0
  /\ memoryStore' = [r \in Runs |-> 0]
  /\ operationQueue' = <<>> /\ stage' = "none"

\* recoverRuntime, then the recovery report, which projects every open run
\* and throws on a broken one.
Recover ==
  /\ phase = "closed"
  /\ LET own       == OwnOffsets(Len(log))
         recovered == ReplayFrom(snapshot.state, RecoverFrom, Len(log))
     IN  /\ projection' = recovered
         /\ lastEventOffset' = Max(own \cup {snapshot.eventOffset})
         /\ previousSnapshotOffset' = snapshot.eventOffset
         /\ unsnapshottedEventCount' = Cardinality({k \in own : k > RecoverFrom})
         /\ memoryStore' = [r \in Runs |-> recovered.openRuns[r].events]
         /\ IF \E r \in Runs : recovered.openRuns[r].broken
            THEN phase' = "failed" /\ UNCHANGED <<stage, operationQueue>>
            ELSE /\ phase' = "opening"
                 /\ operationQueue' = <<SystemEvent("runtime.session_opened")>>
                 /\ stage' = "appending"
  /\ UNCHANGED <<store, consecutiveFailures, callers, acknowledged, bounds>>

\* A store call of initialize() fails: ready() stays rejected for the life of
\* the process.
RecoverFails ==
  /\ phase = "closed"
  /\ faults < MaxFaults
  /\ faults' = faults + 1
  /\ phase' = "failed"
  /\ UNCHANGED <<store, hot, operationQueue, stage, callers, acknowledged, crashes>>

-----------------------------------------------------------------------------
(* One operation of the chain.                                              *)

\* The chain starts its next operation: the event is validated and sent.
Begin ==
  /\ phase = "ready" /\ stage = "none" /\ operationQueue # <<>>
  /\ stage' = "appending"
  /\ UNCHANGED <<store, phase, hot, operationQueue, callers, acknowledged, bounds>>

\* runtimeEvent.create commits; the row's offset is the store's next.
Commit ==
  /\ stage = "appending"
  /\ log' = Append(log, Head(operationQueue))
  /\ stage' = "committed"
  /\ UNCHANGED <<snapshot, phase, hot, operationQueue, callers, acknowledged, bounds>>

\* The caller's promise settles and it goes on: with its next event or
\* operation, or without the one that was refused.  The agent loop gives up a
\* run at the second refusal.
Settle(event, ok) ==
  /\ loop' = IF event.kind \notin ExecutionKinds THEN loop
             ELSE IF event.kind = "broken" /\ ok THEN [loop EXCEPT !.state = "wedged"]
             ELSE IF ok /\ event.kind # "run.ended"
             THEN [loop EXCEPT !.state = "running", !.sequence = @ + 1]
             ELSE IF event.kind \in {"run.started", "run.ended"} \/ loop.refused
             THEN [loop EXCEPT !.state = "idle", !.run = NoRun]
             ELSE [loop EXCEPT !.state = "running", !.refused = TRUE]
  /\ operation' = IF event.kind \notin ContextKinds THEN operation
                  ELSE [operation EXCEPT ![event.operation] =
                          IF event.kind = "context.started" THEN "started" ELSE "ended"]
  /\ UNCHANGED usedRuns

\* Mutant of Finish: a rejected operation is not caught, so nothing queued
\* behind it ever runs.
FinishStalling(ok) ==
  /\ Settle(Head(operationQueue), ok)
  /\ operationQueue' = Tail(operationQueue)
  /\ stage' = IF ok THEN "none" ELSE "stalled"
  /\ phase' = IF phase = "opening" THEN IF ok THEN "ready" ELSE "failed" ELSE phase
  /\ acknowledged' = IF ok THEN acknowledged \cup {Head(operationQueue)} ELSE acknowledged

\* The head of the chain settles, either way, and the chain moves on.  The
\* event of initialize() settles ready() instead.
Finish(ok) ==
  /\ Settle(Head(operationQueue), ok)
  /\ operationQueue' = Tail(operationQueue)
  /\ stage' = "none"
  /\ phase' = IF phase = "opening" THEN IF ok THEN "ready" ELSE "failed" ELSE phase
  /\ acknowledged' = IF ok THEN acknowledged \cup {Head(operationQueue)} ELSE acknowledged

\* Mutant of CommitRefused: the store's rejection is swallowed.
CommitRefusalSwallowed ==
  /\ stage = "appending"
  /\ faults < MaxFaults
  /\ faults' = faults + 1
  /\ Finish(TRUE)
  /\ UNCHANGED <<store, hot, crashes>>

\* store.append rejects; nothing is recorded and memory is as before.
CommitRefused ==
  /\ stage = "appending"
  /\ faults < MaxFaults
  /\ faults' = faults + 1
  /\ Finish(FALSE)
  /\ UNCHANGED <<store, hot, crashes>>

\* applyDurableEvent up to the snapshot: memory follows the durable event.
\* byAge: the policy's age limit is reached; elapsed: the back-off is over.
ApplyDurableEvent ==
  /\ stage = "committed"
  /\ LET offset == Max({k \in OwnOffsets(Len(log)) : log[k] = Head(operationQueue)})
         event  == Head(operationQueue)
     IN  /\ projection' = reduce(projection, event, offset)
         /\ lastEventOffset' = offset
         /\ unsnapshottedEventCount' = unsnapshottedEventCount + 1
         /\ memoryStore' = IF event.kind \notin ExecutionKinds THEN memoryStore
                           ELSE [memoryStore EXCEPT ![event.run] = @ + 1]
  /\ \E byAge, elapsed \in BOOLEAN :
       IF /\ consecutiveFailures > 0 => elapsed
          /\ byAge \/ unsnapshottedEventCount + 1 >= maxEvents
       THEN stage' = "snapshotting" /\ UNCHANGED <<operationQueue, phase, callers, acknowledged>>
       ELSE Finish(TRUE)
  /\ UNCHANGED <<store, previousSnapshotOffset, consecutiveFailures, bounds>>

\* runtimeSnapshot.create commits.
SnapshotCommits ==
  /\ stage = "snapshotting"
  /\ snapshot' = [eventOffset |-> lastEventOffset, state |-> projection]
  /\ stage' = "snapshotted"
  /\ UNCHANGED <<log, phase, hot, operationQueue, callers, acknowledged, bounds>>

SnapshotSaved ==
  /\ stage = "snapshotted"
  /\ previousSnapshotOffset' = snapshot.eventOffset
  /\ unsnapshottedEventCount' = 0
  /\ consecutiveFailures' = 0
  /\ Finish(TRUE)
  /\ UNCHANGED <<store, projection, lastEventOffset, memoryStore, bounds>>

\* A snapshot that fails is retried later; the append has succeeded all the same.
SnapshotFails ==
  /\ stage = "snapshotting"
  /\ faults < MaxFaults
  /\ faults' = faults + 1
  /\ consecutiveFailures' = consecutiveFailures + 1
  /\ Finish(TRUE)
  /\ UNCHANGED <<store, projection, lastEventOffset, previousSnapshotOffset,
                 unsnapshottedEventCount, memoryStore, crashes>>

-----------------------------------------------------------------------------
(* The callers.                                                             *)

\* append() or record(): once ready() has resolved the call joins the chain.
Call(event) ==
  /\ phase = "ready"
  /\ Len(log) + Len(operationQueue) < MaxLog
  /\ operationQueue' = Append(operationQueue, event)
  /\ UNCHANGED <<store, phase, hot, stage, acknowledged, bounds>>

\* AgentLoop.run appends run.started of a new run.
StartRun(r) ==
  /\ loop.state = "idle" /\ r \notin usedRuns
  /\ Call(ExecutionEvent("run.started", r, 0))
  /\ loop' = [state |-> "waiting", run |-> r, sequence |-> 0, refused |-> FALSE]
  /\ usedRuns' = usedRuns \cup {r}
  /\ UNCHANGED operation

\* AgentLoop appends the next event of its run.  It breaks the log only after
\* a refused append (AgentLoop!LogReplays).
AppendEvent(kind) ==
  /\ loop.state = "running"
  /\ kind = "broken" => loop.refused
  /\ Call(ExecutionEvent(kind, loop.run, loop.sequence))
  /\ loop' = [loop EXCEPT !.state = "waiting"]
  /\ UNCHANGED <<usedRuns, operation>>

\* An external operation records that it starts, and later that it ended.
RecordOperation(o) ==
  \/ /\ operation[o] = "new"
     /\ Call(ContextEvent("context.started", o))
     /\ operation' = [operation EXCEPT ![o] = "starting"]
     /\ UNCHANGED <<loop, usedRuns>>
  \/ /\ operation[o] = "started"
     /\ Call(ContextEvent("context.ended", o))
     /\ operation' = [operation EXCEPT ![o] = "ending"]
     /\ UNCHANGED <<loop, usedRuns>>

\* Another session appends to the same store.
OtherSessionAppends ==
  /\ Len(log) - Cardinality(OwnOffsets(Len(log))) < MaxOther
  /\ Len(log) + Len(operationQueue) < MaxLog
  /\ log' = Append(log, SystemEvent("other.session"))
  /\ UNCHANGED <<snapshot, phase, hot, operationQueue, stage, callers, acknowledged, bounds>>

\* The process dies; the callers die with it.
Crash ==
  /\ crashes < MaxCrashes
  /\ crashes' = crashes + 1
  /\ phase' = "closed"
  /\ Reset
  /\ loop' = [loop EXCEPT !.state = "idle", !.run = NoRun]
  /\ operation' = [o \in Operations |->
                     IF operation[o] \in {"new", "ended"} THEN operation[o] ELSE "dead"]
  /\ UNCHANGED <<store, usedRuns, acknowledged, faults>>

-----------------------------------------------------------------------------

Init ==
  /\ log = <<>> /\ snapshot = NoSnapshot
  /\ phase = "closed"
  /\ projection = EmptyProjection /\ lastEventOffset = 0
  /\ previousSnapshotOffset = 0 /\ unsnapshottedEventCount = 0
  /\ consecutiveFailures = 0
  /\ memoryStore = [r \in Runs |-> 0]
  /\ operationQueue = <<>> /\ stage = "none"
  /\ loop = [state |-> "idle", run |-> NoRun, sequence |-> 0, refused |-> FALSE]
  /\ usedRuns = {}
  /\ operation = [o \in Operations |-> "new"]
  /\ acknowledged = {}
  /\ faults = 0 /\ crashes = 0

\* What the session does by itself.
SessionStep ==
  \/ Recover \/ Begin \/ Commit \/ ApplyDurableEvent \/ SnapshotCommits \/ SnapshotSaved

CallerStep ==
  \/ \E r \in Runs : StartRun(r)
  \/ \E kind \in ExecutionKinds \ {"run.started"} : AppendEvent(kind)
  \/ \E o \in Operations : RecordOperation(o)

FaultStep == RecoverFails \/ CommitRefused \/ SnapshotFails \/ Crash

Next == SessionStep \/ CallerStep \/ OtherSessionAppends \/ FaultStep

Spec == Init /\ [][Next]_vars

\* The event loop resumes the chain, and the store answers.
FairSpec == Spec /\ WF_vars(SessionStep)

-----------------------------------------------------------------------------
(* Properties.                                                              *)

ProjectionType ==
  [openRuns : [Runs -> [events : Nat, lastEventOffset : Nat, broken : BOOLEAN]],
   pendingContexts : [Operations -> Nat]]

\* Every variable stays in its range.
TypeOK ==
  /\ log \in Seq(Events)
  /\ snapshot \in [eventOffset : Nat, state : ProjectionType]
  /\ phase \in {"closed", "opening", "ready", "failed"}
  /\ projection \in ProjectionType
  /\ lastEventOffset \in Nat /\ previousSnapshotOffset \in Nat
  /\ unsnapshottedEventCount \in Nat /\ consecutiveFailures \in Nat
  /\ memoryStore \in [Runs -> Nat]
  /\ operationQueue \in Seq(Events)
  /\ stage \in {"none", "appending", "committed", "snapshotting", "snapshotted"}
  /\ loop \in [state : {"idle", "waiting", "running", "wedged"}, run : Runs \cup {NoRun},
               sequence : Nat, refused : BOOLEAN]
  /\ usedRuns \subseteq Runs
  /\ operation \in [Operations -> {"new", "starting", "started", "ending", "ended", "dead"}]
  /\ acknowledged \subseteq Events
  /\ faults \in Nat /\ crashes \in Nat

\* What the log up to offset n says, read off directly: a run is open if it
\* has events and none of them ends it, an operation is pending if it started
\* and has not ended.
RunOffsets(r, n)       == {k \in 1..n : log[k].run = r}
OperationOffsets(o, n) == {k \in 1..n : log[k].operation = o}

OpenRun(r, n) ==
  LET at == RunOffsets(r, n)
  IN  IF at = {} \/ \E k \in at : log[k].kind = "run.ended" THEN Absent
      ELSE [events |-> Cardinality(at), lastEventOffset |-> Max(at),
            broken |-> \E k \in at : log[k].kind = "broken"]

PendingContext(o, n) ==
  LET at == OperationOffsets(o, n)
  IN  IF at = {} \/ \E k \in at : log[k].kind = "context.ended" THEN 0 ELSE Max(at)

TrueProjection(n) ==
  [openRuns |-> [r \in Runs |-> OpenRun(r, n)],
   pendingContexts |-> [o \in Operations |-> PendingContext(o, n)]]

\* The hot projection is what the durable log says up to lastEventOffset,
\* through crashes, snapshots and recoveries, and nothing of this session is
\* left out but the event now being applied.
ProjectionFollowsLog ==
  phase \in {"opening", "ready"} =>
    /\ projection = TrueProjection(lastEventOffset)
    /\ Cardinality({k \in OwnOffsets(Len(log)) : k > lastEventOffset})
         = IF stage = "committed" THEN 1 ELSE 0

\* The latest snapshot is what the log says at its offset, so that recovering
\* from it and replaying the tail loses and repeats nothing.
SnapshotFollowsLog == snapshot.state = TrueProjection(snapshot.eventOffset)

\* The in-memory store accepts exactly the next sequence number of every open
\* run: it holds what the durable log holds of it.
MemoryFollowsLog ==
  phase \in {"opening", "ready"} /\ stage # "committed" =>
    \A r \in Runs :
      LET at == RunOffsets(r, Len(log))
      IN  /\ at # {} /\ ~(\E k \in at : log[k].kind = "run.ended") =>
               memoryStore[r] = Cardinality(at)
          /\ loop.run = r /\ loop.state = "running" => loop.sequence = memoryStore[r]

\* The sequence numbers of each run are 0, 1, 2, ... in log order, though
\* refused appends reuse theirs and other calls interleave.
SequencesAreGapless ==
  \A r \in Runs : \A k \in RunOffsets(r, Len(log)) :
    log[k].sequence = Cardinality({j \in RunOffsets(r, Len(log)) : j < k})

\* A call that resolved is in the log, and stays there through every crash.
AcknowledgedIsDurable ==
  \A e \in acknowledged : \E k \in 1..Len(log) : log[k] = e

\* The count the snapshot policy reads is this session's events since the
\* snapshot it knows of, gaps and failed attempts notwithstanding.
CountSinceSnapshot ==
  phase \in {"opening", "ready"} =>
    unsnapshottedEventCount =
      Cardinality({k \in OwnOffsets(Len(log)) :
                     previousSnapshotOffset < k /\ k <= lastEventOffset})

\* What the process holds in memory, and what it would hold after a crash, is
\* what the log says, and the log numbers the events of each run gaplessly.
MemoryAndRecoveryFollowLog ==
  /\ SequencesAreGapless
  /\ ProjectionFollowsLog
  /\ SnapshotFollowsLog
  /\ MemoryFollowsLog
  /\ CountSinceSnapshot

\* Every call settles, whatever became of the calls before it, unless the
\* process dies.
EveryCallSettles == (operationQueue # <<>>) ~> (operationQueue = <<>>)

=============================================================================
