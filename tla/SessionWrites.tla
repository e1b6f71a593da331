--------------------------- MODULE SessionWrites ----------------------------
(***************************************************************************)
(* Who writes the session tree, and in which order: SessionController      *)
(* (cli/src/app/session/session-controller.ts) over the local session      *)
(* authority and SqliteLocalSessionStore.                                  *)
(*                                                                         *)
(* A write is a tree, built by appending to or moving the head of          *)
(* snapshot, the controller's copy of the stored tree, and then offered to *)
(* the store.  Most writes wait their turn in the FIFO of queueTreeWrite   *)
(* and build their tree when it comes; but submit only waits for the tail  *)
(* of the FIFO it saw and then commits outside it, and an interaction, a   *)
(* navigation and a carried summary are built when they are requested, so  *)
(* that what they wait behind can make them stale.  The store runs one     *)
(* transaction at a time and refuses a tree that does not extend the       *)
(* stored one; the authority then reads the stored tree back.              *)
(*                                                                         *)
(* Every public operation may be called at any time the controller lets    *)
(* it.  What a run does between its writes is AgentLoop's subject.         *)
(* Left out: the session's title, metadata and archival.  ready() is taken *)
(* to have resolved before the first submission has committed.             *)
(***************************************************************************)
EXTENDS Naturals, Sequences, SequencesExt, SessionTree

CONSTANTS
  MaxWrites,                 \* bound: writes requested
  MaxFaults,                 \* bound: store calls that fail
  MaxCrashes                 \* bound: crashes of the process

ASSUME WritesAssumption == MaxWrites \in Nat /\ MaxFaults \in Nat /\ MaxCrashes \in Nat

Writes == 1 .. MaxWrites     \* a write, and the entry it appends
Root   == 0

VARIABLES
  stored,                    \* the tree in the store
  snapshot,                  \* snapshot.sessionTree of the controller
  treeQueue,                 \* the FIFO behind treeWriteTail
  writeQueue,                \* the FIFO behind the store's writeTail
  op,                        \* the writes
  loop, input,               \* the agent loop, and the submission it runs
  idleWaiters,               \* messages that wait until the loop is idle
  phase,                     \* of the process: "open", "draining", "closed"
  stale,                     \* a read-back failed: the snapshot may be old
  left,                      \* heads that unacknowledged navigations left
  acknowledged,              \* entries whose commit returned to its caller
  faults, crashes

control == <<loop, input, idleWaiters, phase>>
bounds  == <<faults, crashes>>
history == <<stale, left, acknowledged>>
vars == <<stored, snapshot, treeQueue, writeQueue, op, control, history, bounds>>

-----------------------------------------------------------------------------
(* Writes.                                                                  *)

RunKinds == {"step", "interaction"}
Kinds    == {"none", "append", "report", "turn", "jump", "carry"} \cup RunKinds
Settled  == {"done", "failed", "lost"}
Locations == {"unused",
  "missed",                  \* a message too late for its run, which is ending
  "waiting",                 \* for the tree FIFO
  "commit",                  \* in the store's FIFO
  "load",                    \* committed; to be read back
  "running", "reporting",    \* a submission whose run is on, or has failed
  "summarizing"}             \* a navigation that carries knowledge
  \cup Settled

NoTree == [path |-> [e \in {} |-> {}], active |-> Root]

\* A write that was never requested, or no longer needs what it was built of.
Blank(kind, loc) ==
  [kind |-> kind, loc |-> loc, tree |-> NoTree, after |-> {}, carry |-> FALSE, owner |-> Root]

\* A write that waits; a built one brings its tree along.
Waiting(kind, tree, carry, owner) ==
  [kind |-> kind, loc |-> "waiting", tree |-> tree, after |-> {}, carry |-> carry, owner |-> owner]

Unsettled(w) == op[w].loc \notin Settled \cup {"unused"}

\* Ids are handed out in order.
Fresh(w) == op[w].loc = "unused" /\ \A v \in Writes : v < w => op[v].loc # "unused"

\* The promises between two locations resolve at once: a write that has come
\* to the head of the FIFO starts before anything else happens.
Starting == treeQueue # <<>> /\ op[Head(treeQueue)].loc = "waiting"
Calm == ~Starting

Release(w) == treeQueue' = IF treeQueue # <<>> /\ Head(treeQueue) = w
                           THEN Tail(treeQueue) ELSE treeQueue

branchNavigationBusy == \E w \in Writes : op[w].kind \in {"jump", "carry"} /\ Unsettled(w)

\* queueTreeWrite.
Enter(w, kind, tree, carry) ==
  /\ op' = [op EXCEPT ![w] = Waiting(kind, tree, carry, Root)]
  /\ treeQueue' = Append(treeQueue, w)

\* A report ends the submission it belongs to, whatever became of it.
SettleOp(w, loc) ==
  [v \in Writes |-> IF v = w THEN Blank(op[w].kind, loc)
                    ELSE IF op[w].kind = "report" /\ v = op[w].owner
                         THEN Blank("turn", loc) ELSE op[v]]

Init ==
  /\ stored = Created(Root) /\ snapshot = stored
  /\ treeQueue = <<>> /\ writeQueue = <<>>
  /\ op = [w \in Writes |-> Blank("none", "unused")]
  /\ loop = "idle" /\ input = Root /\ idleWaiters = <<>> /\ phase = "open"
  /\ stale = FALSE /\ left = {} /\ acknowledged = {}
  /\ faults = 0 /\ crashes = 0

-----------------------------------------------------------------------------
(* Requests.                                                                *)

\* A mode, model or configuration change, a custom entry, a manual compaction.
AppendEntryRequest(w) ==
  /\ Calm /\ Fresh(w)
  /\ Enter(w, "append", NoTree, FALSE)
  /\ UNCHANGED <<stored, snapshot, writeQueue, control, history, bounds>>

\* submit: awaits treeWriteTail, without a place of its own in the FIFO.
Submit(w) ==
  /\ Calm /\ Fresh(w) /\ phase = "open"
  /\ Enter(w, "turn", NoTree, FALSE)
  /\ UNCHANGED <<stored, snapshot, writeQueue, control, history, bounds>>

\* steer and followUp while the loop is busy and takes no more: the message is
\* to be submitted once the loop is idle.
Missed(w) ==
  /\ Calm /\ Fresh(w) /\ phase = "open" /\ loop = "closing"
  /\ op' = [op EXCEPT ![w] = Blank("turn", "missed")]
  /\ idleWaiters' = Append(idleWaiters, w)
  /\ UNCHANGED <<stored, snapshot, treeQueue, writeQueue, loop, input, phase, history,
                 bounds>>

\* An assistant message, a tool call, its terminal, an error of the run.
RunStep(w) ==
  /\ Calm /\ Fresh(w) /\ loop = "running"
  /\ Enter(w, "step", NoTree, FALSE)
  /\ UNCHANGED <<stored, snapshot, writeQueue, control, history, bounds>>

RunWaits == \E w \in Writes : op[w].kind \in RunKinds /\ Unsettled(w)

\* commitInteraction, between two steps: built from the snapshot at once.
CommitInteraction(w) ==
  /\ Calm /\ Fresh(w) /\ loop = "running" /\ ~RunWaits
  /\ Enter(w, "interaction", AppendEntry(snapshot, w), FALSE)
  /\ UNCHANGED <<stored, snapshot, writeQueue, control, history, bounds>>

\* The loop ends: first it takes no more messages, then it is idle.  Who waits
\* for that goes before the submission whose run it was, and before its report:
\* the messages that came too late are submitted now, in the order they came.
CloseRun ==
  /\ Calm /\ loop = "running" /\ ~RunWaits
  /\ loop' = "closing"
  /\ UNCHANGED <<stored, snapshot, treeQueue, writeQueue, op, input, idleWaiters, phase,
                 history, bounds>>

\* Once the process is draining, submit throws.
WithMissed(ops) ==
  [w \in Writes |-> IF op[w].loc = "missed"
                    THEN Blank("turn", IF phase = "open" THEN "waiting" ELSE "failed")
                    ELSE ops[w]]

QueueWithMissed == IF phase = "open" THEN treeQueue \o idleWaiters ELSE treeQueue

EndRun ==
  /\ Calm /\ loop = "closing"
  /\ loop' = "idle" /\ input' = Root /\ idleWaiters' = <<>>
  /\ op' = WithMissed(SettleOp(input, "done"))
  /\ treeQueue' = QueueWithMissed
  /\ UNCHANGED <<stored, snapshot, writeQueue, phase, history, bounds>>

\* A failed run: submit appends a run_failed entry.
ReportRun(w) ==
  /\ Calm /\ Fresh(w) /\ loop = "closing"
  /\ loop' = "idle" /\ input' = Root /\ idleWaiters' = <<>>
  /\ op' = WithMissed([op EXCEPT ![w] = Waiting("report", NoTree, FALSE, input),
                                 ![input] = Blank("turn", "reporting")])
  /\ treeQueue' = Append(QueueWithMissed, w)
  /\ UNCHANGED <<stored, snapshot, writeQueue, phase, history, bounds>>

\* navigateToEntry up to the queued head change.  Knowledge can be carried
\* only when the target's path leaves some of the present one behind.
NavigateToEntry(w, e, carry) ==
  /\ Calm /\ Fresh(w) /\ loop = "idle" /\ ~branchNavigationBusy
  /\ carry => ~(ActivePath(snapshot) \subseteq snapshot.path[e])
  /\ Enter(w, "jump", JumpTo(snapshot, e), carry)
  /\ UNCHANGED <<stored, snapshot, writeQueue, control, history, bounds>>

\* The branch summary arrives, however long it took: it is appended to the
\* tree of the navigation, not to the present one.
Summarize(w) ==
  /\ Calm /\ op[w].loc = "summarizing"
  /\ \/ Enter(w, "carry", AppendEntry(op[w].tree, w), FALSE)
     \/ op' = SettleOp(w, "done") /\ UNCHANGED treeQueue       \* carry-failed
  /\ UNCHANGED <<stored, snapshot, writeQueue, control, history, bounds>>

-----------------------------------------------------------------------------
(* The head of the tree FIFO builds its tree and offers it to the store.    *)

Offer(w, tree) ==
  IF phase = "closed"                                          \* assertOpen
  THEN /\ op' = SettleOp(w, "failed") /\ Release(w) /\ UNCHANGED writeQueue
  ELSE /\ op' = [op EXCEPT ![w].loc = "commit", ![w].tree = tree]
       /\ writeQueue' = Append(writeQueue, w)

\* submit's continuation does not hold the FIFO.
BuildTurn(w) ==
  /\ Starting /\ w = Head(treeQueue) /\ op[w].kind = "turn"
  /\ Offer(w, AppendEntry(snapshot, w)) /\ Release(w)
  /\ UNCHANGED <<stored, snapshot, control, history, bounds>>

\* What was asked for is in force already: there is nothing to write.
SkipWrite(w) ==
  /\ Starting /\ w = Head(treeQueue) /\ op[w].kind = "append"
  /\ op' = SettleOp(w, "done") /\ Release(w)
  /\ UNCHANGED <<stored, snapshot, writeQueue, control, history, bounds>>

Built == {"interaction", "jump", "carry"}

StartWrite(w) ==
  /\ Starting /\ w = Head(treeQueue) /\ op[w].kind # "turn"
  /\ Offer(w, IF op[w].kind \in Built THEN op[w].tree ELSE AppendEntry(snapshot, w))
  /\ phase # "closed" => UNCHANGED treeQueue
  /\ UNCHANGED <<stored, snapshot, control, history, bounds>>

-----------------------------------------------------------------------------
(* The store and the authority.                                             *)

\* The load of a commit waits for the writes that are in the store's FIFO now.
Commit(w) ==
  /\ Calm /\ writeQueue # <<>> /\ w = Head(writeQueue)
  /\ Extends(op[w].tree, stored)
  /\ stored' = op[w].tree
  /\ writeQueue' = Tail(writeQueue)
  /\ op' = [op EXCEPT ![w].loc = "load", ![w].after = ToSet(Tail(writeQueue))]
  /\ left' = IF w \in Entries(op[w].tree) THEN {} ELSE left \cup {stored.active}
  /\ UNCHANGED <<snapshot, treeQueue, control, stale, acknowledged, bounds>>

\* Mutant: queueTreeWrite releases only after a write that succeeded.
CommitFailsLocked(w) ==
  /\ Calm /\ writeQueue # <<>> /\ w = Head(writeQueue)
  /\ ~Extends(op[w].tree, stored)
  /\ writeQueue' = Tail(writeQueue)
  /\ op' = SettleOp(w, "failed") /\ UNCHANGED treeQueue
  /\ UNCHANGED <<stored, snapshot, control, history, bounds>>

\* LocalSessionConflictError, or the transaction fails and is rolled back.
CommitFails(w) ==
  /\ Calm /\ writeQueue # <<>> /\ w = Head(writeQueue)
  /\ \/ ~Extends(op[w].tree, stored) /\ UNCHANGED faults
     \/ Extends(op[w].tree, stored) /\ faults < MaxFaults /\ faults' = faults + 1
  /\ writeQueue' = Tail(writeQueue)
  /\ op' = SettleOp(w, "failed") /\ Release(w)
  /\ UNCHANGED <<stored, snapshot, control, history, crashes>>

CanLoad(w) == Calm /\ op[w].loc = "load" /\ op[w].after \cap ToSet(writeQueue) = {}

\* What a write does once its commit has returned: a submission starts its run
\* unless there is one, a navigation that carries asks for a summary.
AfterLoad(w) ==
  \/ /\ op[w].kind = "turn" /\ phase = "open" /\ loop = "idle"
     /\ op' = [op EXCEPT ![w] = Blank("turn", "running")]
     /\ loop' = "running" /\ input' = w
  \/ /\ op[w].kind = "turn" /\ ~(phase = "open" /\ loop = "idle")
     /\ op' = SettleOp(w, "failed") /\ UNCHANGED <<loop, input>>
  \/ /\ op[w].carry
     /\ op' = [op EXCEPT ![w].loc = "summarizing"] /\ UNCHANGED <<loop, input>>
  \/ /\ op[w].kind # "turn" /\ ~op[w].carry
     /\ op' = SettleOp(w, "done") /\ UNCHANGED <<loop, input>>

\* Mutant: submit starts its run without applying the committed tree.
ReadBackUnapplied(w) ==
  /\ CanLoad(w) /\ phase # "closed"
  /\ snapshot' = IF op[w].kind = "turn" THEN snapshot ELSE stored
  /\ acknowledged' = acknowledged \cup ({w} \cap Entries(stored))
  /\ AfterLoad(w) /\ Release(w)
  /\ stale' = FALSE /\ left' = {}
  /\ UNCHANGED <<stored, writeQueue, idleWaiters, phase, bounds>>

ReadBack(w) ==
  /\ CanLoad(w) /\ phase # "closed"
  /\ snapshot' = stored
  /\ acknowledged' = acknowledged \cup ({w} \cap Entries(stored))
  /\ AfterLoad(w) /\ Release(w)
  /\ stale' = FALSE /\ left' = {}
  /\ UNCHANGED <<stored, writeQueue, idleWaiters, phase, bounds>>

\* The entry is durable, but the caller is told that its write has failed.
ReadBackFails(w) ==
  /\ CanLoad(w)
  /\ \/ phase = "closed" /\ UNCHANGED faults
     \/ phase # "closed" /\ faults < MaxFaults /\ faults' = faults + 1
  /\ stale' = TRUE
  /\ op' = SettleOp(w, "failed") /\ Release(w)
  /\ UNCHANGED <<stored, snapshot, writeQueue, control, left, acknowledged, crashes>>

-----------------------------------------------------------------------------
(* The process.                                                             *)

\* quiesce: no new work, and the run is interrupted.
Quiesce ==
  /\ Calm /\ phase = "open" /\ phase' = "draining"
  /\ UNCHANGED <<stored, snapshot, treeQueue, writeQueue, op, loop, input, idleWaiters,
                 history, bounds>>

InFlightWork == {w \in Writes : op[w].kind = "turn" /\ Unsettled(w)}

\* Mutant: waitForDurableWork awaits treeWriteTail, and not inFlightWork.
CloseStoreEarly ==
  /\ Calm /\ phase = "draining" /\ loop = "idle" /\ treeQueue = <<>>
  /\ phase' = "closed"
  /\ UNCHANGED <<stored, snapshot, treeQueue, writeQueue, op, loop, input, idleWaiters,
                 history, bounds>>

\* waitForIdle and waitForDurableWork have resolved: the store is closed.
CloseStore ==
  /\ Calm /\ phase = "draining" /\ loop = "idle"
  /\ treeQueue = <<>> /\ InFlightWork = {}
  /\ phase' = "closed"
  /\ UNCHANGED <<stored, snapshot, treeQueue, writeQueue, op, loop, input, idleWaiters,
                 history, bounds>>

\* The process dies, and the session is opened again by the next one.
Crash ==
  /\ crashes < MaxCrashes /\ crashes' = crashes + 1
  /\ snapshot' = stored /\ stale' = FALSE /\ left' = {}
  /\ treeQueue' = <<>> /\ writeQueue' = <<>>
  /\ op' = [w \in Writes |-> IF Unsettled(w) THEN Blank(op[w].kind, "lost") ELSE op[w]]
  /\ loop' = "idle" /\ input' = Root /\ idleWaiters' = <<>> /\ phase' = "open"
  /\ UNCHANGED <<stored, acknowledged, faults>>

Internal ==
  \/ CloseRun \/ EndRun
  \/ \E w \in Writes :
       \/ Summarize(w) \/ BuildTurn(w) \/ SkipWrite(w) \/ StartWrite(w)
       \/ Commit(w) \/ CommitFails(w) \/ ReadBack(w) \/ ReadBackFails(w)

Next ==
  \/ Internal \/ Quiesce \/ CloseStore \/ Crash
  \/ \E w \in Writes :
       \/ AppendEntryRequest(w) \/ Submit(w) \/ Missed(w)
       \/ RunStep(w) \/ CommitInteraction(w) \/ ReportRun(w)
       \/ \E e \in Entries(snapshot), carry \in BOOLEAN : NavigateToEntry(w, e, carry)

Spec == Init /\ [][Next]_vars

\* The steps that are the program's own happen: promises resolve, the store
\* answers, a run ends and a summary arrives or is given up.
FairSpec == Spec /\ WF_vars(Internal)

-----------------------------------------------------------------------------
(* Properties.                                                              *)

Universe == Writes \cup {Root}

WriteRecords ==
  [kind : Kinds, loc : Locations, tree : {op[w].tree : w \in Writes},
   after : SUBSET Writes, carry : BOOLEAN, owner : Universe]

\* The state is well formed; in particular the stored tree, the controller's
\* copy and every tree on offer pass validateSessionTreeState.
TypeOK ==
  /\ IsTree(stored, Root, Universe) /\ IsTree(snapshot, Root, Universe)
  /\ {treeQueue, writeQueue, idleWaiters} \subseteq Seq(Writes)
  /\ op \in [Writes -> WriteRecords]
  /\ \A w \in Writes : op[w].tree = NoTree \/ IsTree(op[w].tree, Root, Universe)
  /\ loop \in {"idle", "running", "closing"} /\ input \in Universe
  /\ phase \in {"open", "draining", "closed"}
  /\ stale \in BOOLEAN /\ left \subseteq Universe /\ acknowledged \subseteq Writes
  /\ faults \in 0 .. MaxFaults /\ crashes \in 0 .. MaxCrashes

\* Whatever is submitted, queued, navigated, refused or lost in a crash, the
\* stored tree keeps the promise of SessionJournal: no entry is dropped, each
\* one hangs under the head of its moment, no write undoes a navigation that
\* was acknowledged, and what was acknowledged stays.
Journal == INSTANCE SessionJournal WITH tree <- stored
ImplementsJournal == Journal!Spec

\* Once every commit has been read back, the controller shows the stored tree:
\* snapshots are applied in the order of their commits, although submit
\* applies its own outside the FIFO.
SnapshotIsCurrent ==
  (~stale /\ \A w \in Writes : op[w].loc # "load") => snapshot = stored

\* A run goes on under the message it answers: no navigation that was let in
\* while the loop was idle takes effect once a run has begun.
RunStaysOnItsBranch == loop = "running" => input \in ActivePath(stored)

\* The controller's copy and the run it drives never part from the store.
ControllerFollowsStore == SnapshotIsCurrent /\ RunStaysOnItsBranch

\* The store is closed only when each submission, with all its run wrote and
\* the report of its failure, has settled (the first lines of
\* createCliEnvironmentShutdown).
DrainedBeforeClose ==
  phase = "closed" =>
    \A w \in Writes : op[w].kind \in RunKinds \cup {"turn", "report"} => ~Unsettled(w)

\* Every write that is requested is settled, whichever writes before it fail:
\* neither FIFO is ever left locked.  (Requests are bounded, so that the writes
\* all settle exactly if again and again there comes a time when all have.)
EveryWriteSettles == []<>(\A w \in Writes : ~Unsettled(w))

\* A steering or follow-up message that comes too late for its run is routed
\* "through a normal new submission" (TOOL-BATCH-MODEL-LOOP-INTERACTION-DESIGN,
\* 7): with a store that works it ends up in the tree.
MissedMessageIsSubmitted ==
  \A w \in Writes :
    op[w].loc = "missed" ~> w \in Entries(stored) \/ phase # "open"
=============================================================================
