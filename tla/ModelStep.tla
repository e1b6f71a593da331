----------------------------- MODULE ModelStep -----------------------------
(***************************************************************************)
(* A model step and everything that can be under way beside it: the single *)
(* slot of the session controller that waits for the step's answer, the    *)
(* chat runtime's single active request, the transport's projection of the *)
(* history with its automatic compaction, a manual compaction, navigation  *)
(* in the session tree, and interrupts.                                    *)
(*                                                                         *)
(* The agent loop is reduced to where the current step is (AgentLoop has   *)
(* the rest), tool steps are left out (ToolStep), and the commit of a tree *)
(* write is one step (SessionWrites has its parts).  A history is the set  *)
(* of messages on a path of the tree; a checkpoint is the set of messages  *)
(* it stands for, and who wrote its text.                                  *)
(***************************************************************************)
EXTENDS Integers, Sequences, FiniteSets

CONSTANTS Requests,     \* numbers of the model requests a run may send
          Manuals,      \* numbers of the manual compactions
          AutoCompacts, \* may a request compact its history?
          Targets,      \* bound: the entries that are navigated to
          Scenarios     \* bound: the sets of operations a behaviour may use

None == 0
Ops == Requests \cup Manuals

ASSUME OpsAssumption ==
    /\ Requests \subseteq Nat \ {0} /\ Manuals \subseteq Nat \ {0}
    /\ Requests \cap Manuals = {} /\ IsFiniteSet(Ops)
ASSUME BoundsAssumption == AutoCompacts \in BOOLEAN
    /\ Scenarios \subseteq SUBSET Ops /\ Targets \subseteq Nat

VARIABLES
    tree,     \* the entries of snapshot.sessionTree, each with its parent
    head,     \* its active entry
    view,     \* latestMessages: the entry whose path they were read from
    chat,     \* the chat runtime's messages: [leaf, live], live being the
              \* request whose assistant message is appended after them
    loop,     \* the agent loop's step: [pc, req, by, interrupted]
    slot,     \* pendingModelStep: the request it waits for, or None
    active,   \* activeAbort: the request the chat runtime is running, or None
    aborted,  \* the requests whose signal is aborted
    op,       \* [Ops -> the operation's progress]
    phase,    \* [Ops -> the last context event recorded for it]
    activity, \* snapshot.contextCompactionActivity: the row that the interface
              \* shows, [of, phase], of nobody if there is none
    unreported \* the operations that could not record what came of their plan

records == <<phase, activity, unreported>>
vars == <<tree, head, view, chat, loop, slot, active, aborted, op, records>>

\* A checkpoint that exists only in the memory of the operation that made it.
Uncommitted == -1

Kinds == {"message", "error", "compaction"}
Entry(kind, of, by) ==
    [kind |-> kind, parent |-> head, of |-> of, by |-> by, from |-> None, covered |-> {}]

Compacting == {"planned", "reducing", "validating", "fallback"}
Pcs == {"off", "idle", "ready", "resolving", "started", "projected", "broken", "candidate",
        "applying", "rebased", "completed", "streaming", "billing", "over"}
           \cup Compacting
Phases == {"none", "started", "compaction-aborted", "compaction-failed", "applying",
           "rebased", "completed"} \cup Compacting
NoActivity == [of |-> None, phase |-> "none"]

\* base: the entry whose messages are projected; cp: the checkpoint that the
\* projection starts from; text: who wrote the new checkpoint's text (None is
\* the deterministic fallback).
IdleOp == [pc |-> "idle", base |-> None, cp |-> None, text |-> None]

TypeOK ==
    /\ tree \in Seq([kind : Kinds, parent : Nat, of : Ops \cup {None}, by : Ops \cup {None},
                     from : Nat, covered : SUBSET Nat])
    /\ head \in 1..Len(tree) /\ view \in 1..Len(tree)
    /\ chat \in [leaf : 1..Len(tree), live : Requests \cup {None}]
    /\ loop \in [pc : {"idle", "ready", "waiting", "answered", "failing", "ending"},
                 req : Requests \cup {None}, by : Requests \cup {None}, interrupted : BOOLEAN]
    /\ slot \in Requests \cup {None} /\ active \in Requests \cup {None}
    /\ aborted \subseteq Requests
    /\ op \in [Ops -> [pc : Pcs, base : 0..Len(tree), cp : 0..Len(tree),
                       text : Ops \cup {None}]]
    /\ phase \in [Ops -> Phases]
    /\ activity \in [of : Ops \cup {None}, phase : Phases] /\ unreported \subseteq Ops

\* A resumed session: three messages in a row, and an older branch.
Seed(parent) == [kind |-> "message", parent |-> parent, of |-> None, by |-> None,
                 from |-> None, covered |-> {}]
Init ==
    /\ tree = <<Seed(0), Seed(1), Seed(2), Seed(1)>>
    /\ head = 3 /\ view = 3
    /\ chat = [leaf |-> 3, live |-> None]
    /\ loop = [pc |-> "idle", req |-> None, by |-> None, interrupted |-> FALSE]
    /\ slot = None /\ active = None /\ aborted = {}
    /\ \E S \in Scenarios :
         op = [o \in Ops |-> [IdleOp EXCEPT !.pc = IF o \in S THEN "idle" ELSE "off"]]
    /\ phase = [o \in Ops |-> "none"]
    /\ activity = NoActivity /\ unreported = {}

-----------------------------------------------------------------------------
(* The tree                                                                *)

PathIn(t, leaf) ==
    LET to[n \in 0..Len(t)] == IF n = 0 THEN {} ELSE {n} \cup to[t[n].parent]
    IN  to[leaf]
Path(leaf) == PathIn(tree, leaf)

OfKind(kind, leaf) == {n \in Path(leaf) : tree[n].kind = kind}
Latest(S) == IF S = {} THEN None ELSE CHOOSE n \in S : \A m \in S : m <= n

\* projectLatestSessionCompaction
LatestCheckpoint == Latest(OfKind("compaction", head))

\* What operation o's plan stands for: the messages of the checkpoint it starts
\* from and those before the last one of its history.
CoveredBy(cp) == IF cp \in 1..Len(tree) THEN tree[cp].covered ELSE {}
Planned(o) ==
    LET history == OfKind("message", op[o].base)
    IN  (history \ {Latest(history)}) \cup CoveredBy(op[o].cp)
Worthwhile(o) == Planned(o) # CoveredBy(op[o].cp)

\* One write of the controller's queue: the entry is committed and becomes the
\* head.
Commit(e) ==
    /\ tree' = Append(tree, e)
    /\ head' = Len(tree) + 1

Go(o, pc) == op' = [op EXCEPT ![o].pc = pc]

\* persistContextEvent: once the event is recorded, the row shows the phase of
\* the compaction, or goes if another operation starts.
Record(o, p) ==
    /\ phase' = [phase EXCEPT ![o] = p]
    /\ activity' = CASE p = "started" -> NoActivity
                      [] p = "completed" -> activity
                      [] OTHER -> [of |-> o, phase |-> p]
    /\ UNCHANGED unreported
NoRecord == UNCHANGED records

\* The Runtime session refuses the event that says what came of a plan.
Unreported(o) ==
    /\ unreported' = unreported \cup {o}
    /\ UNCHANGED <<phase, activity>>

-----------------------------------------------------------------------------
(* The run                                                                 *)

\* The bound on runs: one message for each request of the scenario.  The
\* messages of the resumed session are the first four.
RunsLeft ==
    Cardinality({n \in 5..Len(tree) : tree[n].kind = "message" /\ tree[n].of = None})
        < Cardinality({r \in Requests : op[r].pc # "off"})

\* submit, up to the run: the message is committed, and the chat shows the
\* committed history.
Submit ==
    /\ loop.pc = "idle" /\ RunsLeft
    /\ \E r \in Requests : op[r].pc = "idle"
    /\ Commit(Entry("message", None, None))
    /\ view' = head' /\ chat' = [leaf |-> head', live |-> None]
    /\ loop' = [loop EXCEPT !.pc = "ready", !.interrupted = FALSE]
    /\ UNCHANGED <<slot, active, aborted, op, records>>

\* Mutant of BeginStep: sendMessage does not look for an active request.
BeginStepOverActive(r) ==
    /\ loop.pc = "ready" /\ ~loop.interrupted
    /\ op[r].pc = "idle" /\ \A q \in Requests : q < r => op[q].pc # "idle"
    /\ slot' = r /\ active' = r
    /\ loop' = [loop EXCEPT !.pc = "waiting", !.req = r]
    /\ op' = [op EXCEPT ![r] = [IdleOp EXCEPT !.pc = "resolving", !.base = chat.leaf]]
    /\ UNCHANGED <<tree, head, view, chat, aborted, records>>

\* runModelRequest and the beginning of sendMessage: the request takes the slot
\* and becomes the active one.
BeginStep(r) ==
    /\ loop.pc = "ready" /\ ~loop.interrupted
    /\ op[r].pc = "idle" /\ \A q \in Requests : q < r => op[q].pc # "idle"
    /\ active = None
    /\ slot' = r /\ active' = r
    /\ loop' = [loop EXCEPT !.pc = "waiting", !.req = r]
    /\ op' = [op EXCEPT ![r] = [IdleOp EXCEPT !.pc = "resolving", !.base = chat.leaf]]
    /\ UNCHANGED <<tree, head, view, chat, aborted, records>>

\* "A model request is already active": the slot is taken and given back in
\* two microtasks, here one step.
RefuseStep(r) ==
    /\ loop.pc = "ready" /\ ~loop.interrupted
    /\ op[r].pc = "idle" /\ \A q \in Requests : q < r => op[q].pc # "idle"
    /\ active # None
    /\ loop' = [loop EXCEPT !.pc = "failing", !.req = r]
    /\ Go(r, "over")
    /\ UNCHANGED <<tree, head, view, chat, slot, active, aborted, records>>

\* The answer is appended and the chat shows the committed history; the loop
\* goes on to another step, or ends.
AppendAnswer ==
    /\ loop.pc = "answered"
    /\ Commit(Entry("message", loop.req, loop.by))
    /\ view' = head' /\ chat' = [leaf |-> head', live |-> None]
    /\ loop' \in {[loop EXCEPT !.pc = pc] : pc \in {"ready", "ending"}}
    /\ UNCHANGED <<slot, active, aborted, op, records>>

\* The step's catch: an error entry, then the run ends.
AppendError ==
    /\ loop.pc = "failing"
    /\ Commit(Entry("error", loop.req, None))
    /\ loop' = [loop EXCEPT !.pc = "ending"]
    /\ UNCHANGED <<view, chat, slot, active, aborted, op, records>>

\* The loop records the end of the run and is idle again; an interrupt seen
\* before the next step ends it too.
EndRun ==
    /\ \/ loop.pc = "ending"
       \/ loop.pc = "ready"
            /\ (loop.interrupted \/ \A r \in Requests : op[r].pc # "idle")
    /\ loop' = [loop EXCEPT !.pc = "idle", !.req = None, !.by = None]
    /\ UNCHANGED <<tree, head, view, chat, slot, active, aborted, op, records>>

\* interrupt: the loop is told, or nothing runs; either way stopModelStep
\* aborts the active request and rejects the pending step.
Interrupt ==
    /\ \/ loop.pc # "idle" /\ ~loop.interrupted
       \/ active \notin aborted \cup {None}
    /\ aborted' = aborted \cup ({active} \ {None})
    /\ slot' = None
    /\ loop' = [loop EXCEPT !.interrupted = (loop.pc # "idle"),
                            !.pc = IF slot # None THEN "failing" ELSE @]
    /\ UNCHANGED <<tree, head, view, chat, active, op, records>>

-----------------------------------------------------------------------------
(* The end of a request                                                    *)

\* completeModelStep and failModelStep answer whatever step is pending.
Resolve(r) ==
    /\ slot' = None
    /\ loop' = IF slot = None THEN loop
               ELSE [loop EXCEPT !.pc = "answered", !.by = r]
Reject ==
    /\ slot' = None
    /\ loop' = IF slot = None THEN loop ELSE [loop EXCEPT !.pc = "failing"]

\* Mutant of ThrowFrom: sendMessage has no finally.
ThrowFromActive(r, isAbort, hasAssistant) ==
    /\ IF ~isAbort \/ hasAssistant \/ slot = r THEN Reject ELSE UNCHANGED <<slot, loop>>
    /\ UNCHANGED <<tree, head, chat, active, aborted>>

\* The catch and finally of sendMessage, and the catch of runModelRequest: the
\* callbacks reject whatever is pending, and without a callback - an abort
\* before the assistant message exists - only the request's own slot is.
ThrowFrom(r, isAbort, hasAssistant) ==
    /\ active' = (IF active = r THEN None ELSE active)
    /\ IF ~isAbort \/ hasAssistant \/ slot = r THEN Reject ELSE UNCHANGED <<slot, loop>>
    /\ UNCHANGED <<tree, head, chat, aborted>>

\* An operation gives up: a request throws from sendMessages, a manual
\* compaction rejects.
GiveUp(o) ==
    /\ Go(o, "over")
    /\ IF o \in Requests THEN ThrowFrom(o, o \in aborted, FALSE)
       ELSE UNCHANGED <<tree, head, chat, loop, slot, active, aborted>>

-----------------------------------------------------------------------------
(* The projection of the history, for a request and for /compact           *)

\* compact, up to its first await: nothing else is looked at.
Compact(o) ==
    /\ op[o].pc = "idle"
    /\ loop.pc = "idle" /\ slot = None
    /\ Go(o, "resolving")
    /\ UNCHANGED <<tree, head, view, chat, loop, slot, active, aborted, records>>

\* The model is resolved, or the Runtime session is ready: the checkpoint of
\* the active branch is read - and, by compact, its messages - and the operation
\* is recorded as started.
Start(o) ==
    /\ op[o].pc = "resolving"
    /\ op' = [op EXCEPT ![o].pc = "started", ![o].cp = LatestCheckpoint,
                        ![o].base = IF o \in Manuals THEN view ELSE @]
    /\ Record(o, "started")
    /\ UNCHANGED <<tree, head, view, chat, loop, slot, active, aborted>>

\* resolveChatModel, the record of the start or the projection throws before
\* there is a plan.
FailEarly(o) ==
    /\ op[o].pc \in {"resolving", "started"}
    /\ GiveUp(o)
    /\ UNCHANGED view /\ NoRecord

\* onPhase looks at the abort signal before it records a phase; what it throws
\* then leaves projectMessages, whether or not the compactor catches it first,
\* since the fallback's phase throws again.  A phase that is refused throws as
\* well, unless the compactor can still fall back.
Enter(o, pc) ==
    \/ Go(o, "broken") /\ NoRecord
    \/ o \notin aborted /\ Go(o, pc) /\ Record(o, pc)
OnlyOps == UNCHANGED <<tree, head, view, chat, loop, slot, active, aborted>>

\* The history is over its budget, or /compact finds it worth compacting.
PlanCompaction(o) ==
    /\ op[o].pc = "started"
    /\ AutoCompacts \/ o \in Manuals
    /\ Worthwhile(o)
    /\ Enter(o, "planned")
    /\ OnlyOps

\* createSemanticContextCompactor: the reducer is asked unless the budget is
\* too small for it; its answer is checked unless it is unusable.
Reduce(o) ==
    /\ op[o].pc = "planned"
    /\ \E next \in {"reducing", "fallback"} : Enter(o, next)
    /\ OnlyOps

ReducerAnswers(o) ==
    /\ op[o].pc = "reducing"
    /\ \E next \in {"validating", "fallback"} : Enter(o, next)
    /\ OnlyOps

ValidateCheckpoint(o) ==
    /\ op[o].pc = "validating"
    /\ \/ op' = [op EXCEPT ![o].pc = "candidate", ![o].text = o] /\ NoRecord
       \/ Enter(o, "fallback")
    /\ OnlyOps

\* The plan comes to nothing, and that is recorded; if it is refused, the
\* operation ends there.
Abandon(o) ==
    \/ Go(o, "projected") /\ Record(o, "compaction-aborted") /\ OnlyOps
    \/ GiveUp(o) /\ Unreported(o) /\ UNCHANGED view

\* buildFallbackCheckpoint: a checkpoint, none, or an error when the required
\* anchors do not fit.
BuildFallback(o) ==
    /\ op[o].pc = "fallback"
    /\ \/ op' = [op EXCEPT ![o].pc = "candidate", ![o].text = None] /\ NoRecord /\ OnlyOps
       \/ Go(o, "broken") /\ NoRecord /\ OnlyOps
       \/ Abandon(o)

\* A request hands the validated messages to the controller (latestMessages)
\* once the projection is there.
ShowMessages(o) ==
    view' = IF o \in Requests THEN op[o].base ELSE view

\* The projection is recorded as completed; if that is refused, the operation
\* ends there.
OnlyView == UNCHANGED <<tree, head, chat, loop, slot, active, aborted>>
Complete(o) ==
    \/ Go(o, "completed") /\ Record(o, "completed") /\ OnlyView
    \/ GiveUp(o) /\ NoRecord

\* Nothing to compact; or the candidate saves too little and is dropped, or it
\* is accepted and about to be applied.
ProjectUncompacted(o) ==
    /\ op[o].pc = "started"
    /\ Complete(o) /\ ShowMessages(o)

DropCandidate(o) ==
    /\ op[o].pc = "candidate"
    /\ Abandon(o)

ProjectAborted(o) ==
    /\ op[o].pc = "projected"
    /\ Complete(o) /\ ShowMessages(o)

AcceptCandidate(o) ==
    /\ op[o].pc = "candidate"
    /\ \/ Go(o, "applying") /\ Record(o, "applying") /\ OnlyView
       \/ GiveUp(o) /\ Unreported(o)
    /\ ShowMessages(o)

-----------------------------------------------------------------------------
(* The checkpoint becomes durable                                          *)

\* persistContextCompaction: a plan that is already on the active path is not
\* appended again, and the committed entry is read back.  A plan is the hash of
\* what it starts from, what it stands for and its trigger.
SamePlan(n, o) ==
    /\ tree[n].from = op[o].cp /\ tree[n].covered = Planned(o)
    /\ (tree[n].of \in Manuals) <=> (o \in Manuals)

\* Mutant of OnPath: the plan is appended again.
OnPathIgnored(o) == {n \in {} : SamePlan(n, o)}
OnPath(o) == {n \in OfKind("compaction", head) : SamePlan(n, o)}

\* emitContextCompaction takes the committed checkpoint only if it is the one
\* it made: the text of another operation's is an error, and so is a history
\* that the checkpoint does not bring under the budget, or a refused record.
AppendCheckpoint(o) ==
    /\ op[o].pc = "applying" /\ OnPath(o) = {}
    /\ Commit([Entry("compaction", o, op[o].text)
                 EXCEPT !.from = op[o].cp, !.covered = Planned(o)])
    /\ \/ op' = [op EXCEPT ![o].pc = "rebased", ![o].cp = head'] /\ Record(o, "rebased")
       \/ Go(o, "broken") /\ NoRecord
    /\ UNCHANGED <<view, chat, loop, slot, active, aborted>>

FindCheckpoint(o) ==
    /\ op[o].pc = "applying" /\ OnPath(o) # {}
    /\ LET n == Latest(OnPath(o))
       IN  \/ /\ tree[n].by = op[o].text
              /\ op' = [op EXCEPT ![o].pc = "rebased", ![o].cp = n]
              /\ Record(o, "rebased")
           \/ /\ Go(o, "broken") /\ NoRecord
    /\ OnlyOps

\* Mutant of RejectCheckpoint: the error is reported and the request goes on.
RejectIgnored(o) ==
    /\ op[o].pc = "applying"
    /\ op' = [op EXCEPT ![o].pc = "rebased", ![o].cp = Uncommitted]
    /\ Record(o, "rebased")
    /\ OnlyOps

\* The session authority rejects the commit.
RejectCheckpoint(o) ==
    /\ op[o].pc = "applying"
    /\ Go(o, "broken")
    /\ NoRecord
    /\ OnlyOps

Rebased(o) ==
    /\ op[o].pc = "rebased"
    /\ Complete(o) /\ UNCHANGED view

\* Mutant of ReportFailure: what the compactor threw is not recorded.
FailSilently(o) ==
    /\ op[o].pc = "broken"
    /\ GiveUp(o)
    /\ UNCHANGED view /\ NoRecord

\* The catch around the compactor, and the one around the commit; the record
\* may be refused as well.
ReportFailure(o) ==
    /\ op[o].pc = "broken"
    /\ GiveUp(o)
    /\ UNCHANGED view
    /\ \/ Record(o, "compaction-failed")
       \/ Unreported(o)

\* /compact returns its outcome.
Compacted(o) ==
    /\ o \in Manuals /\ op[o].pc = "completed"
    /\ Go(o, "over")
    /\ OnlyOps /\ NoRecord

-----------------------------------------------------------------------------
(* The provider                                                            *)

\* The request crosses the provider boundary and the assistant message is
\* appended to the chat.
OpenStream(r) ==
    /\ op[r].pc = "completed"
    /\ Go(r, "streaming")
    /\ chat' = [chat EXCEPT !.live = r]
    /\ UNCHANGED <<tree, head, view, loop, slot, active, aborted, records>>

\* The provider has finished: its usage is recorded before the finish chunk.
FinishStream(r) ==
    /\ op[r].pc = "streaming"
    /\ Go(r, "billing")
    /\ OnlyOps /\ NoRecord

\* The finish chunk is reduced and onFinish answers the step, even if the
\* request was aborted in the meantime.
DeliverAnswer(r) ==
    /\ op[r].pc = "billing" /\ chat.live = r
    /\ Go(r, "over")
    /\ active' = (IF active = r THEN None ELSE active)
    /\ Resolve(r)
    /\ UNCHANGED <<tree, head, view, chat, aborted, records>>

\* The stream fails, is aborted or times out - an AbortError too - or a chunk
\* finds its message gone from the chat.
FailStream(r) ==
    /\ \/ op[r].pc = "streaming"
       \/ op[r].pc = "billing" /\ chat.live # r
    /\ Go(r, "over")
    /\ \E isAbort \in BOOLEAN :
         /\ r \in aborted => isAbort
         /\ ThrowFrom(r, isAbort, TRUE)
    /\ UNCHANGED view /\ NoRecord

-----------------------------------------------------------------------------
\* navigateToEntry, the plain jump: refused while a run or a step is under way.
Navigate(n) ==
    /\ loop.pc = "idle" /\ slot = None
    /\ n \in 1..Len(tree) /\ n # head
    /\ head' = n /\ view' = n /\ chat' = [leaf |-> n, live |-> None]
    /\ UNCHANGED <<tree, loop, slot, active, aborted, op, records>>

\* What goes on by itself, once begun.
LoopProgress == \/ \E r \in Requests : BeginStep(r)
                \/ \E r \in Requests : RefuseStep(r)
                \/ AppendAnswer \/ AppendError \/ EndRun
Projection(o) == \/ Start(o) \/ PlanCompaction(o) \/ Reduce(o) \/ ReducerAnswers(o)
                 \/ ValidateCheckpoint(o) \/ BuildFallback(o) \/ ProjectUncompacted(o)
                 \/ DropCandidate(o) \/ ProjectAborted(o) \/ AcceptCandidate(o)
                 \/ AppendCheckpoint(o) \/ FindCheckpoint(o) \/ RejectCheckpoint(o)
                 \/ Rebased(o) \/ FailEarly(o) \/ ReportFailure(o) \/ Compacted(o)
Provider(r) == \/ OpenStream(r) \/ FinishStream(r) \/ DeliverAnswer(r) \/ FailStream(r)
Progress == \/ LoopProgress
            \/ \E o \in Ops : Projection(o)
            \/ \E r \in Requests : Provider(r)

Next == \/ Progress
        \/ Submit \/ Interrupt
        \/ \E o \in Manuals : Compact(o)
        \/ \E n \in Targets : Navigate(n)

\* The calls and promises of a process that goes on settle, a provider answers,
\* times out or is interrupted (it does not send for ever), and the loop takes
\* its next step.
Spec == Init /\ [][Next]_vars /\ WF_vars(Progress)

-----------------------------------------------------------------------------
(* Properties                                                              *)

\* An answer that reaches the tree is the one its own step's request streamed:
\* the one slot is never answered by the request of an earlier, interrupted
\* step, which may still deliver (completeModelStep looks at nothing).
StepsGetTheirOwnAnswer ==
    \A n \in 5..Len(tree) :
        tree[n].kind = "message" => tree[n].by = tree[n].of

\* A request reaches the provider with a history that starts from a checkpoint
\* of the session tree, or from none: the one it compacted its history to was
\* committed before (local-model-transport.ts:1027).
ProviderSeesCommitted ==
    \A r \in Requests :
        op[r].pc \in {"completed", "streaming", "billing"} /\ op[r].cp # None =>
            op[r].cp \in 1..Len(tree) /\ tree[op[r].cp].kind = "compaction"

\* A plan is committed at most once on a path, however many operations make it:
\* no two checkpoints of the same trigger start from the same checkpoint and
\* stand for the same messages.
PlansAreCommittedOnce ==
    \A m, n \in 5..Len(tree) :
        /\ tree[m].kind = "compaction" /\ tree[n].kind = "compaction"
        /\ (tree[m].of \in Manuals) <=> (tree[n].of \in Manuals)
        /\ m \in Path(n) /\ m # n
        => <<tree[m].from, tree[m].covered>> # <<tree[n].from, tree[n].covered>>

\* What came of a plan is recorded before its operation ends, however many
\* operations record at once and whatever throws, and the interface's row, one
\* for all of them, says so: a compaction it shows as going on is under way.
\* Only a refused record of the outcome itself leaves them open
\* (local-model-transport.ts:806, 820, 864 and 1015, 1035, 1080).
Closed == {"none", "started", "compaction-aborted", "compaction-failed", "rebased", "completed"}
OutcomesAreShown ==
    /\ \A o \in Ops \ unreported : op[o].pc = "over" => phase[o] \in Closed
    /\ activity.phase \notin Closed =>
         activity.of \in unreported \/ op[activity.of].pc \notin {"off", "idle", "over"}

\* The row "updates only when the lifecycle phase changes and becomes one
\* bounded terminal status on completion"
\* (docs/CONTEXT-CACHE-COMPACTION-RELIABILITY-DESIGN.md:861): no compaction is
\* shown as going on once its operation has ended.
RowBecomesTerminal ==
    activity.phase \notin Closed => op[activity.of].pc # "over"

\* A pending step is answered, and the chat's request comes to an end.
StepsSettle == (slot # None ~> slot = None) /\ (active # None ~> active = None)

\* A checkpoint stands only for messages of the branch it is on (decision 0013:
\* "/compact is branch-local").
CheckpointsAreBranchLocal ==
    \A n \in 1..Len(tree) :
        tree[n].kind = "compaction" => tree[n].covered \subseteq Path(n)
=============================================================================
